--------------------------- MODULE AccountsProofs ---------------------------
(***************************************************************************)
(* Accounts, sign-in and identities, for any number of users, tokens,       *)
(* profiles, sessions and workers, with restarts and webhooks in any order: *)
(* what is shown as verified was proven, an unattested profile enters no    *)
(* account but its own, and the badge agrees with the verdict.              *)
(***************************************************************************)
EXTENDS PlatformFrames

Channels == {"EMAIL", "PHONE"}
AnyEmail == Emails \union {Nil}
AnyPhone == Phones \union {Nil}
AnyUser  == Users \union {Nil}

Accounts == [status: Lifecycle, email: AnyEmail, emailOk: BOOLEAN,
             pending: AnyEmail, phone: AnyPhone, phoneOk: BOOLEAN]
TokenRows == [user: AnyUser, kind: Channels \union {Nil},
              form: {"link", "code", Nil}, to: Emails \union Phones \union {Nil}]
IdentityRows == [status: IdentityStatus \union {"absent"},
                 session: Sessions \union {Nil}]
ProviderRows == [user: AnyUser,
                 state: {"absent", "open"} \union EventKinds,
                 documents: {"none", "held", "redacted", "logged"}]

ContactsTypeOK ==
  /\ acct \in [Users -> Accounts]
  /\ token \in [Tokens -> TokenRows]
  /\ proven \subseteq Users \X (Emails \union Phones)
  /\ stale \subseteq Users
LoginTypeOK ==
  /\ link \in [Profiles -> AnyUser]
  /\ maker \in [Users -> Profiles \union {Nil}]
  /\ access \subseteq Users /\ refresh \subseteq Users
IdentityTypeOK ==
  /\ identity \in [Users -> IdentityRows]
  /\ badge \subseteq Users
  /\ session \in [Sessions -> ProviderRows]
  /\ event \subseteq Sessions \X EventKinds
AccountsTypeOK ==
  load \in Loads /\ ContactsTypeOK /\ LoginTypeOK /\ IdentityTypeOK

----------------------------------------------------------------------------
(* What a handler holds between two statements *)

Operands(f) ==
  /\ f.at \in ContactsSteps \union OtpSteps \union IdentitySteps => f.user \in Users
  /\ f.at \in CodeSteps \union OtpSteps => f.kind \in Channels
  /\ f.at \in {"mail_purge", "mail_insert"} => f.addr \in Emails
  /\ f.at \in {"link_commit"} \union EditSteps => f.addr \in AnyEmail
  /\ f.at \in {"code_purge", "code_insert", "otp_purge", "mark"} =>
       f.addr \in Emails \union Phones \union {Nil}
  /\ f.at \in EditSteps => f.phone \in AnyPhone
  /\ f.at = "link_commit" => f.row \in Tokens
  /\ f.at \in OAuthSteps =>
       f.row \in Profiles /\ f.kind \in Flows
         /\ ProfileProvider[f.row] = FlowProvider[f.kind]
  /\ f.at = "oauth_link" => f.user \in Users
  /\ f.at \in {"kyc_write", "erase_documents"} => f.row \in Sessions

\* An account that exists, or existed.
Known(u) == acct[u].status # "absent"
\* An account that proved no address and asked for no other: a link to it can
\* only be to the address it was registered with.
Unproven(u) == Live(u) /\ ~acct[u].emailOk /\ acct[u].pending = Nil

KnownSteps == {"mail_purge", "mail_insert", "link_commit", "oauth_link"}
                \union OtpSteps

HoldsKnownUser(f) == f.at \in KnownSteps => Known(f.user)
HoldsAddress(f) ==
  f.at \in {"mail_purge", "mail_insert"} /\ Unproven(f.user) =>
    f.addr = acct[f.user].email
HoldsProof(f) ==
  f.at = "link_commit" =>
    /\ f.addr # Nil => <<f.user, f.addr>> \in proven
    /\ f.addr = Nil /\ Live(f.user) => <<f.user, acct[f.user].email>> \in proven
HoldsAnswer(f) ==
  f.at \in {"otp_purge", "mark"} =>
    /\ <<f.user, f.addr>> \in proven
    /\ f.kind = "EMAIL" /\ Live(f.user) =>
         <<f.user, acct[f.user].email>> \in proven
HoldsAttested(f) ==
  f.at = "oauth_link" => Attested(f.kind, f.row) \/ maker[f.user] = f.row

FrameAccountsOK(f) ==
  /\ Operands(f) /\ HoldsKnownUser(f) /\ HoldsAddress(f) /\ HoldsProof(f)
  /\ HoldsAnswer(f) /\ HoldsAttested(f)

\* Tokens are of accounts that exist.
TokensAreLive ==
  \A t \in Tokens : token[t].user # Nil =>
    Live(token[t].user) /\ token[t].kind \in Channels
LinksNameAddress ==
  \A t \in Tokens : token[t].form = "link" =>
    /\ token[t].user # Nil /\ token[t].to \in Emails
    /\ Unproven(token[t].user) => token[t].to = acct[token[t].user].email

\* A session that was created has a user, and events are of such sessions.
EventsHaveSubject ==
  \A s \in Sessions :
    /\ session[s].state # "absent" => session[s].user \in Users
    /\ \A kind \in EventKinds : <<s, kind>> \in event => session[s].state # "absent"

LiveHaveEmail == \A u \in Users : Live(u) => acct[u].email \in Emails
LinkedAreLive == \A x \in Profiles : link[x] # Nil => Live(link[x])

AccountsInv ==
  /\ FramesOK
  /\ AccountsTypeOK
  /\ \A w \in Workers : FrameAccountsOK(task[w])
  /\ TokensAreLive /\ LinksNameAddress /\ LiveHaveEmail /\ LinkedAreLive
  /\ VerifiedEmailWasProven /\ UnprovenPhoneIsStale
  /\ UnattestedStaysApart
  /\ EventsHaveSubject /\ VerdictDecidesBadge /\ BadgeWasEarned

AccountsSteps == ContactsSteps \union LoginSteps \union IdentitySteps

\* A frame of another part holds nothing of an account.
LEMMA SomeFrame ==
  ASSUME NEW w \in Workers, task'[w].at \notin AccountsSteps
  PROVE  FrameAccountsOK(task[w])'
BY DEF FrameAccountsOK, Operands, HoldsKnownUser, HoldsAddress, HoldsProof,
       HoldsAnswer, HoldsAttested, KnownSteps, AccountsSteps, ContactsSteps,
       CodeSteps, LinkSteps, EditSteps, LoginSteps, OtpSteps, OAuthSteps,
       IdentitySteps

\* What any step may do to an account: it never comes back, its address changes
\* to one that was proven, and a change that was asked for stays pending until
\* some address is proven.
AccountMovesOn(u) ==
  /\ Known(u) => acct'[u].status # "absent"
  /\ Known(u) /\ acct'[u].status = "live" =>
       /\ Live(u)
       /\ acct[u].emailOk => acct'[u].emailOk
       /\ \/ acct'[u].email = acct[u].email
          \/ acct'[u].emailOk /\ <<u, acct'[u].email>> \in proven'
       /\ acct'[u].emailOk \/ acct[u].pending = Nil \/ acct'[u].pending # Nil
  /\ Known(u) => maker'[u] = maker[u]
AccountsMoveOn ==
  /\ \A u \in Users : AccountMovesOn(u)
  /\ proven \subseteq proven'

\* A frame that stays is as good as before.
LEMMA FrameStays ==
  ASSUME AccountsMoveOn, NEW w \in Workers, task'[w] = task[w],
         FrameAccountsOK(task[w])
  PROVE  FrameAccountsOK(task[w])'
<1> DEFINE f == task[w]
<1> USE DEF FrameAccountsOK
<1>1. Operands(task[w])'
  BY DEF Operands
<1>2. f.at \in KnownSteps => f.user \in Users /\ Known(f.user)
  BY DEF Operands, HoldsKnownUser, KnownSteps, ContactsSteps, LinkSteps
<1>3. \A u \in Users : Known(u) => Known(u)'
  BY DEF AccountsMoveOn, AccountMovesOn, Known
<1>4. HoldsKnownUser(task[w])'
  BY <1>2, <1>3 DEF HoldsKnownUser
<1>5. HoldsAddress(task[w])'
  BY <1>2
  DEF HoldsAddress, Unproven, Live, AccountsMoveOn, AccountMovesOn, KnownSteps
<1>6. HoldsProof(task[w])'
  BY <1>2
  DEF HoldsProof, Live, AccountsMoveOn, AccountMovesOn, KnownSteps
<1>7. HoldsAnswer(task[w])'
  BY <1>2
  DEF HoldsAnswer, Live, AccountsMoveOn, AccountMovesOn, KnownSteps, OtpSteps
<1>8. HoldsAttested(task[w])'
  BY <1>2
  DEF HoldsAttested, AccountsMoveOn, AccountMovesOn, KnownSteps
<1> QED
  BY <1>1, <1>4, <1>5, <1>6, <1>7, <1>8

\* The frames after a step that moved one of them.
LEMMA FramesAfter ==
  ASSUME AccountsInv, AccountsMoveOn, NEW w \in Workers, NEW steps,
         GoesTo(w, steps), FrameAccountsOK(task[w])'
  PROVE  FramesOK' /\ \A v \in Workers : FrameAccountsOK(task[v])'
<1>1. FramesOK'
  BY DEF AccountsInv, FramesOK, GoesTo
<1>2. ASSUME NEW v \in Workers PROVE FrameAccountsOK(task[v])'
  <2>1. CASE v = w
    BY <2>1
  <2>2. CASE v # w
    BY <2>2, FrameStays DEF GoesTo, AccountsInv
  <2> QED
    BY <2>1, <2>2
<1> QED
  BY <1>1, <1>2

\* Tokens that stay, or are purged, go on naming the address of their account.
LEMMA TokensStay ==
  ASSUME AccountsInv, AccountsMoveOn,
         \A t \in Tokens : \/ token'[t] = token[t]
                           \/ token'[t] = NoToken
  PROVE  LinksNameAddress'
<1>1. NoToken.form # "link"
  BY ColumnsAssumption DEF NoToken
<1>2. ASSUME NEW t \in Tokens, token[t].form = "link"
      PROVE  token[t].user \in Users /\ Known(token[t].user)
  BY <1>2
  DEF AccountsInv, AccountsTypeOK, ContactsTypeOK, TokenRows, AnyUser,
      LinksNameAddress, TokensAreLive, Known, Live
<1>3. ASSUME NEW u \in Users, Known(u), Unproven(u)'
      PROVE  Unproven(u) /\ acct'[u].email = acct[u].email
  BY <1>3
  DEF AccountsInv, AccountsTypeOK, ContactsTypeOK, Accounts, Unproven, Known,
      Live, AccountsMoveOn, AccountMovesOn
<1> QED
  BY <1>1, <1>2, <1>3 DEF AccountsInv, LinksNameAddress

----------------------------------------------------------------------------
(* Steps that leave a part of the tables alone *)

\* No account goes.
LiveStay == \A u \in Users : Live(u) => acct'[u].status = "live"

\* What is kept of identities.
KycOK ==
  IdentityTypeOK /\ EventsHaveSubject /\ VerdictDecidesBadge /\ BadgeWasEarned

\* Identities stay right while they are not written and no account goes.
LEMMA KycStays ==
  ASSUME AccountsInv, UNCHANGED kyc, LiveStay
  PROVE  KycOK'
BY DEF AccountsInv, AccountsTypeOK, KycOK, IdentityTypeOK, EventsHaveSubject,
       VerdictDecidesBadge, BadgeWasEarned, LiveStay, Live, kyc

\* Linked profiles stay right while none is linked.
LEMMA LinksStay ==
  ASSUME AccountsInv, link' = link, LiveStay, AccountsMoveOn
  PROVE  LinkedAreLive' /\ UnattestedStaysApart'
<1>1. \A x \in Profiles : link[x] # Nil => link[x] \in Users /\ Live(link[x])
  BY DEF AccountsInv, AccountsTypeOK, LoginTypeOK, AnyUser, LinkedAreLive
<1>2. \A u \in Users : Live(u) => maker'[u] = maker[u]
  BY DEF AccountsMoveOn, AccountMovesOn, Known, Live
<1> QED
  BY <1>1, <1>2
  DEF AccountsInv, LinkedAreLive, UnattestedStaysApart, LiveStay, Live,
      Attested, AttestedByGoogleWeb, AttestedByGoogleToken, AttestedByApple,
      AttestedByFacebook

\* Tables that do not change move on.
LEMMA AccountsStill ==
  ASSUME acct' = acct, maker' = maker, proven \subseteq proven'
  PROVE  AccountsMoveOn /\ LiveStay
BY DEF AccountsMoveOn, AccountMovesOn, LiveStay, Known, Live

\* What the accounts themselves promise, when only more is proven.
LEMMA ProofsStay ==
  ASSUME AccountsInv, UNCHANGED <<acct, stale>>, proven \subseteq proven'
  PROVE  LiveHaveEmail' /\ VerifiedEmailWasProven' /\ UnprovenPhoneIsStale'
BY DEF AccountsInv, LiveHaveEmail, VerifiedEmailWasProven,
       UnprovenPhoneIsStale, Live

\* A step of a worker that writes no table of accounts.
LEMMA ReaderStep ==
  ASSUME AccountsInv, NEW w \in Workers, NEW steps, GoesTo(w, steps),
         UNCHANGED <<load, contacts, login, kyc>>,
         FrameAccountsOK(task[w])'
  PROVE  AccountsInv'
<1> USE DEF contacts, login
<1>1. AccountsMoveOn /\ LiveStay
  BY AccountsStill
<1>2. FramesOK' /\ \A v \in Workers : FrameAccountsOK(task[v])'
  BY <1>1, FramesAfter
<1>3. LinksNameAddress' /\ TokensAreLive'
  BY <1>1, TokensStay DEF AccountsInv, TokensAreLive, Live
<1>4. LiveHaveEmail' /\ VerifiedEmailWasProven' /\ UnprovenPhoneIsStale'
  BY ProofsStay
<1>5. LinkedAreLive' /\ UnattestedStaysApart'
  BY <1>1, LinksStay
<1>6. KycOK'
  BY <1>1, KycStays
<1>7. AccountsTypeOK'
  BY <1>6 DEF AccountsInv, AccountsTypeOK, ContactsTypeOK, LoginTypeOK, KycOK
<1> QED
  BY <1>2, <1>3, <1>4, <1>5, <1>6, <1>7 DEF AccountsInv, KycOK

\* A worker goes to a statement of another part.
LEMMA Elsewhere ==
  ASSUME AccountsInv, NEW w \in Workers, NEW steps, GoesTo(w, steps),
         steps \intersect AccountsSteps = {},
         UNCHANGED <<load, contacts, login, kyc>>
  PROVE  AccountsInv'
<1>1. task'[w].at \notin AccountsSteps
  BY DEF GoesTo, AccountsSteps, ContactsSteps, CodeSteps, LinkSteps, EditSteps,
         LoginSteps, OtpSteps, OAuthSteps, IdentitySteps
<1> QED
  BY <1>1, SomeFrame, ReaderStep

\* A step that no worker takes and that writes no more than cookies.
LEMMA CookiesStep ==
  ASSUME AccountsInv, UNCHANGED task,
         UNCHANGED <<load, contacts, link, maker, kyc>>,
         access' \subseteq Users, refresh' \subseteq Users
  PROVE  AccountsInv'
<1> USE DEF contacts
<1>1. AccountsMoveOn /\ LiveStay
  BY AccountsStill
<1>2. FramesOK' /\ \A v \in Workers : FrameAccountsOK(task[v])'
  BY <1>1, FrameStays DEF AccountsInv, FramesOK
<1>3. LinksNameAddress' /\ TokensAreLive'
  BY <1>1, TokensStay DEF AccountsInv, TokensAreLive, Live
<1>4. LiveHaveEmail' /\ VerifiedEmailWasProven' /\ UnprovenPhoneIsStale'
  BY ProofsStay
<1>5. LinkedAreLive' /\ UnattestedStaysApart'
  BY <1>1, LinksStay
<1>6. KycOK'
  BY <1>1, KycStays
<1>7. AccountsTypeOK'
  BY <1>6 DEF AccountsInv, AccountsTypeOK, ContactsTypeOK, LoginTypeOK, KycOK
<1> QED
  BY <1>2, <1>3, <1>4, <1>5, <1>6, <1>7 DEF AccountsInv, KycOK

\* A step of another part that no worker takes, or a stutter.
LEMMA Aside ==
  ASSUME AccountsInv, UNCHANGED task, UNCHANGED <<load, contacts, login, kyc>>
  PROVE  AccountsInv'
BY CookiesStep DEF login, AccountsInv, AccountsTypeOK, LoginTypeOK

\* A frame that holds nothing but its operands.
LEMMA PlainFrame ==
  ASSUME NEW w \in Workers, task'[w].at \notin KnownSteps, Operands(task[w])'
  PROVE  FrameAccountsOK(task[w])'
BY DEF FrameAccountsOK, HoldsKnownUser, HoldsAddress, HoldsProof, HoldsAnswer,
       HoldsAttested, KnownSteps, OtpSteps

\* An answer leaves an empty frame.
LEMMA AnsweredFrame ==
  ASSUME FramesOK, NEW w \in Workers, Answer(w)
  PROVE  FrameAccountsOK(task[w])' /\ task'[w] = Free
<1>1. task'[w] = Free
  BY DEF Answer, FramesOK
<1> QED
  BY <1>1, FreeFrame, SomeFrame
  DEF AccountsSteps, ContactsSteps, CodeSteps, LinkSteps, EditSteps,
      LoginSteps, OtpSteps, OAuthSteps, IdentitySteps

----------------------------------------------------------------------------
(* Contacts: reads *)

\* A request for a link or a code, or a change of contacts, that arrives.
LEMMA RequestStep ==
  ASSUME AccountsInv, NEW w \in Workers, UNCHANGED <<login, kyc>>,
         \/ \E u \in Users : ResendLink(w, u)
         \/ \E u \in Users, kind \in Channels : RequestCode(w, u, kind)
         \/ \E u \in Users, e \in load.emails \union {Nil},
                p \in load.phones \union {Nil} : EditContacts(w, u, e, p)
  PROVE  AccountsInv'
<1>1. GoesTo(w, ContactsSteps)
  BY ContactsArriveFrames DEF ContactsArrive, AccountsInv, Channels
<1>2. load.emails \subseteq Emails /\ load.phones \subseteq Phones
  BY LoadsAssumption DEF AccountsInv, AccountsTypeOK
<1>3. /\ task'[w].at \in {"mail_read", "code_read", "edit_taken", "edit_write"}
      /\ task'[w].user \in Users
      /\ task'[w].at = "code_read" => task'[w].kind \in Channels
      /\ task'[w].at \in EditSteps =>
           task'[w].addr \in AnyEmail /\ task'[w].phone \in AnyPhone
  <2>0. DOMAIN task = Workers
    BY DEF AccountsInv, FramesOK
  <2>1. CASE \E u \in Users : ResendLink(w, u)
    BY <2>0, <2>1 DEF ResendLink, Start, Free, EditSteps
  <2>2. CASE \E u \in Users, kind \in Channels : RequestCode(w, u, kind)
    BY <2>0, <2>2 DEF RequestCode, Start, Free, EditSteps
  <2>3. CASE \E u \in Users, e \in load.emails \union {Nil},
                p \in load.phones \union {Nil} : EditContacts(w, u, e, p)
    <3>1. PICK u \in Users, e \in load.emails \union {Nil},
               p \in load.phones \union {Nil} : EditContacts(w, u, e, p)
      BY <2>3
    <3> DEFINE new == e # Nil /\ e # acct[u].email
               f == [Free EXCEPT !.at = IF new THEN "edit_taken" ELSE "edit_write",
                       !.user = u, !.addr = IF new THEN e ELSE Nil,
                       !.phone = p, !.seen = acct[u].phone]
    <3>2. /\ f.at \in EditSteps /\ f.user = u /\ f.phone = p
          /\ f.addr \in {e, Nil}
      BY DEF Free, EditSteps
    <3>3. task' = [task EXCEPT ![w] = f]
      BY <3>1 DEF EditContacts, Start
    <3> HIDE DEF new, f
    <3> QED
      BY <1>2, <2>0, <3>2, <3>3 DEF EditSteps, AnyPhone, AnyEmail
  <2> QED
    BY <2>1, <2>2, <2>3
<1>4. Operands(task[w])' /\ task'[w].at \notin KnownSteps
  BY <1>3
  DEF Operands, KnownSteps, ContactsSteps, CodeSteps, LinkSteps, EditSteps,
      OtpSteps, OAuthSteps, IdentitySteps
<1>5. UNCHANGED <<load, contacts, login, kyc>>
  BY DEF ResendLink, RequestCode, EditContacts
<1> QED
  BY <1>1, <1>4, <1>5, PlainFrame, ReaderStep

\* The address a link will be sent to is the pending one, or the account's.
LEMMA ReadForLinkStep ==
  ASSUME AccountsInv, NEW w \in Workers, ReadForLink(w), UNCHANGED <<login, kyc>>
  PROVE  AccountsInv'
<1> DEFINE u == task[w].user
<1>1. GoesTo(w, ContactsSteps)
  BY ContactsFrames DEF ContactsGoOn, AccountsInv
<1>2. UNCHANGED <<load, contacts, login, kyc>>
  BY DEF ReadForLink
<1>3. CASE Answer(w)
  BY <1>1, <1>2, <1>3, AnsweredFrame, ReaderStep DEF AccountsInv
<1>4. CASE ~Answer(w)
  <2>1. /\ Live(u)
        /\ task' = [task EXCEPT ![w].at = "mail_purge", ![w].kind = "EMAIL",
             ![w].addr = IF acct[u].pending # Nil THEN acct[u].pending
                         ELSE acct[u].email]
    BY <1>4 DEF ReadForLink
  <2>2. u \in Users /\ FrameOK(task[w]) /\ DOMAIN task = Workers
    BY DEF ReadForLink, Doing, AccountsInv, FramesOK, FrameAccountsOK,
           Operands, ContactsSteps, LinkSteps
  <2>3. /\ task'[w].at = "mail_purge" /\ task'[w].user = u
        /\ task'[w].addr = IF acct[u].pending # Nil THEN acct[u].pending
                           ELSE acct[u].email
    BY <2>1, <2>2 DEF FrameOK, FrameFields
  <2>4. task'[w].addr \in Emails
    BY <2>1, <2>2, <2>3
    DEF AccountsInv, AccountsTypeOK, ContactsTypeOK, Accounts, AnyEmail,
        LiveHaveEmail
  <2>5. FrameAccountsOK(task[w])'
    BY <1>2, <2>1, <2>2, <2>3, <2>4
    DEF FrameAccountsOK, Operands, HoldsKnownUser, HoldsAddress, HoldsProof,
        HoldsAnswer, HoldsAttested, KnownSteps, ContactsSteps, CodeSteps,
        LinkSteps, EditSteps, OtpSteps, OAuthSteps, IdentitySteps, Known,
        Live, Unproven, contacts
  <2> QED
    BY <1>1, <1>2, <2>5, ReaderStep
<1> QED
  BY <1>3, <1>4

\* The contact a code will be sent to; whether a new address is taken.
LEMMA ReadForCodeStep ==
  ASSUME AccountsInv, NEW w \in Workers, ReadForCode(w) \/ CheckTaken(w),
         UNCHANGED <<login, kyc>>
  PROVE  AccountsInv'
<1> DEFINE u == task[w].user
<1>1. GoesTo(w, ContactsSteps)
  BY ContactsFrames DEF ContactsGoOn, AccountsInv
<1>2. UNCHANGED <<load, contacts, login, kyc>>
  BY DEF ReadForCode, CheckTaken
<1>3. CASE Answer(w)
  BY <1>1, <1>2, <1>3, AnsweredFrame, ReaderStep DEF AccountsInv
<1>4. FrameOK(task[w]) /\ DOMAIN task = Workers /\ Operands(task[w])
  BY DEF AccountsInv, FramesOK, FrameAccountsOK
<1>5. CASE ReadForCode(w) /\ ~Answer(w)
  <2>1. /\ u \in Users /\ task[w].kind \in Channels
        /\ task' = [task EXCEPT ![w].at = "code_purge",
                               ![w].addr = Channel(u, task[w].kind)]
    BY <1>4, <1>5
    DEF ReadForCode, Doing, Operands, ContactsSteps, CodeSteps
  <2>2. /\ task'[w].at = "code_purge" /\ task'[w].user = u
        /\ task'[w].kind = task[w].kind
        /\ task'[w].addr = Channel(u, task[w].kind)
    BY <1>4, <2>1 DEF FrameOK, FrameFields
  <2>3. Channel(u, task[w].kind) \in Emails \union Phones \union {Nil}
    BY <2>1
    DEF Channel, AccountsInv, AccountsTypeOK, ContactsTypeOK, Accounts,
        AnyEmail, AnyPhone
  <2>4. Operands(task[w])' /\ task'[w].at \notin KnownSteps
    BY <2>1, <2>2, <2>3
    DEF Operands, KnownSteps, ContactsSteps, CodeSteps, LinkSteps, EditSteps,
        OtpSteps, OAuthSteps, IdentitySteps
  <2> QED
    BY <1>1, <1>2, <2>4, PlainFrame, ReaderStep
<1>6. CASE CheckTaken(w) /\ ~Answer(w)
  <2>1. task' = [task EXCEPT ![w].at = "edit_write"] /\ task[w].at = "edit_taken"
    BY <1>6 DEF CheckTaken, Then, Doing
  <2>2. /\ task'[w].at = "edit_write" /\ task'[w].user = u
        /\ task'[w].addr = task[w].addr /\ task'[w].phone = task[w].phone
    BY <1>4, <2>1 DEF FrameOK, FrameFields
  <2>3. Operands(task[w])' /\ task'[w].at \notin KnownSteps
    BY <1>4, <2>1, <2>2
    DEF Operands, KnownSteps, ContactsSteps, CodeSteps, LinkSteps, EditSteps,
        OtpSteps, OAuthSteps, IdentitySteps
  <2> QED
    BY <1>1, <1>2, <2>3, PlainFrame, ReaderStep
<1> QED
  BY <1>3, <1>5, <1>6
----------------------------------------------------------------------------
(* Contacts: writes *)

\* What a worker has at hand when it takes a step.
LEMMA AtHand ==
  ASSUME AccountsInv, NEW w \in Workers
  PROVE  /\ DOMAIN task = Workers /\ FrameOK(task[w])
         /\ Operands(task[w]) /\ FrameAccountsOK(task[w])
BY DEF AccountsInv, FramesOK, FrameAccountsOK

\* A step that leaves identities and the links of profiles alone.
LEMMA WriterStep ==
  ASSUME AccountsInv, NEW w \in Workers, NEW steps, GoesTo(w, steps),
         UNCHANGED <<load, link, kyc>>, AccountsMoveOn, LiveStay,
         ContactsTypeOK', LoginTypeOK', FrameAccountsOK(task[w])',
         TokensAreLive', LinksNameAddress', LiveHaveEmail',
         VerifiedEmailWasProven', UnprovenPhoneIsStale'
  PROVE  AccountsInv'
<1>1. FramesOK' /\ \A v \in Workers : FrameAccountsOK(task[v])'
  BY FramesAfter
<1>2. LinkedAreLive' /\ UnattestedStaysApart'
  BY LinksStay
<1>3. KycOK'
  BY KycStays
<1>4. AccountsTypeOK'
  BY <1>3 DEF AccountsInv, AccountsTypeOK, KycOK
<1> QED
  BY <1>1, <1>2, <1>3, <1>4 DEF AccountsInv, KycOK

\* A step that writes tokens, cookies or proofs, and no account.
LEMMA TokensStep ==
  ASSUME AccountsInv, NEW w \in Workers, NEW steps, GoesTo(w, steps),
         UNCHANGED <<load, acct, stale, link, maker, kyc>>,
         proven \subseteq proven',
         token' \in [Tokens -> TokenRows],
         proven' \subseteq Users \X (Emails \union Phones),
         access' \subseteq Users, refresh' \subseteq Users,
         FrameAccountsOK(task[w])', TokensAreLive', LinksNameAddress'
  PROVE  AccountsInv'
<1>1. AccountsMoveOn /\ LiveStay
  BY AccountsStill
<1>2. LiveHaveEmail' /\ VerifiedEmailWasProven' /\ UnprovenPhoneIsStale'
  BY ProofsStay
<1>3. ContactsTypeOK' /\ LoginTypeOK'
  BY DEF AccountsInv, AccountsTypeOK, ContactsTypeOK, LoginTypeOK
<1> QED
  BY <1>1, <1>2, <1>3, WriterStep

\* Tokens of some kinds are deleted.
LEMMA PurgeTokens ==
  ASSUME AccountsInv, acct' = acct, maker' = maker, proven' = proven,
         NEW u, NEW kinds, token' = Purged(u, kinds)
  PROVE  /\ token' \in [Tokens -> TokenRows]
         /\ TokensAreLive' /\ LinksNameAddress'
<1>1. NoToken \in TokenRows /\ NoToken.user = Nil
  BY DEF NoToken, TokenRows, AnyUser
<1>2. \A t \in Tokens : \/ token'[t] = token[t]
                        \/ token'[t] = NoToken
  BY DEF Purged
<1>3. token' \in [Tokens -> TokenRows]
  BY <1>1 DEF Purged, AccountsInv, AccountsTypeOK, ContactsTypeOK
<1>4. TokensAreLive'
  BY <1>1, <1>2 DEF AccountsInv, TokensAreLive, Live
<1>5. LinksNameAddress'
  BY <1>2, AccountsStill, TokensStay
<1> QED
  BY <1>3, <1>4, <1>5

\* The tokens of the account are deleted before the new one is inserted.
LEMMA PurgeStep ==
  ASSUME AccountsInv, NEW w \in Workers, PurgeLinks(w) \/ PurgeCodes(w),
         UNCHANGED <<login, kyc>>
  PROVE  AccountsInv'
<1>1. GoesTo(w, ContactsSteps)
  BY ContactsFrames DEF ContactsGoOn, AccountsInv
<1>2. UNCHANGED <<load, acct, stale, proven, link, maker, access, refresh>>
  BY DEF PurgeLinks, PurgeCodes, login
<1>3. \E kinds : token' = Purged(task[w].user, kinds)
  BY DEF PurgeLinks, PurgeCodes
<1>4. /\ token' \in [Tokens -> TokenRows]
      /\ TokensAreLive' /\ LinksNameAddress'
  BY <1>2, <1>3, PurgeTokens
<1>5. FrameAccountsOK(task[w])'
  <2>1. \/ /\ task[w].at = "mail_purge"
           /\ task' = [task EXCEPT ![w].at = "mail_insert"]
        \/ /\ task[w].at = "code_purge"
           /\ task' = [task EXCEPT ![w].at = "code_insert"]
    BY DEF PurgeLinks, PurgeCodes, Doing, Then
  <2>2. /\ task'[w].user = task[w].user /\ task'[w].addr = task[w].addr
        /\ task'[w].kind = task[w].kind
        /\ \/ task[w].at = "mail_purge" /\ task'[w].at = "mail_insert"
           \/ task[w].at = "code_purge" /\ task'[w].at = "code_insert"
    BY <2>1, AtHand DEF FrameOK, FrameFields
  <2> QED
    BY <1>2, <2>2, AtHand
    DEF FrameAccountsOK, Operands, HoldsKnownUser, HoldsAddress, HoldsProof,
        HoldsAnswer, HoldsAttested, KnownSteps, ContactsSteps, CodeSteps,
        LinkSteps, EditSteps, OtpSteps, OAuthSteps, IdentitySteps, Known,
        Live, Unproven
<1>6. access' \subseteq Users /\ refresh' \subseteq Users
      /\ proven' \subseteq Users \X (Emails \union Phones)
  BY <1>2 DEF AccountsInv, AccountsTypeOK, ContactsTypeOK, LoginTypeOK
<1> QED
  BY <1>1, <1>2, <1>4, <1>5, <1>6, TokensStep

\* A token of a live account is inserted; a link names the address that the
\* account had pending, or has.
LEMMA InsertStep ==
  ASSUME AccountsInv, NEW w \in Workers, InsertLink(w) \/ InsertCode(w),
         UNCHANGED <<login, kyc>>
  PROVE  AccountsInv'
<1> DEFINE f == task[w]
<1>1. GoesTo(w, ContactsSteps)
  BY ContactsFrames DEF ContactsGoOn, AccountsInv
<1>2. UNCHANGED <<load, acct, stale, proven, link, maker, access, refresh>>
  BY DEF InsertLink, InsertCode, login
<1>3. \/ token' = token
      \/ \E t \in Tokens, row \in TokenRows :
           /\ token' = [token EXCEPT ![t] = row]
           /\ row.user = f.user /\ Live(f.user) /\ row.kind \in Channels
           /\ row.form = "link" =>
                row.to \in Emails
                  /\ (Unproven(f.user) => row.to = acct[f.user].email)
  <2>1. CASE InsertLink(w) /\ token' # token
    <3> DEFINE row == [user |-> f.user, kind |-> "EMAIL", form |-> "link",
                       to |-> f.addr]
    <3>1. /\ f.at = "mail_insert" /\ Live(f.user)
          /\ \E t \in Tokens : token' = [token EXCEPT ![t] = row]
      BY <2>1 DEF InsertLink, Doing, FreeTokens
    <3>2. /\ f.user \in Users /\ f.addr \in Emails
          /\ Unproven(f.user) => f.addr = acct[f.user].email
      BY <3>1, AtHand
      DEF Operands, FrameAccountsOK, HoldsAddress, ContactsSteps, LinkSteps
    <3>3. row \in TokenRows
      BY <3>2 DEF TokenRows, AnyUser, Channels
    <3> QED
      BY <3>1, <3>2, <3>3 DEF Channels
  <2>2. CASE InsertCode(w) /\ token' # token
    <3> DEFINE row == [user |-> f.user, kind |-> f.kind, form |-> "code",
                       to |-> f.addr]
    <3>1. /\ f.at = "code_insert" /\ Live(f.user)
          /\ \E t \in Tokens : token' = [token EXCEPT ![t] = row]
      BY <2>2 DEF InsertCode, Doing, FreeTokens
    <3>2. /\ f.user \in Users /\ f.kind \in Channels
          /\ f.addr \in Emails \union Phones \union {Nil}
      BY <3>1, AtHand DEF Operands, ContactsSteps, CodeSteps
    <3>3. row \in TokenRows
      BY <3>2 DEF TokenRows, AnyUser, Channels
    <3> QED
      BY <3>1, <3>2, <3>3
  <2> QED
    BY <2>1, <2>2
<1>4. /\ token' \in [Tokens -> TokenRows]
      /\ TokensAreLive' /\ LinksNameAddress'
  <2>1. CASE token' = token
    BY <1>2, <2>1
    DEF AccountsInv, AccountsTypeOK, ContactsTypeOK, TokensAreLive,
        LinksNameAddress, Unproven, Live
  <2>2. CASE token' # token
    <3> PICK t \in Tokens, row \in TokenRows :
           /\ token' = [token EXCEPT ![t] = row]
           /\ row.user = f.user /\ Live(f.user) /\ row.kind \in Channels
           /\ row.form = "link" =>
                row.to \in Emails
                  /\ (Unproven(f.user) => row.to = acct[f.user].email)
      BY <1>3, <2>2
    <3>1. token \in [Tokens -> TokenRows]
      BY DEF AccountsInv, AccountsTypeOK, ContactsTypeOK
    <3>2. token'[t] = row /\ \A s \in Tokens \ {t} : token'[s] = token[s]
      BY <3>1
    <3>3. row.user # Nil
      <4>1. \/ f.at = "mail_insert" \/ f.at = "code_insert"
        BY DEF InsertLink, InsertCode, Doing
      <4> QED
        BY <4>1, AtHand, NilAssumption
        DEF Operands, ContactsSteps, LinkSteps, CodeSteps
    <3>4. TokensAreLive'
      BY <1>2, <3>2 DEF AccountsInv, TokensAreLive, Live
    <3>5. LinksNameAddress'
      BY <1>2, <3>2, <3>3 DEF AccountsInv, LinksNameAddress, Unproven, Live
    <3> QED
      BY <3>1, <3>4, <3>5
  <2> QED
    BY <2>1, <2>2
<1>5. FrameAccountsOK(task[w])'
  <2>1. CASE Answer(w)
    BY <2>1, AnsweredFrame DEF AccountsInv
  <2>2. CASE ~Answer(w)
    <3>1. /\ f.at = "code_insert" /\ f.next # "idle"
          /\ task' = [task EXCEPT ![w].at = f.next]
      BY <2>2 DEF InsertLink, InsertCode, Then, Doing
    <3>2. f.next = "mail_read" /\ f.user \in Users
      BY <3>1, AtHand DEF FrameOK, Operands, CodeSteps, ContactsSteps
    <3>3. task'[w].at = "mail_read" /\ task'[w].user = f.user
      BY <3>1, <3>2, AtHand DEF FrameOK, FrameFields
    <3>4. Operands(task[w])' /\ task'[w].at \notin KnownSteps
      BY <3>2, <3>3
      DEF Operands, KnownSteps, ContactsSteps, CodeSteps, LinkSteps, EditSteps,
          OtpSteps, OAuthSteps, IdentitySteps
    <3> QED
      BY <3>4, PlainFrame
  <2> QED
    BY <2>1, <2>2
<1>6. access' \subseteq Users /\ refresh' \subseteq Users
      /\ proven' \subseteq Users \X (Emails \union Phones)
  BY <1>2 DEF AccountsInv, AccountsTypeOK, ContactsTypeOK, LoginTypeOK
<1> QED
  BY <1>1, <1>2, <1>4, <1>5, <1>6, TokensStep

\* A link is opened where it was sent: to the pending address, or to that of an
\* account that asked for no other.
LEMMA OpenStep ==
  ASSUME AccountsInv, NEW w \in Workers, NEW t \in Tokens, OpenLink(w, t),
         UNCHANGED <<login, kyc>>
  PROVE  AccountsInv'
<1> DEFINE u == token[t].user
<1>1. GoesTo(w, ContactsSteps)
  BY ContactsArriveFrames DEF ContactsArrive, AccountsInv
<1>2. /\ UNCHANGED <<load, acct, token, stale, link, maker, access, refresh>>
      /\ proven' = proven \union {<<u, token[t].to>>}
  BY DEF OpenLink, login
<1>3. /\ u \in Users /\ Live(u) /\ token[t].to \in Emails
      /\ Unproven(u) => token[t].to = acct[u].email
  BY NilAssumption
  DEF OpenLink, AccountsInv, AccountsTypeOK, ContactsTypeOK, TokenRows,
      AnyUser, LinksNameAddress, TokensAreLive
<1>4. /\ acct[u].pending \in AnyEmail
      /\ acct[u].pending # Nil => token[t].to = acct[u].pending
      /\ acct[u].pending = Nil => Unproven(u)
  BY <1>3
  DEF OpenLink, LinkConfirms, Unproven, AccountsInv, AccountsTypeOK,
      ContactsTypeOK, Accounts
<1>5. /\ task'[w].at = "link_commit" /\ task'[w].user = u
      /\ task'[w].row = t /\ task'[w].addr = acct[u].pending
  <2> DEFINE f == [Free EXCEPT !.at = "link_commit", !.user = u, !.row = t,
                               !.addr = acct[u].pending]
  <2>1. /\ f.at = "link_commit" /\ f.user = u /\ f.row = t
        /\ f.addr = acct[u].pending
    BY DEF Free
  <2>2. task' = [task EXCEPT ![w] = f]
    BY DEF OpenLink, Start
  <2> HIDE DEF f
  <2> QED
    BY <2>1, <2>2, AtHand
<1>6. FrameAccountsOK(task[w])'
  BY <1>2, <1>3, <1>4, <1>5
  DEF FrameAccountsOK, Operands, HoldsKnownUser, HoldsAddress, HoldsProof,
      HoldsAnswer, HoldsAttested, KnownSteps, ContactsSteps, CodeSteps,
      LinkSteps, EditSteps, OtpSteps, OAuthSteps, IdentitySteps, Known, Live
<1>7. proven' \subseteq Users \X (Emails \union Phones)
  BY <1>2, <1>3 DEF AccountsInv, AccountsTypeOK, ContactsTypeOK
<1>8. /\ token' \in [Tokens -> TokenRows]
      /\ access' \subseteq Users /\ refresh' \subseteq Users
      /\ TokensAreLive' /\ LinksNameAddress'
  BY <1>2
  DEF AccountsInv, AccountsTypeOK, ContactsTypeOK, LoginTypeOK, TokensAreLive,
      LinksNameAddress, Unproven, Live
<1> QED
  BY <1>1, <1>2, <1>6, <1>7, <1>8, TokensStep


\* A handler that writes the account of a user, and answers or goes on.
LEMMA AccountStep ==
  ASSUME AccountsInv, NEW w \in Workers, NEW steps, GoesTo(w, steps),
         UNCHANGED <<load, link, kyc, access, refresh>>,
         NEW u \in Users, NEW row \in Accounts,
         acct' = [acct EXCEPT ![u] = row],
         Live(u) => row.status = "live",
         AccountMovesOn(u), \A v \in Users : Known(v) => maker'[v] = maker[v],
         maker' \in [Users -> Profiles \union {Nil}],
         proven \subseteq proven',
         proven' \subseteq Users \X (Emails \union Phones),
         stale \subseteq stale', stale' \subseteq Users,
         \A t \in Tokens : token'[t] \in {token[t], NoToken},
         token' \in [Tokens -> TokenRows],
         row.status = "live" =>
           /\ row.email \in Emails
           /\ row.emailOk => <<u, row.email>> \in proven'
           /\ row.phoneOk /\ <<u, row.phone>> \notin proven' => u \in stale',
         FrameAccountsOK(task[w])'
  PROVE  AccountsInv'
<1>1. acct \in [Users -> Accounts]
  BY DEF AccountsInv, AccountsTypeOK, ContactsTypeOK
<1>2. acct'[u] = row /\ \A v \in Users \ {u} : acct'[v] = acct[v]
  BY <1>1
<1>3. AccountsMoveOn
  BY <1>2 DEF AccountsMoveOn, AccountMovesOn, Known, Live
<1>4. LiveStay
  BY <1>2 DEF LiveStay, Live
<1>5. ContactsTypeOK' /\ LoginTypeOK'
  BY <1>1 DEF AccountsInv, AccountsTypeOK, ContactsTypeOK, LoginTypeOK
<1>6. NoToken.user = Nil
  BY DEF NoToken
<1>7. TokensAreLive'
  <2> SUFFICES ASSUME NEW t \in Tokens, token'[t].user # Nil
               PROVE  Live(token[t].user)' /\ token'[t].kind \in Channels
    BY DEF TokensAreLive
  <2>1. token'[t] = token[t]
    BY <1>6
  <2>2. Live(token[t].user) /\ token[t].kind \in Channels
        /\ token[t].user \in Users
    BY <2>1
    DEF AccountsInv, TokensAreLive, AccountsTypeOK, ContactsTypeOK, TokenRows,
        AnyUser
  <2> QED
    BY <1>4, <2>1, <2>2 DEF LiveStay, Live
<1>8. LinksNameAddress'
  BY <1>3, TokensStay
<1>9. LiveHaveEmail' /\ VerifiedEmailWasProven' /\ UnprovenPhoneIsStale'
  <2> SUFFICES ASSUME NEW v \in Users, Live(v)'
               PROVE  /\ acct'[v].email \in Emails
                      /\ acct'[v].emailOk => <<v, acct'[v].email>> \in proven'
                      /\ acct'[v].phoneOk /\ <<v, acct'[v].phone>> \notin proven'
                           => v \in stale'
    BY DEF LiveHaveEmail, VerifiedEmailWasProven, UnprovenPhoneIsStale
  <2>1. CASE v = u
    BY <1>2, <2>1 DEF Live
  <2>2. CASE v # u
    BY <1>2, <2>2
    DEF Live, AccountsInv, LiveHaveEmail, VerifiedEmailWasProven,
        UnprovenPhoneIsStale
  <2> QED
    BY <2>1, <2>2
<1> QED
  BY <1>3, <1>4, <1>5, <1>7, <1>8, <1>9, WriterStep

\* The account takes the address its link proved.
LEMMA CommitStep ==
  ASSUME AccountsInv, NEW w \in Workers, CommitLink(w), UNCHANGED <<login, kyc>>
  PROVE  AccountsInv'
<1> DEFINE u == task[w].user
           e == task[w].addr
           t == task[w].row
           row == IF e = Nil THEN [acct[u] EXCEPT !.emailOk = TRUE]
                  ELSE [acct[u] EXCEPT !.email = e, !.pending = Nil,
                                       !.emailOk = TRUE]
<1>1. GoesTo(w, ContactsSteps)
  BY ContactsFrames DEF ContactsGoOn, AccountsInv
<1>2. Answer(w) /\ UNCHANGED <<load, proven, stale, link, maker, access, refresh>>
  BY DEF CommitLink, login
<1>3. /\ u \in Users /\ e \in AnyEmail /\ t \in Tokens /\ Known(u)
      /\ e # Nil => <<u, e>> \in proven
      /\ e = Nil /\ Live(u) => <<u, acct[u].email>> \in proven
  BY AtHand
  DEF CommitLink, Doing, FrameAccountsOK, Operands, HoldsKnownUser, KnownSteps,
      HoldsProof, ContactsSteps, LinkSteps
<1>4. acct[u] \in Accounts /\ token \in [Tokens -> TokenRows]
      /\ proven \subseteq Users \X (Emails \union Phones) /\ stale \subseteq Users
      /\ maker \in [Users -> Profiles \union {Nil}]
  BY <1>3 DEF AccountsInv, AccountsTypeOK, ContactsTypeOK, LoginTypeOK
<1>5. FrameAccountsOK(task[w])'
  BY <1>2, AnsweredFrame DEF AccountsInv
<1>6. CASE UNCHANGED <<acct, token>>
  <2> QED
    BY <1>1, <1>2, <1>4, <1>5, <1>6, TokensStep
    DEF AccountsInv, AccountsTypeOK, LoginTypeOK, TokensAreLive,
        LinksNameAddress, Unproven, Live
<1>7. CASE acct' = [acct EXCEPT ![u] = row]
           /\ token' = [token EXCEPT ![t] = NoToken]
  <2>1. /\ row \in Accounts /\ row.status = acct[u].status /\ row.emailOk
        /\ row.email = IF e = Nil THEN acct[u].email ELSE e
        /\ row.pending = IF e = Nil THEN acct[u].pending ELSE Nil
        /\ row.phone = acct[u].phone /\ row.phoneOk = acct[u].phoneOk
    BY <1>3, <1>4 DEF Accounts, AnyEmail
  <2> HIDE DEF row
  <2>2. acct'[u] = row
    BY <1>3, <1>7 DEF AccountsInv, AccountsTypeOK, ContactsTypeOK
  <2>3. Live(u) =>
          /\ row.email \in Emails /\ <<u, row.email>> \in proven
          /\ row.phoneOk /\ <<u, row.phone>> \notin proven => u \in stale
    BY <1>3, <2>1
    DEF AnyEmail, AccountsInv, LiveHaveEmail, UnprovenPhoneIsStale
  <2>4. AccountMovesOn(u)
    BY <1>2, <1>3, <2>1, <2>2, <2>3 DEF AccountMovesOn, Known, Live
  <2>5. NoToken \in TokenRows
    BY DEF NoToken, TokenRows, AnyUser
  <2>6. token' \in [Tokens -> TokenRows]
        /\ \A s \in Tokens : token'[s] \in {token[s], NoToken}
    BY <1>4, <1>7, <2>5
  <2> QED
    BY <1>1, <1>2, <1>3, <1>4, <1>5, <1>7, <2>1, <2>3, <2>4, <2>6, AccountStep
    DEF Live
<1> QED
  BY <1>6, <1>7 DEF CommitLink

\* A registration, with an address nobody has proven.
LEMMA RegisterStep ==
  ASSUME AccountsInv, NEW w \in Workers,
         NEW u \in load.newcomers, NEW e \in load.emails,
         NEW p \in load.phones \union {Nil}, Register(w, u, e, p),
         UNCHANGED <<login, kyc>>
  PROVE  AccountsInv'
<1> DEFINE row == Account(e, FALSE, p)
           f == IF p = Nil
                THEN [Free EXCEPT !.at = "mail_read", !.user = u]
                ELSE [Free EXCEPT !.at = "code_read", !.user = u,
                                  !.kind = "PHONE", !.next = "mail_read"]
<1>1. GoesTo(w, ContactsSteps)
  BY ContactsArriveFrames DEF ContactsArrive, AccountsInv
<1>2. /\ UNCHANGED <<load, token, proven, stale, link, maker, access, refresh>>
      /\ acct' = [acct EXCEPT ![u] = row]
      /\ acct[u].status = "absent"
      /\ task' = [task EXCEPT ![w] = f]
  BY DEF Register, Start, login
<1>3. u \in Users /\ e \in Emails /\ p \in AnyPhone
  BY LoadsAssumption DEF AccountsInv, AccountsTypeOK, AnyPhone
<1>4. row \in Accounts /\ row.status = "live" /\ ~row.emailOk /\ ~row.phoneOk
      /\ row.email \in Emails
  BY <1>3 DEF Account, Accounts, AnyEmail, Lifecycle
<1>5. token \in [Tokens -> TokenRows]
      /\ proven \subseteq Users \X (Emails \union Phones) /\ stale \subseteq Users
      /\ maker \in [Users -> Profiles \union {Nil}]
  BY DEF AccountsInv, AccountsTypeOK, ContactsTypeOK, LoginTypeOK
<1>6. FrameAccountsOK(task[w])'
  <2>1. /\ f.at \in {"mail_read", "code_read"} /\ f.user = u
        /\ f.at = "code_read" => f.kind = "PHONE"
    BY DEF Free
  <2> HIDE DEF f
  <2>2. task'[w] = f
    BY <1>2, AtHand
  <2>3. Operands(task[w])' /\ task'[w].at \notin KnownSteps
    BY <1>3, <2>1, <2>2
    DEF Operands, Channels, KnownSteps, ContactsSteps, CodeSteps, LinkSteps,
        EditSteps, OtpSteps, OAuthSteps, IdentitySteps
  <2> QED
    BY <2>3, PlainFrame
<1> HIDE DEF row, f
<1>7. ~Known(u) /\ ~Live(u)
  BY <1>2 DEF Known, Live
<1>8. AccountMovesOn(u)
  BY <1>7 DEF AccountMovesOn
<1> QED
  BY <1>1, <1>2, <1>3, <1>4, <1>5, <1>6, <1>7, <1>8, AccountStep

\* A change of contacts: the new address waits, the new number loses the badge
\* unless the number was read before another request changed it.
LEMMA WriteStep ==
  ASSUME AccountsInv, NEW w \in Workers, WriteContacts(w),
         UNCHANGED <<login, kyc>>
  PROVE  AccountsInv'
<1> DEFINE f == task[w]
           u == f.user
           reset == f.phone # Nil /\ f.phone # f.seen
           row == Edited(u, f.addr, f.phone, reset)
           g == [Free EXCEPT !.at = "mail_read", !.user = u]
<1>1. GoesTo(w, ContactsSteps)
  BY ContactsFrames DEF ContactsGoOn, AccountsInv
<1>2. UNCHANGED <<load, token, proven, link, maker, access, refresh>>
      /\ f.at = "edit_write"
  BY DEF WriteContacts, login, Doing
<1>3. u \in Users /\ f.addr \in AnyEmail /\ f.phone \in AnyPhone
  BY <1>2, AtHand DEF Operands, ContactsSteps, EditSteps
<1>4. acct[u] \in Accounts /\ token \in [Tokens -> TokenRows]
      /\ proven \subseteq Users \X (Emails \union Phones) /\ stale \subseteq Users
      /\ maker \in [Users -> Profiles \union {Nil}]
      /\ access \subseteq Users /\ refresh \subseteq Users
  BY <1>3 DEF AccountsInv, AccountsTypeOK, ContactsTypeOK, LoginTypeOK
<1>5. CASE Answer(w) /\ UNCHANGED <<acct, stale>>
  <2>1. FrameAccountsOK(task[w])'
    BY <1>5, AnsweredFrame DEF AccountsInv
  <2> QED
    BY <1>1, <1>2, <1>4, <1>5, <2>1, TokensStep
    DEF AccountsInv, TokensAreLive, LinksNameAddress, Unproven, Live
<1>6. CASE ~(Answer(w) /\ UNCHANGED <<acct, stale>>)
  <2>1. /\ Live(u)
        /\ acct' = [acct EXCEPT ![u] = row]
        /\ stale' = IF f.phone # Nil /\ ~reset /\ acct[u].phone # f.phone
                    THEN stale \union {u} ELSE stale
        /\ \/ task' = [task EXCEPT ![w] = g]
           \/ Answer(w)
    BY <1>6 DEF WriteContacts
  <2>2. /\ row \in Accounts /\ row.status = acct[u].status
        /\ row.email = acct[u].email /\ row.emailOk = acct[u].emailOk
        /\ row.pending = IF f.addr # Nil THEN f.addr ELSE acct[u].pending
        /\ row.phone = IF f.phone # Nil THEN f.phone ELSE acct[u].phone
        /\ row.phoneOk => acct[u].phoneOk /\ ~reset
    <3> DEFINE ok == acct[u].phoneOk /\ ~reset
               pending == IF f.addr # Nil THEN f.addr ELSE acct[u].pending
               phone == IF f.phone # Nil THEN f.phone ELSE acct[u].phone
    <3>1. row = [acct[u] EXCEPT !.pending = pending, !.phone = phone,
                                !.phoneOk = ok]
      BY <1>4 DEF Edited, Accounts
    <3>2. ok \in BOOLEAN
      OBVIOUS
    <3>3. pending \in AnyEmail /\ phone \in AnyPhone
      BY <1>3, <1>4 DEF Accounts
    <3>4. ok => acct[u].phoneOk /\ ~reset
      OBVIOUS
    <3> HIDE DEF row, ok, pending, phone
    <3>5. row \in Accounts
      BY <1>4, <3>1, <3>2, <3>3 DEF Accounts
    <3>6. row.phoneOk = ok /\ row.pending = pending /\ row.phone = phone
      BY <1>4, <3>1 DEF Accounts
    <3> QED
      BY <1>4, <3>1, <3>4, <3>5, <3>6 DEF Accounts, pending, phone
  <2>3. FrameAccountsOK(task[w])'
    <3>1. CASE Answer(w)
      BY <3>1, AnsweredFrame DEF AccountsInv
    <3>2. CASE task' = [task EXCEPT ![w] = g]
      <4>1. g.at = "mail_read" /\ g.user = u
        BY DEF Free
      <4> HIDE DEF g
      <4>2. task'[w] = g
        BY <3>2, AtHand
      <4>3. Operands(task[w])' /\ task'[w].at \notin KnownSteps
        BY <1>3, <4>1, <4>2
        DEF Operands, KnownSteps, ContactsSteps, CodeSteps, LinkSteps,
            EditSteps, OtpSteps, OAuthSteps, IdentitySteps
      <4> QED
        BY <4>3, PlainFrame
    <3> QED
      BY <2>1, <3>1, <3>2
  <2> HIDE DEF row, g
  <2>4. acct'[u] = row
    BY <1>3, <2>1 DEF AccountsInv, AccountsTypeOK, ContactsTypeOK
  <2>5. AccountMovesOn(u)
    BY <1>2, <2>1, <2>2, <2>4 DEF AccountMovesOn, Live
  <2>6. stale \subseteq stale' /\ stale' \subseteq Users
    BY <1>3, <1>4, <2>1
  <2>7. /\ row.email \in Emails
        /\ row.emailOk => <<u, row.email>> \in proven
    BY <1>3, <2>1, <2>2
    DEF AccountsInv, LiveHaveEmail, VerifiedEmailWasProven
  <2>8. row.phoneOk /\ <<u, row.phone>> \notin proven => u \in stale'
    BY <1>3, <2>1, <2>2 DEF AccountsInv, UnprovenPhoneIsStale
  <2> QED
    BY <1>1, <1>2, <1>3, <1>4, <2>1, <2>2, <2>3, <2>5, <2>6, <2>7, <2>8,
       AccountStep
    DEF Live
<1> QED
  BY <1>5, <1>6

----------------------------------------------------------------------------
(* Signing in *)

\* A code is submitted; a verification starts; an admin deletes an account.
LEMMA SubmitStep ==
  ASSUME AccountsInv, NEW w \in Workers, NEW u \in Users, NEW steps,
         GoesTo(w, steps),
         \/ \E kind \in Channels : SubmitOtp(w, u, kind)
         \/ StartVerification(w, u)
         \/ EraseAccount(w, u),
         UNCHANGED kyc
  PROVE  AccountsInv'
<1>1. UNCHANGED <<load, contacts, login, kyc>> /\ Live(u)
  BY DEF SubmitOtp, StartVerification, EraseAccount
<1>2. /\ task'[w].at \in {"otp_load", "kyc_create", "erase_list"}
      /\ task'[w].user = u
      /\ task'[w].at = "otp_load" => task'[w].kind \in Channels
  <2>1. CASE \E kind \in Channels : SubmitOtp(w, u, kind)
    <3> PICK kind \in Channels : SubmitOtp(w, u, kind)
      BY <2>1
    <3> DEFINE f == [Free EXCEPT !.at = "otp_load", !.user = u, !.kind = kind,
                       !.next = IF ChannelOk(u, kind) THEN "idle" ELSE "mark"]
    <3>1. f.at = "otp_load" /\ f.user = u /\ f.kind = kind
      BY DEF Free
    <3>2. task' = [task EXCEPT ![w] = f]
      BY DEF SubmitOtp, Start
    <3> HIDE DEF f
    <3> QED
      BY <3>1, <3>2, AtHand
  <2>2. CASE StartVerification(w, u)
    BY <2>2, AtHand DEF StartVerification, Start, Free
  <2>3. CASE EraseAccount(w, u)
    BY <2>3, AtHand DEF EraseAccount, Start, Free
  <2> QED
    BY <2>1, <2>2, <2>3
<1>3. FrameAccountsOK(task[w])'
  BY <1>1, <1>2
  DEF FrameAccountsOK, Operands, HoldsKnownUser, HoldsAddress, HoldsProof,
      HoldsAnswer, HoldsAttested, KnownSteps, ContactsSteps, CodeSteps,
      LinkSteps, EditSteps, OtpSteps, OAuthSteps, IdentitySteps, Known, Live,
      contacts
<1> QED
  BY <1>1, <1>3, ReaderStep

\* A code that is right was read where it was sent, at the contact the account
\* still has.
LEMMA LoadStep ==
  ASSUME AccountsInv, NEW w \in Workers, LoadOtp(w), UNCHANGED kyc
  PROVE  AccountsInv'
<1> DEFINE f == task[w]
<1>1. GoesTo(w, LoginSteps)
  BY LoginFrames DEF LoginGoOn, AccountsInv
<1>2. UNCHANGED <<load, acct, token, stale, link, maker, access, refresh>>
  BY DEF LoadOtp, login
<1>3. f.at = "otp_load" /\ f.user \in Users /\ f.kind \in Channels
      /\ Known(f.user)
  BY AtHand
  DEF LoadOtp, Doing, Operands, OtpSteps, FrameAccountsOK, HoldsKnownUser,
      KnownSteps
<1>4. /\ token' \in [Tokens -> TokenRows]
      /\ proven \subseteq Users \X (Emails \union Phones)
      /\ access' \subseteq Users /\ refresh' \subseteq Users
      /\ TokensAreLive' /\ LinksNameAddress'
  BY <1>2
  DEF AccountsInv, AccountsTypeOK, ContactsTypeOK, LoginTypeOK, TokensAreLive,
      LinksNameAddress, Unproven, Live
<1>5. CASE Answer(w) /\ proven' = proven
  BY <1>1, <1>2, <1>4, <1>5, AnsweredFrame, TokensStep DEF AccountsInv
<1>6. CASE ~(Answer(w) /\ proven' = proven)
  <2>1. PICK t \in Tokens :
          /\ OtpMatches(t, f.user, f.kind)
          /\ proven' = proven \union {<<f.user, token[t].to>>}
          /\ task' = [task EXCEPT ![w].at = "otp_purge",
                                  ![w].addr = Channel(f.user, f.kind)]
    BY <1>6 DEF LoadOtp
  <2>2. token[t].to \in Emails \union Phones
        /\ token[t].to = Channel(f.user, f.kind)
    BY <2>1
    DEF OtpMatches, AccountsInv, AccountsTypeOK, ContactsTypeOK, TokenRows
  <2>3. /\ task'[w].at = "otp_purge" /\ task'[w].user = f.user
        /\ task'[w].kind = f.kind /\ task'[w].addr = token[t].to
    BY <2>1, <2>2, AtHand DEF FrameOK, FrameFields
  <2>4. f.kind = "EMAIL" => token[t].to = acct[f.user].email
    BY <2>2 DEF Channel
  <2>5. FrameAccountsOK(task[w])'
    BY <1>2, <1>3, <2>1, <2>2, <2>3, <2>4
    DEF FrameAccountsOK, Operands, HoldsKnownUser, HoldsAddress, HoldsProof,
        HoldsAnswer, HoldsAttested, KnownSteps, ContactsSteps, CodeSteps,
        LinkSteps, EditSteps, OtpSteps, OAuthSteps, IdentitySteps, Known
  <2>6. proven \subseteq proven' /\ proven' \subseteq Users \X (Emails \union Phones)
    BY <1>3, <1>4, <2>1, <2>2
  <2> QED
    BY <1>1, <1>2, <1>4, <2>5, <2>6, TokensStep
<1> QED
  BY <1>5, <1>6

\* The codes go, the session starts, and the badge may follow.
LEMMA ConsumeStep ==
  ASSUME AccountsInv, NEW w \in Workers, ConsumeOtp(w), UNCHANGED kyc
  PROVE  AccountsInv'
<1> DEFINE f == task[w]
<1>1. GoesTo(w, LoginSteps)
  BY LoginFrames DEF LoginGoOn, AccountsInv
<1>2. UNCHANGED <<load, acct, proven, stale, link, maker>>
      /\ f.at = "otp_purge" /\ Signed(f.user)
      /\ token' = Purged(f.user, {f.kind})
  BY DEF ConsumeOtp, Doing
<1>3. f.user \in Users /\ f.kind \in Channels /\ Known(f.user)
  BY <1>2, AtHand
  DEF Operands, OtpSteps, FrameAccountsOK, HoldsKnownUser, KnownSteps
<1>4. access' \subseteq Users /\ refresh' \subseteq Users
      /\ proven' \subseteq Users \X (Emails \union Phones)
  BY <1>2, <1>3
  DEF Signed, AccountsInv, AccountsTypeOK, ContactsTypeOK, LoginTypeOK
<1>5. /\ token' \in [Tokens -> TokenRows]
      /\ TokensAreLive' /\ LinksNameAddress'
  BY <1>2, PurgeTokens
<1>6. FrameAccountsOK(task[w])'
  <2>1. CASE Answer(w)
    BY <2>1, AnsweredFrame DEF AccountsInv
  <2>2. CASE ~Answer(w)
    <3>1. task' = [task EXCEPT ![w].at = "mark"]
      BY <2>2 DEF ConsumeOtp, Then
    <3>2. /\ task'[w].at = "mark" /\ task'[w].user = f.user
          /\ task'[w].kind = f.kind /\ task'[w].addr = f.addr
      BY <3>1, AtHand DEF FrameOK, FrameFields
    <3> QED
      BY <1>2, <1>3, <3>2, AtHand
      DEF FrameAccountsOK, Operands, HoldsKnownUser, HoldsAddress, HoldsProof,
          HoldsAnswer, HoldsAttested, KnownSteps, ContactsSteps, CodeSteps,
          LinkSteps, EditSteps, OtpSteps, OAuthSteps, IdentitySteps, Known,
          Live
  <2> QED
    BY <2>1, <2>2
<1> QED
  BY <1>1, <1>2, <1>4, <1>5, <1>6, TokensStep

\* The badge of a contact: it was proven, or another number replaced it.
LEMMA MarkStep ==
  ASSUME AccountsInv, NEW w \in Workers, MarkVerified(w), UNCHANGED kyc
  PROVE  AccountsInv'
<1> DEFINE f == task[w]
           u == f.user
           row == IF f.kind = "PHONE" THEN [acct[u] EXCEPT !.phoneOk = TRUE]
                  ELSE [acct[u] EXCEPT !.emailOk = TRUE]
<1>1. GoesTo(w, LoginSteps)
  BY LoginFrames DEF LoginGoOn, AccountsInv
<1>2. Answer(w) /\ UNCHANGED <<load, token, proven, link, maker, access, refresh>>
      /\ f.at = "mark"
  BY DEF MarkVerified, login, Doing
<1>3. /\ u \in Users /\ f.kind \in Channels /\ <<u, f.addr>> \in proven
      /\ f.kind = "EMAIL" /\ Live(u) => <<u, acct[u].email>> \in proven
  BY <1>2, AtHand DEF FrameAccountsOK, Operands, OtpSteps, HoldsAnswer
<1>4. acct[u] \in Accounts /\ token \in [Tokens -> TokenRows]
      /\ proven \subseteq Users \X (Emails \union Phones) /\ stale \subseteq Users
      /\ maker \in [Users -> Profiles \union {Nil}]
      /\ access \subseteq Users /\ refresh \subseteq Users
  BY <1>3 DEF AccountsInv, AccountsTypeOK, ContactsTypeOK, LoginTypeOK
<1>5. FrameAccountsOK(task[w])'
  BY <1>2, AnsweredFrame DEF AccountsInv
<1>6. CASE UNCHANGED <<acct, stale>>
  BY <1>1, <1>2, <1>4, <1>5, <1>6, TokensStep
  DEF AccountsInv, TokensAreLive, LinksNameAddress, Unproven, Live
<1>7. CASE ~UNCHANGED <<acct, stale>>
  <2>1. /\ Live(u) /\ acct' = [acct EXCEPT ![u] = row]
        /\ stale' = IF f.kind = "PHONE" /\ acct[u].phone # f.addr
                    THEN stale \union {u} ELSE stale
    BY <1>7 DEF MarkVerified
  <2>2. /\ row \in Accounts /\ row.status = acct[u].status
        /\ row.email = acct[u].email /\ row.phone = acct[u].phone
        /\ row.pending = acct[u].pending
    BY <1>4 DEF Accounts
  <2>3. /\ acct[u].emailOk => row.emailOk
        /\ row.emailOk => acct[u].emailOk \/ f.kind # "PHONE"
        /\ row.phoneOk => acct[u].phoneOk \/ f.kind = "PHONE"
    BY <1>4 DEF Accounts
  <2> HIDE DEF row
  <2>4. acct'[u] = row
    BY <1>3, <2>1 DEF AccountsInv, AccountsTypeOK, ContactsTypeOK
  <2>5. AccountMovesOn(u)
    BY <1>2, <2>1, <2>2, <2>3, <2>4 DEF AccountMovesOn, Live
  <2>6. stale \subseteq stale' /\ stale' \subseteq Users
    BY <1>3, <1>4, <2>1
  <2>7. /\ row.email \in Emails
        /\ row.emailOk => <<u, row.email>> \in proven
    BY <1>3, <2>1, <2>2, <2>3
    DEF AccountsInv, LiveHaveEmail, VerifiedEmailWasProven, Channels
  <2>8. row.phoneOk /\ <<u, row.phone>> \notin proven => u \in stale'
    BY <1>3, <2>1, <2>2, <2>3 DEF AccountsInv, UnprovenPhoneIsStale
  <2> QED
    BY <1>1, <1>2, <1>3, <1>4, <1>5, <2>1, <2>2, <2>5, <2>6, <2>7, <2>8,
       AccountStep
    DEF Live
<1> QED
  BY <1>6, <1>7

\* Cookies are renewed, cleared or expire.
LEMMA LoginAtOnceStep ==
  ASSUME AccountsInv, LoginAtOnce, UNCHANGED kyc
  PROVE  AccountsInv'
<1>1. UNCHANGED task /\ UNCHANGED <<load, contacts, link, maker, kyc>>
  BY DEF LoginAtOnce, RefreshSession, Logout, AccessExpires
<1>2. access' \subseteq Users /\ refresh' \subseteq Users
  BY DEF LoginAtOnce, RefreshSession, Logout, AccessExpires, AccountsInv,
         AccountsTypeOK, LoginTypeOK
<1> QED
  BY <1>1, <1>2, CookiesStep

\* A profile that is linked signs in; another is looked for by its address.
LEMMA OAuthStep ==
  ASSUME AccountsInv, NEW w \in Workers, NEW x \in Profiles, NEW flow \in Flows,
         OAuthLogin(w, x, flow), UNCHANGED kyc
  PROVE  AccountsInv'
<1>1. CASE link[x] # Nil
  <2>1. UNCHANGED task /\ UNCHANGED <<load, contacts, link, maker, kyc>>
        /\ Signed(link[x]) /\ link[x] \in Users
    BY <1>1 DEF OAuthLogin, AccountsInv, AccountsTypeOK, LoginTypeOK, AnyUser
  <2>2. access' \subseteq Users /\ refresh' \subseteq Users
    BY <2>1 DEF Signed, AccountsInv, AccountsTypeOK, LoginTypeOK
  <2> QED
    BY <2>1, <2>2, CookiesStep
<1>2. CASE link[x] = Nil
  <2> DEFINE f == [Free EXCEPT !.row = x, !.kind = flow,
                     !.at = IF x \in Anonymous THEN "oauth_create"
                            ELSE "oauth_find"]
  <2>1. /\ f.at \in {"oauth_create", "oauth_find"} /\ f.row = x
        /\ f.kind = flow
    BY DEF Free
  <2>2. /\ task' = [task EXCEPT ![w] = f]
        /\ UNCHANGED <<load, contacts, login, kyc>>
        /\ ProfileProvider[x] = FlowProvider[flow]
    BY <1>2 DEF OAuthLogin, Start, login
  <2> HIDE DEF f
  <2>3. task'[w] = f
    BY <2>2, AtHand
  <2>4. Operands(task[w])' /\ task'[w].at \notin KnownSteps
    BY <2>1, <2>2, <2>3
    DEF Operands, KnownSteps, ContactsSteps, CodeSteps, LinkSteps, EditSteps,
        OtpSteps, OAuthSteps, IdentitySteps
  <2>5. GoesTo(w, LoginSteps)
    BY LoginArriveFrames DEF LoginArrive, AccountsInv
  <2> QED
    BY <2>2, <2>4, <2>5, PlainFrame, ReaderStep
<1> QED
  BY <1>1, <1>2

\* An account with the address of the profile is taken if the address is
\* attested; without one an account is created.
LEMMA FindStep ==
  ASSUME AccountsInv, NEW w \in Workers, FindAccount(w), UNCHANGED kyc
  PROVE  AccountsInv'
<1> DEFINE f == task[w]
<1>1. GoesTo(w, LoginSteps)
  BY LoginFrames DEF LoginGoOn, AccountsInv
<1>2. UNCHANGED <<load, contacts, login, kyc>> /\ f.at = "oauth_find"
  BY DEF FindAccount, Doing
<1>3. /\ f.row \in Profiles /\ f.kind \in Flows
      /\ ProfileProvider[f.row] = FlowProvider[f.kind]
  BY <1>2, AtHand DEF Operands, OAuthSteps
<1>4. CASE Answer(w)
  BY <1>1, <1>2, <1>4, AnsweredFrame, ReaderStep DEF AccountsInv
<1>5. CASE task' = [task EXCEPT ![w].at = "oauth_create"]
  <2>1. /\ task'[w].at = "oauth_create" /\ task'[w].row = f.row
        /\ task'[w].kind = f.kind
    BY <1>5, AtHand DEF FrameOK, FrameFields
  <2>2. Operands(task[w])' /\ task'[w].at \notin KnownSteps
    BY <1>3, <2>1
    DEF Operands, KnownSteps, ContactsSteps, CodeSteps, LinkSteps, EditSteps,
        OtpSteps, OAuthSteps, IdentitySteps
  <2> QED
    BY <1>1, <1>2, <2>2, PlainFrame, ReaderStep
<1>6. ASSUME NEW u \in Users, Live(u), Attested(f.kind, f.row),
             task' = [task EXCEPT ![w].at = "oauth_link", ![w].user = u]
      PROVE  AccountsInv'
  <2>1. /\ task'[w].at = "oauth_link" /\ task'[w].row = f.row
        /\ task'[w].kind = f.kind /\ task'[w].user = u
    BY <1>6, AtHand DEF FrameOK, FrameFields
  <2>2. Known(u)'
    BY <1>2, <1>6 DEF Known, Live, contacts
  <2>3. Attested(f.kind, f.row)'
    BY <1>6, <2>1
    DEF Attested, AttestedByGoogleWeb, AttestedByGoogleToken, AttestedByApple,
        AttestedByFacebook
  <2>4. FrameAccountsOK(task[w])'
    BY <1>3, <1>6, <2>1, <2>2, <2>3
    DEF FrameAccountsOK, Operands, HoldsKnownUser, HoldsAddress, HoldsProof,
        HoldsAnswer, HoldsAttested, KnownSteps, ContactsSteps, CodeSteps,
        LinkSteps, EditSteps, OtpSteps, OAuthSteps, IdentitySteps
  <2> QED
    BY <1>1, <1>2, <2>4, ReaderStep
<1> QED
  BY <1>4, <1>5, <1>6 DEF FindAccount, MayLink, Then

\* A new account for the profile, its address verified only if it is attested.
LEMMA CreateStep ==
  ASSUME AccountsInv, NEW w \in Workers, CreateAccount(w), UNCHANGED kyc
  PROVE  AccountsInv'
<1> DEFINE f == task[w]
           x == f.row
           e == ProfileEmail[x]
           ok == Attested(f.kind, x) /\ x \notin Anonymous
           row == Account(e, ok, Nil)
<1>1. GoesTo(w, LoginSteps)
  BY LoginFrames DEF LoginGoOn, AccountsInv
<1>2. /\ UNCHANGED <<load, token, stale, link, access, refresh>>
      /\ f.at = "oauth_create"
  BY DEF CreateAccount, Doing
<1>3. /\ x \in Profiles /\ f.kind \in Flows
      /\ ProfileProvider[x] = FlowProvider[f.kind]
  BY <1>2, AtHand DEF Operands, OAuthSteps
<1>4. e \in Emails
  BY <1>3, ProfilesAssumption
<1>5. token \in [Tokens -> TokenRows]
      /\ proven \subseteq Users \X (Emails \union Phones) /\ stale \subseteq Users
      /\ maker \in [Users -> Profiles \union {Nil}]
      /\ access \subseteq Users /\ refresh \subseteq Users
  BY DEF AccountsInv, AccountsTypeOK, ContactsTypeOK, LoginTypeOK
<1>6. CASE Answer(w) /\ UNCHANGED <<acct, proven, maker>>
  <2>1. FrameAccountsOK(task[w])'
    BY <1>6, AnsweredFrame DEF AccountsInv
  <2> QED
    BY <1>1, <1>2, <1>5, <1>6, <2>1, TokensStep
    DEF AccountsInv, TokensAreLive, LinksNameAddress, Unproven, Live
<1>7. CASE ~(Answer(w) /\ UNCHANGED <<acct, proven, maker>>)
  <2>1. PICK u \in load.newcomers :
          /\ acct[u].status = "absent"
          /\ acct' = [acct EXCEPT ![u] = row]
          /\ proven' = IF ok THEN proven \union {<<u, e>>} ELSE proven
          /\ maker' = [maker EXCEPT ![u] = x]
          /\ task' = [task EXCEPT ![w].at = "oauth_link", ![w].user = u]
    BY <1>7 DEF CreateAccount
  <2>2. u \in Users
    BY LoadsAssumption DEF AccountsInv, AccountsTypeOK
  <2>3. row \in Accounts /\ row.status = "live" /\ (row.emailOk => ok)
        /\ row.email = e
    <3> HIDE DEF ok
    <3>1. ok \in BOOLEAN
      BY DEF ok
    <3>2. ok => ok
      OBVIOUS
    <3> HIDE DEF e
    <3>3. /\ row = [status |-> "live", email |-> e, emailOk |-> ok,
                    pending |-> Nil, phone |-> Nil, phoneOk |-> FALSE]
      BY DEF Account
    <3> HIDE DEF row
    <3>4. row \in Accounts
      BY <1>4, <3>1, <3>3 DEF Accounts, AnyEmail, AnyPhone, Lifecycle
    <3>5. row.emailOk = ok
      BY <3>3
    <3> QED
      BY <3>3, <3>4, <3>5
  <2>4. ~row.phoneOk
    BY DEF Account
  <2> HIDE DEF row, e
  <2>5. acct'[u] = row /\ ~Known(u) /\ ~Live(u) /\ maker'[u] = x
    BY <1>5, <2>1, <2>2
    DEF AccountsInv, AccountsTypeOK, ContactsTypeOK, Known, Live
  <2>6. AccountMovesOn(u)
    BY <2>5 DEF AccountMovesOn
  <2>7. /\ \A v \in Users : Known(v) => maker'[v] = maker[v]
        /\ maker' \in [Users -> Profiles \union {Nil}]
    BY <1>3, <1>5, <2>1, <2>5
  <2>8. /\ proven \subseteq proven'
        /\ proven' \subseteq Users \X (Emails \union Phones)
        /\ row.emailOk => <<u, row.email>> \in proven'
    <3>1. CASE ok
      BY <1>4, <1>5, <2>1, <2>2, <2>3, <3>1
    <3>2. CASE ~ok
      BY <1>5, <2>1, <2>3, <3>2
    <3> QED
      BY <3>1, <3>2
  <2>9. FrameAccountsOK(task[w])'
    <3>1. /\ task'[w].at = "oauth_link" /\ task'[w].row = x
          /\ task'[w].kind = f.kind /\ task'[w].user = u
      BY <2>1, AtHand DEF FrameOK, FrameFields
    <3>2. Known(u)'
      BY <2>3, <2>5 DEF Known
    <3> QED
      BY <1>3, <2>2, <2>5, <3>1, <3>2
      DEF FrameAccountsOK, Operands, HoldsKnownUser, HoldsAddress, HoldsProof,
          HoldsAnswer, HoldsAttested, KnownSteps, ContactsSteps, CodeSteps,
          LinkSteps, EditSteps, OtpSteps, OAuthSteps, IdentitySteps
  <2> QED
    BY <1>1, <1>2, <1>4, <1>5, <2>1, <2>2, <2>3, <2>4, <2>5, <2>6, <2>7, <2>8,
       <2>9, AccountStep
    DEF e
<1> QED
  BY <1>6, <1>7

\* The profile is linked to the account that was found for its attested
\* address, or to the one it created.
LEMMA LinkStep ==
  ASSUME AccountsInv, NEW w \in Workers, LinkProfile(w), UNCHANGED kyc
  PROVE  AccountsInv'
<1> DEFINE f == task[w]
           x == f.row
           u == f.user
<1>1. GoesTo(w, LoginSteps)
  BY LoginFrames DEF LoginGoOn, AccountsInv
<1>2. Answer(w) /\ UNCHANGED <<load, contacts, maker>> /\ f.at = "oauth_link"
  BY DEF LinkProfile, Doing
<1>3. /\ x \in Profiles /\ f.kind \in Flows /\ u \in Users
      /\ ProfileProvider[x] = FlowProvider[f.kind]
      /\ Attested(f.kind, x) \/ maker[u] = x
  BY <1>2, AtHand DEF FrameAccountsOK, Operands, OAuthSteps, HoldsAttested
<1>4. FrameAccountsOK(task[w])'
  BY <1>2, AnsweredFrame DEF AccountsInv
<1>5. CASE UNCHANGED <<link, access, refresh>>
  BY <1>1, <1>2, <1>4, <1>5, ReaderStep DEF login
<1>6. CASE Live(u) /\ link' = [link EXCEPT ![x] = u] /\ Signed(u)
  <2>1. AccountsMoveOn /\ LiveStay
    BY <1>2, AccountsStill DEF contacts
  <2>2. FramesOK' /\ \A v \in Workers : FrameAccountsOK(task[v])'
    BY <1>1, <1>4, <2>1, FramesAfter
  <2>3. LinksNameAddress' /\ TokensAreLive'
    BY <1>2, <2>1, TokensStay DEF AccountsInv, TokensAreLive, Live, contacts
  <2>4. LiveHaveEmail' /\ VerifiedEmailWasProven' /\ UnprovenPhoneIsStale'
    BY <1>2, ProofsStay DEF contacts
  <2>5. KycOK'
    BY <2>1, KycStays
  <2>6. link \in [Profiles -> AnyUser]
    BY DEF AccountsInv, AccountsTypeOK, LoginTypeOK
  <2>7. LoginTypeOK'
    BY <1>2, <1>3, <1>6
    DEF AccountsInv, AccountsTypeOK, LoginTypeOK, AnyUser, Signed
  <2>8. AccountsTypeOK'
    BY <1>2, <2>5, <2>7
    DEF AccountsInv, AccountsTypeOK, ContactsTypeOK, contacts, KycOK
  <2>9. LinkedAreLive'
    BY <1>2, <1>3, <1>6, <2>6 DEF AccountsInv, LinkedAreLive, Live, contacts
  <2>10. UnattestedStaysApart'
    <3>1. \A y \in Profiles : y # x => link'[y] = link[y]
      BY <1>6, <2>6
    <3>2. link'[x] = u
      BY <1>3, <1>6, <2>6
    <3> QED
      BY <1>2, <1>3, <3>1, <3>2
      DEF AccountsInv, UnattestedStaysApart, Attested, AttestedByGoogleWeb,
          AttestedByGoogleToken, AttestedByApple, AttestedByFacebook
  <2> QED
    BY <2>2, <2>3, <2>4, <2>5, <2>8, <2>9, <2>10 DEF AccountsInv, KycOK
<1> QED
  BY <1>5, <1>6 DEF LinkProfile

----------------------------------------------------------------------------
(* Identities *)

\* A step that writes identities, sessions or events only.
LEMMA KycWritten ==
  ASSUME AccountsInv, UNCHANGED <<load, contacts, login>>, KycOK',
         FramesOK' /\ \A v \in Workers : FrameAccountsOK(task[v])'
  PROVE  AccountsInv'
<1> USE DEF contacts, login
<1>1. AccountsMoveOn /\ LiveStay
  BY AccountsStill
<1>2. LinksNameAddress' /\ TokensAreLive'
  BY <1>1, TokensStay DEF AccountsInv, TokensAreLive, Live
<1>3. LiveHaveEmail' /\ VerifiedEmailWasProven' /\ UnprovenPhoneIsStale'
  BY ProofsStay
<1>4. LinkedAreLive' /\ UnattestedStaysApart'
  BY <1>1, LinksStay
<1>5. AccountsTypeOK'
  BY DEF AccountsInv, AccountsTypeOK, ContactsTypeOK, LoginTypeOK, KycOK
<1> QED
  BY <1>2, <1>3, <1>4, <1>5 DEF AccountsInv, KycOK

\* The same for the step of a worker.
LEMMA KycStep ==
  ASSUME AccountsInv, NEW w \in Workers, NEW steps, GoesTo(w, steps),
         UNCHANGED <<load, contacts, login>>, KycOK',
         FrameAccountsOK(task[w])'
  PROVE  AccountsInv'
<1>1. AccountsMoveOn
  BY AccountsStill DEF contacts, login
<1> QED
  BY <1>1, FramesAfter, KycWritten

\* The provider creates a session; it has no event yet.
LEMMA CreateSessionStep ==
  ASSUME AccountsInv, NEW w \in Workers, CreateSession(w)
  PROVE  AccountsInv'
<1> DEFINE u == task[w].user
<1>1. GoesTo(w, IdentitySteps)
  BY IdentityFrames DEF IdentityGoOn, AccountsInv
<1>2. UNCHANGED <<load, contacts, login, identity, badge, event>>
      /\ u \in Users
  BY AtHand DEF CreateSession, Doing, Operands, IdentitySteps
<1>3. CASE Answer(w) /\ session' = session
  <2>1. UNCHANGED kyc
    BY <1>2, <1>3 DEF kyc
  <2> QED
    BY <1>1, <1>2, <1>3, <2>1, AnsweredFrame, ReaderStep DEF AccountsInv
<1>4. ASSUME NEW s \in Sessions, session[s] = NoSession,
             session' = [session EXCEPT ![s] =
               [NoSession EXCEPT !.user = u, !.state = "open"]],
             task' = [task EXCEPT ![w].at = "kyc_write", ![w].row = s]
      PROVE  AccountsInv'
  <2> DEFINE row == [NoSession EXCEPT !.user = u, !.state = "open"]
  <2>1. row \in ProviderRows /\ row.user = u /\ row.state # "absent"
        /\ NoSession.state = "absent"
    BY <1>2 DEF NoSession, ProviderRows, AnyUser
  <2> HIDE DEF row
  <2>2. session \in [Sessions -> ProviderRows]
    BY DEF AccountsInv, AccountsTypeOK, IdentityTypeOK
  <2>3. session'[s] = row /\ \A r \in Sessions \ {s} : session'[r] = session[r]
    BY <1>4, <2>2 DEF row
  <2>4. IdentityTypeOK'
    BY <1>2, <1>4, <2>1, <2>2
    DEF row, AccountsInv, AccountsTypeOK, IdentityTypeOK
  <2>5. EventsHaveSubject'
    BY <1>2, <1>4, <2>1, <2>3 DEF AccountsInv, EventsHaveSubject
  <2>6. VerdictDecidesBadge'
    BY <1>2 DEF AccountsInv, VerdictDecidesBadge
  <2>7. BadgeWasEarned'
    <3>1. \A kind \in EventKinds : <<s, kind>> \notin event
      BY <1>4, <2>1 DEF AccountsInv, EventsHaveSubject
    <3> QED
      BY <1>2, <2>3, <3>1
      DEF AccountsInv, BadgeWasEarned, Live, contacts, EventKinds
  <2>8. task'[w].at = "kyc_write" /\ task'[w].row = s /\ task'[w].user = u
    BY <1>4, AtHand DEF FrameOK, FrameFields
  <2>9. Operands(task[w])' /\ task'[w].at \notin KnownSteps
    BY <1>2, <2>8
    DEF Operands, KnownSteps, ContactsSteps, CodeSteps, LinkSteps, EditSteps,
        OtpSteps, OAuthSteps, IdentitySteps
  <2> QED
    BY <1>1, <1>2, <2>4, <2>5, <2>6, <2>7, <2>9, PlainFrame, KycStep DEF KycOK
<1> QED
  BY <1>3, <1>4 DEF CreateSession

\* The row points to the session that was created, without a verdict.
LEMMA WriteSessionStep ==
  ASSUME AccountsInv, NEW w \in Workers, WriteSession(w)
  PROVE  AccountsInv'
<1> DEFINE u == task[w].user
           s == task[w].row
<1>1. GoesTo(w, IdentitySteps)
  BY IdentityFrames DEF IdentityGoOn, AccountsInv
<1>2. UNCHANGED <<load, contacts, login, badge, session, event>> /\ Answer(w)
  BY DEF WriteSession
<1>3. u \in Users /\ s \in Sessions
  BY AtHand DEF WriteSession, Doing, Operands, IdentitySteps
<1>4. identity' = identity \/ identity' = Upserted(u, "PENDING", s)
  BY DEF WriteSession
<1>5. IdentityTypeOK'
  BY <1>2, <1>3, <1>4
  DEF Upserted, AccountsInv, AccountsTypeOK, IdentityTypeOK, IdentityRows,
      IdentityStatus
<1>6. EventsHaveSubject' /\ BadgeWasEarned'
  BY <1>2 DEF AccountsInv, EventsHaveSubject, BadgeWasEarned, Live, contacts
<1>7. VerdictDecidesBadge'
  BY <1>2, <1>3, <1>4
  DEF Upserted, AccountsInv, AccountsTypeOK, IdentityTypeOK,
      VerdictDecidesBadge
<1> QED
  BY <1>1, <1>2, <1>5, <1>6, <1>7, AnsweredFrame, KycStep
  DEF KycOK, AccountsInv

\* The sessions of an account that will be deleted are listed and redacted.
LEMMA RedactStep ==
  ASSUME AccountsInv, NEW w \in Workers, ListSessions(w) \/ RedactSession(w)
  PROVE  AccountsInv'
<1> DEFINE f == task[w]
           u == f.user
<1>1. GoesTo(w, IdentitySteps)
  BY IdentityFrames DEF IdentityGoOn, AccountsInv
<1>2. UNCHANGED <<load, contacts, login, identity, badge, event>>
  BY DEF ListSessions, RedactSession, kyc
<1>3. CASE ListSessions(w)
  <2> DEFINE s == identity[u].session
             at == IF s = Nil THEN "erase_row" ELSE "erase_documents"
  <2>1. task' = [task EXCEPT ![w].row = s, ![w].at = at]
        /\ f.at = "erase_list" /\ UNCHANGED kyc
    BY <1>3 DEF ListSessions, Doing
  <2>2. u \in Users
    BY <2>1, AtHand DEF Operands, IdentitySteps
  <2>3. s \in Sessions \union {Nil}
    BY <2>2
    DEF AccountsInv, AccountsTypeOK, IdentityTypeOK, IdentityRows
  <2>4. task'[w].at = at /\ task'[w].row = s /\ task'[w].user = u
    BY <2>1, AtHand DEF FrameOK, FrameFields
  <2>5. Operands(task[w])' /\ task'[w].at \notin KnownSteps
    BY <2>2, <2>3, <2>4
    DEF Operands, KnownSteps, ContactsSteps, CodeSteps, LinkSteps, EditSteps,
        OtpSteps, OAuthSteps, IdentitySteps
  <2> QED
    BY <1>1, <1>2, <2>1, <2>5, PlainFrame, ReaderStep
<1>4. CASE RedactSession(w)
  <2>1. PICK result \in {"redacted", "logged"} :
          session' = [session EXCEPT ![f.row].documents = result]
    BY <1>4 DEF RedactSession
  <2>2. task' = [task EXCEPT ![w].at = "erase_row"] /\ f.at = "erase_documents"
    BY <1>4 DEF RedactSession, Then, Doing
  <2>3. u \in Users /\ f.row \in Sessions
    BY <2>2, AtHand DEF Operands, IdentitySteps
  <2>4. task'[w].at = "erase_row" /\ task'[w].user = u
    BY <2>2, AtHand DEF FrameOK, FrameFields
  <2>5. Operands(task[w])' /\ task'[w].at \notin KnownSteps
    BY <2>3, <2>4
    DEF Operands, KnownSteps, ContactsSteps, CodeSteps, LinkSteps, EditSteps,
        OtpSteps, OAuthSteps, IdentitySteps
  <2>6. session \in [Sessions -> ProviderRows]
    BY DEF AccountsInv, AccountsTypeOK, IdentityTypeOK
  <2>7. /\ session' \in [Sessions -> ProviderRows]
        /\ \A r \in Sessions : /\ session'[r].user = session[r].user
                               /\ session'[r].state = session[r].state
    BY <2>1, <2>3, <2>6 DEF ProviderRows
  <2>8. KycOK'
    BY <1>2, <2>7
    DEF KycOK, AccountsInv, AccountsTypeOK, IdentityTypeOK, EventsHaveSubject,
        VerdictDecidesBadge, BadgeWasEarned, Live, contacts
  <2> QED
    BY <1>1, <1>2, <2>5, <2>8, PlainFrame, KycStep
<1> QED
  BY <1>3, <1>4

\* The provider decides, and its events are handled in any order.
LEMMA IdentityAtOnceStep ==
  ASSUME AccountsInv, IdentityAtOnce
  PROVE  AccountsInv'
<1>1. UNCHANGED <<load, task, contacts, login>>
  BY DEF IdentityAtOnce, ProviderDecides, HandleWebhook
<1>2. AccountsMoveOn
  BY <1>1, AccountsStill DEF contacts, login
<1>3. FramesOK' /\ \A v \in Workers : FrameAccountsOK(task[v])'
  BY <1>1, <1>2, FrameStays DEF AccountsInv, FramesOK
<1>4. ASSUME NEW s \in Sessions, NEW kind \in EventKinds,
             ProviderDecides(s, kind)
      PROVE  KycOK'
  <2> DEFINE state == IF kind = "requires_input" THEN "open" ELSE kind
  <2>1. /\ session[s].state = "open" /\ event' = event \union {<<s, kind>>}
        /\ UNCHANGED <<identity, badge>>
    BY <1>4 DEF ProviderDecides
  <2>2. session \in [Sessions -> ProviderRows]
    BY DEF AccountsInv, AccountsTypeOK, IdentityTypeOK
  <2>3. PICK documents \in {"none", "held", "redacted", "logged"} :
          session' = [session EXCEPT ![s].state = state,
                                     ![s].documents = documents]
    <3> DEFINE d == IF session[s].documents = "none" /\ kind # "canceled"
                    THEN "held" ELSE session[s].documents
    <3>1. d \in {"none", "held", "redacted", "logged"}
      BY <2>2 DEF ProviderRows
    <3>2. session' = [session EXCEPT ![s].state = state, ![s].documents = d]
      BY <1>4, <2>2 DEF ProviderDecides, ProviderRows
    <3> QED
      BY <3>1, <3>2
  <2>4. state \in {"open"} \union EventKinds /\ state # "absent"
    BY DEF EventKinds
  <2> HIDE DEF state
  <2>5. /\ session' \in [Sessions -> ProviderRows]
        /\ \A r \in Sessions :
             /\ session'[r].user = session[r].user
             /\ session'[r].state = IF r = s THEN state ELSE session[r].state
    BY <2>2, <2>3, <2>4 DEF ProviderRows
  <2>6. IdentityTypeOK'
    BY <2>1, <2>5 DEF AccountsInv, AccountsTypeOK, IdentityTypeOK
  <2>7. EventsHaveSubject'
    BY <2>1, <2>4, <2>5 DEF AccountsInv, EventsHaveSubject
  <2>8. VerdictDecidesBadge' /\ BadgeWasEarned'
    BY <1>1, <2>1, <2>5
    DEF AccountsInv, VerdictDecidesBadge, BadgeWasEarned, Live, contacts
  <2> QED
    BY <2>6, <2>7, <2>8 DEF KycOK
<1>5. ASSUME NEW e \in event, HandleWebhook(e)
      PROVE  KycOK'
  <2> DEFINE u == session[e[1]].user
  <2>1. /\ identity' = Upserted(u, StatusAfter(e[2]), e[1])
        /\ badge' = BadgeAfter(u, e[2])
        /\ UNCHANGED <<session, event>> /\ Live(u)
    BY <1>5 DEF HandleWebhook
  <2>2. e[1] \in Sessions /\ e[2] \in EventKinds /\ e = <<e[1], e[2]>>
    BY DEF AccountsInv, AccountsTypeOK, IdentityTypeOK
  <2>3. u \in Users
    BY <2>2 DEF AccountsInv, EventsHaveSubject
  <2>4. identity \in [Users -> IdentityRows] /\ badge \subseteq Users
    BY DEF AccountsInv, AccountsTypeOK, IdentityTypeOK
  <2>5. StatusAfter(e[2]) \in IdentityStatus
    BY DEF StatusAfter, IdentityStatus
  <2>6. /\ identity' \in [Users -> IdentityRows]
        /\ identity'[u].status = StatusAfter(e[2])
        /\ \A v \in Users \ {u} : identity'[v] = identity[v]
    BY <2>1, <2>2, <2>3, <2>4, <2>5 DEF Upserted, IdentityRows
  <2>7. /\ badge' \subseteq Users
        /\ \A v \in Users \ {u} : v \in badge' <=> v \in badge
        /\ e[2] = "verified" => u \in badge'
        /\ e[2] = "canceled" => u \notin badge'
        /\ u \in badge' => u \in badge \/ e[2] = "verified"
    BY <2>1, <2>3, <2>4 DEF BadgeAfter
  <2>8. IdentityTypeOK' /\ EventsHaveSubject'
    BY <2>1, <2>6, <2>7
    DEF AccountsInv, AccountsTypeOK, IdentityTypeOK, EventsHaveSubject
  <2>9. VerdictDecidesBadge'
    BY <2>2, <2>3, <2>6, <2>7
    DEF AccountsInv, VerdictDecidesBadge, StatusAfter, EventKinds
  <2>10. BadgeWasEarned'
    <3> SUFFICES ASSUME NEW v \in badge'
                 PROVE  Live(v)' /\ \E s \in Sessions :
                          session'[s].user = v /\ <<s, "verified">> \in event'
      BY DEF BadgeWasEarned
    <3>1. CASE v \in badge
      BY <1>1, <2>1, <3>1 DEF AccountsInv, BadgeWasEarned, Live, contacts
    <3>2. CASE v \notin badge
      <4>1. v = u /\ e[2] = "verified"
        BY <2>7, <3>2
      <4> QED
        BY <1>1, <2>1, <2>2, <4>1 DEF Live, contacts
    <3> QED
      BY <3>1, <3>2
  <2> QED
    BY <2>8, <2>9, <2>10 DEF KycOK
<1> QED
  BY <1>1, <1>3, <1>4, <1>5, KycWritten DEF IdentityAtOnce

\* An account is deleted with its tokens, linked profiles and identity, or its
\* rows refuse.
LEMMA DeleteStep ==
  ASSUME AccountsInv, NEW w \in Workers, DeleteAccount(w)
  PROVE  AccountsInv'
<1> DEFINE u == task[w].user
<1>1. GoesTo(w, IdentitySteps)
  BY IdentityFrames DEF AccountsInv
<1>2. Answer(w) /\ UNCHANGED <<load, proven, stale, maker, access, refresh,
                              session, event>>
      /\ u \in Users
  BY AtHand DEF DeleteAccount, Doing, Operands, IdentitySteps
<1>3. FrameAccountsOK(task[w])'
  BY <1>2, AnsweredFrame DEF AccountsInv
<1>4. CASE UNCHANGED <<acct, token, link, identity, badge>>
  BY <1>1, <1>2, <1>3, <1>4, ReaderStep DEF contacts, login, kyc
<1>5. CASE ~UNCHANGED <<acct, token, link, identity, badge>>
  <2> DEFINE row == [NoAccount EXCEPT !.status = "erased"]
  <2>1. /\ acct' = [acct EXCEPT ![u] = row]
        /\ token' = Purged(u, Channels)
        /\ link' = [x \in Profiles |-> IF link[x] = u THEN Nil ELSE link[x]]
        /\ identity' = [identity EXCEPT ![u] = NoIdentity]
        /\ badge' = badge \ {u}
    BY <1>5 DEF DeleteAccount, Channels
  <2>2. row \in Accounts /\ row.status = "erased"
    BY DEF NoAccount, Account, Accounts, AnyEmail, AnyPhone, Lifecycle
  <2> HIDE DEF row
  <2>3. /\ acct \in [Users -> Accounts] /\ token \in [Tokens -> TokenRows]
        /\ link \in [Profiles -> AnyUser] /\ identity \in [Users -> IdentityRows]
        /\ badge \subseteq Users
    BY DEF AccountsInv, AccountsTypeOK, ContactsTypeOK, LoginTypeOK,
           IdentityTypeOK
  <2>4. acct'[u] = row /\ \A v \in Users \ {u} : acct'[v] = acct[v]
    BY <1>2, <2>1, <2>3
  <2>5. AccountsMoveOn
    BY <1>2, <2>2, <2>4
    DEF AccountsMoveOn, AccountMovesOn, Known, Live
  <2>6. FramesOK' /\ \A v \in Workers : FrameAccountsOK(task[v])'
    BY <1>1, <1>3, <2>5, FramesAfter
  <2>7. NoToken \in TokenRows /\ NoToken.user = Nil
    BY DEF NoToken, TokenRows, AnyUser
  <2>8. /\ token' \in [Tokens -> TokenRows]
        /\ \A t \in Tokens : token'[t] = token[t] \/ token'[t] = NoToken
        /\ \A t \in Tokens :
             token[t].user = u /\ token[t].kind \in Channels => token'[t] = NoToken
    BY <2>1, <2>3, <2>7 DEF Purged
  <2>9. TokensAreLive'
    <3> SUFFICES ASSUME NEW t \in Tokens, token'[t].user # Nil
                 PROVE  Live(token[t].user)' /\ token'[t].kind \in Channels
      BY DEF TokensAreLive
    <3>1. token'[t] = token[t]
      BY <2>7, <2>8
    <3>2. /\ Live(token[t].user) /\ token[t].kind \in Channels
          /\ token[t].user \in Users
      BY <2>3, <3>1 DEF AccountsInv, TokensAreLive, TokenRows, AnyUser
    <3>3. token[t].user # u
      BY <2>7, <2>8, <3>1, <3>2
    <3> QED
      BY <2>4, <3>1, <3>2, <3>3 DEF Live
  <2>10. LinksNameAddress'
    BY <2>5, <2>8, TokensStay
  <2>11. \A v \in Users : Live(v)' => Live(v) /\ acct'[v] = acct[v] /\ v # u
    BY <2>2, <2>4 DEF Live
  <2>12. LiveHaveEmail' /\ VerifiedEmailWasProven' /\ UnprovenPhoneIsStale'
    BY <1>2, <2>11
    DEF AccountsInv, LiveHaveEmail, VerifiedEmailWasProven,
        UnprovenPhoneIsStale
  <2>13. \A x \in Profiles : link'[x] # Nil =>
           link'[x] = link[x] /\ link[x] \in Users /\ link[x] # u
    BY <2>1, <2>3 DEF AnyUser
  <2>14. LinkedAreLive'
    BY <2>4, <2>13 DEF AccountsInv, LinkedAreLive, Live
  <2>15. UnattestedStaysApart'
    BY <1>2, <2>13
    DEF AccountsInv, UnattestedStaysApart, Attested, AttestedByGoogleWeb,
        AttestedByGoogleToken, AttestedByApple, AttestedByFacebook
  <2>16. NoIdentity \in IdentityRows /\ NoIdentity.status = "absent"
    BY DEF NoIdentity, IdentityRows
  <2>17. IdentityTypeOK' /\ EventsHaveSubject'
    BY <1>2, <2>1, <2>3, <2>16
    DEF AccountsInv, AccountsTypeOK, IdentityTypeOK, EventsHaveSubject
  <2>18. VerdictDecidesBadge'
    BY <1>2, <2>1, <2>3, <2>16 DEF AccountsInv, VerdictDecidesBadge
  <2>19. BadgeWasEarned'
    BY <1>2, <2>1, <2>3, <2>4 DEF AccountsInv, BadgeWasEarned, Live
  <2>20. link' \in [Profiles -> AnyUser]
    BY <2>1, <2>3 DEF AnyUser
  <2>21. AccountsTypeOK'
    BY <1>2, <2>1, <2>2, <2>3, <2>8, <2>17, <2>20
    DEF AccountsInv, AccountsTypeOK, ContactsTypeOK, LoginTypeOK
  <2> QED
    BY <2>6, <2>9, <2>10, <2>12, <2>14, <2>15, <2>17, <2>18, <2>19, <2>21
    DEF AccountsInv
<1> QED
  BY <1>4, <1>5

----------------------------------------------------------------------------
(* Every step *)

\* The steps of the other parts of the platform are none of these.
LEMMA PartsApart ==
  /\ UploadsSteps \intersect AccountsSteps = {}
  /\ ExchangesSteps \intersect AccountsSteps = {}
  /\ RoomsSteps \intersect AccountsSteps = {}
  /\ CatalogueSteps \intersect AccountsSteps = {}
BY DEF UploadsSteps, ExchangesSteps, ChatSteps, MessageSteps, AppointmentSteps,
       RoomsSteps, CatalogueSteps, AccountsSteps, ContactsSteps, CodeSteps,
       LinkSteps, EditSteps, LoginSteps, OtpSteps, OAuthSteps, IdentitySteps

\* Requests to the other parts leave accounts alone.
LEMMA ArriveElsewhere ==
  ASSUME AccountsInv, NEW w \in Workers,
         \/ UploadsArrive(w) /\ UNCHANGED <<login, kyc>>
         \/ ExchangesArrive(w) /\ UNCHANGED <<login, kyc>>
         \/ RoomsArrive(w) /\ UNCHANGED kyc
         \/ CatalogueArrive(w) /\ UNCHANGED <<login, kyc>>
  PROVE  AccountsInv'
<1> FramesOK
  BY DEF AccountsInv
<1>1. UNCHANGED <<load, contacts, login, kyc>>
  <2>1. CASE UploadsArrive(w)
    BY <2>1
    DEF UploadsArrive, UploadAvatar, UploadWithHost, UploadToHost,
        DeletePackage, RoomsArrive, JoinRoom, Everything
  <2>2. CASE ExchangesArrive(w)
    BY <2>2
    DEF ExchangesArrive, StartChat, SendMessage, DecideAppointment,
        ResolveReport, RoomsArrive, JoinRoom, Everything
  <2>3. CASE RoomsArrive(w)
    BY <2>3 DEF RoomsArrive, JoinRoom, Everything
  <2>4. CASE CatalogueArrive(w)
    BY <2>4 DEF CatalogueArrive, Publish, RoomsArrive, JoinRoom, Everything
  <2> QED
    BY <2>1, <2>2, <2>3, <2>4
<1> QED
  BY <1>1, Elsewhere, PartsApart, UploadsArriveFrames, ExchangesArriveFrames,
     RoomsArriveFrames, CatalogueArriveFrames

\* So do their statements.
LEMMA ContinueElsewhere ==
  ASSUME AccountsInv, NEW w \in Workers,
         \/ UploadsGoOn(w) /\ UNCHANGED <<login, kyc>>
         \/ ExchangesGoOn(w) /\ UNCHANGED <<login, kyc>>
         \/ RoomsGoOn(w) /\ UNCHANGED kyc
         \/ CatalogueGoOn(w) /\ UNCHANGED <<login, kyc>>
  PROVE  AccountsInv'
<1> FramesOK
  BY DEF AccountsInv
<1>0. RoomsGoOn(w) => UNCHANGED <<load, contacts, login>>
  BY DEF RoomsGoOn, EnterRoom, Announce, Everything
<1>1. UploadsGoOn(w) => UNCHANGED <<load, contacts>>
  BY DEF UploadsGoOn, StoreFile, InsertMedia, AttachAvatar, AttachWithHost,
         AttachToHost, ReadDiscarded, DiscardFile, DiscardRow,
         DiscardImageFile, DiscardImageRow, ErasePackage
<1>2. ExchangesGoOn(w) => UNCHANGED <<load, contacts>>
  BY DEF ExchangesGoOn, CheckChat, InsertChat, CheckMessage, InsertMessage,
         WriteDecision, ReadDecision, WriteReport
<1>3. CatalogueGoOn(w) => UNCHANGED <<load, contacts>>
  BY DEF CatalogueGoOn, FindPlace, InsertPlace, LocatePlace, InsertAd
<1>4. UNCHANGED <<load, contacts, login, kyc>>
  BY <1>0, <1>1, <1>2, <1>3
<1> QED
  BY <1>4, Elsewhere, PartsApart, UploadsFrames, ExchangesFrames,
     RoomsFrames, CatalogueFrames

\* And so does what they do at once.
LEMMA AtOnceElsewhere ==
  ASSUME AccountsInv, AtOnce, ~LoginAtOnce, ~IdentityAtOnce
  PROVE  AccountsInv'
<1>1. UNCHANGED task
  BY AtOnceFrames
<1>2. UNCHANGED <<load, contacts>>
  BY DEF AtOnce, UploadsAtOnce, ExchangesAtOnce, RoomsAtOnce, CatalogueAtOnce,
         LinkPackage, EraseHost, Block, Unblock, FileReport, PanelEdits,
         EditReport, EraseNote, EraseChat, Disconnect, Connect, LeaveRoom,
         Type, Everything, Withdraw, Reopen, EraseAd, Becomes, Search, ReadNearby, ReadRows, ReadCount, NextPage
<1>3. UNCHANGED <<login, kyc>>
  BY DEF AtOnce, RoomsAtOnce, Disconnect, Connect, LeaveRoom, Type, Everything
<1> QED
  BY <1>1, <1>2, <1>3, Aside

\* A restart loses the frames and nothing else of this part.
LEMMA RestartStep ==
  ASSUME AccountsInv, Restart
  PROVE  AccountsInv'
<1>1. UNCHANGED <<load, contacts, login, kyc>>
      /\ task' = [w \in Workers |-> Free]
  BY DEF Restart
<1>2. FramesOK' /\ \A w \in Workers : FrameAccountsOK(task[w])'
  <2>1. \A w \in Workers : task'[w].at \notin AccountsSteps
    BY <1>1, FreeFrame
    DEF AccountsSteps, ContactsSteps, CodeSteps, LinkSteps, EditSteps,
        LoginSteps, OtpSteps, OAuthSteps, IdentitySteps
  <2> QED
    BY <1>1, <2>1, FreeFrame, SomeFrame DEF FramesOK
<1>3. KycOK'
  BY <1>1, KycStays DEF LiveStay, Live, contacts
<1> QED
  BY <1>1, <1>2, <1>3, KycWritten

\* Every step keeps the invariant.
LEMMA AccountsStep ==
  ASSUME AccountsInv, [Next]_vars
  PROVE  AccountsInv'
<1> FramesOK
  BY DEF AccountsInv
<1>1. ASSUME NEW w \in Workers, Arrive(w)
      PROVE  AccountsInv'
  <2>1. CASE ContactsArrive(w) /\ UNCHANGED <<login, kyc>>
    BY <2>1, RegisterStep, RequestStep, OpenStep DEF ContactsArrive, Channels
  <2>2. CASE LoginArrive(w) /\ UNCHANGED kyc
    BY <2>2, SubmitStep, OAuthStep, LoginArriveFrames DEF LoginArrive, Channels
  <2>3. CASE IdentityArrive(w)
    <3>1. UNCHANGED kyc
      BY <2>3 DEF IdentityArrive, StartVerification, EraseAccount
    <3> QED
      BY <2>3, <3>1, SubmitStep, IdentityArriveFrames DEF IdentityArrive
  <2> QED
    BY <1>1, <2>1, <2>2, <2>3, ArriveElsewhere DEF Arrive
<1>2. ASSUME NEW w \in Workers, Continue(w)
      PROVE  AccountsInv'
  <2>1. CASE ContactsGoOn(w) /\ UNCHANGED <<login, kyc>>
    BY <2>1, ReadForLinkStep, ReadForCodeStep, PurgeStep, InsertStep,
       CommitStep, WriteStep
    DEF ContactsGoOn
  <2>2. CASE LoginGoOn(w) /\ UNCHANGED kyc
    BY <2>2, LoadStep, ConsumeStep, MarkStep, FindStep, CreateStep, LinkStep
    DEF LoginGoOn
  <2>3. CASE IdentityGoOn(w)
    BY <2>3, CreateSessionStep, WriteSessionStep, RedactStep DEF IdentityGoOn
  <2>4. CASE DeleteAccountAndRest(w)
    BY <2>4, DeleteStep DEF DeleteAccountAndRest
  <2> QED
    BY <1>2, <2>1, <2>2, <2>3, <2>4, ContinueElsewhere DEF Continue
<1>3. CASE AtOnce
  BY <1>3, LoginAtOnceStep, IdentityAtOnceStep, AtOnceElsewhere DEF AtOnce,
     LoginAtOnce, IdentityAtOnce
<1>4. CASE Restart
  BY <1>4, RestartStep
<1>5. CASE UNCHANGED vars
  BY <1>5, Aside DEF vars
<1> QED
  BY <1>1, <1>2, <1>3, <1>4, <1>5 DEF Next

\* The members' addresses were proven, and nobody has an identity yet.
LEMMA AccountsStart == Init => AccountsInv
<1> SUFFICES ASSUME Init PROVE AccountsInv
  OBVIOUS
<1> USE DEF Init, TrafficInit, ContactsInit, LoginInit, IdentityInit
<1>1. FramesOK
  BY FramesInit
<1>2. \A w \in Workers : FrameAccountsOK(task[w])
  BY FreeFrame
  DEF FrameAccountsOK, Operands, HoldsKnownUser, HoldsAddress, HoldsProof,
      HoldsAnswer, HoldsAttested, KnownSteps, ContactsSteps, CodeSteps,
      LinkSteps, EditSteps, OtpSteps, OAuthSteps, IdentitySteps
<1>3. load.members \subseteq Users
  BY LoadsAssumption
<1>4. /\ NoAccount \in Accounts /\ NoAccount.status = "absent"
      /\ \A e \in Emails : /\ Account(e, TRUE, Nil) \in Accounts
                          /\ Account(e, TRUE, Nil).email = e
                          /\ Account(e, TRUE, Nil).status = "live"
                          /\ ~Account(e, TRUE, Nil).phoneOk
  BY DEF NoAccount, Account, Accounts, AnyEmail, AnyPhone, Lifecycle
<1>5. \A u \in Users : MemberEmail[u] \in Emails
  BY MembersAssumption
<1>6. NoToken \in TokenRows /\ NoToken.user = Nil /\ NoToken.form # "link"
  BY ColumnsAssumption DEF NoToken, TokenRows, AnyUser
<1>7. ContactsTypeOK
  <2>1. acct \in [Users -> Accounts]
    BY <1>4, <1>5
  <2>2. token \in [Tokens -> TokenRows]
    BY <1>6
  <2>3. proven \subseteq Users \X (Emails \union Phones)
    BY <1>3, <1>5
  <2> QED
    BY <2>1, <2>2, <2>3 DEF ContactsTypeOK
<1>8. LoginTypeOK
  BY <1>3 DEF LoginTypeOK, AnyUser
<1>9. NoIdentity \in IdentityRows /\ NoIdentity.status = "absent"
      /\ NoSession \in ProviderRows /\ NoSession.state = "absent"
  BY DEF NoIdentity, IdentityRows, NoSession, ProviderRows, AnyUser
<1>10. IdentityTypeOK /\ EventsHaveSubject /\ VerdictDecidesBadge
       /\ BadgeWasEarned
  BY <1>9
  DEF IdentityTypeOK, EventsHaveSubject, VerdictDecidesBadge, BadgeWasEarned
<1>11. TokensAreLive /\ LinksNameAddress
  BY <1>6 DEF TokensAreLive, LinksNameAddress
<1>12. \A u \in Users : Live(u) =>
         u \in load.members /\ acct[u] = Account(MemberEmail[u], TRUE, Nil)
  BY <1>4 DEF Live
<1>13. LiveHaveEmail /\ VerifiedEmailWasProven /\ UnprovenPhoneIsStale
  <2>1. \A u \in Users : Live(u) =>
          /\ u \in load.members /\ acct[u].email = MemberEmail[u]
          /\ ~acct[u].phoneOk /\ <<u, MemberEmail[u]>> \in proven
    BY <1>4, <1>5, <1>12
  <2> QED
    BY <1>5, <2>1
    DEF LiveHaveEmail, VerifiedEmailWasProven, UnprovenPhoneIsStale
<1>14. LinkedAreLive /\ UnattestedStaysApart
  BY DEF LinkedAreLive, UnattestedStaysApart
<1>15. load \in Loads
  OBVIOUS
<1> QED
  BY <1>1, <1>2, <1>7, <1>8, <1>10, <1>11, <1>13, <1>14, <1>15
  DEF AccountsInv, AccountsTypeOK

----------------------------------------------------------------------------
(* Theorems *)

\* The accounts, what their handlers hold and what the identity provider sent
\* stay consistent in every behaviour of the platform.
THEOREM AccountsInvariant == Spec => []AccountsInv
<1>1. Init => AccountsInv
  BY AccountsStart
<1>2. AccountsInv /\ [Next]_vars => AccountsInv'
  BY AccountsStep
<1> QED
  BY <1>1, <1>2, PTL DEF Spec

\* An address that is shown as verified is one whose owner answered a message
\* sent there, whatever links, codes and changes of address are in flight.
THEOREM EmailsAreProven == Spec => []VerifiedEmailWasProven
<1>1. AccountsInv => VerifiedEmailWasProven
  BY DEF AccountsInv
<1> QED
  BY <1>1, AccountsInvariant, PTL

\* A number nobody answered from is shown as verified only after a request that
\* wrote over another one: the one gap in the proof of phones is known.
THEOREM PhonesAreProvenOrStale == Spec => []UnprovenPhoneIsStale
<1>1. AccountsInv => UnprovenPhoneIsStale
  BY DEF AccountsInv
<1> QED
  BY <1>1, AccountsInvariant, PTL

\* A profile no provider attests enters no account but the one it created.
THEOREM ProfilesStayApart == Spec => []UnattestedStaysApart
<1>1. AccountsInv => UnattestedStaysApart
  BY DEF AccountsInv
<1> QED
  BY <1>1, AccountsInvariant, PTL

\* The verdict a user is shown and the badge agree, in whatever order the
\* events of several sessions are handled.
THEOREM VerdictsAgree == Spec => []VerdictDecidesBadge
<1>1. AccountsInv => VerdictDecidesBadge
  BY DEF AccountsInv
<1> QED
  BY <1>1, AccountsInvariant, PTL

\* A badge belongs to an account that exists and whose documents were verified.
THEOREM BadgesAreEarned == Spec => []BadgeWasEarned
<1>1. AccountsInv => BadgeWasEarned
  BY DEF AccountsInv
<1> QED
  BY <1>1, AccountsInvariant, PTL

----------------------------------------------------------------------------
(* The types of the platform *)

\* What a handler of any part holds.
TypedFrame(f) ==
  /\ f.next \in {"idle", "mail_read", "mark"}
  /\ f.user \in Things /\ f.addr \in Things /\ f.phone \in Things
  /\ f.at \in MessageSteps => f.row \in Chats

NoteFields == {"status", "chat", "from"}

NotesTyped ==
  /\ DOMAIN note = Notes
  /\ \A n \in Notes : DOMAIN note[n] = NoteFields
                        /\ note[n].chat \in Chats \union {Nil}

TypesInv ==
  /\ AccountsInv
  /\ \A w \in Workers : TypedFrame(task[w])
  /\ NotesTyped

\* The empty frame has its types.
LEMMA FreeTyped == TypedFrame(Free)
BY DEF Free, TypedFrame, Things, MessageSteps

\* An answer empties the frame.
LEMMA AnswerTyped ==
  ASSUME TypesInv, NEW w \in Workers, Answer(w)
  PROVE  TypedFrame(task'[w])
BY FreeTyped DEF TypesInv, AccountsInv, FramesOK, Answer

\* A handler that goes on with another statement keeps what it holds.
LEMMA ThenTyped ==
  ASSUME TypesInv, NEW w \in Workers, NEW step, Then(w, step),
         step \in MessageSteps => task[w].row \in Chats
  PROVE  TypedFrame(task'[w])
<1>1. /\ DOMAIN task = Workers /\ DOMAIN task[w] = FrameFields
      /\ TypedFrame(task[w])
  BY DEF TypesInv, AccountsInv, FramesOK, FrameOK
<1> QED
  BY <1>1 DEF Then, TypedFrame, FrameFields

\* A request begins with the frame it was given.
LEMMA StartTyped ==
  ASSUME TypesInv, NEW w \in Workers, NEW f, Start(w, f), TypedFrame(f)
  PROVE  TypedFrame(task'[w])
BY DEF TypesInv, AccountsInv, FramesOK, Start

\* A handler goes on with what it read last.
LEMMA NextTyped ==
  ASSUME TypesInv, NEW w \in Workers, NEW f,
         task' = [task EXCEPT ![w] = f], TypedFrame(f)
  PROVE  TypedFrame(task'[w])
BY DEF TypesInv, AccountsInv, FramesOK

\* What a handler of the accounts goes on with.
LEMMA ContactsTyped ==
  ASSUME TypesInv, NEW w \in Workers, ContactsGoOn(w)
  PROVE  TypedFrame(task'[w])
<1> DEFINE f == task[w]
<1>1. /\ DOMAIN task = Workers /\ DOMAIN f = FrameFields /\ TypedFrame(f)
      /\ f.at \in CodeSteps => f.next \in {"idle", "mail_read"}
      /\ Operands(f) /\ acct \in [Users -> Accounts]
  BY DEF TypesInv, AccountsInv, FramesOK, FrameOK, FrameAccountsOK,
         AccountsTypeOK, ContactsTypeOK
<1>2. CASE ReadForLink(w)
  <2>1. CASE Answer(w)
    BY <2>1, AnswerTyped
  <2>2. CASE ~Answer(w)
    <3>1. PICK e : task' = [task EXCEPT ![w].at = "mail_purge",
                              ![w].kind = "EMAIL", ![w].addr = e]
                   /\ e \in {acct[f.user].pending, acct[f.user].email}
      BY <1>2, <2>2 DEF ReadForLink
    <3>2. f.user \in Users
      BY <1>1, <1>2
      DEF ReadForLink, Doing, Operands, ContactsSteps, LinkSteps
    <3>3. e \in Things
      BY <1>1, <3>1, <3>2 DEF Accounts, AnyEmail, Things
    <3> QED
      BY <1>1, <3>1, <3>3 DEF TypedFrame, FrameFields, MessageSteps
  <2> QED
    BY <2>1, <2>2
<1>3. CASE PurgeLinks(w)
  BY <1>3, ThenTyped DEF PurgeLinks, MessageSteps
<1>4. CASE InsertLink(w)
  BY <1>4, AnswerTyped DEF InsertLink
<1>5. CASE CommitLink(w)
  BY <1>5, AnswerTyped DEF CommitLink
<1>6. CASE ReadForCode(w)
  <2>1. CASE Answer(w)
    BY <2>1, AnswerTyped
  <2>2. CASE ~Answer(w)
    <3>1. PICK e : task' = [task EXCEPT ![w].at = "code_purge", ![w].addr = e]
                   /\ e \in {acct[f.user].phone, acct[f.user].email}
      BY <1>6, <2>2 DEF ReadForCode, Channel
    <3>2. f.user \in Users
      BY <1>1, <1>6
      DEF ReadForCode, Doing, Operands, ContactsSteps, CodeSteps
    <3>3. e \in Things
      BY <1>1, <3>1, <3>2 DEF Accounts, AnyEmail, AnyPhone, Things
    <3> QED
      BY <1>1, <3>1, <3>3 DEF TypedFrame, FrameFields, MessageSteps
  <2> QED
    BY <2>1, <2>2
<1>7. CASE PurgeCodes(w)
  BY <1>7, ThenTyped DEF PurgeCodes, MessageSteps
<1>8. CASE InsertCode(w)
  <2>1. f.next \notin MessageSteps
    BY <1>1, <1>8 DEF InsertCode, Doing, CodeSteps, MessageSteps
  <2>2. Answer(w) \/ Then(w, f.next)
    BY <1>8 DEF InsertCode
  <2>3. PICK step : step = f.next
    OBVIOUS
  <2> QED
    BY <2>1, <2>2, <2>3, AnswerTyped, ThenTyped
<1>9. CASE CheckTaken(w)
  BY <1>9, AnswerTyped, ThenTyped DEF CheckTaken, MessageSteps
<1>10. CASE WriteContacts(w)
  <2>1. CASE Answer(w)
    BY <2>1, AnswerTyped
  <2>2. CASE ~Answer(w)
    <3> DEFINE g == [Free EXCEPT !.at = "mail_read", !.user = f.user]
    <3>1. task' = [task EXCEPT ![w] = g]
      BY <1>10, <2>2 DEF WriteContacts
    <3>2. TypedFrame(g)
      BY <1>1, FreeTyped DEF Free, TypedFrame, MessageSteps
    <3> HIDE DEF g
    <3> QED
      BY <1>1, <3>1, <3>2
  <2> QED
    BY <2>1, <2>2
<1> QED
  BY <1>2, <1>3, <1>4, <1>5, <1>6, <1>7, <1>8, <1>9, <1>10 DEF ContactsGoOn

\* What a handler of a sign-in goes on with.
LEMMA LoginTyped ==
  ASSUME TypesInv, NEW w \in Workers, LoginGoOn(w)
  PROVE  TypedFrame(task'[w])
<1> DEFINE f == task[w]
<1>1. /\ DOMAIN task = Workers /\ DOMAIN f = FrameFields /\ TypedFrame(f)
      /\ Operands(f) /\ acct \in [Users -> Accounts] /\ load \in Loads
  BY DEF TypesInv, AccountsInv, FramesOK, FrameOK, FrameAccountsOK,
         AccountsTypeOK, ContactsTypeOK
<1>2. ASSUME NEW u \in Users, NEW step \in {"oauth_link"},
             task' = [task EXCEPT ![w].at = step, ![w].user = u]
      PROVE  TypedFrame(task'[w])
  BY <1>1, <1>2 DEF TypedFrame, FrameFields, MessageSteps, Things
<1>3. CASE LoadOtp(w)
  <2>1. CASE Answer(w)
    BY <2>1, AnswerTyped
  <2>2. CASE ~Answer(w)
    <3>1. PICK e : task' = [task EXCEPT ![w].at = "otp_purge", ![w].addr = e]
                   /\ e \in {acct[f.user].phone, acct[f.user].email}
      BY <1>3, <2>2 DEF LoadOtp, Channel
    <3>2. f.user \in Users
      BY <1>1, <1>3 DEF LoadOtp, Doing, Operands, OtpSteps
    <3>3. e \in Things
      BY <1>1, <3>1, <3>2 DEF Accounts, AnyEmail, AnyPhone, Things
    <3> QED
      BY <1>1, <3>1, <3>3 DEF TypedFrame, FrameFields, MessageSteps
  <2> QED
    BY <2>1, <2>2
<1>4. CASE ConsumeOtp(w)
  BY <1>4, AnswerTyped, ThenTyped DEF ConsumeOtp, MessageSteps
<1>5. CASE MarkVerified(w)
  BY <1>5, AnswerTyped DEF MarkVerified
<1>6. CASE FindAccount(w)
  <2>1. CASE Answer(w)
    BY <2>1, AnswerTyped
  <2>2. CASE Then(w, "oauth_create")
    BY <2>2, ThenTyped DEF MessageSteps
  <2>3. CASE \E u \in Users :
               task' = [task EXCEPT ![w].at = "oauth_link", ![w].user = u]
    BY <1>2, <2>3
  <2> QED
    BY <1>6, <2>1, <2>2, <2>3 DEF FindAccount
<1>7. CASE CreateAccount(w)
  <2>1. load.newcomers \subseteq Users
    BY <1>1, LoadsAssumption
  <2>2. CASE Answer(w)
    BY <2>2, AnswerTyped
  <2>3. CASE \E u \in load.newcomers :
               task' = [task EXCEPT ![w].at = "oauth_link", ![w].user = u]
    BY <1>2, <2>1, <2>3
  <2> QED
    BY <1>7, <2>2, <2>3 DEF CreateAccount
<1>8. CASE LinkProfile(w)
  BY <1>8, AnswerTyped DEF LinkProfile
<1> QED
  BY <1>3, <1>4, <1>5, <1>6, <1>7, <1>8 DEF LoginGoOn

\* A handler that only changes the row or the kind it works on.
LEMMA KeptTyped ==
  ASSUME TypesInv, NEW w \in Workers, task'[w].at \notin MessageSteps,
         task'[w].user = task[w].user, task'[w].addr = task[w].addr,
         task'[w].phone = task[w].phone, task'[w].next = task[w].next
  PROVE  TypedFrame(task'[w])
BY DEF TypesInv, TypedFrame

\* The shape of a frame.
LEMMA ShapeTyped ==
  ASSUME TypesInv, NEW w \in Workers
  PROVE  DOMAIN task = Workers /\ DOMAIN task[w] = FrameFields
BY DEF TypesInv, AccountsInv, FramesOK, FrameOK

\* What a verification or a deletion goes on with.
LEMMA IdentityTyped ==
  ASSUME TypesInv, NEW w \in Workers, IdentityGoOn(w) \/ DeleteAccount(w)
  PROVE  TypedFrame(task'[w])
<1> USE ShapeTyped, KeptTyped DEF FrameFields, MessageSteps
<1>1. CASE CreateSession(w)
  BY <1>1, AnswerTyped DEF CreateSession
<1>2. CASE WriteSession(w)
  BY <1>2, AnswerTyped DEF WriteSession
<1>3. CASE ListSessions(w)
  BY <1>3 DEF ListSessions
<1>4. CASE RedactSession(w)
  BY <1>4, ThenTyped DEF RedactSession
<1>5. CASE DeleteAccount(w)
  BY <1>5, AnswerTyped DEF DeleteAccount
<1> QED
  BY <1>1, <1>2, <1>3, <1>4, <1>5 DEF IdentityGoOn

\* What an upload or the removal of a file goes on with.
LEMMA UploadsTyped ==
  ASSUME TypesInv, NEW w \in Workers, UploadsGoOn(w)
  PROVE  TypedFrame(task'[w])
<1> USE ShapeTyped, KeptTyped DEF FrameFields, MessageSteps
<1>1. CASE StoreFile(w)
  BY <1>1, AnswerTyped DEF StoreFile
<1>2. CASE InsertMedia(w)
  BY <1>2, ThenTyped DEF InsertMedia
<1>3. CASE AttachAvatar(w)
  BY <1>3, AnswerTyped DEF AttachAvatar
<1>4. CASE AttachWithHost(w)
  BY <1>4, AnswerTyped, ThenTyped DEF AttachWithHost
<1>5. CASE AttachToHost(w)
  BY <1>5, AnswerTyped DEF AttachToHost
<1>6. CASE ReadDiscarded(w)
  BY <1>6, AnswerTyped, ThenTyped DEF ReadDiscarded
<1>7. CASE DiscardFile(w)
  BY <1>7, AnswerTyped, ThenTyped DEF DiscardFile
<1>8. CASE DiscardRow(w)
  BY <1>8, AnswerTyped DEF DiscardRow
<1>9. CASE DiscardImageFile(w)
  BY <1>9 DEF DiscardImageFile, Doing
<1>10. CASE DiscardImageRow(w)
  BY <1>10 DEF DiscardImageRow, Doing
<1>11. CASE ErasePackage(w)
  BY <1>11, AnswerTyped DEF ErasePackage
<1> QED
  BY <1>1, <1>2, <1>3, <1>4, <1>5, <1>6, <1>7, <1>8, <1>9, <1>10, <1>11
  DEF UploadsGoOn

\* What a conversation, a message, an appointment or a report goes on with.
LEMMA ExchangesTyped ==
  ASSUME TypesInv, NEW w \in Workers, ExchangesGoOn(w)
  PROVE  TypedFrame(task'[w])
<1>1. CASE CheckChat(w)
  BY <1>1, AnswerTyped, ThenTyped DEF CheckChat, MessageSteps
<1>2. CASE InsertChat(w)
  BY <1>2, AnswerTyped DEF InsertChat
<1>3. CASE CheckMessage(w)
  <2>1. task[w].row \in Chats
    BY <1>3 DEF CheckMessage, Doing, TypesInv, TypedFrame, MessageSteps
  <2> QED
    BY <1>3, <2>1, AnswerTyped, ThenTyped DEF CheckMessage
<1>4. CASE InsertMessage(w)
  <2>1. task[w].row \in Chats
    BY <1>4 DEF InsertMessage, Doing, TypesInv, TypedFrame, MessageSteps
  <2> DEFINE f(n) == [Free EXCEPT !.at = "announce", !.row = n,
                        !.addr = task[w].row, !.kind = "PENDING"]
  <2>2. \A n \in Notes : TypedFrame(f(n))
    BY <2>1, FreeTyped DEF Free, TypedFrame, MessageSteps, Things
  <2> HIDE DEF f
  <2>3. Answer(w) \/ \E n \in Notes : task' = [task EXCEPT ![w] = f(n)]
    BY <1>4 DEF InsertMessage, f
  <2> QED
    BY <2>2, <2>3, AnswerTyped, ShapeTyped
<1>5. CASE WriteDecision(w)
  BY <1>5, AnswerTyped, ThenTyped DEF WriteDecision, MessageSteps
<1>6. CASE ReadDecision(w)
  BY <1>6, ShapeTyped, KeptTyped DEF ReadDecision, FrameFields, MessageSteps
<1>7. CASE WriteReport(w)
  BY <1>7, AnswerTyped DEF WriteReport
<1> QED
  BY <1>1, <1>2, <1>3, <1>4, <1>5, <1>6, <1>7 DEF ExchangesGoOn

\* What a room or a publication goes on with.
LEMMA RoomsTyped ==
  ASSUME TypesInv, NEW w \in Workers, RoomsGoOn(w) \/ CatalogueGoOn(w)
  PROVE  TypedFrame(task'[w])
<1> USE AnswerTyped, ThenTyped DEF MessageSteps
<1>1. CASE RoomsGoOn(w)
  BY <1>1 DEF RoomsGoOn, EnterRoom, Announce
<1>2. CASE FindPlace(w)
  BY <1>2 DEF FindPlace
<1>3. CASE InsertPlace(w)
  BY <1>3 DEF InsertPlace
<1>4. CASE LocatePlace(w)
  BY <1>4 DEF LocatePlace
<1>5. CASE InsertAd(w)
  BY <1>5 DEF InsertAd
<1> QED
  BY <1>1, <1>2, <1>3, <1>4, <1>5 DEF CatalogueGoOn

\* What a request holds when it arrives.
LEMMA ArriveTyped ==
  ASSUME TypesInv, NEW w \in Workers, Arrive(w)
  PROVE  TypedFrame(task'[w])
<1> USE ShapeTyped DEF Start, Free, TypedFrame, MessageSteps
<1>1. CASE ContactsArrive(w)
  <2>1. /\ load.newcomers \subseteq Users /\ load.phones \subseteq Phones
        /\ load.emails \subseteq Emails
    BY LoadsAssumption DEF TypesInv, AccountsInv, AccountsTypeOK
  <2>2. /\ \A t \in Tokens : token[t].user \in Users \union {Nil}
        /\ \A u \in Users : acct[u].pending \in Emails \union {Nil}
    BY DEF TypesInv, AccountsInv, AccountsTypeOK, ContactsTypeOK, TokenRows,
           Accounts, AnyUser, AnyEmail
  <2>3. CASE \E u \in load.newcomers, e \in load.emails,
                p \in load.phones \union {Nil} : Register(w, u, e, p)
    BY <2>1, <2>3 DEF Register, Things
  <2>4. CASE \E u \in Users : ResendLink(w, u)
    BY <2>4 DEF ResendLink, Things
  <2>5. CASE \E t \in Tokens : OpenLink(w, t)
    <3>1. PICK t \in Tokens : OpenLink(w, t)
      BY <2>5
    <3>2. PICK u : u = token[t].user
      OBVIOUS
    <3>3. u \in Users
      BY <3>1, <3>2
      DEF OpenLink, TypesInv, AccountsInv, LinksNameAddress, AccountsTypeOK,
          ContactsTypeOK, TokenRows, AnyUser
    <3> QED
      BY <2>2, <3>1, <3>2, <3>3 DEF OpenLink, Things
  <2>6. CASE \E u \in Users, kind \in {"EMAIL", "PHONE"} : RequestCode(w, u, kind)
    BY <2>6 DEF RequestCode, Things
  <2>7. CASE \E u \in Users, e \in load.emails \union {Nil},
                p \in load.phones \union {Nil} : EditContacts(w, u, e, p)
    BY <2>1, <2>7 DEF EditContacts, Things
  <2> QED
    BY <1>1, <2>3, <2>4, <2>5, <2>6, <2>7 DEF ContactsArrive
<1>2. CASE LoginArrive(w)
  <2>1. CASE \E u \in Users, kind \in {"EMAIL", "PHONE"} : SubmitOtp(w, u, kind)
    BY <2>1 DEF SubmitOtp, Things
  <2>2. CASE \E x \in Profiles, flow \in Flows : OAuthLogin(w, x, flow)
    <3> PICK x \in Profiles, flow \in Flows : OAuthLogin(w, x, flow)
      BY <2>2
    <3>1. CASE link[x] # Nil
      BY <3>1 DEF OAuthLogin, TypesInv
    <3>2. CASE link[x] = Nil
      <4>1. PICK step \in {"oauth_create", "oauth_find"} :
              Start(w, [Free EXCEPT !.row = x, !.kind = flow, !.at = step])
        BY <3>2 DEF OAuthLogin
      <4> QED
        BY <4>1 DEF Things
    <3> QED
      BY <3>1, <3>2
  <2> QED
    BY <1>2, <2>1, <2>2 DEF LoginArrive
<1>3. CASE IdentityArrive(w)
  <2>1. CASE \E u \in Users : StartVerification(w, u)
    BY <2>1 DEF StartVerification, Things
  <2>2. CASE \E u \in Users : EraseAccount(w, u)
    BY <2>2 DEF EraseAccount, Things
  <2> QED
    BY <1>3, <2>1, <2>2 DEF IdentityArrive
<1>4. CASE UploadsArrive(w)
  <2>1. CASE \E u \in Users : UploadAvatar(w, u)
    BY <2>1 DEF UploadAvatar, Things
  <2>2. CASE \E h \in Hosts : UploadWithHost(w, h)
    BY <2>2 DEF UploadWithHost, Things
  <2>3. CASE \E h \in Hosts : UploadToHost(w, h)
    BY <2>3 DEF UploadToHost, Things
  <2>4. CASE \E h \in Hosts : DeletePackage(w, h)
    BY <2>4 DEF DeletePackage, Things
  <2> QED
    BY <1>4, <2>1, <2>2, <2>3, <2>4 DEF UploadsArrive
<1>5. CASE ExchangesArrive(w)
  <2>1. CASE \E c \in Chats, u \in Users : StartChat(w, c, u)
    BY <2>1 DEF StartChat, Things
  <2>2. CASE \E c \in Chats, u \in Users : SendMessage(w, c, u)
    BY <2>2 DEF SendMessage, Things
  <2>3. CASE \E n \in Notes, u \in Users, d \in Decisions :
               DecideAppointment(w, n, u, d)
    BY <2>3 DEF DecideAppointment, Things, TypesInv, NotesTyped
  <2>4. CASE \E r \in Reports, outcome \in Outcomes : ResolveReport(w, r, outcome)
    BY <2>4 DEF ResolveReport, Things
  <2> QED
    BY <1>5, <2>1, <2>2, <2>3, <2>4 DEF ExchangesArrive
<1>6. CASE RoomsArrive(w)
  BY <1>6 DEF RoomsArrive, JoinRoom, Things
<1>7. CASE CatalogueArrive(w)
  BY <1>7 DEF CatalogueArrive, Publish, Things
<1> QED
  BY <1>1, <1>2, <1>3, <1>4, <1>5, <1>6, <1>7 DEF Arrive

\* A message is of a conversation from its insertion on.
LEMMA NotesStay ==
  ASSUME TypesInv, ExchangesAtOnce \/ \E w \in Workers : ExchangesGoOn(w)
                     \/ ExchangesArrive(w)
  PROVE  NotesTyped'
<1> USE DEF NotesTyped, NoteFields
<1>1. NotesTyped
  BY DEF TypesInv
<1>2. CASE note' = note
  BY <1>1, <1>2
<1>3. CASE \E w \in Workers : InsertMessage(w)
  <2> PICK w \in Workers : InsertMessage(w)
    BY <1>3
  <2>1. task[w].row \in Chats
    BY DEF InsertMessage, Doing, TypesInv, TypedFrame, MessageSteps
  <2>2. \/ note' = note
        \/ \E n \in Notes : note' = [note EXCEPT ![n] =
             [status |-> "PENDING", chat |-> task[w].row, from |-> task[w].user]]
    BY DEF InsertMessage
  <2> QED
    BY <1>1, <2>1, <2>2
<1>4. CASE \E w \in Workers : WriteDecision(w)
  <2> PICK w \in Workers : WriteDecision(w)
    BY <1>4
  <2>1. PICK n, kind : note' \in {note, [note EXCEPT ![n].status = kind]}
    BY DEF WriteDecision
  <2> QED
    BY <1>1, <2>1
<1>5. ASSUME NEW gone, EraseNotes(gone) PROVE NotesTyped'
  BY <1>1, <1>5 DEF EraseNotes
<1>6. CASE ExchangesAtOnce
  BY <1>2, <1>5, <1>6
  DEF ExchangesAtOnce, Block, Unblock, FileReport, PanelEdits, EditReport,
      EraseNote, EraseChat
<1>7. CASE \E w \in Workers : ExchangesArrive(w)
  BY <1>2, <1>7
  DEF ExchangesArrive, StartChat, SendMessage, DecideAppointment,
      ResolveReport, exchanges
<1>8. CASE \E w \in Workers : ExchangesGoOn(w)
  BY <1>2, <1>3, <1>4, <1>8
  DEF ExchangesGoOn, CheckChat, InsertChat, CheckMessage, ReadDecision,
      WriteReport, exchanges
<1> QED
  BY <1>6, <1>7, <1>8

\* The other parts write no message.
LEMMA NotesStep ==
  ASSUME TypesInv, [Next]_vars
  PROVE  NotesTyped'
<1> USE DEF exchanges
<1>1. CASE note' = note
  BY <1>1 DEF TypesInv, NotesTyped
<1>2. CASE \E w \in Workers : Arrive(w)
  <2> PICK w \in Workers : Arrive(w)
    BY <1>2
  <2>1. CASE RoomsArrive(w)
    BY <1>1, <2>1 DEF RoomsArrive, JoinRoom, Everything
  <2> QED
    BY <1>1, <2>1, NotesStay DEF Arrive
<1>3. CASE \E w \in Workers : Continue(w)
  <2> PICK w \in Workers : Continue(w)
    BY <1>3
  <2>1. CASE RoomsGoOn(w)
    BY <1>1, <2>1 DEF RoomsGoOn, EnterRoom, Announce, Everything
  <2>2. CASE DeleteAccountAndRest(w)
    <3>1. CASE acct' = acct
      BY <1>1, <2>2, <3>1 DEF DeleteAccountAndRest
    <3>2. CASE acct' # acct
      BY <1>1, <2>2, <3>2 DEF DeleteAccountAndRest
    <3> QED
      BY <3>1, <3>2
  <2> QED
    BY <1>1, <2>1, <2>2, NotesStay DEF Continue
<1>4. CASE AtOnce
  <2>1. CASE RoomsAtOnce
    BY <1>1, <2>1 DEF RoomsAtOnce, Connect, Disconnect, LeaveRoom, Type,
       Everything
  <2> QED
    BY <1>1, <1>4, <2>1, NotesStay DEF AtOnce
<1>5. CASE Restart
  BY <1>1, <1>5 DEF Restart
<1>6. CASE UNCHANGED vars
  BY <1>1, <1>6 DEF vars
<1> QED
  BY <1>2, <1>3, <1>4, <1>5, <1>6 DEF Next

\* The frames of the other workers stay.
LEMMA WorkerTyped ==
  ASSUME TypesInv, NEW w \in Workers, Arrive(w) \/ Continue(w)
  PROVE  \A v \in Workers : TypedFrame(task'[v])
<1>1. TypedFrame(task'[w])
  BY ArriveTyped, ContactsTyped, LoginTyped, IdentityTyped, UploadsTyped,
     ExchangesTyped, RoomsTyped
  DEF Continue, DeleteAccountAndRest
<1>2. \A v \in Workers \ {w} : task'[v] = task[v]
  BY ContactsArriveFrames, LoginArriveFrames, IdentityArriveFrames,
     UploadsArriveFrames, ExchangesArriveFrames, RoomsArriveFrames,
     CatalogueArriveFrames, ContactsFrames, LoginFrames, IdentityFrames,
     UploadsFrames, ExchangesFrames, RoomsFrames, CatalogueFrames
  DEF Arrive, Continue, DeleteAccountAndRest, GoesTo, TypesInv, AccountsInv
<1> QED
  BY <1>1, <1>2 DEF TypesInv

\* Every handler waits for a statement of the platform.
WaitsWell == \A w \in Workers : task[w].at \in Statements

\* A handler of a part goes on with a statement of the platform.
LEMMA WaitsStep ==
  ASSUME TypesInv, WaitsWell, [Next]_vars
  PROVE  WaitsWell'
<1>1. ASSUME NEW w \in Workers, NEW steps \in SUBSET Statements,
             GoesTo(w, steps)
      PROVE  WaitsWell'
  BY <1>1 DEF GoesTo, WaitsWell, Statements
<1>2. /\ ContactsSteps \in SUBSET Statements /\ LoginSteps \in SUBSET Statements
      /\ IdentitySteps \in SUBSET Statements
      /\ UploadsSteps \in SUBSET Statements
      /\ ExchangesSteps \in SUBSET Statements
      /\ RoomsSteps \in SUBSET Statements
      /\ CatalogueSteps \in SUBSET Statements
  BY DEF Statements
<1>3. FramesOK
  BY DEF TypesInv, AccountsInv
<1>4. CASE \E w \in Workers : Arrive(w)
  BY <1>1, <1>2, <1>3, <1>4, ContactsArriveFrames, LoginArriveFrames,
     IdentityArriveFrames, UploadsArriveFrames, ExchangesArriveFrames,
     RoomsArriveFrames, CatalogueArriveFrames
  DEF Arrive
<1>5. CASE \E w \in Workers : Continue(w)
  BY <1>1, <1>2, <1>3, <1>5, ContactsFrames, LoginFrames, IdentityFrames,
     UploadsFrames, ExchangesFrames, RoomsFrames, CatalogueFrames
  DEF Continue, DeleteAccountAndRest
<1>6. CASE AtOnce
  BY <1>6, AtOnceFrames DEF WaitsWell
<1>7. CASE Restart
  BY <1>7, FreeFrame DEF Restart, WaitsWell, Statements
<1>8. CASE UNCHANGED vars
  BY <1>8 DEF vars, WaitsWell
<1> QED
  BY <1>4, <1>5, <1>6, <1>7, <1>8 DEF Next

\* Every step of the platform keeps the types.
LEMMA TypesStep ==
  ASSUME TypesInv, WaitsWell, [Next]_vars
  PROVE  TypesInv' /\ WaitsWell'
<1>1. AccountsInv' /\ NotesTyped' /\ WaitsWell'
  BY AccountsStep, NotesStep, WaitsStep DEF TypesInv
<1>2. \A w \in Workers : TypedFrame(task'[w])
  <2>1. CASE \E w \in Workers : Arrive(w) \/ Continue(w)
    BY <2>1, WorkerTyped
  <2>2. CASE UNCHANGED task
    BY <2>2 DEF TypesInv
  <2>3. CASE Restart
    BY <2>3, FreeTyped DEF Restart
  <2> QED
    BY <2>1, <2>2, <2>3, AtOnceFrames DEF Next, vars
<1>3. \A w \in Workers : TypedFrame(task[w])'
  BY <1>2 DEF TypedFrame, Things
<1> QED
  BY <1>1, <1>3 DEF TypesInv

\* The types of the platform hold in every behaviour: tables keep their columns
\* and a handler of any part always holds what its next statements need.
THEOREM PlatformTypes == Spec => []PlatformTypeOK
<1>1. Init => TypesInv /\ WaitsWell
  <2> SUFFICES ASSUME Init PROVE TypesInv /\ WaitsWell
    OBVIOUS
  <2>1. \A w \in Workers : task[w] = Free
    BY DEF Init, TrafficInit
  <2>2. NotesTyped
    BY DEF Init, ExchangesInit, NotesTyped, NoteFields, NoNote
  <2>3. WaitsWell
    BY <2>1, FreeFrame DEF WaitsWell, Statements
  <2> QED
    BY <2>1, <2>2, <2>3, FreeTyped, AccountsStart DEF TypesInv
<1>2. TypesInv /\ WaitsWell /\ [Next]_vars => (TypesInv /\ WaitsWell)'
  BY TypesStep
<1>3. TypesInv /\ WaitsWell => PlatformTypeOK
  BY DEF TypesInv, WaitsWell, TypedFrame, AccountsInv, AccountsTypeOK,
         ContactsTypeOK, LoginTypeOK, IdentityTypeOK, Accounts, TokenRows,
         IdentityRows, AnyEmail, AnyPhone, AnyUser, Channels, PlatformTypeOK
<1> QED
  BY <1>1, <1>2, <1>3, PTL DEF Spec
=============================================================================
