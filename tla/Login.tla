------------------------------- MODULE Login -------------------------------
(***************************************************************************)
(* AuthService and AuthController: signing in with a code or through an     *)
(* identity provider, and the two cookies of a session.                     *)
(* The checks of an Apple, Google or Facebook token (signature, issuer,     *)
(* audience, application) all refuse before anything is read: a profile is  *)
(* one that passed them.                                                    *)
(***************************************************************************)
EXTENDS Contacts

CONSTANTS
  Profiles,        \* accounts at the identity providers
  ProfileProvider, \* [Profiles -> provider]
  ProfileEmail,    \* [Profiles -> Emails], a placeholder when there is none
  Anonymous,       \* profiles that come without an address
  Confirmed        \* profiles whose claim email_verified is true

ASSUME ProfilesAssumption ==
  /\ Nil \notin Profiles
  /\ ProfileEmail \in [Profiles -> Emails]
  /\ Anonymous \subseteq Profiles /\ Confirmed \subseteq Profiles

VARIABLES
  link,     \* rows of user_providers: the account of each profile
  maker,    \* history: the profile that created an account
  access,   \* users of whom a valid access token exists
  refresh   \* users of whom a valid refresh token exists

login == <<link, maker, access, refresh>>

LoginInit ==
  /\ link = [x \in Profiles |-> Nil]
  /\ maker = [u \in Users |-> Nil]
  /\ access = load.members /\ refresh = load.members

\* signTokenPair and setAuthCookies.
Signed(u) == access' = access \union {u} /\ refresh' = refresh \union {u}

\* POST /auth/otp: the account, with its badges, is read first.
SubmitOtp(w, u, kind) ==
  /\ Arrives("otp")
  /\ Live(u)
  /\ Start(w, [Free EXCEPT !.at = "otp_load", !.user = u, !.kind = kind,
                 !.next = IF ChannelOk(u, kind) THEN "idle" ELSE "mark"])
  /\ UNCHANGED <<load, contacts, login>>

\* verifyOtpToken: any of the live tokens may be the one that is found; the
\* right code is the one that was sent with it, to a contact that is still
\* the account's.  A code without contact was sent to nobody.
OtpMatches(t, u, kind) ==
  /\ token[t].user = u /\ token[t].kind = kind
  /\ token[t].form = "code"
  /\ token[t].to # Nil /\ token[t].to = Channel(u, kind)

LoadOtp(w) ==
  LET f == task[w]
  IN /\ Doing(w, "otp_load")
     /\ \/ \E t \in Tokens :
             /\ OtpMatches(t, f.user, f.kind)
             /\ proven' = proven \union {<<f.user, token[t].to>>}
             /\ task' = [task EXCEPT ![w].at = "otp_purge",
                                     ![w].addr = Channel(f.user, f.kind)]
        \/ Answer(w) /\ proven' = proven
     /\ UNCHANGED <<load, acct, token, stale, login>>

\* The codes are consumed, the session starts; the badge follows on its own.
ConsumeOtp(w) ==
  LET f == task[w]
  IN /\ Doing(w, "otp_purge")
     /\ token' = Purged(f.user, {f.kind})
     /\ Signed(f.user)
     /\ IF f.next = "mark" THEN Then(w, "mark") ELSE Answer(w)
     /\ UNCHANGED <<load, acct, proven, stale, link, maker>>

\* updateById with the date of the verification, which nobody awaits.
MarkVerified(w) ==
  LET f == task[w]
      u == f.user
  IN /\ Doing(w, "mark")
     /\ IF Live(u)
        THEN /\ acct' = [acct EXCEPT ![u] =
                  IF f.kind = "PHONE" THEN [@ EXCEPT !.phoneOk = TRUE]
                  ELSE [@ EXCEPT !.emailOk = TRUE]]
             /\ stale' = IF f.kind = "PHONE" /\ acct[u].phone # f.addr
                         THEN stale \union {u} ELSE stale
        ELSE UNCHANGED <<acct, stale>>
     /\ Answer(w)
     /\ UNCHANGED <<load, token, proven, login>>

----------------------------------------------------------------------------
\* The ways to sign in with a profile, each with the provider it asks.
FlowProvider == [google_web |-> "GOOGLE", google_token |-> "GOOGLE",
                 apple |-> "APPLE", facebook |-> "FACEBOOK"]
Flows == DOMAIN FlowProvider

\* The address is taken to be verified by the redirection to Google and by
\* Facebook; a token of Google or of Apple says whether it is.
AttestedByGoogleWeb(x)   == TRUE
AttestedByGoogleToken(x) == x \in Confirmed
AttestedByApple(x)       == x \in Confirmed
AttestedByFacebook(x)    == TRUE

Attested(flow, x) ==
  /\ flow = "google_web" => AttestedByGoogleWeb(x)
  /\ flow = "google_token" => AttestedByGoogleToken(x)
  /\ flow = "apple" => AttestedByApple(x)
  /\ flow = "facebook" => AttestedByFacebook(x)

\* validateOAuthLogin: a profile that is linked signs its account in.
OAuthLogin(w, x, flow) ==
  /\ Arrives("oauth")
  /\ ProfileProvider[x] = FlowProvider[flow]
  /\ task[w] = Free
  /\ IF link[x] # Nil
     THEN Signed(link[x]) /\ UNCHANGED task
     ELSE /\ Start(w, [Free EXCEPT !.row = x, !.kind = flow,
                         !.at = IF x \in Anonymous THEN "oauth_create"
                                ELSE "oauth_find"])
          /\ UNCHANGED <<access, refresh>>
  /\ UNCHANGED <<load, contacts, link, maker>>

\* Fault: an account with the address of the profile is linked to it.
MayLinkAny(flow, x) == TRUE

\* An existing account is linked only if the provider attests the address.
MayLink(flow, x) == Attested(flow, x)

FindAccount(w) ==
  LET x == task[w].row
      owners == {u \in Users : Live(u) /\ acct[u].email = ProfileEmail[x]}
  IN /\ Doing(w, "oauth_find")
     /\ \/ owners = {} /\ Then(w, "oauth_create")
        \/ \E u \in owners :
             IF MayLink(task[w].kind, x)
             THEN task' = [task EXCEPT ![w].at = "oauth_link", ![w].user = u]
             ELSE Answer(w)
     /\ UNCHANGED <<load, contacts, login>>

\* users.create, refused when the address was registered meanwhile.
CreateAccount(w) ==
  LET x == task[w].row
      e == ProfileEmail[x]
      ok == Attested(task[w].kind, x) /\ x \notin Anonymous
      fresh == {u \in load.newcomers : acct[u].status = "absent"}
  IN /\ Doing(w, "oauth_create")
     /\ IF fresh # {} /\ \A v \in Users : Live(v) => acct[v].email # e
        THEN \E u \in fresh :
               /\ acct' = [acct EXCEPT ![u] = Account(e, ok, Nil)]
               /\ proven' = IF ok THEN proven \union {<<u, e>>} ELSE proven
               /\ maker' = [maker EXCEPT ![u] = x]
               /\ task' = [task EXCEPT ![w].at = "oauth_link", ![w].user = u]
        ELSE Answer(w) /\ UNCHANGED <<acct, proven, maker>>
     /\ UNCHANGED <<load, token, stale, link, access, refresh>>

\* providers.create: one account per profile, one profile of each provider
\* per account.
LinkProfile(w) ==
  LET x == task[w].row
      u == task[w].user
  IN /\ Doing(w, "oauth_link")
     /\ IF /\ Live(u) /\ link[x] = Nil
           /\ \A y \in Profiles : ProfileProvider[y] = ProfileProvider[x]
                                    => link[y] # u
        THEN link' = [link EXCEPT ![x] = u] /\ Signed(u)
        ELSE UNCHANGED <<link, access, refresh>>
     /\ Answer(w)
     /\ UNCHANGED <<load, contacts, maker>>

----------------------------------------------------------------------------
\* Fault: a signed refresh token is enough.
MayRefreshAnyway(u) == TRUE

\* refreshToken: the account must still exist.
MayRefresh(u) == Live(u)

RefreshSession(u) ==
  /\ Arrives("refresh")
  /\ u \in refresh
  /\ MayRefresh(u)
  /\ access' = access \union {u}
  /\ UNCHANGED <<load, task, contacts, link, maker, refresh>>

\* clearAuthCookies.
Logout(u) ==
  /\ Arrives("logout")
  /\ u \in access \union refresh
  /\ access' = access \ {u} /\ refresh' = refresh \ {u}
  /\ UNCHANGED <<load, task, contacts, link, maker>>

\* The day of an access token has passed.  A load without "day" is over before.
AccessExpires(u) ==
  /\ Arrives("day")
  /\ u \in access
  /\ access' = access \ {u}
  /\ UNCHANGED <<load, task, contacts, link, maker, refresh>>

----------------------------------------------------------------------------
\* A profile whose address no way to sign in attests is linked to no account but
\* the one that was created from it, whatever is registered or linked between
\* the reads of a sign-in and its writes.
UnattestedStaysApart ==
  \A x \in Profiles :
    /\ \A flow \in Flows :
         ProfileProvider[x] = FlowProvider[flow] => ~Attested(flow, x)
    /\ link[x] # Nil
    => maker[link[x]] = x

\* The session of a deleted account falls without waiting for its refresh
\* token to expire (AuthService.refreshToken: "la session doit tomber, pas
\* survivre 7 j").
ErasedSessionEnds ==
  \A u \in Users :
    (acct[u].status = "erased" /\ Arrives("day")) ~> [](u \notin access)
=============================================================================
