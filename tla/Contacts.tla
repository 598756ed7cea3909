------------------------------ MODULE Contacts ------------------------------
(***************************************************************************)
(* The contacts of an account and the proof that they are its own:          *)
(* UserVerificationService (links and codes), the part of UsersService that *)
(* writes contacts, and the registration of AuthService.                    *)
(*                                                                          *)
(* A message reaches the address its token names, and only there can its    *)
(* link be opened or its code be read: proven records the pairs of a user   *)
(* and an address for which that happened (or an identity provider          *)
(* attested the address).  The expiry of a token only refuses a request.    *)
(***************************************************************************)
EXTENDS Traffic

CONSTANTS
  Tokens,       \* rows of verification_tokens alive at the same time (bound)
  MemberEmail   \* [Users -> Emails], the address of an account at the start

ASSUME MembersAssumption == MemberEmail \in [Users -> Emails]

\* No column of a token that was sent is empty.
ASSUME ColumnsAssumption == Nil \notin {"EMAIL", "PHONE", "link", "code"}

VARIABLES
  acct,     \* rows of users
  token,    \* rows of verification_tokens
  proven,   \* history: <<user, address>> whose owner answered
  stale     \* history: users whose phone a request overwrote or marked after
            \* reading another one

contacts == <<acct, token, proven, stale>>

Account(e, ok, p) == [status |-> "live", email |-> e, emailOk |-> ok,
                      pending |-> Nil, phone |-> p, phoneOk |-> FALSE]
NoAccount == [Account(Nil, FALSE, Nil) EXCEPT !.status = "absent"]
NoToken   == [user |-> Nil, kind |-> Nil, form |-> Nil, to |-> Nil]

Live(u)          == acct[u].status = "live"
EmailFree(e, u)  == \A v \in Users \ {u} : Live(v) => acct[v].email # e
PhoneFree(p, u)  == p = Nil \/ \A v \in Users \ {u} : Live(v) => acct[v].phone # p
Channel(u, kind) == IF kind = "PHONE" THEN acct[u].phone ELSE acct[u].email
ChannelOk(u, kind) ==
  IF kind = "PHONE" THEN acct[u].phoneOk ELSE acct[u].emailOk

\* deleteMany of the tokens of a user, of the given types.
Purged(u, kinds) ==
  [t \in Tokens |-> IF token[t].user = u /\ token[t].kind \in kinds
                    THEN NoToken ELSE token[t]]
\* No request in flight still names a free row, so it can stand for a new one.
FreeTokens ==
  {t \in Tokens : token[t] = NoToken /\ \A w \in Workers : task[w].row # t}

ContactsInit ==
  /\ acct = [u \in Users |-> IF u \in load.members
                             THEN Account(MemberEmail[u], TRUE, Nil)
                             ELSE NoAccount]
  /\ token = [t \in Tokens |-> NoToken]
  /\ proven = {<<u, MemberEmail[u]>> : u \in load.members}
  /\ stale = {}

----------------------------------------------------------------------------
\* register: the row, then a code if there is a phone, then the link.
Register(w, u, e, p) ==
  /\ Arrives("register")
  /\ acct[u].status = "absent"
  /\ EmailFree(e, u) /\ PhoneFree(p, u)
  /\ acct' = [acct EXCEPT ![u] = Account(e, FALSE, p)]
  /\ Start(w, IF p = Nil
              THEN [Free EXCEPT !.at = "mail_read", !.user = u]
              ELSE [Free EXCEPT !.at = "code_read", !.user = u,
                                !.kind = "PHONE", !.next = "mail_read"])
  /\ UNCHANGED <<load, token, proven, stale>>

\* POST /users/verify/email/resend.
ResendLink(w, u) ==
  /\ Arrives("resend")
  /\ Live(u)
  /\ Start(w, [Free EXCEPT !.at = "mail_read", !.user = u])
  /\ UNCHANGED <<load, contacts>>

\* sendEmailVerification: a pending address takes precedence.
ReadForLink(w) ==
  LET u == task[w].user
      a == acct[u]
  IN /\ Doing(w, "mail_read")
     /\ IF Live(u) /\ ~(a.pending = Nil /\ a.emailOk)
        THEN task' = [task EXCEPT ![w].at = "mail_purge", ![w].kind = "EMAIL",
                ![w].addr = IF a.pending # Nil THEN a.pending ELSE a.email]
        ELSE Answer(w)
     /\ UNCHANGED <<load, contacts>>

PurgeLinks(w) ==
  /\ Doing(w, "mail_purge")
  /\ token' = Purged(task[w].user, {"EMAIL"})
  /\ Then(w, "mail_insert")
  /\ UNCHANGED <<load, acct, proven, stale>>

\* The token is bound to the address the link is sent to.
InsertLink(w) ==
  LET u == task[w].user
  IN /\ Doing(w, "mail_insert")
     /\ IF Live(u) /\ FreeTokens # {}
        THEN \E t \in FreeTokens : token' = [token EXCEPT ![t] =
               [user |-> u, kind |-> "EMAIL", form |-> "link",
                to |-> task[w].addr]]
        ELSE token' = token
     /\ Answer(w)
     /\ UNCHANGED <<load, acct, proven, stale>>

\* Fault: whatever link of the account confirms the pending address.
LinkConfirmsAny(t) ==
  LET a == acct[token[t].user] IN ~(a.pending = Nil /\ a.emailOk)

\* verifyEmailToken: a link confirms the address it was sent to.  Opened again
\* with nothing pending it is accepted and writes nothing.
LinkConfirms(t) ==
  LET a == acct[token[t].user]
  IN /\ ~(a.pending = Nil /\ a.emailOk)
     /\ a.pending # Nil => token[t].to = a.pending

OpenLink(w, t) ==
  LET u == token[t].user
  IN /\ Arrives("open_link")
     /\ token[t].form = "link"
     /\ LinkConfirms(t)
     /\ Start(w, [Free EXCEPT !.at = "link_commit", !.user = u, !.row = t,
                              !.addr = acct[u].pending])
     /\ proven' = proven \union {<<u, token[t].to>>}
     /\ UNCHANGED <<load, acct, token, stale>>

\* The transaction: the account takes the address that was pending at the
\* read.  It fails when the token is gone or the address was taken meanwhile.
CommitLink(w) ==
  LET u == task[w].user
      t == task[w].row
      e == task[w].addr
  IN /\ Doing(w, "link_commit")
     /\ IF token[t] # NoToken /\ (e = Nil \/ EmailFree(e, u))
        THEN /\ acct' = [acct EXCEPT ![u] =
                  IF e = Nil THEN [@ EXCEPT !.emailOk = TRUE]
                  ELSE [@ EXCEPT !.email = e, !.pending = Nil,
                                 !.emailOk = TRUE]]
             /\ token' = [token EXCEPT ![t] = NoToken]
        ELSE UNCHANGED <<acct, token>>
     /\ Answer(w)
     /\ UNCHANGED <<load, proven, stale>>

----------------------------------------------------------------------------
\* login: a code is sent through the channel that was asked for.
RequestCode(w, u, kind) ==
  /\ Arrives(IF kind = "PHONE" THEN "sms_code" ELSE "mail_code")
  /\ Live(u)
  /\ Start(w, [Free EXCEPT !.at = "code_read", !.user = u, !.kind = kind])
  /\ UNCHANGED <<load, contacts>>

\* getOptPayload: the contact is the one of this read.
ReadForCode(w) ==
  LET u == task[w].user
  IN /\ Doing(w, "code_read")
     /\ IF Live(u)
        THEN task' = [task EXCEPT ![w].at = "code_purge",
                                  ![w].addr = Channel(u, task[w].kind)]
        ELSE Answer(w)
     /\ UNCHANGED <<load, contacts>>

PurgeCodes(w) ==
  /\ Doing(w, "code_purge")
  /\ token' = Purged(task[w].user, {task[w].kind})
  /\ Then(w, "code_insert")
  /\ UNCHANGED <<load, acct, proven, stale>>

\* Without a phone the row is written all the same and the handler fails; so
\* may the provider of SMS, which ends a registration before its link.
InsertCode(w) ==
  LET f == task[w]
  IN /\ Doing(w, "code_insert")
     /\ IF Live(f.user) /\ FreeTokens # {}
        THEN /\ \E t \in FreeTokens : token' = [token EXCEPT ![t] =
                  [user |-> f.user, kind |-> f.kind, form |-> "code",
                   to |-> f.addr]]
             /\ \/ f.next # "idle" /\ f.addr # Nil /\ Then(w, f.next)
                \/ Answer(w)
        ELSE token' = token /\ Answer(w)
     /\ UNCHANGED <<load, acct, proven, stale>>

----------------------------------------------------------------------------
\* updateById from a profile: prepareContactChanges reads the row.
EditContacts(w, u, e, p) ==
  /\ e # Nil => Arrives("new_email")
  /\ p # Nil => Arrives("new_phone")
  /\ e # Nil \/ p # Nil
  /\ Live(u)
  /\ LET new == e # Nil /\ e # acct[u].email
     IN Start(w, [Free EXCEPT !.at = IF new THEN "edit_taken" ELSE "edit_write",
                    !.user = u, !.addr = IF new THEN e ELSE Nil,
                    !.phone = p, !.seen = acct[u].phone])
  /\ UNCHANGED <<load, contacts>>

CheckTaken(w) ==
  /\ Doing(w, "edit_taken")
  /\ IF EmailFree(task[w].addr, task[w].user)
     THEN Then(w, "edit_write") ELSE Answer(w)
  /\ UNCHANGED <<load, contacts>>

\* Fault: a new number keeps the badge of the former one.
EditedKeepingBadge(u, e, p, reset) ==
  [acct[u] EXCEPT !.pending = IF e # Nil THEN e ELSE @,
                  !.phone = IF p # Nil THEN p ELSE @]

\* The email goes to pending, the phone changes at once.
Edited(u, e, p, reset) ==
  [acct[u] EXCEPT !.pending = IF e # Nil THEN e ELSE @,
                  !.phone = IF p # Nil THEN p ELSE @,
                  !.phoneOk = @ /\ ~reset]

\* users.update; the badge of the phone is reset when the number differed from
\* the one that was read.  The link is then sent without being awaited.
WriteContacts(w) ==
  LET f == task[w]
      u == f.user
      reset == f.phone # Nil /\ f.phone # f.seen
  IN /\ Doing(w, "edit_write")
     /\ IF Live(u) /\ PhoneFree(f.phone, u)
        THEN /\ acct' = [acct EXCEPT ![u] = Edited(u, f.addr, f.phone, reset)]
             /\ stale' = IF f.phone # Nil /\ ~reset /\ acct[u].phone # f.phone
                         THEN stale \union {u} ELSE stale
             /\ IF f.addr # Nil
                THEN task' = [task EXCEPT ![w] =
                       [Free EXCEPT !.at = "mail_read", !.user = u]]
                ELSE Answer(w)
        ELSE Answer(w) /\ UNCHANGED <<acct, stale>>
     /\ UNCHANGED <<load, token, proven>>

----------------------------------------------------------------------------
\* The address an account signs in with and shows as verified is one whose
\* owner answered a message sent there (UsersService.prepareContactChanges:
\* "le badge « vérifié » reste honnête"), whatever changes of address, links
\* and codes are in flight.
VerifiedEmailWasProven ==
  \A u \in Users : Live(u) /\ acct[u].emailOk => <<u, acct[u].email>> \in proven

\* A number nobody answered from is shown as verified only after a race: a
\* request marked or overwrote the number after reading another one.  One at
\* a time, a code never verifies a number it was not sent to.
UnprovenPhoneIsStale ==
  \A u \in Users :
    Live(u) /\ acct[u].phoneOk /\ <<u, acct[u].phone>> \notin proven
      => u \in stale
=============================================================================
