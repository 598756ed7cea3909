--------------------------- MODULE IdentitySessions ---------------------------
(***************************************************************************)
(* IdentityService: the sessions at the identity provider, its webhooks,    *)
(* and the deletion of an account with the redaction of its documents.      *)
(*                                                                          *)
(* The provider is external.  It sends an event for each decision, delivers *)
(* it at least once, late and in any order: events are never taken out of   *)
(* the set, and any of them may be handled at any time.                     *)
(***************************************************************************)
EXTENDS Login

CONSTANT Sessions  \* verification sessions the provider may create (bound)

VARIABLES
  identity,  \* row of user_identities: status and the provider's session
  badge,     \* users whose idCardVerifiedAt is set
  session,   \* the provider's sessions
  event      \* the provider's events: <<session, kind>>

kyc == <<identity, badge, session, event>>

IdentityStatus == {"PENDING", "VERIFIED", "REQUIRES_INPUT", "CANCELED"}
EventKinds == {"verified", "requires_input", "canceled"}
NoIdentity == [status |-> "absent", session |-> Nil]
NoSession  == [user |-> Nil, state |-> "absent", documents |-> "none"]

IdentityInit ==
  /\ identity = [u \in Users |-> NoIdentity]
  /\ badge = {}
  /\ session = [s \in Sessions |-> NoSession]
  /\ event = {}

----------------------------------------------------------------------------
\* createVerificationSession: refused to a verified user.
StartVerification(w, u) ==
  /\ Arrives("kyc")
  /\ Live(u)
  /\ identity[u].status # "VERIFIED"
  /\ Start(w, [Free EXCEPT !.at = "kyc_create", !.user = u])
  /\ UNCHANGED <<load, contacts, login, kyc>>

\* The provider creates the session, or fails.
CreateSession(w) ==
  /\ Doing(w, "kyc_create")
  /\ \/ \E s \in Sessions :
          /\ session[s] = NoSession
          /\ session' = [session EXCEPT ![s] =
               [NoSession EXCEPT !.user = task[w].user, !.state = "open"]]
          /\ task' = [task EXCEPT ![w].at = "kyc_write", ![w].row = s]
     \/ Answer(w) /\ session' = session
  /\ UNCHANGED <<load, contacts, login, identity, badge, event>>

\* upsertStatus: the row points to the latest session that was written.
Upserted(u, status, s) ==
  [identity EXCEPT ![u] = [status |-> status, session |-> s]]

WriteSession(w) ==
  LET u == task[w].user
  IN /\ Doing(w, "kyc_write")
     /\ identity' = IF Live(u) THEN Upserted(u, "PENDING", task[w].row)
                    ELSE identity
     /\ Answer(w)
     /\ UNCHANGED <<load, contacts, login, badge, session, event>>

\* The person hands documents in; the provider decides and sends an event.  A
\* session that was redacted takes no documents any more.
ProviderDecides(s, kind) ==
  /\ Arrives(kind)
  /\ session[s].state = "open"
  /\ session[s].documents = "redacted" => kind = "canceled"
  /\ session' = [session EXCEPT
       ![s].state = IF kind = "requires_input" THEN "open" ELSE kind,
       ![s].documents = IF @ = "none" /\ kind # "canceled" THEN "held" ELSE @]
  /\ event' = event \union {<<s, kind>>}
  /\ UNCHANGED <<load, task, contacts, login, identity, badge>>

\* Fault: the badge is not written with the status.
BadgeNotWritten(u, kind) == badge

\* Fault: documents that were handed in are enough.
BadgeUnlessCanceled(u, kind) ==
  IF kind = "canceled" THEN badge \ {u} ELSE badge \union {u}

\* The date that gates acceptance, written in the transaction of the status.
BadgeAfter(u, kind) ==
  IF kind = "verified" THEN badge \union {u}
  ELSE IF kind = "canceled" THEN badge \ {u} ELSE badge

\* Fault: the word of the provider is stored as it came.
StatusAsSent(kind) == kind

StatusAfter(kind) ==
  IF kind = "verified" THEN "VERIFIED"
  ELSE IF kind = "canceled" THEN "CANCELED" ELSE "REQUIRES_INPUT"

\* handleWebhook: the account of a late event may be gone.
HandleWebhook(e) ==
  LET u == session[e[1]].user
  IN /\ e \in event
     /\ Live(u)
     /\ identity' = Upserted(u, StatusAfter(e[2]), e[1])
     /\ badge' = BadgeAfter(u, e[2])
     /\ UNCHANGED <<load, task, contacts, login, session, event>>

----------------------------------------------------------------------------
\* DELETE /users/:id by an admin.
EraseAccount(w, u) ==
  /\ Arrives("erase")
  /\ Live(u)
  /\ Start(w, [Free EXCEPT !.at = "erase_list", !.user = u])
  /\ UNCHANGED <<load, contacts, login, kyc>>

\* redactUserData: one row of identities per provider, hence one session.
ListSessions(w) ==
  LET s == identity[task[w].user].session
  IN /\ Doing(w, "erase_list")
     /\ task' = [task EXCEPT ![w].row = s,
          ![w].at = IF s = Nil THEN "erase_row" ELSE "erase_documents"]
     /\ UNCHANGED <<load, contacts, login, kyc>>

\* The provider redacts, or fails and the session is logged for a later purge.
RedactSession(w) ==
  /\ Doing(w, "erase_documents")
  /\ \E result \in {"redacted", "logged"} :
       session' = [session EXCEPT ![task[w].row].documents = result]
  /\ Then(w, "erase_row")
  /\ UNCHANGED <<load, contacts, login, identity, badge, event>>

\* users.delete cascades to tokens, linked profiles and identities; the rows
\* that do not cascade (missions, messages ...) refuse it.
DeleteAccount(w) ==
  LET u == task[w].user
  IN /\ Doing(w, "erase_row")
     /\ \/ /\ acct' = [acct EXCEPT ![u] = [NoAccount EXCEPT !.status = "erased"]]
           /\ token' = Purged(u, {"EMAIL", "PHONE"})
           /\ link' = [x \in Profiles |-> IF link[x] = u THEN Nil ELSE link[x]]
           /\ identity' = [identity EXCEPT ![u] = NoIdentity]
           /\ badge' = badge \ {u}
        \/ UNCHANGED <<acct, token, link, identity, badge>>
     /\ Answer(w)
     /\ UNCHANGED <<load, proven, stale, maker, access, refresh, session, event>>

----------------------------------------------------------------------------
\* The status a user is shown and the badge that gates the acceptance of
\* offers never contradict each other, in whatever order sessions start and
\* webhooks of several sessions arrive (IdentityService.handleWebhook).
VerdictDecidesBadge ==
  \A u \in Users :
    /\ identity[u].status = "VERIFIED" => u \in badge
    /\ identity[u].status = "CANCELED" => u \notin badge

\* A badge was earned: the provider verified documents of that very account,
\* which still exists.
BadgeWasEarned ==
  \A u \in badge :
    /\ Live(u)
    /\ \E s \in Sessions : session[s].user = u /\ <<s, "verified">> \in event

\* What the comment of redactUserData claims: no document of a deleted account
\* stays with the provider, but for the sessions its failures were logged of.
NoOrphanDocuments ==
  \A s \in Sessions :
    session[s].user # Nil /\ acct[session[s].user].status = "erased"
      => session[s].documents # "held"
=============================================================================
