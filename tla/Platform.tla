------------------------------ MODULE Platform ------------------------------
(***************************************************************************)
(* The parts of the back end around the marketplace, composed: accounts and *)
(* their contacts, sessions, identities, files, exchanges, rooms and the    *)
(* catalogue, served by the same workers against the same tables.           *)
(***************************************************************************)
EXTENDS IdentitySessions, Uploads, Rooms, Catalogue

vars == <<load, task, contacts, login, kyc, uploads, exchanges, rooms,
          catalogue>>

Init ==
  /\ TrafficInit
  /\ ContactsInit /\ LoginInit /\ IdentityInit /\ UploadsInit
  /\ ExchangesInit /\ RoomsInit /\ CatalogueInit

----------------------------------------------------------------------------
(* Requests and statements of each part *)

ContactsArrive(w) ==
  \/ \E u \in load.newcomers, e \in load.emails, p \in load.phones \union {Nil} :
       Register(w, u, e, p)
  \/ \E u \in Users : ResendLink(w, u)
  \/ \E t \in Tokens : OpenLink(w, t)
  \/ \E u \in Users, kind \in {"EMAIL", "PHONE"} : RequestCode(w, u, kind)
  \/ \E u \in Users, e \in load.emails \union {Nil},
          p \in load.phones \union {Nil} :
       EditContacts(w, u, e, p)

ContactsGoOn(w) ==
  \/ ReadForLink(w) \/ PurgeLinks(w) \/ InsertLink(w) \/ CommitLink(w)
  \/ ReadForCode(w) \/ PurgeCodes(w) \/ InsertCode(w)
  \/ CheckTaken(w) \/ WriteContacts(w)

LoginArrive(w) ==
  \/ \E u \in Users, kind \in {"EMAIL", "PHONE"} : SubmitOtp(w, u, kind)
  \/ \E x \in Profiles, flow \in Flows : OAuthLogin(w, x, flow)

LoginGoOn(w) ==
  \/ LoadOtp(w) \/ ConsumeOtp(w) \/ MarkVerified(w)
  \/ FindAccount(w) \/ CreateAccount(w) \/ LinkProfile(w)

LoginAtOnce ==
  \E u \in Users : RefreshSession(u) \/ Logout(u) \/ AccessExpires(u)

IdentityArrive(w) ==
  \E u \in Users : StartVerification(w, u) \/ EraseAccount(w, u)

IdentityGoOn(w) ==
  CreateSession(w) \/ WriteSession(w) \/ ListSessions(w) \/ RedactSession(w)

IdentityAtOnce ==
  \/ \E s \in Sessions, kind \in EventKinds : ProviderDecides(s, kind)
  \/ \E e \in event : HandleWebhook(e)

UploadsArrive(w) ==
  \/ \E u \in Users : UploadAvatar(w, u)
  \/ \E h \in Hosts :
       UploadWithHost(w, h) \/ UploadToHost(w, h) \/ DeletePackage(w, h)

UploadsGoOn(w) ==
  \/ StoreFile(w) \/ InsertMedia(w)
  \/ AttachAvatar(w) \/ AttachWithHost(w) \/ AttachToHost(w)
  \/ ReadDiscarded(w) \/ DiscardFile(w) \/ DiscardRow(w)
  \/ DiscardImageFile(w) \/ DiscardImageRow(w) \/ ErasePackage(w)

UploadsAtOnce == \E h \in Hosts : LinkPackage(h) \/ EraseHost(h)

ExchangesArrive(w) ==
  \/ \E c \in Chats, u \in Users : StartChat(w, c, u) \/ SendMessage(w, c, u)
  \/ \E n \in Notes, u \in Users, d \in Decisions :
       DecideAppointment(w, n, u, d)
  \/ \E r \in Reports, outcome \in Outcomes : ResolveReport(w, r, outcome)

ExchangesGoOn(w) ==
  \/ CheckChat(w) \/ InsertChat(w) \/ CheckMessage(w) \/ InsertMessage(w)
  \/ WriteDecision(w) \/ ReadDecision(w) \/ WriteReport(w)

ExchangesAtOnce ==
  \/ \E u, v \in Users : Block(u, v) \/ Unblock(u, v)
  \/ \E r \in Reports, u \in Users : FileReport(r, u)
  \/ \E r \in Reports : PanelEdits(r)
  \/ \E n \in Notes : EraseNote(n)
  \/ \E c \in Chats : EraseChat(c)

RoomsArrive(w) == \E k \in Sockets, c \in Chats : JoinRoom(w, k, c)

RoomsGoOn(w) == EnterRoom(w) \/ Announce(w)

RoomsAtOnce ==
  \E k \in Sockets :
    \/ Disconnect(k)
    \/ \E u \in Users : Connect(k, u)
    \/ \E c \in Chats : LeaveRoom(k, c) \/ Type(k, c)

CatalogueArrive(w) ==
  \E a \in Ads, u \in Users, s \in Spots : Publish(w, a, u, s)

CatalogueGoOn(w) ==
  FindPlace(w) \/ InsertPlace(w) \/ LocatePlace(w) \/ InsertAd(w)

CatalogueAtOnce ==
  \/ \E a \in Ads : Withdraw(a) \/ Reopen(a) \/ EraseAd(a)
  \/ \E near \in Spots \union {Nil}, limit \in Limits : Search(near, limit)
  \/ ReadNearby \/ ReadRows \/ ReadCount \/ NextPage

----------------------------------------------------------------------------
\* The deletion of an account takes its avatar and its blocks along, and is
\* refused while its messages, conversations, reports or advertisements stay.
DeleteAccountAndRest(w) ==
  LET u == task[w].user
      refused == \/ \E c \in Chats : chat[c] = "live" /\ u \in ChatParties[c]
                 \/ \E n \in Notes : note[n].status \notin {"absent", "erased"}
                                       /\ note[n].from = u
                 \/ \E r \in Reports : report[r].by = u
                 \/ \E a \in Ads : ad[a].status \in {"OPEN", "away"}
                                       /\ ad[a].author = u
  IN /\ DeleteAccount(w)
     /\ IF acct' = acct
        THEN UNCHANGED <<avatar, block>>
        ELSE /\ ~refused
             /\ avatar' = [avatar EXCEPT ![u] = Nil]
             /\ block' = [b \in BlockIds |->
                  IF block[b].state = "live" /\ u \in {block[b].by, block[b].of}
                  THEN [block[b] EXCEPT !.state = "erased"] ELSE block[b]]
     /\ UNCHANGED <<file, media, holder, host, linked, chat, note, report,
                    crossed, rooms, catalogue>>

\* The process stops and restarts: handlers and sockets are lost, tables,
\* files, tokens and what the provider holds stay.
Restart ==
  /\ Arrives("restart")
  /\ \E w \in Workers : task[w] # Free
  /\ task' = [w \in Workers |-> Free]
  /\ socket' = [k \in Sockets |-> IF socket[k].state = "open"
                  THEN [socket[k] EXCEPT !.state = "closed"] ELSE socket[k]]
  /\ room' = [k \in Sockets |-> {}]
  /\ scan' = NoScan
  /\ UNCHANGED <<load, contacts, login, kyc, uploads, exchanges, heard, place,
                 ad, board>>

\* A handler that began goes on with its next statement.
Continue(w) ==
  \/ ContactsGoOn(w) /\ UNCHANGED <<login, kyc, uploads, exchanges, rooms, catalogue>>
  \/ LoginGoOn(w) /\ UNCHANGED <<kyc, uploads, exchanges, rooms, catalogue>>
  \/ IdentityGoOn(w) /\ UNCHANGED <<uploads, exchanges, rooms, catalogue>>
  \/ UploadsGoOn(w) /\ UNCHANGED <<login, kyc, exchanges, rooms, catalogue>>
  \/ ExchangesGoOn(w) /\ UNCHANGED <<login, kyc, uploads, rooms, catalogue>>
  \/ RoomsGoOn(w) /\ UNCHANGED <<kyc, uploads, catalogue>>
  \/ CatalogueGoOn(w) /\ UNCHANGED <<login, kyc, uploads, exchanges, rooms>>
  \/ DeleteAccountAndRest(w)

\* A request arrives at a free worker.
Arrive(w) ==
  \/ ContactsArrive(w) /\ UNCHANGED <<login, kyc, uploads, exchanges, rooms, catalogue>>
  \/ LoginArrive(w) /\ UNCHANGED <<kyc, uploads, exchanges, rooms, catalogue>>
  \/ IdentityArrive(w) /\ UNCHANGED <<uploads, exchanges, rooms, catalogue>>
  \/ UploadsArrive(w) /\ UNCHANGED <<login, kyc, exchanges, rooms, catalogue>>
  \/ ExchangesArrive(w) /\ UNCHANGED <<login, kyc, uploads, rooms, catalogue>>
  \/ RoomsArrive(w) /\ UNCHANGED <<kyc, uploads, catalogue>>
  \/ CatalogueArrive(w) /\ UNCHANGED <<login, kyc, uploads, exchanges, rooms>>

\* What takes a single statement, or no handler of ours.
AtOnce ==
  \/ LoginAtOnce /\ UNCHANGED <<kyc, uploads, exchanges, rooms, catalogue>>
  \/ IdentityAtOnce /\ UNCHANGED <<uploads, exchanges, rooms, catalogue>>
  \/ UploadsAtOnce /\ UNCHANGED <<login, kyc, exchanges, rooms, catalogue>>
  \/ ExchangesAtOnce /\ UNCHANGED <<login, kyc, uploads, rooms, catalogue>>
  \/ RoomsAtOnce /\ UNCHANGED <<kyc, uploads, catalogue>>
  \/ CatalogueAtOnce /\ UNCHANGED <<login, kyc, uploads, exchanges, rooms>>

Next ==
  \/ \E w \in Workers : Arrive(w) \/ Continue(w)
  \/ AtOnce
  \/ Restart

Spec == Init /\ [][Next]_vars

\* Time passes, so an access token expires.  Nobody has to send a request and
\* no handler has to be answered.
FairSpec ==
  /\ Spec
  /\ \A u \in Users :
       WF_vars(AccessExpires(u)
               /\ UNCHANGED <<kyc, uploads, exchanges, rooms, catalogue>>)

----------------------------------------------------------------------------
\* The statements that the handlers of each part wait for.
CodeSteps == {"code_read", "code_purge", "code_insert"}
LinkSteps == {"mail_read", "mail_purge", "mail_insert", "link_commit"}
EditSteps == {"edit_taken", "edit_write"}
ContactsSteps == CodeSteps \union LinkSteps \union EditSteps

OtpSteps   == {"otp_load", "otp_purge", "mark"}
OAuthSteps == {"oauth_find", "oauth_create", "oauth_link"}
LoginSteps == OtpSteps \union OAuthSteps

IdentitySteps == {"kyc_create", "kyc_write", "erase_list", "erase_documents",
                  "erase_row"}
UploadsSteps == {"upload_file", "upload_row", "upload_attach", "discard_read",
                 "discard_file", "discard_row", "package_images"}

ChatSteps    == {"chat_check", "chat_insert"}
MessageSteps == {"message_check", "message_insert"}
AppointmentSteps == {"appointment_write", "appointment_read"}
ExchangesSteps == ChatSteps \union MessageSteps \union AppointmentSteps
                    \union {"announce", "report_write"}
RoomsSteps == {"join"}
CatalogueSteps == {"place_find", "place_insert", "place_locate", "ad_insert"}

\* Every statement a request may wait for.
Statements == ContactsSteps \union LoginSteps \union IdentitySteps
                \union UploadsSteps \union ExchangesSteps \union RoomsSteps
                \union CatalogueSteps \union {"idle"}

\* What a handler may hold.
Things == Users \union Tokens \union Profiles \union Sessions \union Images
            \union Hosts \union Chats \union Notes \union Reports
            \union Sockets \union Ads \union Emails \union Phones
            \union Spots \union BlockIds \union {Nil}

\* The types of the tables that the properties read, and of what a handler
\* holds between two statements.
PlatformTypeOK ==
  /\ load \in Loads
  /\ \A w \in Workers :
       /\ task[w].at \in Statements
       /\ task[w].next \in {"idle", "mail_read", "mark"}
       /\ {task[w].user, task[w].addr, task[w].phone} \subseteq Things
  /\ acct \in [Users -> [status: Lifecycle, email: Emails \union {Nil},
                         emailOk: BOOLEAN, pending: Emails \union {Nil},
                         phone: Phones \union {Nil}, phoneOk: BOOLEAN]]
  /\ token \in [Tokens -> [user: Users \union {Nil},
                           kind: {"EMAIL", "PHONE", Nil},
                           form: {"link", "code", Nil},
                           to: Emails \union Phones \union {Nil}]]
  /\ proven \subseteq Users \X (Emails \union Phones)
  /\ link \in [Profiles -> Users \union {Nil}]
  /\ maker \in [Users -> Profiles \union {Nil}]
  /\ access \subseteq Users /\ refresh \subseteq Users
  /\ badge \subseteq Users
  /\ identity \in [Users -> [status: IdentityStatus \union {"absent"},
                             session: Sessions \union {Nil}]]
=============================================================================
