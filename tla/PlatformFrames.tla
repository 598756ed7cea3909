--------------------------- MODULE PlatformFrames ---------------------------
(***************************************************************************)
(* How the frames of the workers change: a handler of one part of the       *)
(* platform only ever reaches statements of that part, or its answer.  The  *)
(* proofs about one part then look at the actions of that part alone.       *)
(***************************************************************************)
EXTENDS Platform, TLAPS

FrameFields == {"at", "user", "kind", "addr", "phone", "seen", "row", "next"}

\* A code is followed by nothing, or by the link of a registration.
FrameOK(f) ==
  /\ DOMAIN f = FrameFields
  /\ f.at \in CodeSteps => f.next \in {"idle", "mail_read"}

FramesOK == DOMAIN task = Workers /\ \A w \in Workers : FrameOK(task[w])

\* Worker w goes on with one of these steps, or answers; the others stay.
GoesTo(w, steps) ==
  /\ DOMAIN task' = Workers
  /\ \A v \in Workers \ {w} : task'[v] = task[v]
  /\ FrameOK(task'[w])
  /\ task'[w].at \in steps \union {"idle"}

\* The empty frame, written out.
LEMMA FreeFrame ==
  FrameOK(Free) /\ DOMAIN Free = FrameFields
  /\ Free.at = "idle" /\ Free.next = "idle" /\ Free.user = Nil
BY DEF Free, FrameOK, FrameFields, CodeSteps

\* An answer, and a next statement that sends no code.
LEMMA AnswerFrame ==
  ASSUME FramesOK, NEW w \in Workers, Answer(w), NEW steps
  PROVE  GoesTo(w, steps)
BY FreeFrame DEF FramesOK, GoesTo, Answer

----------------------------------------------------------------------------
(* Handlers that go on *)

\* Statements of a registration, a link, a code or a change of contacts.
LEMMA ContactsFrames ==
  ASSUME FramesOK, NEW w \in Workers, ContactsGoOn(w)
  PROVE  GoesTo(w, ContactsSteps)
<1> USE FreeFrame DEF FramesOK, FrameOK, FrameFields, GoesTo, ContactsSteps,
          CodeSteps, LinkSteps, EditSteps, Doing, Then, Answer
<1>1. CASE ReadForLink(w) BY <1>1 DEF ReadForLink
<1>2. CASE PurgeLinks(w) BY <1>2 DEF PurgeLinks
<1>3. CASE InsertLink(w) BY <1>3 DEF InsertLink
<1>4. CASE CommitLink(w) BY <1>4 DEF CommitLink
<1>5. CASE ReadForCode(w) BY <1>5 DEF ReadForCode
<1>6. CASE PurgeCodes(w) BY <1>6 DEF PurgeCodes
<1>7. CASE InsertCode(w) BY <1>7 DEF InsertCode
<1>8. CASE CheckTaken(w) BY <1>8 DEF CheckTaken
<1>9. CASE WriteContacts(w)
  <2> DEFINE f == [Free EXCEPT !.at = "mail_read", !.user = task[w].user]
  <2>1. FrameOK(f) /\ f.at = "mail_read"
    BY DEF Free
  <2> HIDE DEF f
  <2>2. \/ task' = [task EXCEPT ![w] = f] \/ Answer(w)
    BY <1>9 DEF WriteContacts, f
  <2> QED
    BY <2>1, <2>2
<1> QED
  BY <1>1, <1>2, <1>3, <1>4, <1>5, <1>6, <1>7, <1>8, <1>9 DEF ContactsGoOn

\* Statements of a sign-in.
LEMMA LoginFrames ==
  ASSUME FramesOK, NEW w \in Workers, LoginGoOn(w)
  PROVE  GoesTo(w, LoginSteps)
<1> USE FreeFrame DEF FramesOK, FrameOK, FrameFields, GoesTo, LoginSteps,
          CodeSteps, OtpSteps, OAuthSteps, Doing, Then, Answer
<1>1. CASE LoadOtp(w) BY <1>1 DEF LoadOtp
<1>2. CASE ConsumeOtp(w) BY <1>2 DEF ConsumeOtp
<1>3. CASE MarkVerified(w) BY <1>3 DEF MarkVerified
<1>4. CASE FindAccount(w) BY <1>4 DEF FindAccount
<1>5. CASE CreateAccount(w) BY <1>5 DEF CreateAccount
<1>6. CASE LinkProfile(w) BY <1>6 DEF LinkProfile
<1> QED
  BY <1>1, <1>2, <1>3, <1>4, <1>5, <1>6 DEF LoginGoOn

\* Statements of a verification of identity or of a deletion.
LEMMA IdentityFrames ==
  ASSUME FramesOK, NEW w \in Workers, IdentityGoOn(w) \/ DeleteAccount(w)
  PROVE  GoesTo(w, IdentitySteps)
<1> USE FreeFrame DEF FramesOK, FrameOK, FrameFields, GoesTo, IdentitySteps,
          CodeSteps, Doing, Then, Answer
<1>1. CASE CreateSession(w) BY <1>1 DEF CreateSession
<1>2. CASE WriteSession(w) BY <1>2 DEF WriteSession
<1>3. CASE ListSessions(w) BY <1>3 DEF ListSessions
<1>4. CASE RedactSession(w) BY <1>4 DEF RedactSession
<1>5. CASE DeleteAccount(w) BY <1>5 DEF DeleteAccount
<1> QED
  BY <1>1, <1>2, <1>3, <1>4, <1>5 DEF IdentityGoOn

\* Statements of an upload or of the removal of a file.
LEMMA UploadsFrames ==
  ASSUME FramesOK, NEW w \in Workers, UploadsGoOn(w)
  PROVE  GoesTo(w, UploadsSteps)
<1> USE FreeFrame DEF FramesOK, FrameOK, FrameFields, GoesTo, UploadsSteps,
          CodeSteps, Doing, Then, Answer
<1>1. CASE StoreFile(w) BY <1>1 DEF StoreFile
<1>2. CASE InsertMedia(w) BY <1>2 DEF InsertMedia
<1>3. CASE AttachAvatar(w) BY <1>3 DEF AttachAvatar
<1>4. CASE AttachWithHost(w) BY <1>4 DEF AttachWithHost
<1>5. CASE AttachToHost(w) BY <1>5 DEF AttachToHost
<1>6. CASE ReadDiscarded(w) BY <1>6 DEF ReadDiscarded
<1>7. CASE DiscardFile(w) BY <1>7 DEF DiscardFile
<1>8. CASE DiscardRow(w) BY <1>8 DEF DiscardRow
<1>9. CASE DiscardImageFile(w) BY <1>9 DEF DiscardImageFile
<1>10. CASE DiscardImageRow(w) BY <1>10 DEF DiscardImageRow
<1>11. CASE ErasePackage(w) BY <1>11 DEF ErasePackage
<1> QED
  BY <1>1, <1>2, <1>3, <1>4, <1>5, <1>6, <1>7, <1>8, <1>9, <1>10, <1>11
  DEF UploadsGoOn

\* Statements of a conversation, a message, an appointment or a report.
LEMMA ExchangesFrames ==
  ASSUME FramesOK, NEW w \in Workers, ExchangesGoOn(w)
  PROVE  GoesTo(w, ExchangesSteps)
<1> USE FreeFrame DEF FramesOK, FrameOK, FrameFields, GoesTo, ExchangesSteps,
          ChatSteps, MessageSteps, AppointmentSteps, CodeSteps, Doing, Then,
          Answer
<1>1. CASE CheckChat(w) BY <1>1 DEF CheckChat
<1>2. CASE InsertChat(w) BY <1>2 DEF InsertChat
<1>3. CASE CheckMessage(w) BY <1>3 DEF CheckMessage
<1>4. CASE InsertMessage(w)
  <2> DEFINE f(n) == [Free EXCEPT !.at = "announce", !.row = n,
                        !.addr = task[w].row, !.kind = "PENDING"]
  <2>1. \A n \in Notes : FrameOK(f(n)) /\ f(n).at = "announce"
    BY DEF Free
  <2> HIDE DEF f
  <2>2. \/ \E n \in Notes : task' = [task EXCEPT ![w] = f(n)]
        \/ Answer(w)
    BY <1>4 DEF InsertMessage, f
  <2> QED
    BY <2>1, <2>2
<1>5. CASE WriteDecision(w) BY <1>5 DEF WriteDecision
<1>6. CASE ReadDecision(w) BY <1>6 DEF ReadDecision
<1>7. CASE WriteReport(w) BY <1>7 DEF WriteReport
<1> QED
  BY <1>1, <1>2, <1>3, <1>4, <1>5, <1>6, <1>7 DEF ExchangesGoOn

\* Statements of a room end in an answer.
LEMMA RoomsFrames ==
  ASSUME FramesOK, NEW w \in Workers, RoomsGoOn(w)
  PROVE  GoesTo(w, RoomsSteps)
BY AnswerFrame DEF RoomsGoOn, EnterRoom, Announce

\* Statements of a publication.
LEMMA CatalogueFrames ==
  ASSUME FramesOK, NEW w \in Workers, CatalogueGoOn(w)
  PROVE  GoesTo(w, CatalogueSteps)
<1> USE FreeFrame DEF FramesOK, FrameOK, FrameFields, GoesTo, CatalogueSteps,
          CodeSteps, Doing, Then, Answer
<1>1. CASE FindPlace(w) BY <1>1 DEF FindPlace
<1>2. CASE InsertPlace(w) BY <1>2 DEF InsertPlace
<1>3. CASE LocatePlace(w) BY <1>3 DEF LocatePlace
<1>4. CASE InsertAd(w) BY <1>4 DEF InsertAd
<1> QED
  BY <1>1, <1>2, <1>3, <1>4 DEF CatalogueGoOn
----------------------------------------------------------------------------
(* Requests that arrive *)

\* Requests about contacts.
LEMMA ContactsArriveFrames ==
  ASSUME FramesOK, NEW w \in Workers, ContactsArrive(w)
  PROVE  GoesTo(w, ContactsSteps)
<1> USE FreeFrame
    DEF Free, FrameOK, FrameFields, FramesOK, GoesTo, Start,
        ContactsSteps, CodeSteps, LinkSteps, EditSteps
<1>1. CASE \E u \in load.newcomers, e \in load.emails, p \in load.phones \union {Nil} :
               Register(w, u, e, p)
  BY <1>1 DEF Register
<1>2. CASE \E u \in Users : ResendLink(w, u)
  BY <1>2 DEF ResendLink
<1>3. CASE \E t \in Tokens : OpenLink(w, t)
  BY <1>3 DEF OpenLink
<1>4. CASE \E u \in Users, kind \in {"EMAIL", "PHONE"} : RequestCode(w, u, kind)
  BY <1>4 DEF RequestCode
<1>5. CASE \E u \in Users, e \in load.emails \union {Nil},
                p \in load.phones \union {Nil} : EditContacts(w, u, e, p)
  BY <1>5 DEF EditContacts
<1> QED
  BY <1>1, <1>2, <1>3, <1>4, <1>5 DEF ContactsArrive

\* Requests to sign in.
LEMMA LoginArriveFrames ==
  ASSUME FramesOK, NEW w \in Workers, LoginArrive(w)
  PROVE  GoesTo(w, LoginSteps)
<1> USE FreeFrame
    DEF Free, FrameOK, FrameFields, FramesOK, GoesTo, Start,
        LoginSteps, CodeSteps, OtpSteps, OAuthSteps
<1>1. CASE \E u \in Users, kind \in {"EMAIL", "PHONE"} : SubmitOtp(w, u, kind)
  BY <1>1 DEF SubmitOtp
<1>2. CASE \E x \in Profiles, flow \in Flows : OAuthLogin(w, x, flow)
  <2> PICK x \in Profiles, flow \in Flows : OAuthLogin(w, x, flow)
    BY <1>2
  <2>1. CASE link[x] # Nil
    BY <2>1 DEF OAuthLogin
  <2>2. CASE link[x] = Nil
    <3> DEFINE f == [Free EXCEPT !.row = x, !.kind = flow,
                       !.at = IF x \in Anonymous THEN "oauth_create"
                              ELSE "oauth_find"]
    <3>1. FrameOK(f) /\ f.at \in OAuthSteps
      BY DEF Free
    <3>2. task' = [task EXCEPT ![w] = f]
      BY <2>2 DEF OAuthLogin
    <3> QED
      BY <3>1, <3>2
  <2> QED
    BY <2>1, <2>2
<1> QED
  BY <1>1, <1>2 DEF LoginArrive

\* Requests to verify an identity or delete an account.
LEMMA IdentityArriveFrames ==
  ASSUME FramesOK, NEW w \in Workers, IdentityArrive(w)
  PROVE  GoesTo(w, IdentitySteps)
<1> USE FreeFrame
    DEF Free, FrameOK, FrameFields, FramesOK, GoesTo, Start,
        IdentitySteps, CodeSteps
<1>1. CASE \E u \in Users : StartVerification(w, u)
  BY <1>1 DEF StartVerification
<1>2. CASE \E u \in Users : EraseAccount(w, u)
  BY <1>2 DEF EraseAccount
<1> QED
  BY <1>1, <1>2 DEF IdentityArrive

\* Requests that store or remove files.
LEMMA UploadsArriveFrames ==
  ASSUME FramesOK, NEW w \in Workers, UploadsArrive(w)
  PROVE  GoesTo(w, UploadsSteps)
<1> USE FreeFrame
    DEF Free, FrameOK, FrameFields, FramesOK, GoesTo, Start,
        UploadsSteps, CodeSteps
<1>1. CASE \E u \in Users : UploadAvatar(w, u)
  BY <1>1 DEF UploadAvatar
<1>2. CASE \E h \in Hosts : UploadWithHost(w, h)
  BY <1>2 DEF UploadWithHost
<1>3. CASE \E h \in Hosts : UploadToHost(w, h)
  BY <1>3 DEF UploadToHost
<1>4. CASE \E h \in Hosts : DeletePackage(w, h)
  BY <1>4 DEF DeletePackage
<1> QED
  BY <1>1, <1>2, <1>3, <1>4 DEF UploadsArrive

\* Requests of a conversation, and the resolution of reports.
LEMMA ExchangesArriveFrames ==
  ASSUME FramesOK, NEW w \in Workers, ExchangesArrive(w)
  PROVE  GoesTo(w, ExchangesSteps)
<1> USE FreeFrame
    DEF Free, FrameOK, FrameFields, FramesOK, GoesTo, Start,
        ExchangesSteps, CodeSteps, ChatSteps, MessageSteps,
          AppointmentSteps
<1>1. CASE \E c \in Chats, u \in Users : StartChat(w, c, u)
  BY <1>1 DEF StartChat
<1>2. CASE \E c \in Chats, u \in Users : SendMessage(w, c, u)
  BY <1>2 DEF SendMessage
<1>3. CASE \E n \in Notes, u \in Users, d \in Decisions :
               DecideAppointment(w, n, u, d)
  BY <1>3 DEF DecideAppointment
<1>4. CASE \E r \in Reports, outcome \in Outcomes : ResolveReport(w, r, outcome)
  BY <1>4 DEF ResolveReport
<1> QED
  BY <1>1, <1>2, <1>3, <1>4 DEF ExchangesArrive

\* Requests to join a room.
LEMMA RoomsArriveFrames ==
  ASSUME FramesOK, NEW w \in Workers, RoomsArrive(w)
  PROVE  GoesTo(w, RoomsSteps)
<1> USE FreeFrame
    DEF Free, FrameOK, FrameFields, FramesOK, GoesTo, Start,
        RoomsSteps, CodeSteps
<1>1. CASE \E k \in Sockets, c \in Chats : JoinRoom(w, k, c)
  BY <1>1 DEF JoinRoom
<1> QED
  BY <1>1 DEF RoomsArrive

\* Requests to publish.
LEMMA CatalogueArriveFrames ==
  ASSUME FramesOK, NEW w \in Workers, CatalogueArrive(w)
  PROVE  GoesTo(w, CatalogueSteps)
<1> USE FreeFrame
    DEF Free, FrameOK, FrameFields, FramesOK, GoesTo, Start,
        CatalogueSteps, CodeSteps
<1>1. CASE \E a \in Ads, u \in Users, s \in Spots : Publish(w, a, u, s)
  BY <1>1 DEF Publish
<1> QED
  BY <1>1 DEF CatalogueArrive

----------------------------------------------------------------------------
(* Steps that no worker takes *)

\* What takes a single statement holds no worker.
LEMMA AtOnceFrames == AtOnce => UNCHANGED task
BY DEF AtOnce, LoginAtOnce, IdentityAtOnce, UploadsAtOnce, ExchangesAtOnce,
       RoomsAtOnce, CatalogueAtOnce, RefreshSession, Logout, AccessExpires,
       ProviderDecides, HandleWebhook, LinkPackage, EraseHost, Block, Unblock,
       FileReport, PanelEdits, EditReport, EraseNote, EraseChat, Disconnect,
       Connect, LeaveRoom, Type, Withdraw, Reopen, EraseAd, Becomes, Search, ReadNearby, ReadRows, ReadCount, NextPage

\* Whatever a worker does, its frame keeps its shape and stays in its part.
LEMMA ArriveGoes ==
  ASSUME FramesOK, NEW w \in Workers, Arrive(w)
  PROVE  FramesOK'
<1> USE DEF FramesOK, GoesTo
<1> QED
  BY ContactsArriveFrames, LoginArriveFrames, IdentityArriveFrames,
     UploadsArriveFrames, ExchangesArriveFrames, RoomsArriveFrames,
     CatalogueArriveFrames
  DEF Arrive

\* The same for a handler that goes on.
LEMMA ContinueGoes ==
  ASSUME FramesOK, NEW w \in Workers, Continue(w)
  PROVE  FramesOK'
<1> USE DEF FramesOK, GoesTo
<1> QED
  BY ContactsFrames, LoginFrames, IdentityFrames, UploadsFrames,
     ExchangesFrames, RoomsFrames, CatalogueFrames
  DEF Continue, DeleteAccountAndRest

\* Frames keep their shape in every step.
LEMMA FramesStep ==
  ASSUME FramesOK, [Next]_vars
  PROVE  FramesOK'
<1>1. CASE \E w \in Workers : Arrive(w)
  BY <1>1, ArriveGoes
<1>2. CASE \E w \in Workers : Continue(w)
  BY <1>2, ContinueGoes
<1>3. CASE AtOnce
  BY <1>3, AtOnceFrames DEF FramesOK
<1>4. CASE Restart
  BY <1>4, FreeFrame DEF Restart, FramesOK
<1>5. CASE UNCHANGED vars
  BY <1>5 DEF vars, FramesOK
<1> QED
  BY <1>1, <1>2, <1>3, <1>4, <1>5 DEF Next

\* At the start no worker has a request.
LEMMA FramesInit == Init => FramesOK
BY FreeFrame DEF Init, TrafficInit, FramesOK
=============================================================================
