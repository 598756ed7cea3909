--------------------------- MODULE ExchangesProofs ---------------------------
(***************************************************************************)
(* What users exchange and are shown, for any number of users, messages,    *)
(* sockets, places and workers, with restarts: a block that stood during a  *)
(* whole request was obeyed, no later decision replaces one that is made,   *)
(* but for an edit of a report in the back office, and what a room heard of *)
(* an appointment is what is stored; a room is heard by the parties of its  *)
(* conversation only; a search around a place finds its advertisements,     *)
(* unless the statement that makes it so is still to come; and the pages of *)
(* a search cover it as long as rows only come.                             *)
(***************************************************************************)
EXTENDS PlatformFrames, FiniteSetTheorems

People == Users \union {Nil}

ExchangesTypeOK ==
  /\ chat \in [Chats -> Lifecycle]
  /\ note \in [Notes -> [status: Decisions \union {"absent", "PENDING", "erased"},
                         chat: Chats \union {Nil}, from: People]]
  /\ block \in [BlockIds -> [state: Lifecycle, by: People, of: People]]
  /\ report \in [Reports -> [status: Outcomes \union {"absent", "OPEN"},
                             by: People]]
  /\ crossed \subseteq BlockIds

\* The operands that the next statements of a handler need.
ContactOperands(f) ==
  f.at \in ChatSteps \union MessageSteps => f.user \in Users /\ f.row \in Chats
DecisionOperands(f) ==
  /\ f.at = "appointment_write" => f.row \in Notes /\ f.kind \in Decisions
  /\ f.at = "appointment_read" => f.row \in Notes
  /\ f.at = "report_write" => f.row \in Reports /\ f.kind \in Outcomes

\* A request of contact remembers blocks between the parties of its
\* conversation; past the check those are lifted, unless the conversation that
\* a message was meant for is gone.
RemembersBlocks(f) ==
  f.at \in ChatSteps \union MessageSteps =>
    f.seen \subseteq {b \in BlockIds : block[b].state # "absent"
                        /\ block[b].by \in ChatParties[f.row]
                        /\ block[b].of \in ChatParties[f.row]}
PassedBlocks(f) ==
  f.at \in {"chat_insert", "message_insert"} =>
    \/ \A b \in f.seen : block[b].state = "erased"
    \/ f.at = "message_insert" /\ chat[f.row] = "erased"
MessagesHaveChat(f) == f.at \in MessageSteps => chat[f.row] # "absent"

\* What is going to be announced, and what was heard, is what is stored.
AnnouncesStored(f) ==
  f.at = "announce" /\ f.kind \in Decisions =>
    f.row \in Notes /\ note[f.row].status \in {f.kind, "erased"}
HeardStored ==
  \A h \in heard : h.what \in Decisions =>
    h.about \in Notes /\ note[h.about].status \in {h.what, "erased"}

FrameExchangesOK(f) ==
  /\ ContactOperands(f) /\ DecisionOperands(f)
  /\ RemembersBlocks(f) /\ PassedBlocks(f) /\ MessagesHaveChat(f)
  /\ AnnouncesStored(f)

ExchangesInv ==
  /\ FramesOK
  /\ ExchangesTypeOK
  /\ \A w \in Workers : FrameExchangesOK(task[w])
  /\ HeardStored
  /\ NoContactAcrossBlock

\* A frame of another part holds nothing of an exchange.
LEMMA SomeFrame ==
  ASSUME NEW w \in Workers, task'[w].at \notin ExchangesSteps
  PROVE  FrameExchangesOK(task[w])'
BY DEF FrameExchangesOK, ContactOperands, DecisionOperands, RemembersBlocks,
       PassedBlocks, MessagesHaveChat, AnnouncesStored, ExchangesSteps,
       ChatSteps, MessageSteps, AppointmentSteps

\* What later steps may do to the tables without harm to a frame: blocks and
\* conversations go from absent to live to erased, decisions stand.
TablesMoveOn ==
  /\ \A b \in BlockIds :
       /\ block[b].state = "erased" => block'[b].state = "erased"
       /\ block[b].state # "absent" =>
            /\ block'[b].state # "absent"
            /\ block'[b].by = block[b].by /\ block'[b].of = block[b].of
  /\ \A c \in Chats :
       /\ chat[c] = "erased" => chat'[c] = "erased"
       /\ chat[c] # "absent" => chat'[c] # "absent"
  /\ \A n \in Notes : \A d \in Decisions :
       note[n].status \in {d, "erased"} => note'[n].status \in {d, "erased"}

\* A frame that stays is as good as before.
LEMMA FrameStays ==
  ASSUME TablesMoveOn, NEW w \in Workers, task'[w] = task[w],
         FrameExchangesOK(task[w])
  PROVE  FrameExchangesOK(task[w])'
<1>1. ContactOperands(task[w])' /\ DecisionOperands(task[w])'
  BY DEF FrameExchangesOK, ContactOperands, DecisionOperands
<1>2. RemembersBlocks(task[w])'
  BY DEF FrameExchangesOK, RemembersBlocks, TablesMoveOn
<1>3. PassedBlocks(task[w])'
  BY DEF FrameExchangesOK, RemembersBlocks, PassedBlocks, ContactOperands,
         TablesMoveOn, ChatSteps, MessageSteps
<1>4. MessagesHaveChat(task[w])'
  BY DEF FrameExchangesOK, MessagesHaveChat, ContactOperands, TablesMoveOn
<1>5. AnnouncesStored(task[w])'
  BY DEF FrameExchangesOK, AnnouncesStored, TablesMoveOn
<1> QED
  BY <1>1, <1>2, <1>3, <1>4, <1>5 DEF FrameExchangesOK

\* What a room heard stays the stored decision.
LEMMA HeardStays ==
  ASSUME TablesMoveOn, HeardStored, heard' = heard
  PROVE  HeardStored'
BY DEF TablesMoveOn, HeardStored

\* The frames after a step that moved one of them.
LEMMA FramesAfter ==
  ASSUME ExchangesInv, TablesMoveOn, NEW w \in Workers, NEW steps,
         GoesTo(w, steps), FrameExchangesOK(task[w])'
  PROVE  \A v \in Workers : FrameExchangesOK(task[v])'
<1>1. TAKE v \in Workers
<1>2. CASE v = w
  BY <1>2
<1>3. CASE v # w
  <2>1. task'[v] = task[v]
    BY <1>3 DEF GoesTo
  <2>2. FrameExchangesOK(task[v])
    BY DEF ExchangesInv
  <2> QED
    BY <2>1, <2>2, FrameStays
<1> QED
  BY <1>2, <1>3

----------------------------------------------------------------------------
(* Steps of the other parts *)

\* A step that leaves the exchanges alone, and takes a worker to statements of
\* another part, preserves the invariant.
LEMMA Elsewhere ==
  ASSUME ExchangesInv, NEW w \in Workers, NEW steps, GoesTo(w, steps),
         steps \intersect ExchangesSteps = {},
         UNCHANGED exchanges, heard' = heard
  PROVE  ExchangesInv'
<1>1. TablesMoveOn
  BY DEF TablesMoveOn, exchanges
<1>2. task'[w].at \notin ExchangesSteps
  BY DEF GoesTo, ExchangesSteps, ChatSteps, MessageSteps, AppointmentSteps
<1>3. FrameExchangesOK(task[w])'
  BY <1>2, SomeFrame
<1>4. \A v \in Workers : FrameExchangesOK(task[v])'
  BY <1>1, <1>3, FramesAfter
<1>5. FramesOK'
  BY DEF ExchangesInv, FramesOK, GoesTo
<1>6. ExchangesTypeOK' /\ NoContactAcrossBlock'
  BY DEF ExchangesInv, ExchangesTypeOK, NoContactAcrossBlock, exchanges
<1>7. HeardStored'
  BY <1>1, HeardStays DEF ExchangesInv
<1> QED
  BY <1>4, <1>5, <1>6, <1>7 DEF ExchangesInv

\* The same for a step that no worker takes, or a stutter.
LEMMA Aside ==
  ASSUME ExchangesInv, UNCHANGED <<task, exchanges>>, heard' = heard
  PROVE  ExchangesInv'
<1>1. TablesMoveOn
  BY DEF TablesMoveOn, exchanges
<1>2. \A v \in Workers : FrameExchangesOK(task[v])'
  BY <1>1, FrameStays DEF ExchangesInv
<1>3. HeardStored'
  BY <1>1, HeardStays DEF ExchangesInv
<1> QED
  BY <1>2, <1>3
  DEF ExchangesInv, FramesOK, ExchangesTypeOK, NoContactAcrossBlock, exchanges

\* The steps of two parts are apart.
LEMMA PartsApart ==
  /\ ContactsSteps \intersect ExchangesSteps = {}
  /\ LoginSteps \intersect ExchangesSteps = {}
  /\ IdentitySteps \intersect ExchangesSteps = {}
  /\ UploadsSteps \intersect ExchangesSteps = {}
  /\ RoomsSteps \intersect ExchangesSteps = {}
  /\ CatalogueSteps \intersect ExchangesSteps = {}
BY DEF ContactsSteps, CodeSteps, LinkSteps, EditSteps, LoginSteps, OtpSteps,
       OAuthSteps, IdentitySteps, UploadsSteps, RoomsSteps, CatalogueSteps,
       ExchangesSteps, ChatSteps, MessageSteps, AppointmentSteps

\* Statements of the other parts keep the invariant.
LEMMA ContinueElsewhere ==
  ASSUME ExchangesInv, NEW w \in Workers,
         \/ ContactsGoOn(w) /\ UNCHANGED <<exchanges, rooms>>
         \/ LoginGoOn(w) /\ UNCHANGED <<exchanges, rooms>>
         \/ IdentityGoOn(w) /\ UNCHANGED <<exchanges, rooms>>
         \/ UploadsGoOn(w) /\ UNCHANGED <<exchanges, rooms>>
         \/ CatalogueGoOn(w) /\ UNCHANGED <<exchanges, rooms>>
  PROVE  ExchangesInv'
<1> FramesOK
  BY DEF ExchangesInv
<1> USE DEF rooms
<1> QED
  BY Elsewhere, PartsApart, ContactsFrames, LoginFrames, IdentityFrames,
     UploadsFrames, CatalogueFrames

\* Requests to the other parts keep the invariant.
LEMMA ArriveElsewhere ==
  ASSUME ExchangesInv, NEW w \in Workers,
         \/ ContactsArrive(w) /\ UNCHANGED <<exchanges, rooms>>
         \/ LoginArrive(w) /\ UNCHANGED <<exchanges, rooms>>
         \/ IdentityArrive(w) /\ UNCHANGED <<exchanges, rooms>>
         \/ UploadsArrive(w) /\ UNCHANGED <<exchanges, rooms>>
         \/ RoomsArrive(w)
         \/ CatalogueArrive(w) /\ UNCHANGED <<exchanges, rooms>>
  PROVE  ExchangesInv'
<1> FramesOK
  BY DEF ExchangesInv
<1>1. RoomsArrive(w) => UNCHANGED <<exchanges, rooms>>
  BY DEF RoomsArrive, JoinRoom, Everything
<1> USE DEF rooms
<1> QED
  BY <1>1, Elsewhere, PartsApart, ContactsArriveFrames, LoginArriveFrames,
     IdentityArriveFrames, UploadsArriveFrames, RoomsArriveFrames,
     CatalogueArriveFrames

----------------------------------------------------------------------------
(* Conversations, messages, appointments and reports *)

\* A statement of this part: its tables move on, its own frame is good.
LEMMA OwnStep ==
  ASSUME ExchangesInv, NEW w \in Workers, GoesTo(w, ExchangesSteps),
         TablesMoveOn, ExchangesTypeOK', FrameExchangesOK(task[w])',
         NoContactAcrossBlock', heard' = heard
  PROVE  ExchangesInv'
<1>1. \A v \in Workers : FrameExchangesOK(task[v])'
  BY FramesAfter
<1>2. FramesOK'
  BY DEF ExchangesInv, FramesOK, GoesTo
<1>3. HeardStored'
  BY HeardStays DEF ExchangesInv
<1> QED
  BY <1>1, <1>2, <1>3 DEF ExchangesInv

\* A request of contact, or of a decision, that arrives.
LEMMA ExchangesArriveStep ==
  ASSUME ExchangesInv, NEW w \in Workers, ExchangesArrive(w),
         heard' = heard
  PROVE  ExchangesInv'
<1>1. GoesTo(w, ExchangesSteps)
  BY ExchangesArriveFrames DEF ExchangesInv
<1>2. UNCHANGED exchanges
  BY DEF ExchangesArrive, StartChat, SendMessage, DecideAppointment,
         ResolveReport
<1>3. TablesMoveOn /\ ExchangesTypeOK' /\ NoContactAcrossBlock'
  BY <1>2 DEF ExchangesInv, TablesMoveOn, ExchangesTypeOK,
              NoContactAcrossBlock, exchanges
<1>4. FrameExchangesOK(task[w])'
  <2> USE <1>2, ChatsAssumption
      DEF ExchangesInv, FramesOK, FrameOK, FrameFields, ExchangesTypeOK,
          FrameExchangesOK, ContactOperands, DecisionOperands,
          RemembersBlocks, PassedBlocks, MessagesHaveChat, AnnouncesStored,
          ChatSteps, MessageSteps, Start, Free, exchanges, Standing
  <2>1. CASE \E c \in Chats, u \in Users : StartChat(w, c, u)
    BY <2>1 DEF StartChat
  <2>2. CASE \E c \in Chats, u \in Users : SendMessage(w, c, u)
    BY <2>2 DEF SendMessage
  <2>3. CASE \E n \in Notes, u \in Users, d \in Decisions :
               DecideAppointment(w, n, u, d)
    BY <2>3 DEF DecideAppointment
  <2>4. CASE \E r \in Reports, outcome \in Outcomes :
               ResolveReport(w, r, outcome)
    BY <2>4 DEF ResolveReport
  <2> QED
    BY <2>1, <2>2, <2>3, <2>4 DEF ExchangesArrive
<1> QED
  BY <1>1, <1>3, <1>4, OwnStep

\* The check of a block reads it as it stands.
LEMMA CheckStep ==
  ASSUME ExchangesInv, NEW w \in Workers, CheckChat(w) \/ CheckMessage(w),
         heard' = heard
  PROVE  ExchangesInv'
<1>1. GoesTo(w, ExchangesSteps)
  BY ExchangesFrames DEF ExchangesInv, ExchangesGoOn
<1>2. UNCHANGED exchanges
  BY DEF CheckChat, CheckMessage
<1>3. TablesMoveOn /\ ExchangesTypeOK' /\ NoContactAcrossBlock'
  BY <1>2 DEF ExchangesInv, TablesMoveOn, ExchangesTypeOK,
              NoContactAcrossBlock, exchanges
<1>4. FrameExchangesOK(task[w])'
  <2>1. CASE task'[w] = Free
    BY <2>1, SomeFrame, FreeFrame
       DEF ExchangesSteps, ChatSteps, MessageSteps, AppointmentSteps
  <2>2. CASE /\ task[w].at \in {"chat_check", "message_check"}
             /\ task' = [task EXCEPT ![w].at = IF task[w].at = "chat_check"
                           THEN "chat_insert" ELSE "message_insert"]
             /\ \/ Standing(task[w].row) = {}
                \/ /\ task[w].at = "message_check"
                   /\ chat[task[w].row] # "live"
    <3> DEFINE c == task[w].row
               f == task'[w]
    <3>1. /\ f.row = c /\ f.user = task[w].user /\ f.seen = task[w].seen
          /\ f.at = IF task[w].at = "chat_check"
                    THEN "chat_insert" ELSE "message_insert"
      BY <2>2 DEF ExchangesInv, FramesOK, FrameOK, FrameFields
    <3>2. /\ ContactOperands(task[w]) /\ RemembersBlocks(task[w])
          /\ MessagesHaveChat(task[w])
      BY DEF ExchangesInv, FrameExchangesOK
    <3>3. /\ c \in Chats
          /\ task[w].seen \subseteq {b \in BlockIds : block[b].state # "absent"
                /\ block[b].by \in ChatParties[c]
                /\ block[b].of \in ChatParties[c]}
          /\ task[w].at = "message_check" => chat[c] # "absent"
      BY <2>2, <3>2 DEF ContactOperands, RemembersBlocks, MessagesHaveChat,
                        ChatSteps, MessageSteps
    <3>4. \/ \A b \in task[w].seen : block[b].state = "erased"
          \/ task[w].at = "message_check" /\ chat[c] = "erased"
      BY <2>2, <3>3 DEF Standing, ExchangesInv, ExchangesTypeOK, Lifecycle
    <3> QED
      BY <2>2, <1>2, <3>1, <3>2, <3>3, <3>4
      DEF FrameExchangesOK, ContactOperands, DecisionOperands,
          RemembersBlocks, PassedBlocks, MessagesHaveChat, AnnouncesStored,
          ChatSteps, MessageSteps, exchanges
  <2> QED
    BY <2>1, <2>2
    DEF CheckChat, CheckMessage, BlockedBetween, Doing, Then, Answer,
        ExchangesInv, FramesOK
<1> QED
  BY <1>1, <1>3, <1>4, OwnStep

\* A conversation is opened: no block that the request arrived under stands.
LEMMA InsertChatStep ==
  ASSUME ExchangesInv, NEW w \in Workers, InsertChat(w), heard' = heard
  PROVE  ExchangesInv'
<1>1. GoesTo(w, ExchangesSteps) /\ task'[w] = Free
  BY ExchangesFrames
  DEF ExchangesInv, ExchangesGoOn, InsertChat, Answer, FramesOK
<1>2. /\ task[w].row \in Chats
      /\ \A b \in task[w].seen : block[b].state = "erased"
  BY DEF InsertChat, Doing, ExchangesInv, FrameExchangesOK, ContactOperands,
         PassedBlocks, ChatSteps
<1>3. task[w].seen \intersect Standing(task[w].row) = {}
  BY <1>2 DEF Standing
<1>4. NoContactAcrossBlock'
  BY <1>3 DEF InsertChat, ExchangesInv, NoContactAcrossBlock
<1>5. ExchangesTypeOK'
  BY <1>2, <1>4
  DEF InsertChat, ExchangesInv, ExchangesTypeOK, Lifecycle,
      NoContactAcrossBlock
<1>6. TablesMoveOn
  BY <1>2 DEF InsertChat, TablesMoveOn, ExchangesInv, ExchangesTypeOK
<1>7. FrameExchangesOK(task[w])'
  BY <1>1, SomeFrame, FreeFrame
  DEF ExchangesSteps, ChatSteps, MessageSteps, AppointmentSteps
<1> QED
  BY <1>1, <1>4, <1>5, <1>6, <1>7, OwnStep

\* A message is sent: likewise, unless its conversation is gone.
LEMMA InsertMessageStep ==
  ASSUME ExchangesInv, NEW w \in Workers, InsertMessage(w), heard' = heard
  PROVE  ExchangesInv'
<1> DEFINE c == task[w].row
<1>1. GoesTo(w, ExchangesSteps)
  BY ExchangesFrames DEF ExchangesInv, ExchangesGoOn
<1>2. /\ c \in Chats /\ task[w].user \in Users
      /\ \/ \A b \in task[w].seen : block[b].state = "erased"
         \/ chat[c] = "erased"
  BY DEF InsertMessage, Doing, ExchangesInv, FrameExchangesOK,
         ContactOperands, PassedBlocks, MessageSteps
<1>3. chat[c] = "live" => task[w].seen \intersect Standing(c) = {}
  BY <1>2 DEF Standing
<1>4. CASE \E n \in Notes :
             /\ note[n] = NoNote
             /\ note' = [note EXCEPT ![n] =
                  [status |-> "PENDING", chat |-> c, from |-> task[w].user]]
             /\ task' = [task EXCEPT ![w] = [Free EXCEPT !.at = "announce",
                           !.row = n, !.addr = c, !.kind = "PENDING"]]
             /\ crossed' = crossed
             /\ UNCHANGED <<chat, block, report>>
  <2>1. PICK n \in Notes :
          /\ note[n] = NoNote
          /\ note' = [note EXCEPT ![n] =
               [status |-> "PENDING", chat |-> c, from |-> task[w].user]]
          /\ task' = [task EXCEPT ![w] = [Free EXCEPT !.at = "announce",
                        !.row = n, !.addr = c, !.kind = "PENDING"]]
          /\ crossed' = crossed
          /\ UNCHANGED <<chat, block, report>>
    BY <1>4
  <2>2. task'[w].at = "announce" /\ task'[w].kind = "PENDING"
    BY <2>1 DEF ExchangesInv, FramesOK, Free
  <2>3. FrameExchangesOK(task[w])'
    BY <2>2
    DEF FrameExchangesOK, ContactOperands, DecisionOperands, RemembersBlocks,
        PassedBlocks, MessagesHaveChat, AnnouncesStored, ChatSteps,
        MessageSteps, Decisions
  <2>4. TablesMoveOn
    BY <2>1 DEF TablesMoveOn, ExchangesInv, ExchangesTypeOK, NoNote, Decisions
  <2>5. ExchangesTypeOK'
    BY <2>1, <1>2 DEF ExchangesInv, ExchangesTypeOK, People
  <2>6. NoContactAcrossBlock'
    BY <2>1 DEF ExchangesInv, NoContactAcrossBlock
  <2> QED
    BY <1>1, <2>3, <2>4, <2>5, <2>6, OwnStep
<1>5. CASE task' = [task EXCEPT ![w] = Free] /\ UNCHANGED exchanges
  <2>1. task'[w] = Free
    BY <1>5 DEF ExchangesInv, FramesOK
  <2>2. FrameExchangesOK(task[w])'
    BY <2>1, SomeFrame, FreeFrame
    DEF ExchangesSteps, ChatSteps, MessageSteps, AppointmentSteps
  <2>3. TablesMoveOn /\ ExchangesTypeOK' /\ NoContactAcrossBlock'
    BY <1>5 DEF ExchangesInv, TablesMoveOn, ExchangesTypeOK,
                NoContactAcrossBlock, exchanges
  <2> QED
    BY <1>1, <2>2, <2>3, OwnStep
<1> QED
  BY <1>3, <1>4, <1>5
  DEF InsertMessage, Answer, exchanges, ExchangesInv, NoContactAcrossBlock

\* A decision matches a PENDING appointment only, and is read again.
LEMMA DecisionStep ==
  ASSUME ExchangesInv, NEW w \in Workers, WriteDecision(w) \/ ReadDecision(w),
         heard' = heard
  PROVE  ExchangesInv'
<1>1. GoesTo(w, ExchangesSteps)
  BY ExchangesFrames DEF ExchangesInv, ExchangesGoOn
<1>2. DecisionOperands(task[w]) /\ DOMAIN task = Workers
      /\ DOMAIN task[w] = FrameFields
  BY DEF ExchangesInv, FrameExchangesOK, FramesOK, FrameOK
<1>3. CASE ReadDecision(w)
  <2>1. UNCHANGED exchanges /\ task[w].row \in Notes
    BY <1>2, <1>3 DEF ReadDecision, Doing, DecisionOperands
  <2>2. /\ task'[w].at = "announce" /\ task'[w].row = task[w].row
        /\ task'[w].kind = note[task[w].row].status
    BY <1>2, <1>3 DEF ReadDecision, FrameFields
  <2>3. FrameExchangesOK(task[w])'
    BY <2>1, <2>2
    DEF FrameExchangesOK, ContactOperands, DecisionOperands, RemembersBlocks,
        PassedBlocks, MessagesHaveChat, AnnouncesStored, ChatSteps,
        MessageSteps, exchanges
  <2>4. TablesMoveOn /\ ExchangesTypeOK' /\ NoContactAcrossBlock'
    BY <2>1 DEF ExchangesInv, TablesMoveOn, ExchangesTypeOK,
                NoContactAcrossBlock, exchanges
  <2> QED
    BY <1>1, <2>3, <2>4, OwnStep
<1>4. CASE WriteDecision(w)
  <2> DEFINE n == task[w].row
  <2>1. n \in Notes /\ task[w].kind \in Decisions
    BY <1>2, <1>4 DEF WriteDecision, Doing, DecisionOperands
  <2>2. \/ /\ task'[w].at = "appointment_read" /\ task'[w].row = n
        \/ task'[w] = Free
    BY <1>2, <1>4 DEF WriteDecision, Then, Answer, FrameFields
  <2>3. FrameExchangesOK(task[w])'
    BY <2>1, <2>2, FreeFrame
    DEF FrameExchangesOK, ContactOperands, DecisionOperands, RemembersBlocks,
        PassedBlocks, MessagesHaveChat, AnnouncesStored, ChatSteps,
        MessageSteps
  <2>4. /\ \/ note' = note
           \/ /\ note[n].status = "PENDING"
              /\ note' = [note EXCEPT ![n].status = task[w].kind]
        /\ UNCHANGED <<chat, block, report, crossed>>
    BY <1>4 DEF WriteDecision, StillPending
  <2>5. TablesMoveOn
    BY <2>1, <2>4 DEF TablesMoveOn, ExchangesInv, ExchangesTypeOK, Decisions
  <2>6. ExchangesTypeOK'
    BY <2>1, <2>4 DEF ExchangesInv, ExchangesTypeOK
  <2>7. NoContactAcrossBlock'
    BY <2>4 DEF ExchangesInv, NoContactAcrossBlock
  <2> QED
    BY <1>1, <2>3, <2>5, <2>6, <2>7, OwnStep
<1> QED
  BY <1>3, <1>4

\* The resolution of a report.
LEMMA ReportStep ==
  ASSUME ExchangesInv, NEW w \in Workers, WriteReport(w), heard' = heard
  PROVE  ExchangesInv'
<1>1. GoesTo(w, ExchangesSteps)
  BY ExchangesFrames DEF ExchangesInv, ExchangesGoOn
<1>2. task'[w] = Free
  BY DEF WriteReport, Answer, ExchangesInv, FramesOK
<1>3. FrameExchangesOK(task[w])'
  BY <1>2, SomeFrame, FreeFrame
  DEF ExchangesSteps, ChatSteps, MessageSteps, AppointmentSteps
<1>4. task[w].row \in Reports /\ task[w].kind \in Outcomes
  BY DEF WriteReport, Doing, ExchangesInv, FrameExchangesOK, DecisionOperands
<1>5. TablesMoveOn
  BY DEF WriteReport, TablesMoveOn
<1>6. ExchangesTypeOK' /\ NoContactAcrossBlock'
  BY <1>4
  DEF WriteReport, ExchangesInv, ExchangesTypeOK, NoContactAcrossBlock
<1> QED
  BY <1>1, <1>3, <1>5, <1>6, OwnStep

----------------------------------------------------------------------------
(* Rooms, and what takes a single statement *)

\* What a room is told is what is stored.
LEMMA RoomsStep ==
  ASSUME ExchangesInv, NEW w \in Workers, RoomsGoOn(w)
  PROVE  ExchangesInv'
<1>1. GoesTo(w, {}) /\ task'[w].at = "idle"
  BY FreeFrame, AnswerFrame
  DEF RoomsGoOn, EnterRoom, Announce, Answer, ExchangesInv, FramesOK
<1>2. UNCHANGED exchanges
  BY DEF RoomsGoOn, EnterRoom, Announce, Everything
<1>3. CASE heard' = heard
  BY <1>1, <1>2, <1>3, Elsewhere
<1>4. CASE Announce(w)
  <2>1. TablesMoveOn
    BY <1>2 DEF TablesMoveOn, exchanges
  <2>2. FrameExchangesOK(task[w])'
    BY <1>1, SomeFrame
    DEF ExchangesSteps, ChatSteps, MessageSteps, AppointmentSteps
  <2>3. \A v \in Workers : FrameExchangesOK(task[v])'
    BY <1>1, <2>1, <2>2, FramesAfter
  <2>4. FramesOK'
    BY <1>1 DEF ExchangesInv, FramesOK, GoesTo
  <2>5. AnnouncesStored(task[w]) /\ task[w].at = "announce"
    BY <1>4 DEF Announce, Doing, ExchangesInv, FrameExchangesOK
  <2>6. \A h \in heard' \ heard : h.about = task[w].row /\ h.what = task[w].kind
    BY <1>4 DEF Announce, Told
  <2>7. HeardStored'
    BY <1>2, <2>5, <2>6
    DEF ExchangesInv, HeardStored, AnnouncesStored, exchanges
  <2> QED
    BY <1>2, <2>3, <2>4, <2>7
    DEF ExchangesInv, ExchangesTypeOK, NoContactAcrossBlock, exchanges
<1> QED
  BY <1>3, <1>4 DEF RoomsGoOn, EnterRoom

\* A user who types is heard, which is no decision.
LEMMA TypeStep ==
  ASSUME ExchangesInv, NEW k, NEW c, Type(k, c)
  PROVE  ExchangesInv'
<1>1. UNCHANGED <<task, exchanges>>
  BY DEF Type, Everything
<1>2. \A h \in heard' \ heard : h.what = "typing"
  BY DEF Type, Told
<1>3. TablesMoveOn
  BY <1>1 DEF TablesMoveOn, exchanges
<1>4. HeardStored'
  BY <1>1, <1>2 DEF ExchangesInv, HeardStored, Decisions, exchanges
<1>5. \A v \in Workers : FrameExchangesOK(task[v])'
  BY <1>1, <1>3, FrameStays DEF ExchangesInv
<1> QED
  BY <1>1, <1>4, <1>5
  DEF ExchangesInv, FramesOK, ExchangesTypeOK, NoContactAcrossBlock, exchanges

\* A step of the tables that no worker takes.
LEMMA TableStep ==
  ASSUME ExchangesInv, UNCHANGED <<task, crossed>>, heard' = heard,
         TablesMoveOn, ExchangesTypeOK'
  PROVE  ExchangesInv'
<1>1. \A v \in Workers : FrameExchangesOK(task[v])'
  BY FrameStays DEF ExchangesInv
<1> QED
  BY <1>1, HeardStays DEF ExchangesInv, FramesOK, NoContactAcrossBlock

\* Blocks and reports, messages and conversations that are deleted.
LEMMA ExchangesAtOnceStep ==
  ASSUME ExchangesInv, ExchangesAtOnce, heard' = heard
  PROVE  ExchangesInv'
<1> USE DEF ExchangesInv, ExchangesTypeOK, TablesMoveOn
<1>1. CASE \E u, v \in Users : Block(u, v)
  <2>1. PICK b \in BlockIds, u \in Users, v \in Users :
          /\ block[b] = NoBlock
          /\ block' = [block EXCEPT ![b] = [state |-> "live", by |-> u, of |-> v]]
          /\ UNCHANGED <<task, chat, note, report, crossed>>
    BY <1>1 DEF Block
  <2>2. TablesMoveOn
    BY <2>1 DEF NoBlock
  <2>3. ExchangesTypeOK'
    BY <2>1 DEF People, Lifecycle
  <2> QED
    BY <2>1, <2>2, <2>3, TableStep
<1>2. CASE \E u, v \in Users : Unblock(u, v)
  <2>1. PICK b \in BlockIds :
          /\ block' = [block EXCEPT ![b].state = "erased"]
          /\ UNCHANGED <<task, chat, note, report, crossed>>
    BY <1>2 DEF Unblock
  <2>2. TablesMoveOn
    BY <2>1
  <2>3. ExchangesTypeOK'
    BY <2>1 DEF Lifecycle
  <2> QED
    BY <2>1, <2>2, <2>3, TableStep
<1>3. CASE \E r \in Reports, u \in Users : FileReport(r, u)
  <2>1. TablesMoveOn
    BY <1>3 DEF FileReport
  <2>2. ExchangesTypeOK'
    BY <1>3 DEF FileReport, People
  <2> QED
    BY <1>3, <2>1, <2>2, TableStep DEF FileReport
<1>7. CASE \E r \in Reports : PanelEdits(r)
  <2>1. PICK r \in Reports, status \in Outcomes \union {"OPEN"} :
          /\ report' = [report EXCEPT ![r].status = status]
          /\ UNCHANGED <<task, chat, note, block, crossed>>
    BY <1>7 DEF PanelEdits, EditReport
  <2>2. TablesMoveOn
    BY <2>1
  <2>3. ExchangesTypeOK'
    BY <2>1
  <2> QED
    BY <2>1, <2>2, <2>3, TableStep
<1>4. ASSUME NEW gone, EraseNotes(gone), UNCHANGED <<task, block, report, crossed>>,
             \/ chat' = chat
             \/ \E c \in Chats : chat' = [chat EXCEPT ![c] = "erased"]
      PROVE  ExchangesInv'
  <2>1. TablesMoveOn
    BY <1>4 DEF EraseNotes
  <2>2. note' \in [Notes -> [status: Decisions \union {"absent", "PENDING", "erased"},
                            chat: Chats \union {Nil}, from: People]]
    BY <1>4 DEF EraseNotes
  <2>3. ExchangesTypeOK'
    BY <1>4, <2>2 DEF Lifecycle
  <2> QED
    BY <1>4, <2>1, <2>3, TableStep
<1>5. CASE \E n \in Notes : EraseNote(n)
  BY <1>4, <1>5 DEF EraseNote
<1>6. CASE \E c \in Chats : EraseChat(c)
  BY <1>4, <1>6 DEF EraseChat
<1> QED
  BY <1>1, <1>2, <1>3, <1>5, <1>6, <1>7 DEF ExchangesAtOnce

\* Blocks, reports and removals take a single statement.
LEMMA AtOnceStep ==
  ASSUME ExchangesInv, AtOnce
  PROVE  ExchangesInv'
<1>1. UNCHANGED task
  BY AtOnceFrames
<1>2. CASE \/ LoginAtOnce /\ UNCHANGED <<exchanges, rooms>>
           \/ IdentityAtOnce /\ UNCHANGED <<exchanges, rooms>>
           \/ UploadsAtOnce /\ UNCHANGED <<exchanges, rooms>>
           \/ CatalogueAtOnce /\ UNCHANGED <<exchanges, rooms>>
  BY <1>1, <1>2, Aside DEF rooms
<1>3. CASE ExchangesAtOnce /\ UNCHANGED rooms
  BY <1>3, ExchangesAtOnceStep DEF rooms
<1>4. CASE RoomsAtOnce
  <2>1. CASE \E k \in Sockets, c \in Chats : Type(k, c)
    BY <2>1, TypeStep
  <2>2. CASE heard' = heard /\ UNCHANGED exchanges
    BY <1>1, <2>2, Aside
  <2> QED
    BY <1>4, <2>1, <2>2
    DEF RoomsAtOnce, Disconnect, Connect, LeaveRoom, Everything
<1> QED
  BY <1>2, <1>3, <1>4 DEF AtOnce

----------------------------------------------------------------------------
(* Deleted accounts, restarts and the start *)

\* The blocks of a deleted account go with it.
LEMMA DeleteAccountStep ==
  ASSUME ExchangesInv, NEW w \in Workers, DeleteAccountAndRest(w)
  PROVE  ExchangesInv'
<1>1. GoesTo(w, IdentitySteps)
  BY IdentityFrames DEF DeleteAccountAndRest, ExchangesInv
<1>2. UNCHANGED <<chat, note, report, crossed>> /\ heard' = heard
  BY DEF DeleteAccountAndRest, rooms
<1>3. TablesMoveOn
  BY <1>2 DEF DeleteAccountAndRest, TablesMoveOn, ExchangesInv, ExchangesTypeOK
<1>4. block' \in [BlockIds -> [state: Lifecycle, by: People, of: People]]
  BY DEF DeleteAccountAndRest, ExchangesInv, ExchangesTypeOK, Lifecycle
<1>5. FrameExchangesOK(task[w])'
  BY <1>1, SomeFrame, PartsApart
  DEF GoesTo, ExchangesSteps, ChatSteps, MessageSteps, AppointmentSteps
<1>6. \A v \in Workers : FrameExchangesOK(task[v])'
  BY <1>1, <1>3, <1>5, FramesAfter
<1>7. FramesOK'
  BY <1>1 DEF ExchangesInv, FramesOK, GoesTo
<1> QED
  BY <1>2, <1>3, <1>4, <1>6, <1>7, HeardStays
  DEF ExchangesInv, ExchangesTypeOK, NoContactAcrossBlock

\* A restart loses the handlers, not the tables.
LEMMA RestartStep ==
  ASSUME ExchangesInv, Restart
  PROVE  ExchangesInv'
<1>1. task' = [v \in Workers |-> Free] /\ UNCHANGED exchanges /\ heard' = heard
  BY DEF Restart
<1>2. FramesOK'
  BY <1>1, FreeFrame DEF FramesOK
<1>3. \A v \in Workers : FrameExchangesOK(task[v])'
  BY <1>1, FreeFrame, SomeFrame
  DEF ExchangesSteps, ChatSteps, MessageSteps, AppointmentSteps
<1> QED
  BY <1>1, <1>2, <1>3
  DEF ExchangesInv, ExchangesTypeOK, HeardStored, NoContactAcrossBlock,
      exchanges

\* The start: whoever is a member may already be in a conversation.
LEMMA ExchangesStart == Init => ExchangesInv
<1> SUFFICES ASSUME Init PROVE ExchangesInv
  OBVIOUS
<1>1. FramesOK
  BY FramesInit
<1>2. ExchangesTypeOK
  BY DEF Init, ExchangesInit, ExchangesTypeOK, NoNote, NoBlock, NoReport,
         People, Lifecycle
<1>3. \A v \in Workers : FrameExchangesOK(task[v])
  BY FreeFrame
  DEF Init, TrafficInit, FrameExchangesOK, ContactOperands, DecisionOperands,
      RemembersBlocks, PassedBlocks, MessagesHaveChat, AnnouncesStored,
      ChatSteps, MessageSteps
<1> QED
  BY <1>1, <1>2, <1>3
  DEF Init, RoomsInit, ExchangesInit, ExchangesInv, HeardStored,
      NoContactAcrossBlock

\* Every statement of this part keeps the invariant.
LEMMA ExchangesGoOnStep ==
  ASSUME ExchangesInv, NEW w \in Workers, ExchangesGoOn(w), heard' = heard
  PROVE  ExchangesInv'
BY CheckStep, InsertChatStep, InsertMessageStep, DecisionStep, ReportStep
DEF ExchangesGoOn

\* Every step preserves the invariant.
LEMMA ExchangesStep ==
  ASSUME ExchangesInv, [Next]_vars
  PROVE  ExchangesInv'
<1>1. ASSUME NEW w \in Workers, Arrive(w)
      PROVE  ExchangesInv'
  BY <1>1, ArriveElsewhere, ExchangesArriveStep DEF Arrive, rooms
<1>2. ASSUME NEW w \in Workers, Continue(w)
      PROVE  ExchangesInv'
  BY <1>2, ContinueElsewhere, ExchangesGoOnStep, RoomsStep, DeleteAccountStep
  DEF Continue, rooms
<1>3. CASE UNCHANGED vars
  BY <1>3, Aside DEF vars, rooms
<1> QED
  BY <1>1, <1>2, <1>3, AtOnceStep, RestartStep DEF Next

----------------------------------------------------------------------------
\* The tables of exchanges, and what the handlers hold of them, stay
\* consistent in every behaviour of the platform.
THEOREM ExchangesInvariant == Spec => []ExchangesInv
<1>1. Init => ExchangesInv
  BY ExchangesStart
<1>2. ExchangesInv /\ [Next]_vars => ExchangesInv'
  BY ExchangesStep
<1> QED
  BY <1>1, <1>2, PTL DEF Spec

\* No conversation is opened and no message is sent across a block that stood
\* from the arrival of the request to its write.
THEOREM BlocksAreObeyed == Spec => []NoContactAcrossBlock
<1>1. ExchangesInv => NoContactAcrossBlock
  BY DEF ExchangesInv
<1> QED
  BY <1>1, ExchangesInvariant, PTL

\* A room never hears a decision that is not the stored one.
THEOREM AnnouncementsStand == Spec => []AnnouncedDecisionStands
<1>1. ExchangesInv => AnnouncedDecisionStands
  BY DEF ExchangesInv, HeardStored, AnnouncedDecisionStands
<1> QED
  BY <1>1, ExchangesInvariant, PTL

----------------------------------------------------------------------------
(* Decisions are final *)

DecisionsKept ==
  /\ \A n \in Notes : note[n].status \in Decisions =>
       note'[n].status \in {note[n].status, "erased"}
  /\ \A r \in Reports : report[r].status \in Outcomes =>
       report'[r] = report[r] \/ PanelEdits(r)

\* The steps of other parts do not touch appointments and reports.
LEMMA OthersKeepDecisions ==
  ASSUME [Next]_vars,
         ~ \E w \in Workers : ExchangesGoOn(w),
         ~ ExchangesAtOnce
  PROVE  UNCHANGED <<note, report>>
<1> USE DEF exchanges
<1>1. ASSUME NEW w \in Workers, Arrive(w)
      PROVE  UNCHANGED <<note, report>>
  BY <1>1
  DEF Arrive, ExchangesArrive, StartChat, SendMessage, DecideAppointment,
      ResolveReport, RoomsArrive, JoinRoom, Everything
<1>2. ASSUME NEW w \in Workers, Continue(w)
      PROVE  UNCHANGED <<note, report>>
  BY <1>2
  DEF Continue, RoomsGoOn, EnterRoom, Announce, Everything,
      DeleteAccountAndRest
<1>3. CASE AtOnce
  BY <1>3
  DEF AtOnce, RoomsAtOnce, Disconnect, Connect, LeaveRoom, Type, Everything
<1>4. CASE Restart \/ UNCHANGED vars
  BY <1>4 DEF Restart, vars
<1> QED
  BY <1>1, <1>2, <1>3, <1>4 DEF Next

\* A handler overwrites no decision.
LEMMA HandlersKeepDecisions ==
  ASSUME ExchangesInv, NEW w \in Workers, ExchangesGoOn(w)
  PROVE  DecisionsKept
<1> USE DEF ExchangesInv, ExchangesTypeOK, DecisionsKept, Decisions, Outcomes
<1>1. CASE WriteDecision(w)
  BY <1>1 DEF WriteDecision, StillPending
<1>2. CASE InsertMessage(w)
  <2>1. \/ UNCHANGED <<note, report>>
        \/ /\ \E n \in Notes : /\ note[n].status = "absent"
                             /\ \A m \in Notes \ {n} : note'[m] = note[m]
           /\ report' = report
    <3>1. \/ note' = note
          \/ \E n \in Notes : \E row :
               note[n] = NoNote /\ note' = [note EXCEPT ![n] = row]
      BY <1>2 DEF InsertMessage
    <3>2. report' = report
      BY <1>2 DEF InsertMessage
    <3> QED
      BY <3>1, <3>2 DEF NoNote
  <2> QED
    BY <2>1
<1>3. CASE WriteReport(w)
  BY <1>3 DEF WriteReport
<1>4. CASE CheckChat(w) \/ InsertChat(w) \/ CheckMessage(w) \/ ReadDecision(w)
  BY <1>4 DEF CheckChat, InsertChat, CheckMessage, ReadDecision, exchanges
<1> QED
  BY <1>1, <1>2, <1>3, <1>4 DEF ExchangesGoOn

\* A single statement overwrites none either, but for the edit of the report.
LEMMA StatementsKeepDecisions ==
  ASSUME ExchangesInv, ExchangesAtOnce
  PROVE  DecisionsKept
<1> USE DEF ExchangesInv, ExchangesTypeOK, DecisionsKept, Decisions, Outcomes
<1>1. CASE \E r \in Reports : PanelEdits(r)
  <2> PICK r \in Reports : PanelEdits(r)
    BY <1>1
  <2>1. note' = note /\ \A x \in Reports \ {r} : report'[x] = report[x]
    BY DEF PanelEdits, EditReport
  <2> QED
    BY <2>1
<1>2. CASE ~\E r \in Reports : PanelEdits(r)
  <2>1. \A r \in Reports : report[r].status \in Outcomes => report'[r] = report[r]
    <3>1. \/ report' = report
          \/ \E r \in Reports : \E row :
               report[r] = NoReport /\ report' = [report EXCEPT ![r] = row]
      BY <1>2 DEF ExchangesAtOnce, Block, Unblock, FileReport, EraseNote, EraseChat
    <3> QED
      BY <3>1 DEF NoReport
  <2>2. \A n \in Notes : note[n].status \in Decisions =>
          note'[n].status \in {note[n].status, "erased"}
    BY <1>2 DEF ExchangesAtOnce, Block, Unblock, FileReport, EraseNote,
                EraseChat, EraseNotes
  <2> QED
    BY <2>1, <2>2
<1> QED
  BY <1>1, <1>2

\* Of two decisions on an appointment the first one stands, and a resolution
\* rewrites no report that is decided, by a resolution before it or in the back
\* office; the back office itself may edit it.
THEOREM DecisionsAreFinal == Spec => DecisionsStand
<1>1. ExchangesInv /\ [Next]_vars => [DecisionsKept]_<<note, report>>
  BY OthersKeepDecisions, HandlersKeepDecisions, StatementsKeepDecisions
<1> QED
  BY <1>1, ExchangesInvariant, PTL DEF Spec, DecisionsStand, DecisionsKept

----------------------------------------------------------------------------
(* Rooms *)

\* Connections and the conversations they listen to.
RoomsTypeOK ==
  /\ socket \in [Sockets -> [state: {"absent", "open", "closed"}, user: People]]
  /\ room \in [Sockets -> SUBSET Chats]

\* A socket is in rooms of its own user, while it is open; one that is joining
\* was let in; nobody but a socket types.
PartiesInRooms ==
  \A k \in Sockets : \A c \in room[k] :
    socket[k].state = "open" /\ socket[k].user \in ChatParties[c]
LetIn(f) ==
  f.at = "join" =>
    /\ f.row \in Sockets /\ f.addr \in Chats
    /\ socket[f.row].state # "absent"
    /\ socket[f.row].user \in ChatParties[f.addr]
HandlersDoNotType(f) == f.at = "announce" => f.kind # "typing"
FrameRoomsOK(f) == LetIn(f) /\ HandlersDoNotType(f)

\* What a socket heard, it heard as a party of the conversation.
HeardByParties ==
  \A h \in heard :
    /\ h.socket \in Sockets /\ socket[h.socket].state # "absent"
    /\ socket[h.socket].user \in ChatParties[h.chat]
    /\ h.what = "typing" => h.about \in ChatParties[h.chat]

\* The inductive invariant of rooms.
RoomsInv ==
  /\ RoomsTypeOK /\ PartiesInRooms
  /\ \A w \in Workers : FrameRoomsOK(task[w])
  /\ HeardByParties

\* A connection has one user for ever.
SocketsMoveOn ==
  \A k \in Sockets : socket[k].state # "absent" =>
    socket'[k].state # "absent" /\ socket'[k].user = socket[k].user

\* What is known of a socket that connected stays known of it.
LEMMA SocketsStay ==
  ASSUME RoomsInv, SocketsMoveOn
  PROVE  /\ \A w \in Workers : task'[w] = task[w] => FrameRoomsOK(task[w])'
         /\ heard' = heard => HeardByParties'
BY DEF RoomsInv, SocketsMoveOn, FrameRoomsOK, LetIn, HandlersDoNotType,
       HeardByParties

\* A worker that does anything else than joining and announcing.
LEMMA RoomsAside ==
  ASSUME RoomsInv, NEW w \in Workers, NEW steps, GoesTo(w, steps),
         "join" \notin steps, "announce" \notin steps, UNCHANGED rooms
  PROVE  RoomsInv'
<1>1. SocketsMoveOn
  BY DEF SocketsMoveOn, rooms
<1>2. FrameRoomsOK(task[w])'
  BY DEF GoesTo, FrameRoomsOK, LetIn, HandlersDoNotType
<1>3. \A v \in Workers : FrameRoomsOK(task[v])'
  BY <1>1, <1>2, SocketsStay DEF GoesTo
<1>4. HeardByParties'
  BY <1>1, SocketsStay DEF rooms
<1> QED
  BY <1>3, <1>4 DEF RoomsInv, RoomsTypeOK, PartiesInRooms, rooms

\* No worker moves and no room does.
LEMMA RoomsStill ==
  ASSUME RoomsInv, UNCHANGED <<task, rooms>>
  PROVE  RoomsInv'
<1>1. SocketsMoveOn
  BY DEF SocketsMoveOn, rooms
<1> QED
  BY <1>1, SocketsStay
  DEF RoomsInv, RoomsTypeOK, PartiesInRooms, rooms

\* Conversations and messages announce what is stored, and never that
\* somebody types.
LEMMA ExchangesKeepRooms ==
  ASSUME ExchangesInv, RoomsInv, NEW w \in Workers,
         ExchangesArrive(w) \/ ExchangesGoOn(w), UNCHANGED rooms
  PROVE  RoomsInv'
<1>0. FramesOK
  BY DEF ExchangesInv
<1>1. GoesTo(w, ExchangesSteps)
  BY <1>0, ExchangesArriveFrames, ExchangesFrames
<1>2. SocketsMoveOn
  BY DEF SocketsMoveOn, rooms
<1>3. LetIn(task[w])'
  BY <1>1
  DEF GoesTo, LetIn, ExchangesSteps, ChatSteps, MessageSteps, AppointmentSteps
<1>4. HandlersDoNotType(task[w])'
  <2> USE <1>0 DEF HandlersDoNotType, FramesOK, FrameOK, FrameFields, Free,
                   Then, Answer, Start, Doing
  <2>1. CASE ExchangesArrive(w)
    <3>1. CASE \E c \in Chats, u \in Users : StartChat(w, c, u)
      BY <3>1 DEF StartChat
    <3>2. CASE \E c \in Chats, u \in Users : SendMessage(w, c, u)
      BY <3>2 DEF SendMessage
    <3>3. CASE \E n \in Notes, u \in Users, d \in Decisions :
                 DecideAppointment(w, n, u, d)
      BY <3>3 DEF DecideAppointment
    <3>4. CASE \E r \in Reports, outcome \in Outcomes :
                 ResolveReport(w, r, outcome)
      BY <3>4 DEF ResolveReport
    <3> QED
      BY <2>1, <3>1, <3>2, <3>3, <3>4 DEF ExchangesArrive
  <2>2. CASE InsertMessage(w)
    <3> DEFINE f(n) == [Free EXCEPT !.at = "announce", !.row = n,
                          !.addr = task[w].row, !.kind = "PENDING"]
    <3>1. \A n \in Notes : f(n).kind = "PENDING"
      OBVIOUS
    <3> HIDE DEF f
    <3>2. \/ \E n \in Notes : task' = [task EXCEPT ![w] = f(n)]
          \/ Answer(w)
      BY <2>2 DEF InsertMessage, f
    <3> QED
      BY <3>1, <3>2
  <2>3. CASE ReadDecision(w)
    <3>1. note[task[w].row].status # "typing"
      BY <2>3
      DEF ReadDecision, ExchangesInv, FrameExchangesOK, DecisionOperands,
          ExchangesTypeOK, Decisions
    <3> QED
      BY <2>3, <3>1 DEF ReadDecision
  <2>4. CASE CheckChat(w) \/ InsertChat(w) \/ CheckMessage(w)
               \/ WriteDecision(w) \/ WriteReport(w)
    BY <2>4 DEF CheckChat, InsertChat, CheckMessage, WriteDecision, WriteReport
  <2> QED
    BY <2>1, <2>2, <2>3, <2>4 DEF ExchangesGoOn
<1>5. \A v \in Workers : FrameRoomsOK(task[v])'
  BY <1>1, <1>2, <1>3, <1>4, SocketsStay DEF GoesTo, FrameRoomsOK
<1>6. HeardByParties'
  BY <1>2, SocketsStay DEF rooms
<1> QED
  BY <1>5, <1>6 DEF RoomsInv, RoomsTypeOK, PartiesInRooms, rooms

\* A socket joins after its count, and hears what is announced in its rooms.
LEMMA HandlersKeepRooms ==
  ASSUME FramesOK, RoomsInv, NEW w \in Workers, RoomsArrive(w) \/ RoomsGoOn(w)
  PROVE  RoomsInv'
<1> USE DEF RoomsInv, FramesOK
<1>1. SocketsMoveOn /\ socket' = socket
  BY DEF SocketsMoveOn, RoomsArrive, RoomsGoOn, JoinRoom, EnterRoom, Announce,
         rooms
<1>2. FrameRoomsOK(task[w])' /\ \A v \in Workers \ {w} : task'[v] = task[v]
  <2>1. CASE RoomsArrive(w)
    <3>1. PICK k \in Sockets, c \in Chats : JoinRoom(w, k, c)
      BY <2>1 DEF RoomsArrive
    <3> QED
      BY <1>1, <3>1
      DEF JoinRoom, MayJoin, Start, Free, FrameRoomsOK, LetIn,
          HandlersDoNotType
  <2>2. CASE RoomsGoOn(w)
    BY <2>2 DEF RoomsGoOn, EnterRoom, Announce, Answer, Free, FrameRoomsOK,
                LetIn, HandlersDoNotType
  <2> QED
    BY <2>1, <2>2
<1>3. \A v \in Workers : FrameRoomsOK(task[v])'
  BY <1>1, <1>2, SocketsStay
<1>4. RoomsTypeOK' /\ PartiesInRooms' /\ HeardByParties'
  <2>1. CASE RoomsArrive(w)
    BY <1>1, <2>1, SocketsStay
    DEF RoomsArrive, JoinRoom, rooms, RoomsTypeOK, PartiesInRooms
  <2>2. CASE EnterRoom(w)
    <3> DEFINE k == task[w].row
               c == task[w].addr
    <3>1. /\ k \in Sockets /\ c \in Chats
          /\ socket[k].user \in ChatParties[c]
      BY <2>2 DEF EnterRoom, Doing, FrameRoomsOK, LetIn
    <3>2. \/ room' = room
          \/ /\ socket[k].state = "open"
             /\ room' = [room EXCEPT ![k] = @ \union {c}]
      BY <2>2 DEF EnterRoom
    <3>3. heard' = heard
      BY <2>2 DEF EnterRoom
    <3> HIDE DEF k, c
    <3> QED
      BY <1>1, <3>1, <3>2, <3>3, SocketsStay DEF RoomsTypeOK, PartiesInRooms
  <2>3. CASE Announce(w)
    <3>1. room' = room
      BY <2>3 DEF Announce
    <3>2. ASSUME NEW h \in heard', h \notin heard
          PROVE  /\ h.socket \in Sockets /\ h.chat \in room[h.socket]
                 /\ h.what # "typing"
      BY <2>3, <3>2
      DEF Announce, Told, Doing, FrameRoomsOK, HandlersDoNotType
    <3> QED
      BY <1>1, <3>1, <3>2
      DEF RoomsTypeOK, PartiesInRooms, HeardByParties
  <2> QED
    BY <2>1, <2>2, <2>3 DEF RoomsGoOn
<1> QED
  BY <1>3, <1>4

\* Connections, departures and typing.
LEMMA SocketsKeepRooms ==
  ASSUME RoomsInv, RoomsAtOnce
  PROVE  RoomsInv'
<1> USE DEF RoomsInv
<1>0. task' = task
  BY DEF RoomsAtOnce, Disconnect, Connect, LeaveRoom, Type
<1> PICK k \in Sockets :
      \/ Disconnect(k)
      \/ \E u \in Users : Connect(k, u)
      \/ \E c \in Chats : LeaveRoom(k, c) \/ Type(k, c)
  BY DEF RoomsAtOnce
<1>1. CASE Disconnect(k)
  <2>1. SocketsMoveOn
    BY <1>1 DEF SocketsMoveOn, Disconnect, RoomsTypeOK
  <2> QED
    BY <1>0, <1>1, <2>1, SocketsStay
    DEF Disconnect, RoomsTypeOK, PartiesInRooms
<1>2. CASE \E u \in Users : Connect(k, u)
  <2> PICK u \in Users : Connect(k, u)
    BY <1>2
  <2>1. SocketsMoveOn
    BY DEF SocketsMoveOn, Connect, NoSocket, RoomsTypeOK
  <2>2. RoomsTypeOK' /\ PartiesInRooms'
    BY DEF Connect, NoSocket, RoomsTypeOK, PartiesInRooms, People
  <2> QED
    BY <1>0, <2>1, <2>2, SocketsStay DEF Connect
<1>3. CASE \E c \in Chats : LeaveRoom(k, c)
  <2>1. SocketsMoveOn
    BY <1>3 DEF SocketsMoveOn, LeaveRoom
  <2> QED
    BY <1>0, <1>3, <2>1, SocketsStay
    DEF LeaveRoom, RoomsTypeOK, PartiesInRooms
<1>4. CASE \E c \in Chats : Type(k, c)
  <2> PICK c \in Chats : Type(k, c)
    BY <1>4
  <2>1. SocketsMoveOn /\ UNCHANGED <<socket, room>>
    BY DEF SocketsMoveOn, Type
  <2>2. ASSUME NEW h \in heard', h \notin heard
        PROVE  /\ h.socket \in Sockets /\ h.chat \in room[h.socket]
               /\ h.chat = c /\ h.about = socket[k].user
    BY <2>2 DEF Type, Told
  <2>3. HeardByParties'
    BY <2>1, <2>2 DEF Type, RoomsTypeOK, PartiesInRooms, HeardByParties
  <2> QED
    BY <1>0, <2>1, <2>3, SocketsStay DEF RoomsTypeOK, PartiesInRooms
<1> QED
  BY <1>1, <1>2, <1>3, <1>4

\* A restart closes all sockets.
LEMMA RestartKeepsRooms ==
  ASSUME RoomsInv, Restart
  PROVE  RoomsInv'
<1> USE DEF RoomsInv, Restart
<1>1. SocketsMoveOn /\ RoomsTypeOK' /\ PartiesInRooms'
  BY DEF SocketsMoveOn, RoomsTypeOK, PartiesInRooms
<1>2. \A w \in Workers : FrameRoomsOK(task[w])'
  BY DEF Free, FrameRoomsOK, LetIn, HandlersDoNotType
<1> QED
  BY <1>1, <1>2, SocketsStay

\* The steps of the other parts are neither of rooms nor announcements.
LEMMA RoomsApart ==
  /\ \A x \in {"join", "announce"} :
       x \notin ContactsSteps \union LoginSteps \union IdentitySteps
                  \union UploadsSteps \union CatalogueSteps
BY DEF ContactsSteps, CodeSteps, LinkSteps, EditSteps, LoginSteps, OtpSteps,
       OAuthSteps, IdentitySteps, UploadsSteps, CatalogueSteps

\* Every step keeps the rooms.
LEMMA RoomsNext ==
  ASSUME ExchangesInv, RoomsInv, [Next]_vars
  PROVE  RoomsInv'
<1>0. FramesOK
  BY DEF ExchangesInv
<1>1. ASSUME NEW w \in Workers, Arrive(w)
      PROVE  RoomsInv'
  <2>1. CASE ExchangesArrive(w) /\ UNCHANGED rooms
    BY <2>1, ExchangesKeepRooms
  <2>2. CASE RoomsArrive(w)
    BY <1>0, <2>2, HandlersKeepRooms
  <2>3. CASE /\ UNCHANGED rooms
             /\ \/ ContactsArrive(w) \/ LoginArrive(w) \/ IdentityArrive(w)
                \/ UploadsArrive(w) \/ CatalogueArrive(w)
    BY <1>0, <2>3, RoomsAside, RoomsApart, ContactsArriveFrames,
       LoginArriveFrames, IdentityArriveFrames, UploadsArriveFrames,
       CatalogueArriveFrames
  <2> QED
    BY <1>1, <2>1, <2>2, <2>3 DEF Arrive
<1>2. ASSUME NEW w \in Workers, Continue(w)
      PROVE  RoomsInv'
  <2>1. CASE ExchangesGoOn(w) /\ UNCHANGED rooms
    BY <2>1, ExchangesKeepRooms
  <2>2. CASE RoomsGoOn(w)
    BY <1>0, <2>2, HandlersKeepRooms
  <2>3. CASE /\ UNCHANGED rooms
             /\ \/ ContactsGoOn(w) \/ LoginGoOn(w) \/ IdentityGoOn(w)
                \/ UploadsGoOn(w) \/ CatalogueGoOn(w) \/ DeleteAccount(w)
    BY <1>0, <2>3, RoomsAside, RoomsApart, ContactsFrames, LoginFrames,
       IdentityFrames, UploadsFrames, CatalogueFrames
  <2> QED
    BY <1>2, <2>1, <2>2, <2>3 DEF Continue, DeleteAccountAndRest
<1>3. CASE AtOnce
  <2>1. CASE RoomsAtOnce
    BY <2>1, SocketsKeepRooms
  <2>2. CASE UNCHANGED rooms
    BY <1>3, <2>2, AtOnceFrames, RoomsStill
  <2> QED
    BY <1>3, <2>1, <2>2 DEF AtOnce
<1>4. CASE Restart
  BY <1>4, RestartKeepsRooms
<1>5. CASE UNCHANGED vars
  BY <1>5, RoomsStill DEF vars
<1> QED
  BY <1>1, <1>2, <1>3, <1>4, <1>5 DEF Next

\* At the start nobody is connected.
LEMMA RoomsStart == Init => RoomsInv
BY FreeFrame
DEF Init, TrafficInit, RoomsInit, RoomsInv, RoomsTypeOK, PartiesInRooms,
    FrameRoomsOK, LetIn, HandlersDoNotType, HeardByParties, NoSocket, People

\* Only the parties of a conversation hear it and are heard typing in it, in
\* whatever order sockets join, leave and lose their connection
\* (ChatGateway.handleJoin counts before it joins).
THEOREM RoomsStayPrivate == Spec => []ConversationsStayPrivate
<1>1. Spec => []RoomsInv
  BY RoomsStart, RoomsNext, ExchangesInvariant, PTL DEF Spec
<1>2. RoomsInv => ConversationsStayPrivate
  BY DEF RoomsInv, HeardByParties, ConversationsStayPrivate
<1> QED
  BY <1>1, <1>2, PTL

----------------------------------------------------------------------------
(* Places *)

\* Advertisements stand at an address that exists.
Posted == {"OPEN", "away"}
AdRows == [status: Posted \union {"absent", "erased"},
           spot: Spots \union {Nil}, author: People]

PlacesTypeOK ==
  /\ place \in [Spots -> {"absent", "plain", "located"}]
  /\ ad \in [Ads -> AdRows]
  /\ \A a \in Ads : ad[a].status \in Posted =>
       ad[a].spot \in Spots /\ place[ad[a].spot] # "absent"

\* A publication is for an address, which exists once it was looked for.
PublishesAt(f) ==
  f.at \in CatalogueSteps =>
    /\ f.addr \in Spots /\ f.row \in Ads /\ f.user \in Users
    /\ f.at \in {"place_locate", "ad_insert"} => place[f.addr] # "absent"

\* A request that is being served is about to locate spot s.
Locating(s) == \E w \in Workers : Doing(w, "place_locate") /\ task[w].addr = s

\* The inductive invariant of places.
PlacesInv ==
  /\ PlacesTypeOK /\ \A w \in Workers : PublishesAt(task[w])
  /\ "restart" \notin load.kinds =>
       \A s \in Spots : place[s] = "plain" => Locating(s)

\* The load of a behaviour never changes.
LEMMA LoadStays == [Next]_vars => load' = load
<1> SUFFICES ASSUME [Next]_vars PROVE load' = load
  OBVIOUS
<1>1. ASSUME NEW w \in Workers, Arrive(w)
      PROVE  load' = load
  BY <1>1
  DEF Arrive, ContactsArrive, LoginArrive, IdentityArrive, UploadsArrive,
      ExchangesArrive, RoomsArrive, CatalogueArrive, Register, ResendLink,
      OpenLink, RequestCode, EditContacts, SubmitOtp, OAuthLogin,
      StartVerification, EraseAccount, UploadAvatar, UploadWithHost,
      UploadToHost, DeletePackage, StartChat, SendMessage, DecideAppointment,
      ResolveReport, JoinRoom, Publish
<1>2. ASSUME NEW w \in Workers, Continue(w)
      PROVE  load' = load
  <2>1. CASE ContactsGoOn(w) \/ LoginGoOn(w)
    BY <2>1
    DEF ContactsGoOn, ReadForLink, PurgeLinks, InsertLink, CommitLink,
        ReadForCode, PurgeCodes, InsertCode, CheckTaken, WriteContacts,
        LoginGoOn, LoadOtp, ConsumeOtp, MarkVerified, FindAccount,
        CreateAccount, LinkProfile
  <2>2. CASE IdentityGoOn(w) \/ UploadsGoOn(w) \/ DeleteAccount(w)
    BY <2>2
    DEF IdentityGoOn, CreateSession, WriteSession, ListSessions,
        RedactSession, DeleteAccount, UploadsGoOn, StoreFile, InsertMedia,
        AttachAvatar, AttachWithHost, AttachToHost, ReadDiscarded,
        DiscardFile, DiscardRow, DiscardImageFile, DiscardImageRow,
        ErasePackage
  <2>3. CASE ExchangesGoOn(w) \/ RoomsGoOn(w) \/ CatalogueGoOn(w)
    BY <2>3
    DEF ExchangesGoOn, CheckChat, InsertChat, CheckMessage, InsertMessage,
        WriteDecision, ReadDecision, WriteReport, RoomsGoOn, EnterRoom,
        Announce, CatalogueGoOn, FindPlace, InsertPlace, LocatePlace,
        InsertAd
  <2> QED
    BY <1>2, <2>1, <2>2, <2>3 DEF Continue, DeleteAccountAndRest
<1>3. CASE AtOnce
  BY <1>3
  DEF AtOnce, LoginAtOnce, IdentityAtOnce, UploadsAtOnce, ExchangesAtOnce,
      RoomsAtOnce, CatalogueAtOnce, RefreshSession, Logout, AccessExpires,
      ProviderDecides, HandleWebhook, LinkPackage, EraseHost, Block, Unblock,
      FileReport, PanelEdits, EditReport, EraseNote, EraseChat, Disconnect,
      Connect, LeaveRoom, Type, Withdraw, Reopen, EraseAd, Becomes, Search, ReadNearby, ReadRows, ReadCount, NextPage
<1>4. CASE Restart \/ UNCHANGED vars
  BY <1>4 DEF Restart, vars
<1> QED
  BY <1>1, <1>2, <1>3, <1>4 DEF Next

\* A worker that publishes nothing.
LEMMA PlacesAside ==
  ASSUME PlacesInv, load' = load, NEW w \in Workers, NEW steps,
         GoesTo(w, steps), steps \intersect CatalogueSteps = {},
         task[w].at \notin CatalogueSteps, UNCHANGED <<place, ad>>
  PROVE  PlacesInv'
<1> USE DEF PlacesInv, GoesTo
<1>1. PublishesAt(task[w])'
  BY DEF PublishesAt, CatalogueSteps
<1>2. \A v \in Workers : PublishesAt(task[v])'
  BY <1>1 DEF PublishesAt
<1>3. \A s \in Spots : Locating(s) => Locating(s)'
  BY DEF Locating, Doing, CatalogueSteps
<1> QED
  BY <1>2, <1>3 DEF PlacesTypeOK

\* What becomes of an advertisement once it has a row.
OneBecomes ==
  \E a \in Ads : \E status \in Posted \union {"erased"} :
    /\ ad[a].status \in Posted
    /\ ad' = [ad EXCEPT ![a].status = status]

\* No worker moves; an advertisement may go or come back.
LEMMA PlacesStill ==
  ASSUME PlacesInv, load' = load, UNCHANGED <<task, place>>,
         ad' \in [Ads -> AdRows],
         \A a \in Ads : /\ ad'[a].spot = ad[a].spot
                        /\ ad'[a].status \in Posted => ad[a].status \in Posted
  PROVE  PlacesInv'
BY DEF PlacesInv, PlacesTypeOK, PublishesAt, Locating, Doing

\* A publication: whoever creates an address also locates it.
LEMMA PublicationKeepsPlaces ==
  ASSUME FramesOK, PlacesInv, load' = load, NEW w \in Workers,
         CatalogueArrive(w) \/ CatalogueGoOn(w)
  PROVE  PlacesInv'
<1> USE DEF PlacesInv, PlacesTypeOK, FramesOK, FrameOK, FrameFields
<1>1. CASE CatalogueArrive(w)
  <2> PICK a \in Ads, u \in Users, s \in Spots : Publish(w, a, u, s)
    BY <1>1 DEF CatalogueArrive
  <2>1. UNCHANGED <<place, ad>>
    BY DEF Publish, catalogue
  <2>2. /\ task[w] = Free /\ \A v \in Workers \ {w} : task'[v] = task[v]
        /\ task'[w].at = "place_find" /\ task'[w].addr = s /\ task'[w].row = a
        /\ task'[w].user = u
    BY DEF Publish, Start, Free
  <2>3. \A v \in Workers : PublishesAt(task[v])'
    BY <2>1, <2>2 DEF PublishesAt
  <2>4. \A x \in Spots : Locating(x) => Locating(x)'
    BY <2>2 DEF Locating, Doing, Free
  <2> QED
    BY <2>1, <2>3, <2>4
<1>2. CASE FindPlace(w)
  <2>1. /\ UNCHANGED <<place, ad>>
        /\ \A v \in Workers \ {w} : task'[v] = task[v]
        /\ task[w].at = "place_find"
        /\ task'[w].addr = task[w].addr /\ task'[w].row = task[w].row
        /\ task'[w].user = task[w].user
        /\ task'[w].at = IF place[task[w].addr] = "absent"
                         THEN "place_insert" ELSE "ad_insert"
    BY <1>2 DEF FindPlace, catalogue, Doing, Then
  <2>2. \A v \in Workers : PublishesAt(task[v])'
    BY <2>1 DEF PublishesAt, CatalogueSteps
  <2>3. \A x \in Spots : Locating(x) => Locating(x)'
    BY <2>1 DEF Locating, Doing
  <2> QED
    BY <2>1, <2>2, <2>3
<1>3. CASE InsertPlace(w)
  <2> PICK s \in Spots : s = task[w].addr
    BY <1>3 DEF InsertPlace, Doing, PublishesAt, CatalogueSteps
  <2>1. /\ ad' = ad
        /\ \A v \in Workers \ {w} : task'[v] = task[v]
        /\ task[w].at = "place_insert"
        /\ task'[w].addr = s /\ task'[w].row = task[w].row
        /\ task'[w].user = task[w].user
    BY <1>3 DEF InsertPlace, Doing, Then, PublishesAt, CatalogueSteps
  <2>2. \/ /\ place[s] = "absent" /\ place' = [place EXCEPT ![s] = "plain"]
           /\ task'[w].at = "place_locate"
        \/ /\ place[s] # "absent" /\ place' = place
           /\ task'[w].at = "ad_insert"
    BY <1>3 DEF InsertPlace, Then
  <2>3. \A v \in Workers : PublishesAt(task[v])'
    BY <2>1, <2>2 DEF PublishesAt, CatalogueSteps
  <2>4. \A x \in Spots : Locating(x) => Locating(x)'
    BY <2>1 DEF Locating, Doing
  <2>5. place'[s] = "plain" /\ place[s] = "absent" => Locating(s)'
    BY <2>1, <2>2 DEF Locating, Doing
  <2> QED
    BY <2>1, <2>2, <2>3, <2>4, <2>5
<1>4. CASE LocatePlace(w)
  <2> DEFINE s == task[w].addr
  <2>1. /\ ad' = ad /\ s \in Spots
        /\ \A v \in Workers \ {w} : task'[v] = task[v]
        /\ task'[w].at = "ad_insert"
        /\ task'[w].addr = s /\ task'[w].row = task[w].row
        /\ task'[w].user = task[w].user
        /\ task[w].row \in Ads /\ task[w].user \in Users
        /\ place' = [place EXCEPT ![s] = "located"]
    BY <1>4 DEF LocatePlace, Doing, Then, PublishesAt, CatalogueSteps
  <2> HIDE DEF s
  <2>3. \A v \in Workers : PublishesAt(task[v])'
    BY <2>1 DEF PublishesAt
  <2>4. \A x \in Spots \ {s} : Locating(x) => Locating(x)'
    BY <2>1 DEF Locating, Doing, s
  <2> QED
    BY <2>1, <2>3, <2>4
<1>5. CASE InsertAd(w)
  <2>1. /\ place' = place /\ task' = [task EXCEPT ![w] = Free]
        /\ task[w].at = "ad_insert"
    BY <1>5 DEF InsertAd, Answer, Doing
  <2>2. /\ task[w].addr \in Spots /\ place[task[w].addr] # "absent"
        /\ task[w].user \in Users
    BY <2>1 DEF PublishesAt, CatalogueSteps
  <2>3. \/ ad' = ad
        \/ ad' = [ad EXCEPT ![task[w].row] = [status |-> "OPEN",
                    spot |-> task[w].addr, author |-> task[w].user]]
    BY <1>5 DEF InsertAd
  <2>4. /\ ad' \in [Ads -> AdRows]
        /\ \A a \in Ads : ad'[a] = ad[a] \/ ad'[a].spot = task[w].addr
    <3> DEFINE f == [status |-> "OPEN", spot |-> task[w].addr,
                     author |-> task[w].user]
    <3>1. /\ f.spot = task[w].addr
          /\ f \in AdRows
      BY <2>2 DEF AdRows, Posted, People
    <3>2. ad' = ad \/ ad' = [ad EXCEPT ![task[w].row] = f]
      BY <2>3
    <3> HIDE DEF f
    <3> QED
      BY <3>1, <3>2
  <2>5. \A v \in Workers : PublishesAt(task[v])'
    BY <2>1 DEF PublishesAt, CatalogueSteps, Free
  <2>6. \A x \in Spots : Locating(x) => Locating(x)'
    BY <2>1 DEF Locating, Doing
  <2> QED
    BY <2>1, <2>2, <2>4, <2>5, <2>6
<1> QED
  BY <1>1, <1>2, <1>3, <1>4, <1>5 DEF CatalogueGoOn

\* A single statement moves no address, whatever becomes of an advertisement.
LEMMA StatementsMoveAds ==
  ASSUME AtOnce
  PROVE  place' = place /\ (ad' = ad \/ OneBecomes)
<1>1. CASE UNCHANGED catalogue
  BY <1>1 DEF catalogue
<1>2. CASE CatalogueAtOnce
  <2>1. CASE \E a \in Ads : Withdraw(a) \/ Reopen(a) \/ EraseAd(a)
    BY <2>1 DEF Withdraw, Reopen, EraseAd, Becomes, OneBecomes, Posted
  <2>2. CASE UNCHANGED <<place, ad>>
    BY <2>2
  <2> QED
    BY <1>2, <2>1, <2>2
    DEF CatalogueAtOnce, Search, ReadNearby, ReadRows, ReadCount, NextPage
<1> QED
  BY <1>1, <1>2 DEF AtOnce, RoomsAtOnce

\* An advertisement keeps its address and its author.
LEMMA AdsBecome ==
  ASSUME ad \in [Ads -> AdRows], ad' = ad \/ OneBecomes
  PROVE  /\ ad' \in [Ads -> AdRows]
         /\ \A a \in Ads : /\ ad'[a].spot = ad[a].spot
                           /\ ad'[a].status \in Posted => ad[a].status \in Posted
                           /\ ad[a] = NoAd => ad'[a] = ad[a]
<1>1. CASE OneBecomes
  <2> PICK a \in Ads, status \in Posted \union {"erased"} :
        ad[a].status \in Posted /\ ad' = [ad EXCEPT ![a].status = status]
    BY <1>1 DEF OneBecomes
  <2>1. NoAd.status \notin Posted
    BY DEF NoAd, Posted
  <2>2. /\ \A x \in Ads \ {a} : ad'[x] = ad[x]
        /\ ad'[a] \in AdRows /\ ad'[a].spot = ad[a].spot
        /\ ad' \in [Ads -> AdRows]
    BY DEF AdRows
  <2> QED
    BY <2>1, <2>2
<1> QED
  BY <1>1

\* A single statement keeps the places.
LEMMA StatementsKeepPlaces ==
  ASSUME PlacesInv, load' = load, AtOnce
  PROVE  PlacesInv'
<1>1. task' = task
  BY AtOnceFrames
<1>2. place' = place /\ (ad' = ad \/ OneBecomes)
  BY StatementsMoveAds
<1>3. /\ ad' \in [Ads -> AdRows]
      /\ \A a \in Ads : /\ ad'[a].spot = ad[a].spot
                        /\ ad'[a].status \in Posted => ad[a].status \in Posted
  BY <1>2, AdsBecome DEF PlacesInv, PlacesTypeOK
<1> QED
  BY <1>1, <1>2, <1>3, PlacesStill

\* A worker that goes on with one part was in it.
LEMMA ElsewhereBefore ==
  ASSUME NEW w \in Workers,
         \/ ContactsGoOn(w) \/ LoginGoOn(w) \/ IdentityGoOn(w) \/ UploadsGoOn(w)
         \/ ExchangesGoOn(w) \/ RoomsGoOn(w) \/ DeleteAccount(w)
  PROVE  task[w].at \notin CatalogueSteps
<1> USE DEF CatalogueSteps, Doing
<1>1. CASE ContactsGoOn(w) \/ LoginGoOn(w)
  BY <1>1
  DEF ContactsGoOn, ReadForLink, PurgeLinks, InsertLink, CommitLink,
      ReadForCode, PurgeCodes, InsertCode, CheckTaken, WriteContacts,
      LoginGoOn, LoadOtp, ConsumeOtp, MarkVerified, FindAccount,
      CreateAccount, LinkProfile
<1>2. CASE IdentityGoOn(w) \/ UploadsGoOn(w) \/ DeleteAccount(w)
  BY <1>2
  DEF IdentityGoOn, CreateSession, WriteSession, ListSessions,
      RedactSession, DeleteAccount, UploadsGoOn, StoreFile, InsertMedia,
      AttachAvatar, AttachWithHost, AttachToHost, ReadDiscarded,
      DiscardFile, DiscardRow, DiscardImageFile, DiscardImageRow,
      ErasePackage
<1>3. CASE ExchangesGoOn(w) \/ RoomsGoOn(w)
  BY <1>3
  DEF ExchangesGoOn, CheckChat, InsertChat, CheckMessage, InsertMessage,
      WriteDecision, ReadDecision, WriteReport, RoomsGoOn, EnterRoom,
      Announce
<1> QED
  BY <1>1, <1>2, <1>3

\* A request arrives at a worker that has none.
LEMMA ArrivesWhenFree ==
  ASSUME NEW w \in Workers, Arrive(w)
  PROVE  task[w] = Free
BY DEF Arrive, ContactsArrive, LoginArrive, IdentityArrive, UploadsArrive,
       ExchangesArrive, RoomsArrive, CatalogueArrive, Register, ResendLink,
       OpenLink, RequestCode, EditContacts, SubmitOtp, OAuthLogin,
       StartVerification, EraseAccount, UploadAvatar, UploadWithHost,
       UploadToHost, DeletePackage, StartChat, SendMessage, DecideAppointment,
       ResolveReport, JoinRoom, Publish, Start

\* The steps of the other parts publish nothing.
LEMMA CatalogueApart ==
  /\ ContactsSteps \intersect CatalogueSteps = {}
  /\ LoginSteps \intersect CatalogueSteps = {}
  /\ IdentitySteps \intersect CatalogueSteps = {}
  /\ UploadsSteps \intersect CatalogueSteps = {}
  /\ ExchangesSteps \intersect CatalogueSteps = {}
  /\ RoomsSteps \intersect CatalogueSteps = {}
BY DEF ContactsSteps, CodeSteps, LinkSteps, EditSteps, LoginSteps, OtpSteps,
       OAuthSteps, IdentitySteps, UploadsSteps, ExchangesSteps, ChatSteps,
       MessageSteps, AppointmentSteps, RoomsSteps, CatalogueSteps

\* Every step keeps the places.
LEMMA PlacesNext ==
  ASSUME FramesOK, PlacesInv, [Next]_vars
  PROVE  PlacesInv'
<1>0. load' = load
  BY LoadStays
<1>1. ASSUME NEW w \in Workers, Arrive(w)
      PROVE  PlacesInv'
  <2>1. CASE CatalogueArrive(w)
    BY <1>0, <2>1, PublicationKeepsPlaces
  <2>2. CASE /\ UNCHANGED catalogue
             /\ \/ ContactsArrive(w) \/ LoginArrive(w) \/ IdentityArrive(w)
                \/ UploadsArrive(w) \/ ExchangesArrive(w) \/ RoomsArrive(w)
    <3>1. task[w].at \notin CatalogueSteps
      BY <1>1, ArrivesWhenFree, FreeFrame DEF CatalogueSteps
    <3> QED
      BY <1>0, <2>2, <3>1, PlacesAside, CatalogueApart, ContactsArriveFrames,
         LoginArriveFrames, IdentityArriveFrames, UploadsArriveFrames,
         ExchangesArriveFrames, RoomsArriveFrames
      DEF catalogue
  <2> QED
    BY <1>1, <2>1, <2>2 DEF Arrive
<1>2. ASSUME NEW w \in Workers, Continue(w)
      PROVE  PlacesInv'
  <2>1. CASE CatalogueGoOn(w)
    BY <1>0, <2>1, PublicationKeepsPlaces
  <2>2. CASE /\ UNCHANGED catalogue
             /\ \/ ContactsGoOn(w) \/ LoginGoOn(w) \/ IdentityGoOn(w)
                \/ UploadsGoOn(w) \/ ExchangesGoOn(w) \/ RoomsGoOn(w)
                \/ DeleteAccount(w)
    <3>1. task[w].at \notin CatalogueSteps
      BY <2>2, ElsewhereBefore
    <3> QED
      BY <1>0, <2>2, <3>1, PlacesAside, CatalogueApart, ContactsFrames,
         LoginFrames, IdentityFrames, UploadsFrames, ExchangesFrames,
         RoomsFrames
      DEF catalogue
  <2> QED
    BY <1>2, <2>1, <2>2 DEF Continue, DeleteAccountAndRest
<1>3. CASE AtOnce
  BY <1>0, <1>3, StatementsKeepPlaces
<1>4. CASE Restart
  BY <1>0, <1>4, FreeFrame
  DEF Restart, Arrives, PlacesInv, PlacesTypeOK, PublishesAt, CatalogueSteps
<1>5. CASE UNCHANGED vars
  BY <1>5, PlacesStill DEF vars, catalogue, PlacesInv, PlacesTypeOK
<1> QED
  BY <1>1, <1>2, <1>3, <1>4, <1>5 DEF Next

\* At the start there is no address.
LEMMA PlacesStart == Init => PlacesInv
BY FreeFrame
DEF Init, TrafficInit, CatalogueInit, NoAd, PlacesInv, PlacesTypeOK, AdRows,
    Posted, People, PublishesAt, CatalogueSteps

\* An advertisement is found around its place, or a request is about to make
\* it so (AddressesService creates an address and locates it by two
\* statements); after a restart there may be none left to do it.
THEOREM AdsAreSearchable == Spec => []SearchableOrOwed
<1>1. Spec => []FramesOK
  BY FramesInit, FramesStep, PTL DEF Spec
<1>2. Spec => []PlacesInv
  BY <1>1, PlacesStart, PlacesNext, PTL DEF Spec
<1>3. PlacesInv => SearchableOrOwed
  BY DEF PlacesInv, PlacesTypeOK, Posted, Locating, SearchableOrOwed, NearbyIds
<1> QED
  BY <1>2, <1>3, PTL

----------------------------------------------------------------------------
(* Pages *)

\* An element b of s that is in ids and comes after the first k of those.
Beyond(s, ids, k, b) ==
  \E i \in Hits(s, ids) : s[i] = b /\ Rank(s, ids, i) > k

ScanRecords ==
  [at: {"idle", "asked", "page", "half", "answer", "read"},
   near: Spots \union {Nil}, limit: Nat \ {0}, page: Nat \ {0},
   ids: SUBSET Ads, rows: Seq(Ads) \union {Nil}, total: Nat \union {Nil},
   got: Seq(Ads), base: Seq(Ads), shaken: BOOLEAN, still: BOOLEAN]

\* What the two queries of a page have answered.
QueriesAnswered ==
  /\ scan.at \in {"idle", "asked", "page", "read"} =>
       scan.rows = Nil /\ scan.total = Nil
  /\ scan.at = "half" => (scan.rows = Nil <=> scan.total # Nil)
  /\ scan.at = "answer" => scan.rows # Nil /\ scan.total # Nil

\* A search around a place only finds more.
IdsGrow ==
  scan.at \in {"page", "half", "answer"} => scan.ids \subseteq IdsFor(scan.near)

\* The rows of this page of t.
PageOf(t) == SubSeq(t, Skip + 1, Min2(Skip + SafeLimit, Len(t)))

\* A search that does not change was read from its start up to this page.
StillReads ==
  scan.still =>
    /\ scan.at \in {"asked", "page", "half", "answer"} =>
         /\ scan.base = Matches(IdsFor(scan.near))
         /\ Skip <= Len(scan.base)
         /\ scan.got = SubSeq(scan.base, 1, Skip)
    /\ scan.at \in {"page", "half", "answer"} =>
         /\ scan.ids = IdsFor(scan.near)
         /\ scan.rows # Nil => scan.rows = PageOf(scan.base)
         /\ scan.total # Nil => scan.total = Len(scan.base)
    /\ scan.at = "read" => scan.got = scan.base

\* The row b is still to come after k of the rows that match ids.
ToCome(ids, k, b) == Beyond(board, ids \intersect OpenAds, k, b)

\* While rows only come, what was not read yet is still to come: in this
\* page or after it, or after it for those who have its rows.
InThisPage(b) ==
  /\ scan.at = "asked" => ToCome(IdsFor(scan.near), Skip, b)
  /\ scan.at \in {"page", "half"} /\ scan.rows = Nil =>
       ToCome(scan.ids, Skip, b)
  /\ scan.at \in {"half", "answer"} /\ scan.rows # Nil =>
       \/ b \in ToSet(scan.rows)
       \/ /\ ToCome(scan.ids, Skip + SafeLimit, b)
          /\ scan.at = "answer" => scan.total > Skip + SafeLimit
  /\ scan.at # "read"
NothingIsMissed ==
  ~scan.shaken /\ scan.at # "idle" =>
    /\ \A b \in ToSet(scan.base) : b \in ToSet(scan.got) \/ InThisPage(b)
    /\ scan.at = "half" /\ scan.total # Nil =>
         scan.total = Len(Matches(scan.ids))

\* The inductive invariant of a search.
SearchInv ==
  /\ board \in Seq(Ads) /\ scan \in ScanRecords
  /\ QueriesAnswered /\ IdsGrow /\ StillReads /\ NothingIsMissed

\* An advertisement that is being published has no row yet.
Publishing(w) == task[w].at \in CatalogueSteps
FreshAds ==
  \A w \in Workers : Publishing(w) =>
    /\ ad[task[w].row] = NoAd
    /\ \A v \in Workers \ {w} : Publishing(v) => task[v].row # task[w].row

\* The hits of a sequence are finitely many of its indices.
LEMMA HitsFinite ==
  ASSUME NEW s \in Seq(Ads), NEW ids
  PROVE  /\ Hits(s, ids) \subseteq 1..Len(s)
         /\ IsFiniteSet(Hits(s, ids)) /\ Cardinality(Hits(s, ids)) \in Nat
<1>1. Hits(s, ids) \subseteq 1..Len(s)
  BY DEF Hits
<1>2. IsFiniteSet(1..Len(s))
  BY FS_Interval
<1> QED
  BY <1>1, <1>2, FS_Subset, FS_CardinalityType

\* A hit has a rank among the hits, and two hits have two ranks.
LEMMA RankIsOwn ==
  ASSUME NEW s \in Seq(Ads), NEW ids, NEW i \in Hits(s, ids)
  PROVE  /\ Rank(s, ids, i) \in 1..Cardinality(Hits(s, ids))
         /\ \A j \in Hits(s, ids) : Rank(s, ids, j) = Rank(s, ids, i) => j = i
<1> DEFINE H == Hits(s, ids)
           Up(k) == {j \in H : j <= k}
<1>1. IsFiniteSet(H) /\ H \subseteq Nat /\ i \in H
  BY HitsFinite
<1>2. \A k \in H : /\ IsFiniteSet(Up(k)) /\ Cardinality(Up(k)) \in Nat
                   /\ Cardinality(Up(k)) <= Cardinality(H)
  <2> TAKE k \in H
  <2>1. Up(k) \in SUBSET H
    OBVIOUS
  <2> QED
    BY <1>1, <2>1, FS_Subset, FS_CardinalityType
<1>3. Cardinality(Up(i)) # 0
  <2>1. i \in Up(i)
    BY <1>1
  <2> QED
    BY <1>1, <1>2, <2>1, FS_EmptySet
<1>4. ASSUME NEW j \in H, NEW k \in H, Cardinality(Up(j)) = Cardinality(Up(k)), j <= k
      PROVE  j = k
  <2>1. Up(j) \in SUBSET Up(k)
    BY <1>1, <1>4
  <2>2. Up(k) = Up(j)
    BY <1>2, <1>4, <2>1, FS_Subset
  <2>3. k \in Up(j)
    BY <1>1, <2>2
  <2> QED
    BY <1>1, <1>4, <2>3
<1>5. \A j \in H : Rank(s, ids, j) = Cardinality(Up(j))
  BY DEF Rank
<1>6. \A j \in H : Rank(s, ids, j) = Rank(s, ids, i) => j = i
  <2> TAKE j \in H
  <2> HAVE Rank(s, ids, j) = Rank(s, ids, i)
  <2>1. Cardinality(Up(j)) = Cardinality(Up(i))
    BY <1>1, <1>5
  <2>2. j <= i \/ i <= j
    BY <1>1
  <2> QED
    BY <1>1, <1>4, <2>1, <2>2
<1>7. Cardinality(H) \in Nat
  BY HitsFinite
<1> HIDE DEF Up
<1> QED
  BY <1>1, <1>2, <1>3, <1>5, <1>6, <1>7

\* Every number up to the number of hits is the rank of a hit.
LEMMA RanksAreAll ==
  ASSUME NEW s \in Seq(Ads), NEW ids,
         NEW k \in 1..Cardinality(Hits(s, ids))
  PROVE  \E i \in Hits(s, ids) : Rank(s, ids, i) = k
<1> DEFINE H == Hits(s, ids)
           n == Cardinality(H)
           f == [i \in H |-> Rank(s, ids, i)]
<1>1. IsFiniteSet(H) /\ n \in Nat
  BY HitsFinite
<1>2. f \in [H -> 1..n] /\ \A i, j \in H : f[i] = f[j] => i = j
  BY RankIsOwn
<1>3. IsFiniteSet(1..n) /\ Cardinality(1..n) = n
  BY <1>1, FS_Interval
<1>4. f \in Injection(H, 1..n)
  BY <1>2 DEF Injection, IsInjective
<1>5. f \in Surjection(H, 1..n)
  BY <1>3, <1>4, FS_Injection
<1>6. PICK i \in H : f[i] = k
  BY <1>5 DEF Surjection
<1> QED
  BY <1>6

\* What Select is: the hits, in their order.
LEMMA Selected ==
  ASSUME NEW s \in Seq(Ads), NEW ids
  PROVE  /\ Select(s, ids) \in Seq(Ads)
         /\ Len(Select(s, ids)) = Cardinality(Hits(s, ids))
         /\ \A i \in Hits(s, ids) : Select(s, ids)[Rank(s, ids, i)] = s[i]
         /\ \A k \in 1..Cardinality(Hits(s, ids)) :
              \E i \in Hits(s, ids) :
                Rank(s, ids, i) = k /\ Select(s, ids)[k] = s[i]
<1> DEFINE H == Hits(s, ids)
           n == Cardinality(H)
           t == Select(s, ids)
           At(k) == CHOOSE i \in H : Rank(s, ids, i) = k
<1>1. n \in Nat /\ H \subseteq 1..Len(s)
  BY HitsFinite
<1>2. \A k \in 1..n : At(k) \in H /\ Rank(s, ids, At(k)) = k
  BY RanksAreAll
<1>3. t = [k \in 1..n |-> s[At(k)]]
  BY DEF Select
<1> HIDE DEF At, t
<1>4. \A k \in 1..n : s[At(k)] \in Ads
  BY <1>1, <1>2
<1>5. t \in Seq(Ads) /\ Len(t) = n
  BY <1>1, <1>3, <1>4
<1>6. \A i \in H : t[Rank(s, ids, i)] = s[i]
  <2> TAKE i \in H
  <2>1. Rank(s, ids, i) \in 1..n
    BY RankIsOwn
  <2>2. At(Rank(s, ids, i)) = i
    BY <1>2, <2>1, RankIsOwn
  <2> QED
    BY <1>3, <2>1, <2>2
<1>7. \A k \in 1..n : \E i \in H : Rank(s, ids, i) = k /\ t[k] = s[i]
  BY <1>2, <1>3
<1> QED
  BY <1>5, <1>6, <1>7 DEF t

\* What the last elements of a sequence are.
LEMMA SuffixShifts ==
  ASSUME NEW s \in Seq(Ads), NEW t \in Seq(Ads), IsSuffix(s, t)
  PROVE  /\ Len(s) <= Len(t)
         /\ \A i \in 1..Len(s) : t[i + (Len(t) - Len(s))] = s[i]
<1> DEFINE n == Len(s)
           r == Reverse(s)
           u == Reverse(t)
<1>1. /\ r = [i \in 1..n |-> s[(n - i) + 1]]
      /\ u = [i \in 1..Len(t) |-> t[(Len(t) - i) + 1]]
  BY DEF Reverse
<1>2. r \in Seq(Ads) /\ u \in Seq(Ads) /\ Len(r) = n /\ Len(u) = Len(t)
  <2>1. \A i \in 1..n : s[(n - i) + 1] \in Ads
    OBVIOUS
  <2>2. \A i \in 1..Len(t) : t[(Len(t) - i) + 1] \in Ads
    OBVIOUS
  <2> HIDE DEF r, u
  <2> QED
    BY <1>1, <2>1, <2>2
<1>3. n <= Len(t) /\ SubSeq(r, 1, n) = SubSeq(u, 1, n)
  BY <1>2 DEF IsSuffix, IsPrefix
<1> HIDE DEF r, u
<1>4. \A i \in 1..n : r[i] = u[i]
  <2> TAKE i \in 1..n
  <2>1. SubSeq(r, 1, n)[i] = r[i]
    BY <1>2
  <2>2. SubSeq(u, 1, n)[i] = u[i]
    BY <1>2, <1>3
  <2> QED
    BY <1>3, <2>1, <2>2
<1>5. ASSUME NEW i \in 1..n
      PROVE  t[i + (Len(t) - n)] = s[i]
  <2>1. (n - i) + 1 \in 1..n
    OBVIOUS
  <2>2. r[(n - i) + 1] = s[i]
    BY <1>1, <2>1
  <2>3. u[(n - i) + 1] = t[i + (Len(t) - n)]
    BY <1>1, <1>3, <2>1
  <2> QED
    BY <1>4, <2>1, <2>2, <2>3
<1> QED
  BY <1>3, <1>5

\* What comes after k hits still does when rows come in front of it or
\* among it.
LEMMA BeyondGrows ==
  ASSUME NEW s \in Seq(Ads), NEW t \in Seq(Ads), NEW ids, NEW more,
         NEW k \in Nat, NEW b,
         Len(s) <= Len(t),
         \A i \in 1..Len(s) : t[i + (Len(t) - Len(s))] = s[i],
         ids \subseteq more, Beyond(s, ids, k, b)
  PROVE  Beyond(t, more, k, b)
<1> DEFINE d == Len(t) - Len(s)
           H == Hits(s, ids)
           G == Hits(t, more)
<1> PICK i \in H : s[i] = b /\ Rank(s, ids, i) > k
  BY DEF Beyond
<1> DEFINE U == {j \in H : j <= i}
           V == {j \in G : j <= i + d}
           f == [j \in U |-> j + d]
<1>1. d \in Nat /\ H \subseteq 1..Len(s) /\ G \subseteq 1..Len(t)
  BY HitsFinite
<1>2. \A j \in H : j + d \in G
  BY <1>1 DEF Hits
<1>3. IsFiniteSet(V) /\ Cardinality(V) \in Nat
  <2>1. V \in SUBSET G /\ IsFiniteSet(G)
    BY HitsFinite
  <2> QED
    BY <2>1, FS_Subset, FS_CardinalityType
<1>4. f \in Injection(U, V)
  <2>1. \A j \in U : j + d \in V
    BY <1>1, <1>2
  <2>2. \A j, l \in U : j + d = l + d => j = l
    BY <1>1
  <2> QED
    BY <2>1, <2>2 DEF Injection, IsInjective
<1>5. Cardinality(U) <= Cardinality(V)
  BY <1>3, <1>4, FS_Injection
<1>6. Rank(s, ids, i) = Cardinality(U) /\ Rank(t, more, i + d) = Cardinality(V)
  BY DEF Rank
<1>7. Rank(s, ids, i) \in Nat
  BY RankIsOwn, <1>1, HitsFinite
<1>8. Rank(t, more, i + d) > k
  BY <1>3, <1>5, <1>6, <1>7
<1>9. i + d \in G /\ t[i + d] = b
  BY <1>1, <1>2
<1> QED
  BY <1>8, <1>9 DEF Beyond

\* A row of a search comes after none, and nothing comes after all of them.
LEMMA BeyondAll ==
  ASSUME NEW s \in Seq(Ads), NEW ids, NEW b
  PROVE  /\ b \in ToSet(Select(s, ids)) => Beyond(s, ids, 0, b)
         /\ \A k \in Nat : Beyond(s, ids, k, b) => Len(Select(s, ids)) > k
<1> DEFINE n == Cardinality(Hits(s, ids))
<1>0. n \in Nat
  BY HitsFinite
<1>1. ASSUME b \in ToSet(Select(s, ids))
      PROVE  Beyond(s, ids, 0, b)
  <2>1. PICK k \in 1..n : Select(s, ids)[k] = b
    BY <1>0, <1>1, Selected DEF ToSet
  <2>2. PICK i \in Hits(s, ids) : Rank(s, ids, i) = k /\ Select(s, ids)[k] = s[i]
    BY Selected
  <2> QED
    BY <1>0, <2>1, <2>2 DEF Beyond
<1>2. ASSUME NEW k \in Nat, Beyond(s, ids, k, b)
      PROVE  Len(Select(s, ids)) > k
  <2>1. PICK i \in Hits(s, ids) : Rank(s, ids, i) > k
    BY <1>2 DEF Beyond
  <2>2. Rank(s, ids, i) \in 1..n
    BY RankIsOwn
  <2> QED
    BY <1>0, <2>1, <2>2, Selected
<1> QED
  BY <1>1, <1>2

\* The rows of a page.
LEMMA SliceIs ==
  ASSUME NEW t \in Seq(Ads), NEW k \in Nat, NEW m \in Nat,
         k <= m, m <= Len(t)
  PROVE  /\ SubSeq(t, k + 1, m) \in Seq(Ads)
         /\ Len(SubSeq(t, k + 1, m)) = m - k
         /\ \A i \in 1..(m - k) : SubSeq(t, k + 1, m)[i] = t[k + i]
OBVIOUS

\* Rows of a sequence are rows.
LEMMA SliceTyped ==
  ASSUME NEW t \in Seq(Ads), NEW k \in Nat, NEW m \in Nat, m <= Len(t)
  PROVE  SubSeq(t, k + 1, m) \in Seq(Ads)
OBVIOUS

\* What comes after k rows is in the next page, or after it.
LEMMA PageCovers ==
  ASSUME NEW s \in Seq(Ads), NEW ids, NEW b, NEW k \in Nat, NEW l \in Nat,
         Beyond(s, ids, k, b)
  PROVE  LET all == Select(s, ids)
         IN  \/ b \in ToSet(SubSeq(all, k + 1, Min2(k + l, Len(all))))
             \/ Beyond(s, ids, k + l, b)
<1> DEFINE all == Select(s, ids)
           n == Len(all)
<1> PICK i \in Hits(s, ids) : s[i] = b /\ Rank(s, ids, i) > k
  BY DEF Beyond
<1> PICK r : r = Rank(s, ids, i)
  OBVIOUS
<1>1. all \in Seq(Ads) /\ n \in Nat /\ r \in 1..n /\ all[r] = b /\ r > k
  BY Selected, RankIsOwn, HitsFinite
<1>2. CASE r > k + l
  BY <1>2 DEF Beyond
<1>3. CASE r <= k + l
  <2> PICK m : m = Min2(k + l, n)
    OBVIOUS
  <2>1. m \in Nat /\ r <= m /\ m <= n
    BY <1>1, <1>3 DEF Min2
  <2> HIDE DEF all
  <2> DEFINE rows == SubSeq(all, k + 1, m)
  <2>2. r - k \in 1..(m - k)
    BY <1>1, <2>1
  <2>3. Len(rows) = m - k /\ \A j \in 1..(m - k) : rows[j] = all[k + j]
    BY <1>1, <2>1, SliceIs
  <2>4. rows \in Seq(Ads)
    BY <1>1, <2>1
  <2> HIDE DEF rows
  <2> PICK j : j = r - k
    OBVIOUS
  <2>5. j \in 1..(m - k) /\ k + j = r
    BY <1>1, <2>2
  <2>6. rows[j] = b
    BY <1>1, <2>3, <2>5
  <2>7. b \in ToSet(rows)
    BY <2>1, <2>3, <2>4, <2>5, <2>6 DEF ToSet
  <2> QED
    BY <2>7 DEF all, rows
<1> QED
  BY <1>1, <1>2, <1>3

\* There is a next page as long as there are rows after this one.
LEMMA NextPageIff ==
  ASSUME NEW page \in Nat \ {0}, NEW l \in Nat \ {0}, NEW total \in Nat
  PROVE  page < Ceil(total, l) <=> page * l < total
<1> PICK d : d = Ceil(total, l)
  OBVIOUS
<1>1. d \in Nat /\ d * l <= total + l - 1 /\ total + l - 1 < d * l + l
  BY DEF Ceil
<1> PICK x : x = page * l
  OBVIOUS
<1>2. CASE page < d
  <2>1. (page + 1) * l <= d * l
    BY <1>1, <1>2
  <2>2. (page + 1) * l = x + l
    OBVIOUS
  <2> QED
    BY <1>1, <1>2, <2>1, <2>2
<1>3. CASE page >= d
  <2>1. d * l <= page * l
    BY <1>1, <1>3
  <2> QED
    BY <1>1, <1>3, <2>1
<1> QED
  BY <1>1, <1>2, <1>3

----------------------------------------------------------------------------
(* The pages of a search *)

\* How many rows a page has and how many are skipped.
LEMMA SkipIs ==
  ASSUME scan \in ScanRecords
  PROVE  /\ SafeLimit \in Nat \ {0} /\ Skip \in Nat
         /\ Skip + SafeLimit = scan.page * SafeLimit
<1> PICK l : l = SafeLimit
  OBVIOUS
<1> PICK p : p = scan.page
  OBVIOUS
<1>1. l \in Nat \ {0}
  BY CatalogueAssumption DEF ScanRecords, SafeLimit, Min2
<1>2. p \in Nat \ {0} /\ p - 1 \in Nat
  BY DEF ScanRecords
<1>3. (p - 1) * l \in Nat /\ (p - 1) * l + l = p * l
  BY <1>1, <1>2
<1> QED
  BY <1>1, <1>3 DEF Skip

\* Two pieces of a sequence that follow each other.
LEMMA SlicesJoin ==
  ASSUME NEW t \in Seq(Ads), NEW k \in Nat, NEW m \in Nat, k <= m, m <= Len(t)
  PROVE  /\ SubSeq(t, 1, k) \o SubSeq(t, k + 1, m) = SubSeq(t, 1, m)
         /\ SubSeq(t, 1, m) \in Seq(Ads)
<1> PICK a : a = SubSeq(t, 1, k)
  OBVIOUS
<1> PICK b : b = SubSeq(t, k + 1, m)
  OBVIOUS
<1> PICK c : c = SubSeq(t, 1, m)
  OBVIOUS
<1>1. /\ a \in Seq(Ads) /\ Len(a) = k /\ \A i \in 1..k : a[i] = t[i]
      /\ c \in Seq(Ads) /\ Len(c) = m /\ \A i \in 1..m : c[i] = t[i]
  OBVIOUS
<1>2. b \in Seq(Ads) /\ Len(b) = m - k /\ \A i \in 1..(m - k) : b[i] = t[k + i]
  BY SliceIs
<1>3. a \o b \in Seq(Ads) /\ Len(a \o b) = m
  BY <1>1, <1>2
<1>4. ASSUME NEW i \in 1..m
      PROVE  (a \o b)[i] = c[i]
  <2>1. CASE i <= k
    BY <1>1, <1>2, <2>1
  <2>2. CASE i > k
    <3> PICK j : j = i - k
      OBVIOUS
    <3>1. j \in 1..(m - k) /\ k + j = i
      BY <2>2
    <3>2. (a \o b)[i] = b[i - Len(a)]
      BY <1>1, <1>2, <2>2
    <3>3. i - Len(a) = j
      BY <1>1, <3>1
    <3> QED
      BY <1>1, <1>2, <3>1, <3>2, <3>3
  <2> QED
    BY <2>1, <2>2
<1> QED
  BY <1>1, <1>3, <1>4

\* A sequence is a suffix of itself.
LEMMA OwnSuffix ==
  ASSUME NEW s \in Seq(Ads)
  PROVE  IsSuffix(s, s)
BY DEF IsSuffix, IsPrefix

\* The tables may change under a search, which then remembers it.
SearchMovesOn ==
  /\ board' \in Seq(Ads) /\ scan' \in ScanRecords
  /\ scan'.at = scan.at /\ scan'.near = scan.near /\ scan'.limit = scan.limit
  /\ scan'.page = scan.page /\ scan'.ids = scan.ids /\ scan'.rows = scan.rows
  /\ scan'.total = scan.total /\ scan'.got = scan.got
  /\ scan'.base = scan.base
  /\ IsSuffix(board, board')
  /\ \A s \in Spots : NearbyIds(s) \subseteq NearbyIds(s)'
  /\ scan'.still => /\ scan.still /\ board' = board /\ OpenAds' = OpenAds
                    /\ \A s \in Spots : NearbyIds(s)' = NearbyIds(s)
  /\ ~scan'.shaken => /\ ~scan.shaken /\ OpenAds \subseteq OpenAds'
                      /\ scan.at = "half" => board' = board /\ OpenAds' = OpenAds

\* The identifiers that a search would find.
LEMMA IdsMoveOn ==
  ASSUME SearchMovesOn, scan \in ScanRecords
  PROVE  /\ IdsFor(scan.near) \subseteq IdsFor(scan.near)'
         /\ scan'.still => IdsFor(scan.near)' = IdsFor(scan.near)
<1>1. scan.near \in Spots \union {Nil} /\ scan'.near = scan.near
  BY DEF SearchMovesOn, ScanRecords
<1>2. CASE scan.near = Nil
  BY <1>1, <1>2 DEF IdsFor
<1>3. CASE scan.near # Nil
  <2> PICK s \in Spots : s = scan.near
    BY <1>1, <1>3
  <2>1. IdsFor(scan.near) = NearbyIds(s)
    BY <1>3 DEF IdsFor
  <2>2. IdsFor(scan.near)' = NearbyIds(s)'
    BY <1>1, <1>3 DEF IdsFor, NearbyIds
  <2> QED
    BY <2>1, <2>2 DEF SearchMovesOn
<1> QED
  BY <1>2, <1>3

\* A search survives what happens to the tables.
LEMMA SearchGoesOn ==
  ASSUME SearchInv, SearchMovesOn
  PROVE  SearchInv'
<1>0. scan \in ScanRecords /\ board \in Seq(Ads)
  BY DEF SearchInv
<1>1. /\ board' \in Seq(Ads) /\ scan' \in ScanRecords
      /\ scan'.at = scan.at /\ scan'.near = scan.near /\ scan'.limit = scan.limit
      /\ scan'.page = scan.page /\ scan'.ids = scan.ids
      /\ scan'.rows = scan.rows /\ scan'.total = scan.total
      /\ scan'.got = scan.got /\ scan'.base = scan.base
  BY DEF SearchMovesOn
<1>2. SafeLimit' = SafeLimit /\ Skip' = Skip
  BY <1>1 DEF SafeLimit, Skip
<1> PICK k : k = Skip
  OBVIOUS
<1> PICK l : l = SafeLimit
  OBVIOUS
<1>3. k \in Nat /\ l \in Nat /\ k + l \in Nat
  BY <1>0, SkipIs
<1> PICK ids : ids = IdsFor(scan.near)
  OBVIOUS
<1> PICK more : more = IdsFor(scan.near)'
  OBVIOUS
<1> PICK open : open = OpenAds
  OBVIOUS
<1> PICK later : later = OpenAds'
  OBVIOUS
<1>4. ids \subseteq more /\ (scan'.still => more = ids)
  BY <1>0, IdsMoveOn
<1>5. QueriesAnswered'
  BY <1>1 DEF SearchInv, QueriesAnswered
<1>6. IdsGrow'
  BY <1>1, <1>4 DEF SearchInv, IdsGrow
<1>7. StillReads'
  <2> SUFFICES ASSUME scan'.still PROVE StillReads'
    BY DEF StillReads
  <2>1. scan.still /\ board' = board /\ more = ids /\ later = open
    BY <1>4 DEF SearchMovesOn
  <2>2. Matches(IdsFor(scan.near))' = Matches(IdsFor(scan.near))
    <3>1. Matches(IdsFor(scan.near))' = Select(board', more \intersect later)
      BY DEF Matches
    <3> QED
      BY <2>1, <3>1 DEF Matches
  <2>3. PageOf(scan.base)' = PageOf(scan.base)
    BY <1>1, <1>2 DEF PageOf
  <2> QED
    BY <1>1, <1>2, <2>1, <2>2, <2>3 DEF SearchInv, StillReads
<1>8. NothingIsMissed'
  <2> SUFFICES ASSUME ~scan'.shaken, scan'.at # "idle"
               PROVE  NothingIsMissed'
    BY DEF NothingIsMissed
  <2>1. /\ ~scan.shaken /\ IsSuffix(board, board') /\ open \subseteq later
        /\ scan.at = "half" => board' = board /\ later = open
    BY DEF SearchMovesOn
  <2>2. ASSUME NEW b, NEW n \in Nat, NEW x, NEW y, x \subseteq y, ToCome(x, n, b)
        PROVE  Beyond(board', y \intersect later, n, b)
    <3>1. x \intersect open \subseteq y \intersect later
      BY <2>1, <2>2
    <3>2. Beyond(board, x \intersect open, n, b)
      BY <2>2 DEF ToCome
    <3> QED
      BY <1>0, <1>1, <2>1, <3>1, <3>2, SuffixShifts, BeyondGrows
  <2>3. ASSUME NEW b \in ToSet(scan.base)
        PROVE  b \in ToSet(scan.got) \/ InThisPage(b)'
    <3>1. CASE InThisPage(b)
      <4>1. scan.at = "asked" => Beyond(board', more \intersect later, k, b)
        BY <1>3, <1>4, <2>2, <3>1 DEF InThisPage
      <4>2. scan.at \in {"page", "half"} /\ scan.rows = Nil =>
              Beyond(board', scan.ids \intersect later, k, b)
        BY <1>3, <2>2, <3>1 DEF InThisPage
      <4>3. ToCome(scan.ids, k + l, b) =>
              Beyond(board', scan.ids \intersect later, k + l, b)
        BY <1>3, <2>2
      <4> QED
        BY <1>1, <1>2, <3>1, <4>1, <4>2, <4>3 DEF InThisPage, ToCome
    <3> QED
      BY <2>1, <3>1, <1>1 DEF SearchInv, NothingIsMissed
  <2>4. scan.at = "half" /\ scan.total # Nil =>
          scan.total = Len(Matches(scan.ids)')
    BY <1>1, <2>1 DEF SearchInv, NothingIsMissed, Matches
  <2> QED
    BY <1>1, <2>3, <2>4 DEF NothingIsMissed
<1> QED
  BY <1>1, <1>5, <1>6, <1>7, <1>8 DEF SearchInv

\* Two sequences are in their concatenation.
LEMMA JoinHasBoth ==
  ASSUME NEW s \in Seq(Ads), NEW t \in Seq(Ads)
  PROVE  ToSet(s) \subseteq ToSet(s \o t) /\ ToSet(t) \subseteq ToSet(s \o t)
<1> PICK u : u = s \o t
  OBVIOUS
<1>1. u \in Seq(Ads) /\ Len(u) = Len(s) + Len(t) /\ Len(s) \in Nat /\ Len(t) \in Nat
  OBVIOUS
<1>2. \A i \in 1..Len(s) : u[i] = s[i]
  OBVIOUS
<1>3. ASSUME NEW i \in 1..Len(t)
      PROVE  u[Len(s) + i] = t[i] /\ Len(s) + i \in 1..Len(u)
  <2> PICK j : j = Len(s) + i
    OBVIOUS
  <2>1. j \in 1..(Len(s) + Len(t)) /\ j > Len(s) /\ j - Len(s) = i
    BY <1>1
  <2>2. u[j] = t[j - Len(s)]
    BY <1>1, <2>1
  <2> QED
    BY <1>1, <2>1, <2>2
<1>4. ASSUME NEW x \in ToSet(s)
      PROVE  x \in ToSet(u)
  <2> PICK i \in 1..Len(s) : x = s[i]
    BY <1>1 DEF ToSet
  <2>1. i \in DOMAIN u /\ u[i] = x
    BY <1>1, <1>2
  <2> QED
    BY <2>1 DEF ToSet
<1>5. ASSUME NEW x \in ToSet(t)
      PROVE  x \in ToSet(u)
  <2> PICK i \in 1..Len(t) : x = t[i]
    BY <1>1 DEF ToSet
  <2>1. Len(s) + i \in DOMAIN u /\ u[Len(s) + i] = x
    BY <1>1, <1>3
  <2> QED
    BY <2>1 DEF ToSet
<1> QED
  BY <1>4, <1>5

\* The reader moves, the tables do not.
LEMMA SameTables ==
  ASSUME UNCHANGED <<place, ad, board>>
  PROVE  /\ \A ids : Matches(ids)' = Matches(ids)
         /\ scan'.near = scan.near => IdsFor(scan.near)' = IdsFor(scan.near)
BY DEF Matches, IdsFor, NearbyIds, OpenAds

\* No rows are skipped before the first page.
LEMMA ZeroTimes == \A n \in Nat : 0 * n = 0
OBVIOUS

\* The first page of a search.
LEMMA SearchBegins ==
  ASSUME SearchInv, NEW near \in Spots \union {Nil}, NEW limit \in Limits,
         Search(near, limit)
  PROVE  SearchInv'
<1> PICK ids : ids = IdsFor(near)
  OBVIOUS
<1> PICK shown : shown = ids \intersect OpenAds
  OBVIOUS
<1> PICK base : base = Select(board, shown)
  OBVIOUS
<1>1. UNCHANGED <<place, ad, board>> /\ board \in Seq(Ads)
  BY DEF Search, SearchInv
<1>2. scan' = [at |-> "asked", near |-> near, limit |-> limit, page |-> 1,
               ids |-> {}, rows |-> Nil, total |-> Nil, got |-> << >>,
               base |-> base, shaken |-> FALSE, still |-> TRUE]
  BY DEF Search, NoScan, Matches
<1>3. limit \in Nat \ {0} /\ base \in Seq(Ads)
  BY <1>1, CatalogueAssumption, Selected
<1>4. scan' \in ScanRecords
  BY <1>2, <1>3 DEF ScanRecords
<1>5. IdsFor(scan.near)' = ids /\ OpenAds' = OpenAds
  BY <1>1, <1>2 DEF IdsFor, NearbyIds, OpenAds
<1>6. Skip' = 0 /\ SafeLimit' \in Nat
  <2>1. SafeLimit' \in Nat
    BY <1>2, <1>3, CatalogueAssumption DEF SafeLimit, Min2
  <2> PICK l \in Nat : l = SafeLimit'
    BY <2>1
  <2>2. scan'.page - 1 = 0
    BY <1>2
  <2> QED
    BY <2>1, <2>2, ZeroTimes DEF Skip
<1>7. QueriesAnswered' /\ IdsGrow'
  BY <1>2 DEF QueriesAnswered, IdsGrow
<1>8. StillReads'
  <2>1. SubSeq(base, 1, 0) = << >> /\ 0 <= Len(base)
    BY <1>3
  <2>2. Matches(IdsFor(scan.near))' = base
    BY <1>1, <1>5 DEF Matches
  <2> QED
    BY <1>2, <1>6, <2>1, <2>2 DEF StillReads
<1>9. NothingIsMissed'
  <2>1. \A b \in ToSet(base) : Beyond(board, shown, 0, b)
    BY <1>1, BeyondAll
  <2>2. \A b \in ToSet(base) : InThisPage(b)'
    BY <1>1, <1>2, <1>5, <1>6, <2>1 DEF InThisPage, ToCome
  <2> QED
    BY <1>2, <2>2 DEF NothingIsMissed
<1> QED
  BY <1>1, <1>4, <1>7, <1>8, <1>9 DEF SearchInv

\* The identifiers around the place.
LEMMA NearbyAreRead ==
  ASSUME SearchInv, ReadNearby
  PROVE  SearchInv'
<1> PICK ids : ids = IdsFor(scan.near)
  OBVIOUS
<1>0. scan \in ScanRecords /\ board \in Seq(Ads) /\ scan.at = "asked"
  BY DEF SearchInv, ReadNearby
<1>1. UNCHANGED <<place, ad, board>>
  BY DEF ReadNearby
<1>2. ids \subseteq Ads
  BY DEF IdsFor, NearbyIds
<1>3. scan' = [scan EXCEPT !.at = "page", !.ids = ids]
  BY DEF ReadNearby
<1>4. /\ scan' \in ScanRecords
      /\ scan'.at = "page" /\ scan'.near = scan.near /\ scan'.limit = scan.limit
      /\ scan'.page = scan.page /\ scan'.ids = ids
      /\ scan'.rows = scan.rows /\ scan'.total = scan.total
      /\ scan'.got = scan.got /\ scan'.base = scan.base
      /\ scan'.shaken = scan.shaken /\ scan'.still = scan.still
  BY <1>0, <1>2, <1>3 DEF ScanRecords
<1>5. SafeLimit' = SafeLimit /\ Skip' = Skip
  BY <1>4 DEF SafeLimit, Skip
<1>6. /\ IdsFor(scan.near)' = ids /\ Matches(IdsFor(scan.near))' = Matches(ids)
      /\ OpenAds' = OpenAds
  <2>1. IdsFor(scan.near)' = ids
    BY <1>1, <1>4, SameTables
  <2>2. OpenAds' = OpenAds
    BY <1>1 DEF OpenAds
  <2> QED
    BY <1>1, <2>1, <2>2 DEF Matches
<1>7. QueriesAnswered' /\ IdsGrow' /\ scan.rows = Nil /\ scan.total = Nil
  BY <1>0, <1>4, <1>6 DEF SearchInv, QueriesAnswered, IdsGrow
<1>8. StillReads'
  BY <1>0, <1>4, <1>5, <1>6, <1>7 DEF SearchInv, StillReads
<1>9. NothingIsMissed'
  <2>1. \A b : InThisPage(b) => InThisPage(b)'
    BY <1>0, <1>1, <1>4, <1>5, <1>6, <1>7 DEF InThisPage, ToCome
  <2> QED
    BY <1>0, <1>4, <2>1 DEF SearchInv, NothingIsMissed
<1> QED
  BY <1>0, <1>1, <1>4, <1>7, <1>8, <1>9 DEF SearchInv

\* The rows of the page, before or after the total.
LEMMA RowsAreRead ==
  ASSUME SearchInv, ReadRows
  PROVE  SearchInv'
<1> PICK ids : ids = scan.ids
  OBVIOUS
<1> PICK k : k = Skip
  OBVIOUS
<1> PICK l : l = SafeLimit
  OBVIOUS
<1> PICK shown : shown = ids \intersect OpenAds
  OBVIOUS
<1> PICK all : all = Select(board, shown)
  OBVIOUS
<1> PICK m : m = Min2(k + l, Len(all))
  OBVIOUS
<1> PICK at : at = IF scan.total = Nil THEN "half" ELSE "answer"
  OBVIOUS
<1>0. scan \in ScanRecords /\ board \in Seq(Ads) /\ scan.at \in {"page", "half"}
      /\ scan.rows = Nil
  BY DEF SearchInv, ReadRows
<1>1. UNCHANGED <<place, ad, board>>
  BY DEF ReadRows
<1>2. k \in Nat /\ l \in Nat \ {0} /\ k + l \in Nat
  BY <1>0, SkipIs
<1>3. all \in Seq(Ads) /\ m \in Nat /\ m <= Len(all)
  BY <1>0, <1>2, Selected DEF Min2
<1>4. PICK rows \in Seq(Ads) : rows = SubSeq(all, k + 1, m)
  <2>1. SubSeq(all, k + 1, m) \in Seq(Ads)
    BY <1>2, <1>3, SliceTyped
  <2> QED
    BY <2>1
<1>13. rows # Nil
  BY CatalogueAssumption
<1>9. at \in {"half", "answer"} /\ (at = "half" <=> scan.total = Nil)
  OBVIOUS
<1>5. scan' = [scan EXCEPT !.at = at, !.rows = rows]
  BY <1>4 DEF ReadRows, Matches
<1>6. /\ scan' \in ScanRecords
      /\ scan'.at = at /\ scan'.near = scan.near /\ scan'.limit = scan.limit
      /\ scan'.page = scan.page /\ scan'.ids = ids
      /\ scan'.rows = rows /\ scan'.total = scan.total
      /\ scan'.got = scan.got /\ scan'.base = scan.base
      /\ scan'.shaken = scan.shaken /\ scan'.still = scan.still
  BY <1>0, <1>5, <1>9 DEF ScanRecords
<1>7. SafeLimit' = SafeLimit /\ Skip' = Skip
  BY <1>6 DEF SafeLimit, Skip
<1>8. /\ IdsFor(scan.near)' = IdsFor(scan.near)
      /\ Matches(IdsFor(scan.near))' = Matches(IdsFor(scan.near))
      /\ OpenAds' = OpenAds
  <2>1. IdsFor(scan.near)' = IdsFor(scan.near)
    BY <1>1, <1>6, SameTables
  <2>2. OpenAds' = OpenAds
    BY <1>1 DEF OpenAds
  <2> QED
    BY <1>1, <2>1, <2>2 DEF Matches
<1>10. QueriesAnswered' /\ IdsGrow'
  BY <1>0, <1>6, <1>8, <1>9, <1>13 DEF SearchInv, QueriesAnswered, IdsGrow
<1>11. StillReads'
  <2> SUFFICES ASSUME scan.still PROVE StillReads'
    BY <1>6 DEF StillReads
  <2>1. /\ scan.base = Matches(IdsFor(scan.near)) /\ ids = IdsFor(scan.near)
        /\ Skip <= Len(scan.base) /\ scan.got = SubSeq(scan.base, 1, Skip)
        /\ scan.total # Nil => scan.total = Len(scan.base)
    BY <1>0 DEF SearchInv, StillReads
  <2>2. scan.base = all
    BY <2>1 DEF Matches
  <2>3. rows = PageOf(scan.base)'
    BY <1>4, <1>6, <1>7, <2>2 DEF PageOf
  <2> QED
    BY <1>6, <1>7, <1>8, <1>9, <2>1, <2>3 DEF StillReads
<1>12. NothingIsMissed'
  <2> SUFFICES ASSUME ~scan.shaken PROVE NothingIsMissed'
    BY <1>6 DEF NothingIsMissed
  <2>1. /\ \A b \in ToSet(scan.base) : b \in ToSet(scan.got) \/ InThisPage(b)
        /\ scan.at = "half" => scan.total = Len(all)
    BY <1>0 DEF SearchInv, NothingIsMissed, QueriesAnswered, Matches
  <2>2. ASSUME NEW b, InThisPage(b)
        PROVE  InThisPage(b)'
    <3>1. Beyond(board, shown, k, b)
      BY <1>0, <2>2 DEF InThisPage, ToCome
    <3>2. b \in ToSet(rows) \/ Beyond(board, shown, k + l, b)
      BY <1>0, <1>2, <1>4, <3>1, PageCovers
    <3>3. ASSUME Beyond(board, shown, k + l, b), at = "answer"
          PROVE  scan.total > k + l
      <4>1. scan.at = "half"
        BY <1>0, <1>9, <3>3 DEF SearchInv, QueriesAnswered
      <4> QED
        BY <1>0, <1>2, <2>1, <3>3, <4>1, BeyondAll
    <3> QED
      BY <1>1, <1>6, <1>7, <1>8, <1>9, <1>13, <3>2, <3>3 DEF InThisPage, ToCome
  <2> QED
    BY <1>6, <1>9, <1>13, <2>1, <2>2 DEF NothingIsMissed
<1> QED
  BY <1>0, <1>1, <1>6, <1>10, <1>11, <1>12 DEF SearchInv

\* The total, before or after the rows.
LEMMA TotalIsRead ==
  ASSUME SearchInv, ReadCount
  PROVE  SearchInv'
<1> PICK ids : ids = scan.ids
  OBVIOUS
<1> PICK k : k = Skip
  OBVIOUS
<1> PICK l : l = SafeLimit
  OBVIOUS
<1> PICK shown : shown = ids \intersect OpenAds
  OBVIOUS
<1> PICK n : n = Len(Select(board, shown))
  OBVIOUS
<1> PICK at : at = IF scan.rows = Nil THEN "half" ELSE "answer"
  OBVIOUS
<1>0. scan \in ScanRecords /\ board \in Seq(Ads) /\ scan.at \in {"page", "half"}
      /\ scan.total = Nil
  BY DEF SearchInv, ReadCount
<1>1. UNCHANGED <<place, ad, board>>
  BY DEF ReadCount
<1>2. k \in Nat /\ l \in Nat \ {0} /\ k + l \in Nat
  BY <1>0, SkipIs
<1>3. n \in Nat /\ n # Nil
  BY <1>0, Selected, CatalogueAssumption
<1>5. scan' = [scan EXCEPT !.at = at, !.total = n]
  BY DEF ReadCount, Matches
<1>6. /\ scan' \in ScanRecords
      /\ scan'.at = at /\ scan'.near = scan.near /\ scan'.limit = scan.limit
      /\ scan'.page = scan.page /\ scan'.ids = ids
      /\ scan'.rows = scan.rows /\ scan'.total = n
      /\ scan'.got = scan.got /\ scan'.base = scan.base
      /\ scan'.shaken = scan.shaken /\ scan'.still = scan.still
  BY <1>0, <1>3, <1>5 DEF ScanRecords
<1>7. SafeLimit' = SafeLimit /\ Skip' = Skip
  BY <1>6 DEF SafeLimit, Skip
<1>8. /\ IdsFor(scan.near)' = IdsFor(scan.near)
      /\ Matches(IdsFor(scan.near))' = Matches(IdsFor(scan.near))
      /\ OpenAds' = OpenAds
  <2>1. IdsFor(scan.near)' = IdsFor(scan.near)
    BY <1>1, <1>6, SameTables
  <2>2. OpenAds' = OpenAds
    BY <1>1 DEF OpenAds
  <2> QED
    BY <1>1, <2>1, <2>2 DEF Matches
<1>9. at \in {"half", "answer"} /\ (at = "half" <=> scan.rows = Nil)
  OBVIOUS
<1>10. QueriesAnswered' /\ IdsGrow'
  BY <1>0, <1>3, <1>6, <1>8, <1>9 DEF SearchInv, QueriesAnswered, IdsGrow
<1>11. StillReads'
  <2> SUFFICES ASSUME scan.still PROVE StillReads'
    BY <1>6 DEF StillReads
  <2>1. /\ scan.base = Matches(IdsFor(scan.near)) /\ ids = IdsFor(scan.near)
        /\ Skip <= Len(scan.base) /\ scan.got = SubSeq(scan.base, 1, Skip)
        /\ scan.rows # Nil => scan.rows = PageOf(scan.base)
    BY <1>0 DEF SearchInv, StillReads
  <2>2. n = Len(scan.base)
    BY <2>1 DEF Matches
  <2>3. PageOf(scan.base)' = PageOf(scan.base)
    BY <1>6, <1>7 DEF PageOf
  <2> QED
    BY <1>6, <1>7, <1>8, <1>9, <2>1, <2>2, <2>3 DEF StillReads
<1>12. NothingIsMissed'
  <2> SUFFICES ASSUME ~scan.shaken PROVE NothingIsMissed'
    BY <1>6 DEF NothingIsMissed
  <2>1. \A b \in ToSet(scan.base) : b \in ToSet(scan.got) \/ InThisPage(b)
    BY <1>0 DEF SearchInv, NothingIsMissed
  <2>2. ASSUME NEW b, InThisPage(b)
        PROVE  InThisPage(b)'
    <3>1. scan.rows = Nil => Beyond(board, shown, k, b)
      BY <1>0, <2>2 DEF InThisPage, ToCome
    <3>2. scan.rows # Nil =>
            b \in ToSet(scan.rows) \/ Beyond(board, shown, k + l, b)
      BY <1>0, <2>2 DEF SearchInv, QueriesAnswered, InThisPage, ToCome
    <3>3. Beyond(board, shown, k + l, b) => n > k + l
      BY <1>0, <1>2, BeyondAll
    <3> QED
      BY <1>1, <1>6, <1>7, <1>8, <1>9, <3>1, <3>2, <3>3 DEF InThisPage, ToCome
  <2>3. n = Len(Matches(ids)')
    BY <1>1, <1>8 DEF Matches
  <2> QED
    BY <1>6, <1>9, <2>1, <2>2, <2>3 DEF NothingIsMissed
<1> QED
  BY <1>0, <1>1, <1>6, <1>10, <1>11, <1>12 DEF SearchInv

\* The answer: the reader goes on to the next page or has read them all.
LEMMA AnswerIsRead ==
  ASSUME SearchInv, NextPage
  PROVE  SearchInv'
<1> PICK k : k = Skip
  OBVIOUS
<1> PICK l : l = SafeLimit
  OBVIOUS
<1> PICK got : got = scan.got \o scan.rows
  OBVIOUS
<1> PICK at : at = IF scan.page < Pages THEN "asked" ELSE "read"
  OBVIOUS
<1> PICK page : page = IF scan.page < Pages THEN scan.page + 1 ELSE scan.page
  OBVIOUS
<1>0. /\ scan \in ScanRecords /\ board \in Seq(Ads) /\ scan.at = "answer"
      /\ scan.rows # Nil /\ scan.total # Nil
  BY DEF SearchInv, NextPage, QueriesAnswered
<1>1. UNCHANGED <<place, ad, board>>
  BY DEF NextPage
<1>2. /\ scan.rows \in Seq(Ads) /\ scan.total \in Nat /\ scan.got \in Seq(Ads)
      /\ scan.page \in Nat \ {0} /\ scan.base \in Seq(Ads)
  BY <1>0 DEF ScanRecords
<1>3. k \in Nat /\ l \in Nat \ {0} /\ k + l = scan.page * l /\ k + l \in Nat
  BY <1>0, SkipIs
<1>4. \/ at = "asked" /\ page = scan.page + 1 /\ k + l < scan.total
      \/ at = "read" /\ page = scan.page /\ scan.total <= k + l
  <2>1. scan.page < Pages <=> k + l < scan.total
    BY <1>2, <1>3, NextPageIff DEF Pages
  <2> QED
    BY <1>2, <1>3, <2>1
<1>5. scan' = [scan EXCEPT !.at = at, !.page = page, !.got = got,
                           !.rows = Nil, !.total = Nil]
  BY DEF NextPage
<1>6. got \in Seq(Ads) /\ page \in Nat \ {0}
  BY <1>2, <1>4
<1>7. /\ scan' \in ScanRecords
      /\ scan'.at = at /\ scan'.near = scan.near /\ scan'.limit = scan.limit
      /\ scan'.page = page /\ scan'.rows = Nil /\ scan'.total = Nil
      /\ scan'.got = got /\ scan'.base = scan.base
      /\ scan'.shaken = scan.shaken /\ scan'.still = scan.still
  BY <1>0, <1>4, <1>5, <1>6 DEF ScanRecords
<1>8. at = "asked" => Skip' = k + l
  <2>1. SafeLimit' = l
    BY <1>7 DEF SafeLimit
  <2>2. at = "asked" => scan'.page - 1 = scan.page
    BY <1>2, <1>4, <1>7
  <2> QED
    BY <1>3, <2>1, <2>2 DEF Skip
<1>9. IdsFor(scan.near)' = IdsFor(scan.near)
      /\ Matches(IdsFor(scan.near))' = Matches(IdsFor(scan.near))
  <2>1. IdsFor(scan.near)' = IdsFor(scan.near)
    BY <1>1, <1>7, SameTables
  <2>2. OpenAds' = OpenAds
    BY <1>1 DEF OpenAds
  <2> QED
    BY <1>1, <2>1, <2>2 DEF Matches
<1>10. QueriesAnswered' /\ IdsGrow'
  BY <1>4, <1>7 DEF QueriesAnswered, IdsGrow
<1>11. StillReads'
  <2> SUFFICES ASSUME scan.still PROVE StillReads'
    BY <1>7 DEF StillReads
  <2> PICK n : n = Len(scan.base)
    OBVIOUS
  <2> PICK m : m = Min2(k + l, n)
    OBVIOUS
  <2>1. /\ scan.base = Matches(IdsFor(scan.near))
        /\ k <= n /\ scan.got = SubSeq(scan.base, 1, k)
        /\ scan.rows = SubSeq(scan.base, k + 1, m)
        /\ scan.total = n
    BY <1>0 DEF SearchInv, StillReads, PageOf
  <2>2. n \in Nat /\ m \in Nat /\ k <= m /\ m <= n
    BY <1>2, <1>3, <2>1 DEF Min2
  <2>3. got = SubSeq(scan.base, 1, m)
    <3> PICK t \in Seq(Ads) : t = scan.base
      BY <1>2
    <3>1. got = SubSeq(t, 1, k) \o SubSeq(t, k + 1, m)
      BY <2>1
    <3>2. k <= m /\ m <= Len(t)
      BY <2>2
    <3> QED
      BY <1>3, <2>2, <3>1, <3>2, SlicesJoin
  <2>4. at = "asked" => m = k + l /\ k + l <= n
    BY <1>3, <1>4, <2>1, <2>2 DEF Min2
  <2>5. at = "read" => m = n
    BY <1>3, <1>4, <2>1, <2>2 DEF Min2
  <2>6. SubSeq(scan.base, 1, n) = scan.base
    BY <1>2
  <2> QED
    BY <1>4, <1>7, <1>8, <1>9, <2>1, <2>3, <2>4, <2>5, <2>6 DEF StillReads
<1>12. NothingIsMissed'
  <2> SUFFICES ASSUME ~scan.shaken PROVE NothingIsMissed'
    BY <1>7 DEF NothingIsMissed
  <2>1. \A b \in ToSet(scan.base) : b \in ToSet(scan.got) \/ InThisPage(b)
    BY <1>0 DEF SearchInv, NothingIsMissed
  <2>2. ToSet(scan.got) \subseteq ToSet(got) /\ ToSet(scan.rows) \subseteq ToSet(got)
    BY <1>2, JoinHasBoth
  <2>3. ASSUME NEW b, InThisPage(b)
        PROVE  b \in ToSet(scan.rows) \/ InThisPage(b)'
    <3>1. \/ b \in ToSet(scan.rows)
          \/ ToCome(scan.ids, k + l, b) /\ scan.total > k + l
      BY <1>0, <2>3 DEF InThisPage
    <3>2. CASE ToCome(scan.ids, k + l, b) /\ scan.total > k + l
      <4>1. at = "asked"
        BY <1>2, <1>3, <1>4, <3>2
      <4>2. scan.ids \subseteq IdsFor(scan.near)
        BY <1>0 DEF SearchInv, IdsGrow
      <4>3. ToCome(IdsFor(scan.near), k + l, b)
        <5>1. \A i \in 1..Len(board) : board[i + (Len(board) - Len(board))] = board[i]
          BY <1>0
        <5>2. scan.ids \intersect OpenAds \subseteq IdsFor(scan.near) \intersect OpenAds
          BY <4>2
        <5> QED
          BY <1>0, <1>3, <3>2, <5>1, <5>2, BeyondGrows DEF ToCome
      <4>4. OpenAds' = OpenAds
        BY <1>1 DEF OpenAds
      <4> QED
        BY <1>1, <1>7, <1>8, <1>9, <4>1, <4>3, <4>4 DEF InThisPage, ToCome
    <3> QED
      BY <3>1, <3>2
  <2> QED
    BY <1>4, <1>7, <2>1, <2>2, <2>3 DEF NothingIsMissed
<1> QED
  BY <1>0, <1>1, <1>7, <1>10, <1>11, <1>12 DEF SearchInv

\* There is no search.
LEMMA NoScanIsIdle ==
  /\ NoScan \in ScanRecords
  /\ NoScan.at = "idle" /\ NoScan.rows = Nil /\ NoScan.total = Nil
BY DEF NoScan, ScanRecords

----------------------------------------------------------------------------
(* What happens to the tables under a search *)

\* A row that came or went.
LEMMA ShakenIs ==
  ASSUME scan \in ScanRecords, Shaken
  PROVE  /\ scan' \in ScanRecords
         /\ scan'.at = scan.at /\ scan'.near = scan.near
         /\ scan'.limit = scan.limit /\ scan'.page = scan.page
         /\ scan'.ids = scan.ids /\ scan'.rows = scan.rows
         /\ scan'.total = scan.total /\ scan'.got = scan.got
         /\ scan'.base = scan.base /\ ~scan'.still
         /\ ~scan'.shaken => /\ ~scan.shaken /\ OpenAds \subseteq OpenAds'
                             /\ scan.at # "half"
<1> PICK open : open = OpenAds
  OBVIOUS
<1> PICK later : later = OpenAds'
  OBVIOUS
<1> PICK b \in BOOLEAN : b = (scan.shaken \/ ~(open \subseteq later) \/ scan.at = "half")
  OBVIOUS
<1>1. scan' = [scan EXCEPT !.still = FALSE, !.shaken = b]
  BY DEF Shaken
<1>2. scan' \in ScanRecords
  BY <1>1 DEF ScanRecords
<1>3. /\ scan'.at = scan.at /\ scan'.near = scan.near
      /\ scan'.limit = scan.limit /\ scan'.page = scan.page
      /\ scan'.ids = scan.ids /\ scan'.rows = scan.rows
      /\ scan'.total = scan.total /\ scan'.got = scan.got
      /\ scan'.base = scan.base /\ scan'.still = FALSE /\ scan'.shaken = b
  BY <1>1 DEF ScanRecords
<1> QED
  BY <1>2, <1>3

\* Nothing happens to them.
LEMMA CatalogueStill ==
  ASSUME SearchInv, UNCHANGED catalogue
  PROVE  SearchMovesOn
BY OwnSuffix DEF SearchInv, catalogue, SearchMovesOn, NearbyIds, OpenAds

\* An address is inserted.
LEMMA PlaceIsInserted ==
  ASSUME SearchInv, PlacesInv, NEW w \in Workers, InsertPlace(w)
  PROVE  SearchMovesOn
<1> PICK s : s = task[w].addr
  OBVIOUS
<1>1. UNCHANGED <<ad, board, scan>>
  BY DEF InsertPlace
<1>2. \/ place' = place
      \/ place[s] = "absent" /\ place' = [place EXCEPT ![s] = "plain"]
  BY DEF InsertPlace
<1>3. \A x \in Spots : place'[x] = "located" <=> place[x] = "located"
  BY <1>2 DEF PlacesInv, PlacesTypeOK
<1>4. \A x \in Spots : NearbyIds(x)' = NearbyIds(x)
  BY <1>1, <1>3 DEF NearbyIds
<1> QED
  BY <1>1, <1>4, OwnSuffix DEF SearchInv, SearchMovesOn, OpenAds

\* An address is located.
LEMMA PlaceIsLocated ==
  ASSUME SearchInv, PlacesInv, NEW w \in Workers, LocatePlace(w)
  PROVE  SearchMovesOn
<1> PICK s : s = task[w].addr
  OBVIOUS
<1>1. /\ UNCHANGED <<ad, board>> /\ scan' = [scan EXCEPT !.still = FALSE]
      /\ place' = [place EXCEPT ![s] = "located"]
  BY DEF LocatePlace
<1>2. \A x \in Spots : place[x] = "located" => place'[x] = "located"
  BY <1>1 DEF PlacesInv, PlacesTypeOK
<1>3. \A x \in Spots : NearbyIds(x) \subseteq NearbyIds(x)'
  BY <1>1, <1>2 DEF NearbyIds
<1>4. scan \in ScanRecords /\ board \in Seq(Ads)
  BY DEF SearchInv
<1>5. /\ scan' \in ScanRecords
      /\ scan'.at = scan.at /\ scan'.near = scan.near
      /\ scan'.limit = scan.limit /\ scan'.page = scan.page
      /\ scan'.ids = scan.ids /\ scan'.rows = scan.rows
      /\ scan'.total = scan.total /\ scan'.got = scan.got
      /\ scan'.base = scan.base /\ scan'.still = FALSE
      /\ scan'.shaken = scan.shaken
  BY <1>1, <1>4 DEF ScanRecords
<1> QED
  BY <1>1, <1>3, <1>4, <1>5, OwnSuffix DEF SearchMovesOn, OpenAds

\* What is added in front leaves a suffix.
LEMMA AddedInFront ==
  ASSUME NEW s \in Seq(Ads), NEW a \in Ads
  PROVE  <<a>> \o s \in Seq(Ads) /\ IsSuffix(s, <<a>> \o s)
<1> PICK t : t = <<a>> \o s
  OBVIOUS
<1> DEFINE n == Len(s)
           r == Reverse(s)
           u == Reverse(t)
<1>1. t \in Seq(Ads) /\ Len(t) = n + 1 /\ \A i \in 1..n : t[i + 1] = s[i]
  OBVIOUS
<1>2. /\ r = [i \in 1..n |-> s[(n - i) + 1]]
      /\ u = [i \in 1..(n + 1) |-> t[((n + 1) - i) + 1]]
  BY <1>1 DEF Reverse
<1>3. \A i \in 1..n : t[((n + 1) - i) + 1] = s[(n - i) + 1]
  <2> TAKE i \in 1..n
  <2> PICK j : j = (n - i) + 1
    OBVIOUS
  <2>1. j \in 1..n /\ ((n + 1) - i) + 1 = j + 1
    OBVIOUS
  <2> QED
    BY <1>1, <2>1
<1>4. r \in Seq(Ads) /\ u \in Seq(Ads) /\ Len(r) = n /\ Len(u) = n + 1
  <2>1. \A i \in 1..n : s[(n - i) + 1] \in Ads
    OBVIOUS
  <2>2. \A i \in 1..(n + 1) : t[((n + 1) - i) + 1] \in Ads
    BY <1>1
  <2> HIDE DEF r, u
  <2> QED
    BY <1>2, <2>1, <2>2
<1> HIDE DEF r, u
<1>5. \A i \in 1..n : r[i] = u[i]
  BY <1>2, <1>3
<1>6. SubSeq(r, 1, n) = SubSeq(u, 1, n)
  BY <1>4, <1>5
<1>7. IsPrefix(r, u)
  BY <1>4, <1>6 DEF IsPrefix
<1>8. IsSuffix(s, t)
  BY <1>7 DEF IsSuffix, r, u
<1> QED
  BY <1>1, <1>8

\* An advertisement is inserted.
LEMMA AdIsInserted ==
  ASSUME SearchInv, PlacesInv, FreshAds, NEW w \in Workers, InsertAd(w)
  PROVE  SearchMovesOn
<1> PICK a : a = task[w].row
  OBVIOUS
<1>1. /\ place' = place /\ a \in Ads /\ ad[a] = NoAd
  BY DEF InsertAd, Doing, PlacesInv, PublishesAt, FreshAds, Publishing,
         CatalogueSteps
<1>2. CASE UNCHANGED <<ad, board, scan>>
  BY <1>1, <1>2, CatalogueStill DEF catalogue
<1>3. CASE ~UNCHANGED <<ad, board, scan>>
  <2> PICK new : new = <<a>> \o board
    OBVIOUS
  <2> PICK row : row = [status |-> "OPEN", spot |-> task[w].addr,
                        author |-> task[w].user]
    OBVIOUS
  <2>1. ad' = [ad EXCEPT ![a] = row] /\ board' = new /\ Shaken
    BY <1>3 DEF InsertAd
  <2>2. new \in Seq(Ads) /\ IsSuffix(board, new)
    BY <1>1, AddedInFront DEF SearchInv
  <2>3. \A x \in Ads \ {a} : ad'[x] = ad[x]
    BY <2>1 DEF PlacesInv, PlacesTypeOK
  <2>4. \A s \in Spots : NearbyIds(s) \subseteq NearbyIds(s)'
    <3>1. \A s \in Spots : a \notin NearbyIds(s)
      BY <1>1, CatalogueAssumption DEF NearbyIds, NoAd
    <3> QED
      BY <1>1, <2>3, <3>1 DEF NearbyIds
  <2> QED
    BY <2>1, <2>2, <2>4, ShakenIs DEF SearchInv, SearchMovesOn
<1> QED
  BY <1>2, <1>3

\* An advertisement goes or comes back.
LEMMA AdBecomes ==
  ASSUME SearchInv, PlacesInv, NEW a \in Ads, NEW status, Becomes(a, status)
  PROVE  SearchMovesOn
<1>1. /\ UNCHANGED <<place, board>> /\ ad' = [ad EXCEPT ![a].status = status]
      /\ Shaken
  BY DEF Becomes
<1>2. \A x \in Ads : ad'[x].spot = ad[x].spot
  BY <1>1 DEF PlacesInv, PlacesTypeOK, AdRows
<1>3. \A s \in Spots : NearbyIds(s)' = NearbyIds(s)
  BY <1>1, <1>2 DEF NearbyIds
<1> QED
  BY <1>1, <1>3, ShakenIs, OwnSuffix DEF SearchInv, SearchMovesOn

\* The statements of the catalogue, of the reader and of others.
LEMMA StatementsKeepSearch ==
  ASSUME SearchInv, PlacesInv, AtOnce
  PROVE  SearchInv'
<1>1. CASE UNCHANGED catalogue
  BY <1>1, CatalogueStill, SearchGoesOn
<1>2. CASE CatalogueAtOnce
  BY <1>2, AdBecomes, SearchGoesOn, SearchBegins, NearbyAreRead,
     RowsAreRead, TotalIsRead, AnswerIsRead
  DEF CatalogueAtOnce, Withdraw, Reopen, EraseAd
<1> QED
  BY <1>1, <1>2 DEF AtOnce, RoomsAtOnce

\* The publication of an advertisement.
LEMMA PublicationKeepsSearch ==
  ASSUME SearchInv, PlacesInv, FreshAds, NEW w \in Workers,
         CatalogueArrive(w) \/ CatalogueGoOn(w)
  PROVE  SearchInv'
<1>1. CASE CatalogueArrive(w) \/ FindPlace(w)
  <2>1. UNCHANGED catalogue
    BY <1>1 DEF CatalogueArrive, Publish, FindPlace
  <2> QED
    BY <2>1, CatalogueStill, SearchGoesOn
<1>2. CASE InsertPlace(w) \/ LocatePlace(w) \/ InsertAd(w)
  BY <1>2, PlaceIsInserted, PlaceIsLocated, AdIsInserted, SearchGoesOn
<1> QED
  BY <1>1, <1>2 DEF CatalogueGoOn

----------------------------------------------------------------------------
(* Advertisements that are being published *)

\* A worker that publishes nothing.
LEMMA FreshAside ==
  ASSUME FreshAds, NEW w \in Workers, NEW steps, GoesTo(w, steps),
         steps \intersect CatalogueSteps = {}, ad' = ad
  PROVE  FreshAds'
<1>1. /\ ~Publishing(w)'
      /\ \A v \in Workers \ {w} : task'[v] = task[v]
  BY DEF GoesTo, Publishing, CatalogueSteps
<1> QED
  BY <1>1 DEF FreshAds, Publishing

\* No worker moves; an advertisement may go or come back.
LEMMA FreshStill ==
  ASSUME FreshAds, PlacesInv, task' = task,
         \A a \in Ads : ad[a] = NoAd => ad'[a] = ad[a]
  PROVE  FreshAds'
<1>1. \A w \in Workers : Publishing(w) => task[w].row \in Ads
  BY DEF PlacesInv, PublishesAt, Publishing
<1> QED
  BY <1>1 DEF FreshAds, Publishing

\* A publication.
LEMMA PublicationKeepsFresh ==
  ASSUME FramesOK, FreshAds, PlacesInv, NEW w \in Workers,
         CatalogueArrive(w) \/ CatalogueGoOn(w)
  PROVE  FreshAds'
<1> USE DEF FramesOK, FrameOK, FrameFields
<1>1. CASE CatalogueArrive(w)
  <2> PICK a \in Ads, u \in Users, s \in Spots : Publish(w, a, u, s)
    BY <1>1 DEF CatalogueArrive
  <2>1. /\ ad' = ad /\ ad[a] = NoAd /\ \A v \in Workers : task[v].row # a
    BY DEF Publish, catalogue
  <2>2. /\ \A v \in Workers \ {w} : task'[v] = task[v]
        /\ task'[w].row = a
    BY DEF Publish, Start, Free
  <2> QED
    BY <2>1, <2>2 DEF FreshAds, Publishing
<1>2. CASE FindPlace(w) \/ InsertPlace(w) \/ LocatePlace(w)
  <2>1. /\ ad' = ad /\ Publishing(w)
        /\ \A v \in Workers \ {w} : task'[v] = task[v]
        /\ task'[w].row = task[w].row
    BY <1>2
    DEF FindPlace, InsertPlace, LocatePlace, catalogue, Doing, Then,
        Publishing, CatalogueSteps
  <2> QED
    BY <2>1 DEF FreshAds, Publishing
<1>3. CASE InsertAd(w)
  <2>1. /\ Publishing(w) /\ ~Publishing(w)'
        /\ \A v \in Workers \ {w} : task'[v] = task[v]
    BY <1>3 DEF InsertAd, Doing, Answer, Free, Publishing, CatalogueSteps
  <2>2. \A a \in Ads : a # task[w].row => ad'[a] = ad[a]
    BY <1>3 DEF InsertAd, PlacesInv, PlacesTypeOK
  <2>3. \A v \in Workers : Publishing(v) => task[v].row \in Ads
    BY DEF PlacesInv, PublishesAt, Publishing
  <2> QED
    BY <2>1, <2>2, <2>3 DEF FreshAds, Publishing
<1> QED
  BY <1>1, <1>2, <1>3 DEF CatalogueGoOn

\* The statements.
LEMMA StatementsKeepFresh ==
  ASSUME FreshAds, PlacesInv, AtOnce
  PROVE  FreshAds'
<1>1. task' = task
  BY AtOnceFrames
<1>2. \A a \in Ads : ad[a] = NoAd => ad'[a] = ad[a]
  BY StatementsMoveAds, AdsBecome DEF PlacesInv, PlacesTypeOK
<1> QED
  BY <1>1, <1>2, FreshStill

----------------------------------------------------------------------------
\* The inductive invariant of searches.
PagesInv == PlacesInv /\ FreshAds /\ SearchInv

\* Every step keeps the pages.
LEMMA PagesNext ==
  ASSUME FramesOK, PagesInv, [Next]_vars
  PROVE  PagesInv'
<1> USE DEF PagesInv
<1>0. PlacesInv'
  BY PlacesNext
<1>1. ASSUME NEW w \in Workers, Arrive(w)
      PROVE  FreshAds' /\ SearchInv'
  <2>1. CASE CatalogueArrive(w)
    BY <2>1, PublicationKeepsSearch, PublicationKeepsFresh
  <2>2. CASE /\ UNCHANGED catalogue
             /\ \/ ContactsArrive(w) \/ LoginArrive(w) \/ IdentityArrive(w)
                \/ UploadsArrive(w) \/ ExchangesArrive(w) \/ RoomsArrive(w)
    <3>1. ad' = ad /\ SearchInv'
      BY <2>2, CatalogueStill, SearchGoesOn DEF catalogue
    <3>2. FreshAds'
      BY <2>2, <3>1, FreshAside, CatalogueApart, ContactsArriveFrames,
         LoginArriveFrames, IdentityArriveFrames, UploadsArriveFrames,
         ExchangesArriveFrames, RoomsArriveFrames
    <3> QED
      BY <3>1, <3>2
  <2> QED
    BY <1>1, <2>1, <2>2 DEF Arrive
<1>2. ASSUME NEW w \in Workers, Continue(w)
      PROVE  FreshAds' /\ SearchInv'
  <2>1. CASE CatalogueGoOn(w)
    BY <2>1, PublicationKeepsSearch, PublicationKeepsFresh
  <2>2. CASE /\ UNCHANGED catalogue
             /\ \/ ContactsGoOn(w) \/ LoginGoOn(w) \/ IdentityGoOn(w)
                \/ UploadsGoOn(w) \/ ExchangesGoOn(w) \/ RoomsGoOn(w)
                \/ DeleteAccount(w)
    <3>1. ad' = ad /\ SearchInv'
      BY <2>2, CatalogueStill, SearchGoesOn DEF catalogue
    <3>2. FreshAds'
      BY <2>2, <3>1, FreshAside, CatalogueApart, ContactsFrames,
         LoginFrames, IdentityFrames, UploadsFrames, ExchangesFrames,
         RoomsFrames
    <3> QED
      BY <3>1, <3>2
  <2> QED
    BY <1>2, <2>1, <2>2 DEF Continue, DeleteAccountAndRest
<1>3. CASE AtOnce
  BY <1>0, <1>3, StatementsKeepFresh, StatementsKeepSearch
<1>4. CASE Restart
  <2>1. FreshAds'
    BY <1>4 DEF Restart, FreshAds, Publishing, Free, CatalogueSteps
  <2>2. scan' = NoScan /\ board' = board
    BY <1>4 DEF Restart
  <2>3. SearchInv'
    BY <2>2, NoScanIsIdle DEF SearchInv, QueriesAnswered, IdsGrow, StillReads,
                              NothingIsMissed
  <2> QED
    BY <1>0, <2>1, <2>3
<1>5. CASE UNCHANGED vars
  <2>1. task' = task /\ ad' = ad /\ UNCHANGED catalogue
    BY <1>5 DEF vars, catalogue
  <2> QED
    BY <1>0, <2>1, FreshStill, CatalogueStill, SearchGoesOn
<1> QED
  BY <1>0, <1>1, <1>2, <1>3, <1>4, <1>5 DEF Next

\* At the start there is neither an advertisement nor a search.
LEMMA PagesStart == Init => PagesInv
<1> SUFFICES ASSUME Init PROVE PagesInv
  OBVIOUS
<1>1. /\ \A w \in Workers : task[w] = Free
      /\ scan = NoScan /\ board = << >>
  BY DEF Init, TrafficInit, CatalogueInit
<1>2. FreshAds
  BY <1>1 DEF FreshAds, Publishing, Free, CatalogueSteps
<1>3. SearchInv
  BY <1>1, NoScanIsIdle DEF SearchInv, QueriesAnswered, IdsGrow, StillReads,
                            NothingIsMissed
<1> QED
  BY <1>2, <1>3, PlacesStart DEF PagesInv

\* A reader who follows the pages of a search reads each row once and in
\* order if nothing changes, and misses none as long as rows only come, new
\* ones in front or reopened ones in between, but for one that comes between the
\* two queries of a page (AdvertisementsService.findAll).
THEOREM PagesCover == Spec => []PagesCoverSearch
<1>1. Spec => []FramesOK
  BY FramesInit, FramesStep, PTL DEF Spec
<1>2. Spec => []PagesInv
  BY <1>1, PagesStart, PagesNext, PTL DEF Spec
<1>3. PagesInv => PagesCoverSearch
  BY DEF PagesInv, SearchInv, StillReads, NothingIsMissed, InThisPage,
         PagesCoverSearch
<1> QED
  BY <1>2, <1>3, PTL
=============================================================================
