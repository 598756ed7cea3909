------------------------------ MODULE Exchanges ------------------------------
(***************************************************************************)
(* What two users exchange outside the negotiation: blocks, which forbid    *)
(* contact, messages, the appointments they propose, and reports.           *)
(* Every message carries an appointment here: the others take the same path *)
(* and nobody decides on them.                                              *)
(***************************************************************************)
EXTENDS Contacts

CONSTANTS
  Chats,        \* conversations
  ChatParties,  \* [Chats -> the shipper and the carrier]
  Notes,        \* messages that may be sent (bound)
  BlockIds,     \* rows of user_blocks that may be inserted (bound)
  Reports       \* reports that may be filed (bound)

ASSUME ChatsAssumption ==
  /\ ChatParties \in [Chats -> SUBSET Users]
  /\ Nil \notin Notes /\ Nil \notin Chats

VARIABLES
  chat,     \* rows of conversations
  note,     \* rows of messages and message_appointments
  block,    \* rows of user_blocks
  report,   \* rows of reports
  crossed   \* history: blocks that stood during a whole request of contact
            \* and did not prevent it

exchanges == <<chat, note, block, report, crossed>>

Decisions == {"ACCEPTED", "REJECTED"}
Outcomes  == {"REVIEWED", "ACTION_TAKEN", "DISMISSED"}
NoNote    == [status |-> "absent", chat |-> Nil, from |-> Nil]
NoBlock   == [state |-> "absent", by |-> Nil, of |-> Nil]
NoReport  == [status |-> "absent", by |-> Nil]

\* Where no conversation is opened, those of the members are open already.
ExchangesInit ==
  /\ chat = [c \in Chats |->
       IF ChatParties[c] \subseteq load.members /\ ~Arrives("chat")
       THEN "live" ELSE "absent"]
  /\ note = [n \in Notes |-> NoNote]
  /\ block = [b \in BlockIds |-> NoBlock]
  /\ report = [r \in Reports |-> NoReport]
  /\ crossed = {}

----------------------------------------------------------------------------
\* The blocks that stand between the parties of a conversation.
Standing(c) ==
  {b \in BlockIds : block[b].state = "live"
     /\ block[b].by \in ChatParties[c] /\ block[b].of \in ChatParties[c]}

\* Fault: only the block of the other side forbids contact.
BlockedBetweenOneWay(c, u) ==
  \E b \in Standing(c) : block[b].of = u

\* isBlockedBetween: in one direction or the other.
BlockedBetween(c, u) == Standing(c) # {}

\* BlocksService.block is idempotent, a missing user refuses it.
Block(u, v) ==
  /\ Arrives("block")
  /\ u # v /\ Live(u) /\ Live(v)
  /\ ~\E b \in BlockIds :
        block[b].state = "live" /\ block[b].by = u /\ block[b].of = v
  /\ \E b \in BlockIds :
       /\ block[b] = NoBlock
       /\ block' = [block EXCEPT ![b] = [state |-> "live", by |-> u, of |-> v]]
  /\ UNCHANGED <<load, task, contacts, chat, note, report, crossed>>

Unblock(u, v) ==
  /\ Arrives("block")
  /\ \E b \in BlockIds :
       /\ block[b].state = "live" /\ block[b].by = u /\ block[b].of = v
       /\ block' = [block EXCEPT ![b].state = "erased"]
  /\ UNCHANGED <<load, task, contacts, chat, note, report, crossed>>

----------------------------------------------------------------------------
\* ConversationsController.create; seen remembers the blocks at the arrival.
StartChat(w, c, u) ==
  /\ Arrives("chat")
  /\ u \in ChatParties[c] /\ \A v \in ChatParties[c] : Live(v)
  /\ Start(w, [Free EXCEPT !.at = "chat_check", !.user = u, !.row = c,
                           !.seen = Standing(c)])
  /\ UNCHANGED <<load, contacts, exchanges>>

CheckChat(w) ==
  /\ Doing(w, "chat_check")
  /\ IF BlockedBetween(task[w].row, task[w].user)
     THEN Answer(w) ELSE Then(w, "chat_insert")
  /\ UNCHANGED <<load, contacts, exchanges>>

\* Opened already, the conversation is returned as it is.
InsertChat(w) ==
  LET c == task[w].row
  IN /\ Doing(w, "chat_insert")
     /\ IF chat[c] = "absent" /\ \A v \in ChatParties[c] : Live(v)
        THEN /\ chat' = [chat EXCEPT ![c] = "live"]
             /\ crossed' = crossed \union (task[w].seen \intersect Standing(c))
        ELSE UNCHANGED <<chat, crossed>>
     /\ Answer(w)
     /\ UNCHANGED <<load, contacts, note, block, report>>

\* MessagesController.create: isParticipant.
SendMessage(w, c, u) ==
  /\ Arrives("message")
  /\ chat[c] = "live" /\ u \in ChatParties[c]
  /\ Start(w, [Free EXCEPT !.at = "message_check", !.user = u, !.row = c,
                           !.seen = Standing(c)])
  /\ UNCHANGED <<load, contacts, exchanges>>

\* assertNotBlocked; a conversation that is gone is left to the insert.
CheckMessage(w) ==
  LET c == task[w].row
  IN /\ Doing(w, "message_check")
     /\ IF chat[c] = "live" /\ BlockedBetween(c, task[w].user)
        THEN Answer(w) ELSE Then(w, "message_insert")
     /\ UNCHANGED <<load, contacts, exchanges>>

InsertMessage(w) ==
  LET c == task[w].row
      fresh == {n \in Notes : note[n] = NoNote}
  IN /\ Doing(w, "message_insert")
     /\ IF chat[c] = "live" /\ fresh # {}
        THEN \E n \in fresh :
          /\ note' = [note EXCEPT ![n] =
               [status |-> "PENDING", chat |-> c, from |-> task[w].user]]
          /\ crossed' = crossed \union (task[w].seen \intersect Standing(c))
          /\ task' = [task EXCEPT ![w] = [Free EXCEPT !.at = "announce",
                        !.row = n, !.addr = c, !.kind = "PENDING"]]
        ELSE Answer(w) /\ UNCHANGED <<note, crossed>>
     /\ UNCHANGED <<load, contacts, chat, block, report>>

----------------------------------------------------------------------------
\* AppointmentsService.updateStatus: the counterpart decides.
DecideAppointment(w, n, u, decision) ==
  /\ Arrives("appointment")
  /\ note[n].status = "PENDING"
  /\ u \in ChatParties[note[n].chat] \ {note[n].from}
  /\ Start(w, [Free EXCEPT !.at = "appointment_write", !.user = u, !.row = n,
                           !.addr = note[n].chat, !.kind = decision])
  /\ UNCHANGED <<load, contacts, exchanges>>

\* Fault: the decision is written whatever the appointment has become.
Undecided(n) == note[n].status \notin {"absent", "erased"}

\* updateMany matches a PENDING row only.
StillPending(n) == note[n].status = "PENDING"

WriteDecision(w) ==
  LET n == task[w].row
  IN /\ Doing(w, "appointment_write")
     /\ IF StillPending(n)
        THEN /\ note' = [note EXCEPT ![n].status = task[w].kind]
             /\ Then(w, "appointment_read")
        ELSE Answer(w) /\ note' = note
     /\ UNCHANGED <<load, contacts, chat, block, report, crossed>>

\* The row is read again for the answer and the event; it may be gone.
ReadDecision(w) ==
  /\ Doing(w, "appointment_read")
  /\ task' = [task EXCEPT ![w].at = "announce",
                          ![w].kind = note[task[w].row].status]
  /\ UNCHANGED <<load, contacts, exchanges>>

\* ReportsService: anyone files, administrators resolve.
FileReport(r, u) ==
  /\ Arrives("report")
  /\ Live(u) /\ report[r] = NoReport
  /\ report' = [report EXCEPT ![r] = [status |-> "OPEN", by |-> u]]
  /\ UNCHANGED <<load, task, contacts, chat, note, block, crossed>>

ResolveReport(w, r, outcome) ==
  /\ Arrives("report")
  /\ report[r] # NoReport
  /\ Start(w, [Free EXCEPT !.at = "report_write", !.row = r, !.kind = outcome])
  /\ UNCHANGED <<load, contacts, exchanges>>

WriteReport(w) ==
  LET r == task[w].row
  IN /\ Doing(w, "report_write")
     /\ report' = IF report[r].status = "OPEN"
                  THEN [report EXCEPT ![r].status = task[w].kind] ELSE report
     /\ Answer(w)
     /\ UNCHANGED <<load, contacts, chat, note, block, crossed>>

\* The back office edits the status of a report, whatever it is.
EditReport(r, status) ==
  /\ Arrives("report")
  /\ report[r] # NoReport
  /\ report' = [report EXCEPT ![r].status = status]
  /\ UNCHANGED <<load, task, contacts, chat, note, block, crossed>>

PanelEdits(r) == \E status \in Outcomes \union {"OPEN"} : EditReport(r, status)

----------------------------------------------------------------------------
\* A message is deleted by its author, a conversation by both parties
\* (Conversations): appointments go with them.
EraseNotes(gone) ==
  note' = [n \in Notes |-> IF n \in gone THEN [note[n] EXCEPT !.status = "erased"]
                           ELSE note[n]]

EraseNote(n) ==
  /\ Arrives("delete_message")
  /\ note[n].status \notin {"absent", "erased"}
  /\ EraseNotes({n})
  /\ UNCHANGED <<load, task, contacts, chat, block, report, crossed>>

EraseChat(c) ==
  /\ Arrives("delete_message")
  /\ chat[c] = "live"
  /\ chat' = [chat EXCEPT ![c] = "erased"]
  /\ EraseNotes({n \in Notes : note[n].status # "absent" /\ note[n].chat = c})
  /\ UNCHANGED <<load, task, contacts, block, report, crossed>>

----------------------------------------------------------------------------
\* A block that stood from the arrival of a request to its write is obeyed:
\* neither a conversation nor a message crosses it, in either direction
\* (ConversationsService.assertNotBlocked).  A block set while the request is
\* being served may come too late for it.
NoContactAcrossBlock == crossed = {}

\* Of two decisions on an appointment the first one stands ("une seule décision
\* écrit", AppointmentsService).  A report that is decided, by a resolution or in
\* the back office, is rewritten by no resolution ("seule la première résolution
\* écrit", ReportsService): only the back office edits it, and may.
DecisionsStand ==
  [][/\ \A n \in Notes : note[n].status \in Decisions =>
          note'[n].status \in {note[n].status, "erased"}
     /\ \A r \in Reports : report[r].status \in Outcomes =>
          report'[r] = report[r] \/ PanelEdits(r)]_<<note, report>>
=============================================================================
