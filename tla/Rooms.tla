-------------------------------- MODULE Rooms --------------------------------
(***************************************************************************)
(* ChatGateway: a socket is authenticated when it connects, joins the rooms *)
(* of its conversations, and hears there what the handlers announce after   *)
(* their writes.  A socket that disconnected is not used again.             *)
(***************************************************************************)
EXTENDS Exchanges, Login

CONSTANT Sockets

VARIABLES
  socket,   \* each connection and its user
  room,     \* the conversations each socket has joined
  heard     \* history: what each socket received

rooms == <<socket, room, heard>>

NoSocket == [state |-> "absent", user |-> Nil]

RoomsInit ==
  /\ socket = [k \in Sockets |-> NoSocket]
  /\ room = [k \in Sockets |-> {}]
  /\ heard = {}

Everything == <<contacts, login, exchanges>>

\* handleConnection: only a valid access token is asked for.
Connect(k, u) ==
  /\ Arrives("socket")
  /\ u \in access /\ socket[k] = NoSocket
  /\ socket' = [socket EXCEPT ![k] = [state |-> "open", user |-> u]]
  /\ UNCHANGED <<load, task, Everything, room, heard>>

\* Fault: the participants of a conversation are not looked up.
MayJoinAny(u, c) == chat[c] = "live"

\* handleJoin counts the conversations of that identifier and that user.
MayJoin(u, c) == chat[c] = "live" /\ u \in ChatParties[c]

JoinRoom(w, k, c) ==
  /\ Arrives("socket")
  /\ socket[k].state = "open" /\ MayJoin(socket[k].user, c)
  /\ Start(w, [Free EXCEPT !.at = "join", !.row = k, !.addr = c])
  /\ UNCHANGED <<load, Everything, rooms>>

EnterRoom(w) ==
  LET k == task[w].row
  IN /\ Doing(w, "join")
     /\ room' = IF socket[k].state = "open"
                THEN [room EXCEPT ![k] = @ \union {task[w].addr}] ELSE room
     /\ Answer(w)
     /\ UNCHANGED <<load, Everything, socket, heard>>

LeaveRoom(k, c) ==
  /\ Arrives("leave")
  /\ c \in room[k]
  /\ room' = [room EXCEPT ![k] = @ \ {c}]
  /\ UNCHANGED <<load, task, Everything, socket, heard>>

Disconnect(k) ==
  /\ Arrives("leave")
  /\ socket[k].state = "open"
  /\ socket' = [socket EXCEPT ![k].state = "closed"]
  /\ room' = [room EXCEPT ![k] = {}]
  /\ UNCHANGED <<load, task, Everything, heard>>

\* What the sockets of a room hear of a message or of a user who types.
Told(c, about, what) ==
  {[socket |-> k, chat |-> c, about |-> about, what |-> what] :
     k \in {x \in Sockets : c \in room[x]}}

\* typing:start and typing:stop, only in a room the socket is in.
Type(k, c) ==
  /\ Arrives("typing")
  /\ c \in room[k]
  /\ heard' = heard \union {h \in Told(c, socket[k].user, "typing") :
                              h.socket # k}
  /\ UNCHANGED <<load, task, Everything, socket, room>>

\* broadcastNewMessage and broadcastAppointmentUpdate.
Announce(w) ==
  LET f == task[w]
  IN /\ Doing(w, "announce")
     /\ heard' = heard \union Told(f.addr, f.row, f.kind)
     /\ Answer(w)
     /\ UNCHANGED <<load, Everything, socket, room>>

----------------------------------------------------------------------------
\* Only the parties of a conversation hear it, and only they are heard typing
\* in it (ChatGateway.handleTypingStart: "évite le spoof d'indicateur typing"),
\* whatever joins, leaves and disconnections are in flight.
ConversationsStayPrivate ==
  \A h \in heard :
    /\ socket[h.socket].user \in ChatParties[h.chat]
    /\ h.what = "typing" => h.about \in ChatParties[h.chat]

\* A decision that the parties were told in their room is the one that is
\* stored, for as long as the message exists: an announcement is never taken
\* back by a concurrent decision.
AnnouncedDecisionStands ==
  \A h \in heard : h.what \in Decisions =>
    note[h.about].status \in {h.what, "erased"}
=============================================================================
