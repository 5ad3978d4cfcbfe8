------------------------------- MODULE LiveRoom -------------------------------
(***************************************************************************)
(* A stream's room: the sockets of its viewers and of its creator, the     *)
(* in-memory hub that fans events out to them, the presence rows they keep *)
(* alive, the chat they follow, and the sign-in session they all depend on *)
(* (realtime, presence and state.rs of the API).                           *)
(*                                                                         *)
(* A socket is a task: a place in its handler, and what it holds there.    *)
(* It comes back under its own name with the token and the sequence its    *)
(* client kept.  All sockets are of one sign-in session and those of a     *)
(* room show one token, so that a room has one presence row; the row's     *)
(* lease (connected_at) is the socket that wrote it.  Left out: strangers  *)
(* without a sign-in, messages hidden by moderation, what an event other   *)
(* than a chat message says.                                               *)
(***************************************************************************)
EXTENDS Integers, Sequences, FiniteSets

CONSTANTS
  Viewers,    \* sockets of viewers, on the stream's channel
  Studios,    \* sockets of the creator, on the creator's channel
  Senders,    \* chat messages being sent, by a socket or by a POST
  Last,       \* bound: sequence numbers given to messages
  Page,       \* messages in a history or a replay (50 and 200 in the code)
  Capacity,   \* events a slow socket may be behind (256 in the code)
  Strays      \* bound: the creator's early exits on record, after which none fails

ASSUME RoomAssumption ==
  /\ Viewers \cap Studios = {}
  /\ IsFiniteSet(Viewers) /\ IsFiniteSet(Studios)
  /\ "none" \notin Viewers \cup Studios
  /\ Last \in Nat /\ Page \in Nat \ {0} /\ Capacity \in Nat \ {0}
  /\ Strays \in Nat

Sockets == Viewers \cup Studios
Rooms == {"stream", "studio"}
Channels == Rooms \cup {"auth"}
Room(s) == IF s \in Viewers THEN "stream" ELSE "studio"
Messages == 1..Last

VARIABLES
  hub,       \* RealtimeHub.inner: an entry's connections, and whether it is there
  total,     \* RealtimeHub.total_connections
  row,       \* live_viewer_sessions, creator_live_socket_sessions: the token's row
  probe,     \* an admin's reconciliation of the creator's row is about to write
  cursor,    \* chat_stream_cursors.last_sequence
  table,     \* chat_messages, by sequence
  sender,    \* the messages being sent
  signed,    \* auth_sessions.revoked_at: "in", "revoked", "told"
  socket,    \* the sockets
  seen,      \* the messages each viewer's client has, over all its sockets
  strays,    \* history: joins of a channel that nobody will leave
  missed,    \* history: what a viewer's read left out, or crossed its join
  mistaken   \* history: the admin marked a row that had ceased to be silent

chat == <<cursor, table, sender, missed>>
presence == <<row, probe, mistaken>>
counts == <<hub, total, strays>>
vars == <<counts, presence, chat, signed, socket, seen>>

-----------------------------------------------------------------------------
Places == {"out", "register", "read", "join", "auth", "greet", "loop",
           "disconnect", "leave", "unauth", "farewell", "abandon", "give up"}
\* From its join to its exit a socket is subscribed to its room.
Following == {"auth", "greet", "loop"}
Inboxes == UNION {[1..n -> 0..Last] : n \in 0..Capacity}
SocketStates == [at : Places, inbox : Inboxes, lagged : BOOLEAN,
                 held : SUBSET Messages, told : BOOLEAN]
Out == [at |-> "out", inbox |-> <<>>, lagged |-> FALSE, held |-> {}, told |-> FALSE]

At(s, place) == socket[s].at = place
Goes(s, place) == socket' = [socket EXCEPT ![s].at = place]
Exits(s, place) == socket' = [socket EXCEPT ![s] = [Out EXCEPT !.at = place]]

Init ==
  /\ hub = [c \in Channels |-> [open |-> FALSE, count |-> 0]] /\ total = 0
  /\ row = [r \in Rooms |-> [lease |-> "none", silent |-> FALSE, gone |-> TRUE]]
  /\ probe = FALSE /\ mistaken = FALSE
  /\ cursor = 0 /\ table = {}
  /\ sender = [t \in Senders |-> [at |-> "none", seq |-> 0]]
  /\ signed = "in"
  /\ socket = [s \in Sockets |-> Out]
  /\ seen = [v \in Viewers |-> {}]
  /\ strays = [c \in Channels |-> 0]
  /\ missed = [v \in Viewers |-> {}]

-----------------------------------------------------------------------------
(* The hub.                                                                *)

Join(c) ==
  /\ hub' = [hub EXCEPT ![c] = [open |-> TRUE, count |-> hub[c].count + 1]]
  /\ total' = total + 1

\* (A variant that only counts departures which leave somebody behind.)
LeaveQuietly(c) ==
  LET left == IF hub[c].count > 0 THEN hub[c].count - 1 ELSE 0 IN
  /\ hub' = [hub EXCEPT ![c] = [open |-> left > 0, count |-> left]]
  /\ total' = IF left > 0 THEN total - 1 ELSE total
\* The last one to leave removes the entry, one that publish made included.
Leave(c) ==
  LET left == IF hub[c].count > 0 THEN hub[c].count - 1 ELSE 0 IN
  /\ hub' = [hub EXCEPT ![c] = [open |-> left > 0, count |-> left]]
  /\ total' = IF hub[c].open THEN total - 1 ELSE total

\* The entry is made where there is none.  (The sender is taken under the lock
\* and used after it: whoever comes in between has a copy more or one less.)
Reopened(c) == [hub EXCEPT ![c].open = TRUE]
\* A queue that is full loses its oldest event, and its owner finds that out.
Queue(state, e) ==
  IF Len(state.inbox) < Capacity THEN [state EXCEPT !.inbox = Append(@, e)]
  ELSE [state EXCEPT !.inbox = Append(Tail(@), e), !.lagged = TRUE]
Delivered(e) ==
  [s \in Sockets |-> IF s \in Viewers /\ socket[s].at \in Following
                     THEN Queue(socket[s], e) ELSE socket[s]]

-----------------------------------------------------------------------------
(* A socket comes.                                                         *)

Connect(s) ==
  /\ At(s, "out") /\ signed = "in"
  /\ Goes(s, IF s \in Viewers THEN "register" ELSE "join")
  /\ UNCHANGED <<counts, presence, chat, signed, seen>>

\* The token's row is taken over, or made; the creator's may fail to be.
Register(s) ==
  /\ At(s, "register")
  /\ \/ /\ row' = [row EXCEPT ![Room(s)] = [lease |-> s, silent |-> FALSE, gone |-> FALSE]]
        /\ mistaken' = IF s \in Studios THEN FALSE ELSE mistaken
        /\ Goes(s, IF s \in Viewers THEN "read" ELSE "greet")
     \/ /\ s \in Studios => strays["auth"] < Strays
        /\ IF s \in Viewers THEN Exits(s, "out") ELSE Exits(s, "abandon")
        /\ UNCHANGED <<row, mistaken>>
  /\ UNCHANGED <<counts, probe, chat, signed, seen>>

Highest(S) == IF S = {} THEN 0 ELSE CHOOSE m \in S : \A n \in S : n <= m
Oldest(S) == {m \in S : Cardinality({n \in S : n < m}) < Page}
Newest(S) == {m \in S : Cardinality({n \in S : n > m}) < Page}
Above(after) == {m \in table : m > after}
\* (A variant that is one off.)
ReplayPast(after) == IF after > 0 THEN Oldest(Above(after + 1)) ELSE Newest(table)
Replay(after) == IF after > 0 THEN Oldest(Above(after)) ELSE Newest(table)

\* The client comes with the highest sequence it has.  What is promised no more:
\* what that sequence has overtaken, and what does not go on the page.
Read(v) ==
  LET after == Highest(seen[v])
      new == Above(after)
  IN
  /\ At(v, "read")
  /\ socket' = [socket EXCEPT ![v] = [Out EXCEPT !.at = "join", !.held = Replay(after)]]
  /\ missed' = [missed EXCEPT ![v] =
                  (table \ (new \cup seen[v]))
                  \cup (new \ (IF after > 0 THEN Oldest(new) ELSE Newest(new)))]
  /\ UNCHANGED <<counts, presence, cursor, table, sender, signed, seen>>

JoinRoom(s) ==
  /\ At(s, "join")
  /\ Join(Room(s))
  /\ Goes(s, "auth")
  /\ UNCHANGED <<strays, presence, chat, signed, seen>>
JoinAuth(s) ==
  /\ At(s, "auth")
  /\ Join("auth")
  /\ Goes(s, IF s \in Viewers THEN "greet" ELSE "register")
  /\ UNCHANGED <<strays, presence, chat, signed, seen>>

\* What was read goes to the client, then the count of viewers to everyone.
Greet(v) ==
  /\ At(v, "greet") /\ v \in Viewers
  /\ seen' = [seen EXCEPT ![v] = @ \cup socket[v].held]
  /\ hub' = Reopened("stream")
  /\ socket' = [Delivered(0) EXCEPT ![v].at = "loop", ![v].held = {}]
  /\ UNCHANGED <<total, strays, presence, chat, signed>>
\* The creator's first state cannot be put together, or it is sent.
Prepare(s) ==
  /\ At(s, "greet") /\ s \in Studios
  /\ \/ Goes(s, "loop")
     \/ strays["auth"] < Strays /\ Goes(s, "give up")
  /\ UNCHANGED <<counts, presence, chat, signed, seen>>

-----------------------------------------------------------------------------
(* A socket stays.                                                         *)

\* (A variant that touches the row of the token, whoever has the lease.)
TouchAny(s) ==
  /\ row' = [row EXCEPT ![Room(s)] = [@ EXCEPT !.silent = FALSE, !.gone = FALSE]]
  /\ mistaken' = IF s \in Studios THEN FALSE ELSE mistaken
Touch(s) ==
  IF row[Room(s)].lease = s
  THEN /\ row' = [row EXCEPT ![Room(s)] = [lease |-> s, silent |-> FALSE, gone |-> FALSE]]
       /\ mistaken' = IF s \in Studios THEN FALSE ELSE mistaken
  ELSE UNCHANGED <<row, mistaken>>
\* (A variant that asks nobody whether the session still is.)
TickBlindly(s) ==
  /\ At(s, "loop")
  /\ Touch(s)
  /\ UNCHANGED <<counts, probe, chat, signed, seen, socket>>
\* The timer's tick, and the same two statements when the client sends a text.
Tick(s) ==
  /\ At(s, "loop")
  /\ IF signed = "in" THEN Touch(s) /\ UNCHANGED socket
     ELSE Exits(s, "disconnect") /\ UNCHANGED <<row, mistaken>>
  /\ UNCHANGED <<counts, probe, chat, signed, seen>>

\* (A variant that goes on when it has fallen behind.)
ReceiveOn(v) ==
  /\ At(v, "loop") /\ socket[v].inbox # <<>>
  /\ IF signed # "in" THEN Exits(v, "disconnect") /\ UNCHANGED seen
     ELSE /\ socket' = [socket EXCEPT ![v].inbox = Tail(@), ![v].lagged = FALSE]
          /\ seen' = [seen EXCEPT ![v] = @ \cup ({Head(socket[v].inbox)} \ {0})]
  /\ UNCHANGED <<counts, presence, chat, signed>>
\* An event goes out; a socket that has fallen behind closes instead.
Receive(v) ==
  /\ At(v, "loop") /\ socket[v].inbox # <<>>
  /\ IF socket[v].lagged \/ signed # "in"
     THEN Exits(v, "disconnect") /\ UNCHANGED seen
     ELSE /\ socket' = [socket EXCEPT ![v].inbox = Tail(@)]
          /\ seen' = [seen EXCEPT ![v] = @ \cup ({Head(socket[v].inbox)} \ {0})]
  /\ UNCHANGED <<counts, presence, chat, signed>>

\* The client closes, or the sign-in channel says that the session is revoked.
HangUp(s) ==
  /\ At(s, "loop")
  /\ Exits(s, "disconnect")
  /\ UNCHANGED <<counts, presence, chat, signed, seen>>
Told(s) == socket[s].told /\ HangUp(s)

-----------------------------------------------------------------------------
(* A socket goes.                                                          *)

\* (A variant that forgets about the lease.)
DisconnectAny(s) ==
  /\ row' = [row EXCEPT ![Room(s)] = [@ EXCEPT !.silent = FALSE, !.gone = TRUE]]
  /\ UNCHANGED mistaken
Disconnect(s) ==
  /\ row' = IF row[Room(s)].lease = s
            THEN [row EXCEPT ![Room(s)] = [lease |-> s, silent |-> FALSE, gone |-> TRUE]]
            ELSE row
  /\ UNCHANGED mistaken

\* Its row (an error is ignored), its room, its sign-in channel.
Close(s) ==
  /\ At(s, "disconnect") \/ At(s, "give up")
  /\ Disconnect(s) \/ UNCHANGED <<row, mistaken>>
  /\ Exits(s, IF At(s, "give up") THEN "abandon" ELSE "leave")
  /\ UNCHANGED <<counts, probe, chat, signed, seen>>
LeaveRoom(s) ==
  /\ At(s, "leave")
  /\ Leave(Room(s))
  /\ Goes(s, "unauth")
  /\ UNCHANGED <<strays, presence, chat, signed, seen>>
LeaveAuth(s) ==
  /\ At(s, "unauth")
  /\ Leave("auth")
  /\ Goes(s, IF s \in Viewers THEN "farewell" ELSE "out")
  /\ UNCHANGED <<strays, presence, chat, signed, seen>>
\* The creator's early exits leave the room and not the sign-in channel.
Abandon(s) ==
  /\ At(s, "abandon")
  /\ Leave("studio")
  /\ strays' = [strays EXCEPT !["auth"] = @ + 1]
  /\ Goes(s, "out")
  /\ UNCHANGED <<presence, chat, signed, seen>>
Farewell(v) ==
  /\ At(v, "farewell")
  /\ hub' = Reopened("stream")
  /\ socket' = [Delivered(0) EXCEPT ![v].at = "out"]
  /\ UNCHANGED <<total, strays, presence, chat, signed, seen>>

-----------------------------------------------------------------------------
(* Chat.                                                                   *)

Speak(t) ==
  /\ signed = "in" /\ sender[t].at = "none" /\ cursor < Last
  /\ cursor' = cursor + 1
  /\ sender' = [sender EXCEPT ![t] = [at |-> "insert", seq |-> cursor + 1]]
  /\ UNCHANGED <<counts, presence, table, missed, signed, socket, seen>>
Insert(t) ==
  /\ sender[t].at = "insert"
  /\ table' = table \cup {sender[t].seq}
  /\ sender' = [sender EXCEPT ![t].at = "publish"]
  /\ UNCHANGED <<counts, presence, cursor, missed, signed, socket, seen>>
\* A socket that has read and not yet joined hears of it neither way.
Publish(t) ==
  LET m == sender[t].seq IN
  /\ sender[t].at = "publish"
  /\ hub' = Reopened("stream")
  /\ socket' = Delivered(m)
  /\ sender' = [sender EXCEPT ![t] = [at |-> "none", seq |-> 0]]
  /\ missed' = [v \in Viewers |->
                  IF At(v, "join") /\ m \notin socket[v].held
                  THEN missed[v] \cup {m} ELSE missed[v]]
  /\ UNCHANGED <<total, strays, presence, cursor, table, signed, seen>>

-----------------------------------------------------------------------------
(* The sign-in session is revoked: the row, then a word to its channel.    *)

Revoke ==
  /\ signed = "in"
  /\ signed' = "revoked"
  /\ UNCHANGED <<counts, presence, chat, socket, seen>>
InAuth(s) ==
  IF s \in Viewers THEN socket[s].at \in {"greet", "loop"}
  ELSE socket[s].at \in {"register", "greet", "loop"}
Tell ==
  /\ signed = "revoked"
  /\ signed' = "told"
  /\ hub' = Reopened("auth")
  /\ socket' = [s \in Sockets |-> IF InAuth(s) THEN [socket[s] EXCEPT !.told = TRUE]
                                  ELSE socket[s]]
  /\ UNCHANGED <<total, strays, presence, chat, seen>>

-----------------------------------------------------------------------------
(* Time, the passes, a restart.                                            *)

\* No touch for WS_PRESENCE_TTL_SECONDS.
Silence(r) ==
  /\ ~row[r].silent /\ ~row[r].gone
  /\ row' = [row EXCEPT ![r] = [@ EXCEPT !.silent = TRUE]]
  /\ UNCHANGED <<counts, probe, mistaken, chat, signed, socket, seen>>
\* (A variant of the pass that leaves the rows whose token is out.)
PassOnly(r) ==
  /\ row[r].silent /\ ~row[r].gone
  /\ row[r].lease \in Sockets /\ socket[row[r].lease].at = "loop"
  /\ row' = [row EXCEPT ![r] = [@ EXCEPT !.gone = TRUE]]
  /\ UNCHANGED <<counts, probe, mistaken, chat, signed, socket, seen>>
Pass(r) ==
  /\ row[r].silent /\ ~row[r].gone
  /\ row' = [row EXCEPT ![r] = [@ EXCEPT !.gone = TRUE]]
  /\ UNCHANGED <<counts, probe, mistaken, chat, signed, socket, seen>>
\* An admin has one creator's socket reconciled: its row is read, then written
\* by id if it is still connected, silent or not.
ProbeRead ==
  /\ ~probe /\ row["studio"].silent /\ ~row["studio"].gone
  /\ probe' = TRUE
  /\ UNCHANGED <<counts, row, mistaken, chat, signed, socket, seen>>
ProbeWrite ==
  /\ probe
  /\ probe' = FALSE
  /\ row' = [row EXCEPT !["studio"] = [@ EXCEPT !.gone = TRUE]]
  /\ mistaken' = (mistaken \/ (~row["studio"].silent /\ ~row["studio"].gone))
  /\ UNCHANGED <<counts, chat, signed, socket, seen>>

\* The process restarts: hub and sockets are gone, the tables stay.
Restart ==
  /\ hub' = [c \in Channels |-> [open |-> FALSE, count |-> 0]] /\ total' = 0
  /\ strays' = [c \in Channels |-> 0]
  /\ socket' = [s \in Sockets |-> Out]
  /\ sender' = [t \in Senders |-> [at |-> "none", seq |-> 0]]
  /\ probe' = FALSE
  /\ signed' = IF signed = "in" THEN "in" ELSE "told"
  /\ UNCHANGED <<row, mistaken, cursor, table, missed, seen>>

-----------------------------------------------------------------------------
Step(s) ==
  \/ Register(s) \/ JoinRoom(s) \/ JoinAuth(s) \/ Prepare(s) \/ Close(s)
  \/ LeaveRoom(s) \/ LeaveAuth(s) \/ Abandon(s)
Follow(v) == Read(v) \/ Greet(v) \/ Farewell(v)
Next ==
  \/ \E s \in Sockets : Connect(s) \/ Step(s) \/ Tick(s) \/ HangUp(s) \/ Told(s)
  \/ \E v \in Viewers : Follow(v) \/ Receive(v)
  \/ \E t \in Senders : Speak(t) \/ Insert(t) \/ Publish(t)
  \/ Revoke \/ Tell
  \/ \E r \in Rooms : Silence(r) \/ Pass(r)
  \/ ProbeRead \/ ProbeWrite
  \/ Restart

\* A row whose lease nobody holds is not touched, and time goes on.
Unattended(r) == row[r].lease \in Sockets => At(row[r].lease, "out")
Fairness ==
  /\ \A s \in Sockets : WF_vars(Step(s)) /\ WF_vars(Tick(s))
  /\ \A v \in Viewers : WF_vars(Follow(v))
  /\ \A r \in Rooms : WF_vars(Unattended(r) /\ Silence(r)) /\ WF_vars(Pass(r))
Spec == Init /\ [][Next]_vars /\ Fairness

-----------------------------------------------------------------------------
TypeOK ==
  /\ hub \in [Channels -> [open : BOOLEAN, count : Nat]] /\ total \in Nat
  /\ row \in [Rooms -> [lease : Sockets \cup {"none"}, silent : BOOLEAN, gone : BOOLEAN]]
  /\ probe \in BOOLEAN /\ mistaken \in BOOLEAN
  /\ cursor \in 0..Last /\ table \subseteq Messages
  /\ sender \in [Senders -> [at : {"none", "insert", "publish"}, seq : 0..Last]]
  /\ signed \in {"in", "revoked", "told"}
  /\ socket \in [Sockets -> SocketStates]
  /\ seen \in [Viewers -> SUBSET Messages]
  /\ strays \in [Channels -> Nat]
  /\ missed \in [Viewers -> SUBSET Messages]

\* The places between a socket's join of a channel and its leaving it.
Within(s, c) ==
  IF c = "auth" THEN InAuth(s) \/ socket[s].at \in {"disconnect", "give up", "abandon", "leave", "unauth"}
  ELSE c = Room(s) /\ \/ socket[s].at \in Following \cup {"disconnect", "give up", "leave", "abandon"}
                      \/ s \in Studios /\ At(s, "register")
Inside(c) == {s \in Sockets : Within(s, c)}
\* Whatever the order of joins, departures and publications: a channel counts the
\* sockets in it and those that will never leave, it is there while anybody is in
\* it, and the total is the sum of the channels (state.rs, creator_live.rs).
CountsAreSockets ==
  /\ \A c \in Channels : /\ hub[c].count = Cardinality(Inside(c)) + strays[c]
                         /\ hub[c].count > 0 => hub[c].open
  /\ total = hub["stream"].count + hub["studio"].count + hub["auth"].count

Waiting(m) == \E t \in Senders : sender[t].at = "publish" /\ sender[t].seq = m
InBox(v) == {socket[v].inbox[i] : i \in DOMAIN socket[v].inbox}
\* A viewer that stays misses nothing: every message in the table has reached it,
\* is on its way to it or is about to be published; or its read left it out, or
\* it crossed its join (viewer_live.rs reads before it joins); or it has fallen
\* behind, and closes.
StayingMissesNothing ==
  \A v \in Viewers : socket[v].at \in Following /\ ~socket[v].lagged =>
    \A m \in table : \/ m \in seen[v] \cup socket[v].held \cup InBox(v) \cup missed[v]
                     \/ Waiting(m)

\* The row of a room says its viewer has gone only if the socket with the lease
\* is going, or nothing was heard of it; a socket that was replaced does not say
\* so.  But for an admin's reconciliation of the creator's, which writes what it
\* read before (presence/live/viewers.rs, presence/sockets.rs, reconciliation.rs).
PresentIsSeen ==
  \A r \in Rooms :
    LET holder == row[r].lease IN
    /\ holder \in Sockets
    /\ socket[holder].at \in {"read", "join", "auth", "greet", "loop"}
    /\ ~(holder \in Studios /\ socket[holder].at \in {"join", "auth"})
    /\ row[r].gone
    => row[r].silent \/ (r = "studio" /\ mistaken)

\* A viewer who is not there is not counted in the end, whatever became of the
\* statement that should have said so, of the process, and of the touches of
\* sockets that were replaced.
GhostsGo ==
  \A r \in Rooms :
    (row[r].lease \in Sockets /\ Unattended(r) /\ ~row[r].gone)
      ~> (row[r].gone \/ ~Unattended(r))

\* A revoked sign-in leaves no socket open: one that came too late for the word
\* on the channel finds out by its own check.
RevokedLeave == \A s \in Sockets : signed # "in" ~> At(s, "out")
=============================================================================
