---------------------------- MODULE LiveRoom_proofs ----------------------------
(***************************************************************************)
(* What reaches whom, for any number of sockets, senders, messages and     *)
(* events a slow socket may be behind: the hub's counts, the presence rows *)
(* and what a viewer can miss; and, in the last part, for any number of    *)
(* deliveries, tasks, faults and admin retries, what the claim of a        *)
(* notification's delivery attempt guarantees.  The two share no state.    *)
(***************************************************************************)
EXTENDS LiveRoom, NotificationDeliveries, SequenceTheorems, FiniteSetTheorems,
        WellFoundedInduction, TLAPS

-----------------------------------------------------------------------------
(* A socket's inbox.                                                       *)

\* The events an inbox holds.
Items(queue) == {queue[i] : i \in DOMAIN queue}

\* A range gives its length away.
LEMMA SameLength ==
  ASSUME NEW n \in Nat, NEW k \in Nat, 1 .. n = 1 .. k
  PROVE  n = k
  <1>1. CASE n < k
    <2>1. k \in 1 .. k /\ k \notin 1 .. n
      BY <1>1
    <2> QED BY <2>1
  <1>2. CASE k < n
    <2>1. n \in 1 .. n /\ n \notin 1 .. k
      BY <1>2
    <2> QED BY <2>1
  <1> QED BY <1>1, <1>2

\* An inbox is a sequence of at most Capacity events.
LEMMA InboxIs ==
  ASSUME NEW queue
  PROVE  queue \in Inboxes <=> queue \in Seq(0..Last) /\ Len(queue) <= Capacity
  <1>0. Capacity \in Nat
    BY RoomAssumption
  <1>1. ASSUME queue \in Inboxes
        PROVE  queue \in Seq(0..Last) /\ Len(queue) <= Capacity
    <2>1. PICK n \in 0..Capacity : queue \in [1..n -> 0..Last]
      BY <1>1 DEF Inboxes
    <2>2. n \in Nat /\ n <= Capacity
      BY <1>0
    <2>3. queue \in Seq(0..Last)
      BY <2>1, <2>2, SeqDef
    <2>4. DOMAIN queue = 1 .. n /\ DOMAIN queue = 1 .. Len(queue) /\ Len(queue) \in Nat
      BY <2>1, <2>3, LenProperties
    <2>5. Len(queue) = n
      BY <2>2, <2>4, SameLength
    <2> QED BY <2>2, <2>3, <2>5
  <1>2. ASSUME queue \in Seq(0..Last), Len(queue) <= Capacity
        PROVE  queue \in Inboxes
    <2>1. queue \in [1..Len(queue) -> 0..Last] /\ Len(queue) \in Nat
      BY <1>2, LenProperties
    <2>2. Len(queue) \in 0..Capacity
      BY <1>0, <1>2, <2>1
    <2> QED BY <2>1, <2>2 DEF Inboxes
  <1> QED BY <1>1, <1>2

\* Taking the first event leaves an inbox with the others.
LEMMA FirstAndRest ==
  ASSUME NEW queue \in Inboxes, queue # <<>>
  PROVE  /\ Head(queue) \in 0..Last /\ Tail(queue) \in Inboxes
         /\ Len(Tail(queue)) = Len(queue) - 1 /\ Len(queue) > 0
         /\ Items(queue) = {Head(queue)} \cup Items(Tail(queue))
  <1>1. queue \in Seq(0..Last) /\ Len(queue) <= Capacity /\ Capacity \in Nat
    BY InboxIs, RoomAssumption
  <1>2. /\ Head(queue) \in 0..Last /\ Tail(queue) \in Seq(0..Last)
        /\ Len(Tail(queue)) = Len(queue) - 1 /\ Len(queue) \in Nat /\ Len(queue) > 0
        /\ \A i \in 1 .. Len(Tail(queue)) : Tail(queue)[i] = queue[i + 1]
    <2> DEFINE S == 0..Last
    <2>0. queue \in Seq(S)
      BY <1>1
    <2> HIDE DEF S
    <2>1. /\ Head(queue) \in S /\ Tail(queue) \in Seq(S)
          /\ Len(Tail(queue)) = Len(queue) - 1
          /\ \A i \in 1 .. Len(Tail(queue)) : Tail(queue)[i] = queue[i + 1]
      BY <2>0, HeadTailProperties
    <2>2. Len(queue) \in Nat /\ Len(queue) > 0
      BY <2>0, EmptySeq
    <2> QED BY <2>1, <2>2 DEF S
  <1>3. Head(queue) = queue[1]
    BY <1>1
  <1>4. DOMAIN queue = 1 .. Len(queue) /\ DOMAIN Tail(queue) = 1 .. Len(Tail(queue))
    BY <1>1, <1>2
  <1>5. ASSUME NEW m \in Items(queue)
        PROVE  m \in {Head(queue)} \cup Items(Tail(queue))
    <2>1. PICK i \in 1 .. Len(queue) : m = queue[i]
      BY <1>4, <1>5 DEF Items
    <2>2. CASE i # 1
      <3>1. i - 1 \in 1 .. Len(Tail(queue)) /\ Tail(queue)[i - 1] = queue[i]
        BY <1>2, <2>2
      <3> QED BY <1>4, <2>1, <3>1 DEF Items
    <2> QED BY <1>3, <2>1, <2>2
  <1>6. ASSUME NEW m \in Items(Tail(queue))
        PROVE  m \in Items(queue)
    <2>1. PICK i \in 1 .. Len(Tail(queue)) : m = Tail(queue)[i]
      BY <1>4, <1>6 DEF Items
    <2>2. i + 1 \in 1 .. Len(queue) /\ m = queue[i + 1]
      BY <1>2, <2>1
    <2> QED BY <1>4, <2>2 DEF Items
  <1>7. Head(queue) \in Items(queue)
    BY <1>2, <1>3, <1>4 DEF Items
  <1>8. Tail(queue) \in Inboxes
    <2>1. Len(Tail(queue)) <= Capacity
      BY <1>1, <1>2
    <2> QED BY <1>2, <2>1, InboxIs
  <1> QED BY <1>2, <1>5, <1>6, <1>7, <1>8

\* An event that fits is added to those that are there.
LEMMA OneMore ==
  ASSUME NEW queue \in Inboxes, NEW e \in 0..Last, Len(queue) < Capacity
  PROVE  /\ Append(queue, e) \in Inboxes
         /\ Items(Append(queue, e)) = Items(queue) \cup {e}
  <1>1. queue \in Seq(0..Last) /\ Len(queue) \in Nat /\ Capacity \in Nat
    BY InboxIs, RoomAssumption
  <1>2. /\ Append(queue, e) \in Seq(0..Last) /\ Len(Append(queue, e)) = Len(queue) + 1
        /\ \A i \in 1 .. Len(queue) : Append(queue, e)[i] = queue[i]
        /\ Append(queue, e)[Len(queue) + 1] = e
    BY <1>1, AppendProperties
  <1>3. Append(queue, e) \in Inboxes
    <2>1. Len(Append(queue, e)) <= Capacity
      BY <1>1, <1>2
    <2> QED BY <1>2, <2>1, InboxIs
  <1>4. DOMAIN queue = 1 .. Len(queue) /\ DOMAIN Append(queue, e) = 1 .. Len(queue) + 1
    BY <1>1, <1>2
  <1>5. ASSUME NEW m \in Items(queue)
        PROVE  m \in Items(Append(queue, e))
    <2>1. PICK i \in 1 .. Len(queue) : m = queue[i]
      BY <1>4, <1>5 DEF Items
    <2>2. i \in 1 .. Len(queue) + 1 /\ m = Append(queue, e)[i]
      BY <1>1, <1>2, <2>1
    <2> QED BY <1>4, <2>2 DEF Items
  <1>6. e \in Items(Append(queue, e))
    <2>1. Len(queue) + 1 \in 1 .. Len(queue) + 1
      BY <1>1
    <2> QED BY <1>2, <1>4, <2>1 DEF Items
  <1>7. ASSUME NEW m \in Items(Append(queue, e))
        PROVE  m \in Items(queue) \cup {e}
    <2>1. PICK i \in 1 .. Len(queue) + 1 : m = Append(queue, e)[i]
      BY <1>4, <1>7 DEF Items
    <2>2. CASE i # Len(queue) + 1
      <3>1. i \in 1 .. Len(queue) /\ m = queue[i]
        BY <1>1, <1>2, <2>1, <2>2
      <3> QED BY <1>4, <3>1 DEF Items
    <2> QED BY <1>2, <2>1, <2>2
  <1> QED BY <1>3, <1>5, <1>6, <1>7

\* What an event does to the socket it is queued for.
LEMMA Queued ==
  ASSUME NEW state \in SocketStates, NEW e \in 0..Last
  PROVE  /\ Queue(state, e) \in SocketStates
         /\ Queue(state, e).at = state.at /\ Queue(state, e).held = state.held
         /\ Queue(state, e).told = state.told
         /\ ~Queue(state, e).lagged =>
              /\ ~state.lagged
              /\ Items(Queue(state, e).inbox) = Items(state.inbox) \cup {e}
  <1>0. /\ state.inbox \in Inboxes /\ state.lagged \in BOOLEAN
        /\ Capacity \in Nat \ {0}
    BY RoomAssumption DEF SocketStates
  <1>1. CASE Len(state.inbox) < Capacity
    <2> DEFINE inbox == Append(state.inbox, e)
    <2>1. inbox \in Inboxes /\ Items(inbox) = Items(state.inbox) \cup {e}
      BY <1>0, <1>1, OneMore
    <2>2. Queue(state, e) = [state EXCEPT !.inbox = inbox]
      BY <1>1 DEF Queue
    <2> HIDE DEF inbox
    <2> QED BY <1>0, <2>1, <2>2 DEF SocketStates
  <1>2. CASE ~(Len(state.inbox) < Capacity)
    <2> DEFINE inbox == Append(Tail(state.inbox), e)
    <2>1. inbox \in Inboxes
      <3>1. state.inbox # <<>> /\ Len(state.inbox) <= Capacity /\ Len(state.inbox) \in Nat
        BY <1>0, <1>2, InboxIs
      <3>2. Tail(state.inbox) \in Inboxes /\ Len(Tail(state.inbox)) < Capacity
        BY <1>0, <3>1, FirstAndRest
      <3> QED BY <3>2, OneMore
    <2>2. Queue(state, e) = [state EXCEPT !.inbox = inbox, !.lagged = TRUE]
      BY <1>2 DEF Queue
    <2> HIDE DEF inbox
    <2> QED BY <1>0, <2>1, <2>2 DEF SocketStates
  <1> QED BY <1>1, <1>2

\* What an event does to the sockets it goes out to.
LEMMA Fanned ==
  ASSUME TypeOK, NEW e \in 0..Last
  PROVE  /\ Delivered(e) \in [Sockets -> SocketStates]
         /\ \A s \in Sockets :
              /\ Delivered(e)[s].at = socket[s].at
              /\ Delivered(e)[s].held = socket[s].held
              /\ ~Delivered(e)[s].lagged => ~socket[s].lagged
              /\ ~Delivered(e)[s].lagged =>
                   Items(socket[s].inbox) \subseteq Items(Delivered(e)[s].inbox)
              /\ s \in Viewers /\ socket[s].at \in Following /\ ~Delivered(e)[s].lagged =>
                   e \in Items(Delivered(e)[s].inbox)
              /\ ~(s \in Viewers /\ socket[s].at \in Following) =>
                   Delivered(e)[s] = socket[s]
  <1>1. ASSUME NEW s \in Sockets
        PROVE  /\ Queue(socket[s], e) \in SocketStates
               /\ Queue(socket[s], e).at = socket[s].at
               /\ Queue(socket[s], e).held = socket[s].held
               /\ ~Queue(socket[s], e).lagged =>
                    /\ ~socket[s].lagged
                    /\ Items(Queue(socket[s], e).inbox) = Items(socket[s].inbox) \cup {e}
    <2>1. socket[s] \in SocketStates
      BY DEF TypeOK
    <2> QED BY <2>1, Queued
  <1>2. \A s \in Sockets : socket[s] \in SocketStates
    BY DEF TypeOK
  <1>3. \A s \in Sockets : Delivered(e)[s] =
          IF s \in Viewers /\ socket[s].at \in Following THEN Queue(socket[s], e) ELSE socket[s]
    BY DEF Delivered
  <1>4. Delivered(e) \in [Sockets -> SocketStates]
    BY <1>1, <1>2 DEF Delivered
  <1> QED BY <1>1, <1>3, <1>4

\* A socket that exits holds nothing.
LEMMA OutIs == ASSUME NEW place \in Places
               PROVE  [Out EXCEPT !.at = place] \in SocketStates
  <1>1. <<>> \in Inboxes
    <2>1. <<>> \in Seq(0..Last) /\ Len(<<>>) = 0
      BY EmptySeq
    <2>2. Len(<<>>) <= Capacity
      BY <2>1, RoomAssumption
    <2> QED BY <2>1, <2>2, InboxIs
  <1> QED BY <1>1 DEF Out, SocketStates

\* Going from place to place is a matter of one socket.
LEMMA GoingIs ==
  ASSUME TypeOK, NEW s \in Sockets, NEW place \in Places, Goes(s, place) \/ Exits(s, place)
  PROVE  /\ socket' \in [Sockets -> SocketStates]
         /\ socket'[s].at = place
         /\ \A u \in Sockets \ {s} : socket'[u] = socket[u]
  <1>0. socket \in [Sockets -> SocketStates]
    BY DEF TypeOK
  <1>1. CASE Goes(s, place)
    BY <1>0, <1>1 DEF Goes, SocketStates
  <1>2. CASE Exits(s, place)
    <2> DEFINE gone == [Out EXCEPT !.at = place]
    <2>1. gone \in SocketStates /\ gone.at = place
      BY OutIs DEF Out
    <2>2. socket' = [socket EXCEPT ![s] = gone]
      BY <1>2 DEF Exits
    <2> HIDE DEF gone
    <2> QED BY <1>0, <2>1, <2>2
  <1> QED BY <1>1, <1>2

-----------------------------------------------------------------------------
(* The hub's counts.                                                       *)

\* A socket is a viewer's or a studio's, and its room is a channel.
LEMMA RoomsApart ==
  /\ Viewers \subseteq Sockets /\ Studios \subseteq Sockets
  /\ \A s \in Sockets : Room(s) \in Rooms /\ Room(s) \in Channels
  /\ "auth" \in Channels /\ "stream" \in Channels /\ "studio" \in Channels
  /\ Rooms \subseteq Channels
  /\ \A s \in Sockets : s \in Viewers <=> s \notin Studios
  /\ "none" \notin Sockets
BY RoomAssumption DEF Sockets, Rooms, Channels, Room

\* Joining and leaving keep the hub to its type.
LEMMA HubKept ==
  ASSUME TypeOK, NEW c \in Channels, Join(c) \/ (Leave(c) /\ (hub[c].open => total > 0))
  PROVE  hub' \in [Channels -> [open : BOOLEAN, count : Nat]] /\ total' \in Nat
  <1>0. hub[c].count \in Nat /\ total \in Nat
        /\ hub \in [Channels -> [open : BOOLEAN, count : Nat]]
    BY DEF TypeOK
  <1>1. CASE Join(c)
    BY <1>0, <1>1 DEF Join
  <1>2. CASE Leave(c) /\ (hub[c].open => total > 0)
    <2> DEFINE left == IF hub[c].count > 0 THEN hub[c].count - 1 ELSE 0
    <2>1. left \in Nat
      BY <1>0
    <2>2. hub' = [hub EXCEPT ![c] = [open |-> left > 0, count |-> left]]
      BY <1>2 DEF Leave
    <2>3. total' = IF hub[c].open THEN total - 1 ELSE total
      BY <1>2 DEF Leave
    <2>4. (left > 0) \in BOOLEAN
      OBVIOUS
    <2> HIDE DEF left
    <2>5. hub' \in [Channels -> [open : BOOLEAN, count : Nat]]
      BY <1>0, <2>1, <2>2, <2>4
    <2> QED BY <1>0, <1>2, <2>3, <2>5
  <1> QED BY <1>1, <1>2

\* A channel counts its sockets and is there while somebody is in it.
Fits(c) == /\ hub[c].count = Cardinality(Inside(c)) + strays[c]
           /\ hub[c].count > 0 => hub[c].open

\* Viewers do not go the ways of a studio's socket, nor studios those of a viewer's.
Shape == \A s \in Sockets : /\ s \in Viewers => socket[s].at \notin {"give up", "abandon"}
                            /\ s \in Studios => socket[s].at \notin {"read", "farewell"}

\* What is being sent has its number.
Sent == \A t \in Senders : sender[t].at # "none" => sender[t].seq \in Messages

\* The inductive invariant of the doors.
Inv == TypeOK /\ Shape /\ CountsAreSockets

\* The invariant of the doors, channel by channel.
LEMMA CountsAre == CountsAreSockets <=>
  /\ \A c \in Channels : Fits(c)
  /\ total = hub["stream"].count + hub["studio"].count + hub["auth"].count
BY DEF CountsAreSockets, Fits

\* The sockets inside a channel can be counted.
LEMMA InsideFinite == ASSUME NEW c \in Channels
                      PROVE  IsFiniteSet(Inside(c)) /\ Cardinality(Inside(c)) \in Nat
  <1>1. IsFiniteSet(Sockets)
    BY RoomAssumption, FS_Union DEF Sockets
  <1>2. IsFiniteSet(Inside(c))
    BY <1>1, FS_Subset DEF Inside
  <1> QED BY <1>2, FS_CardinalityType

\* One socket moves, and a channel has one more, one less or as many.
LEMMA Recount ==
  ASSUME NEW s \in Sockets, NEW c \in Channels,
         \A u \in Sockets \ {s} : socket'[u].at = socket[u].at
  PROVE  /\ (Within(s, c)' <=> Within(s, c)) => Cardinality(Inside(c)') = Cardinality(Inside(c))
         /\ Within(s, c)' /\ ~Within(s, c) => Cardinality(Inside(c)') = Cardinality(Inside(c)) + 1
         /\ ~Within(s, c)' /\ Within(s, c) =>
              /\ Cardinality(Inside(c)') = Cardinality(Inside(c)) - 1
              /\ Cardinality(Inside(c)) > 0
         /\ Cardinality(Inside(c)') \in Nat
  <1>1. ASSUME NEW u \in Sockets \ {s}
        PROVE  Within(u, c)' <=> Within(u, c)
    BY <1>1 DEF Within, InAuth, At
  <1>2. CASE Within(s, c)'
    <2>1. Inside(c)' = Inside(c) \cup {s}
      BY <1>1, <1>2 DEF Inside
    <2>2. s \in Inside(c) <=> Within(s, c)
      BY DEF Inside
    <2>3. /\ IsFiniteSet(Inside(c) \cup {s})
          /\ Cardinality(Inside(c) \cup {s}) =
               IF s \in Inside(c) THEN Cardinality(Inside(c)) ELSE Cardinality(Inside(c)) + 1
      BY InsideFinite, FS_AddElement
    <2> QED BY <1>2, <2>1, <2>2, <2>3, InsideFinite
  <1>3. CASE ~Within(s, c)'
    <2>1. Inside(c)' = Inside(c) \ {s}
      BY <1>1, <1>3 DEF Inside
    <2>2. s \in Inside(c) <=> Within(s, c)
      BY DEF Inside
    <2>3. /\ IsFiniteSet(Inside(c) \ {s})
          /\ Cardinality(Inside(c) \ {s}) =
               IF s \in Inside(c) THEN Cardinality(Inside(c)) - 1 ELSE Cardinality(Inside(c))
      BY InsideFinite, FS_RemoveElement
    <2>4. Cardinality(Inside(c) \ {s}) \in Nat
      BY <2>3, FS_CardinalityType
    <2> QED BY <1>3, <2>1, <2>2, <2>3, <2>4, InsideFinite
  <1> QED BY <1>2, <1>3

\* Who is inside is counted, so that leaving takes nothing below zero.
LEMMA Inhabited ==
  ASSUME TypeOK, CountsAreSockets, NEW c \in Channels, NEW s \in Sockets, Within(s, c)
  PROVE  hub[c].count > 0 /\ hub[c].open /\ total > 0 /\ Cardinality(Inside(c)) > 0
  <1>1. s \in Inside(c) /\ IsFiniteSet(Inside(c))
    BY InsideFinite DEF Inside
  <1>2. Cardinality(Inside(c)) \in Nat /\ Cardinality(Inside(c)) # 0
    BY <1>1, InsideFinite, FS_EmptySet
  <1>3. strays[c] \in Nat /\ \A d \in Channels : hub[d].count \in Nat
    BY DEF TypeOK
  <1>4. Fits(c) /\ total = hub["stream"].count + hub["studio"].count + hub["auth"].count
    BY CountsAre
  <1>5. hub[c].count > 0 /\ hub[c].open
    BY <1>2, <1>3, <1>4 DEF Fits
  <1>6. hub["stream"].count \in Nat /\ hub["studio"].count \in Nat /\ hub["auth"].count \in Nat
        /\ c \in {"stream", "studio", "auth"}
    BY <1>3, RoomsApart DEF Channels, Rooms
  <1> QED BY <1>2, <1>4, <1>5, <1>6

\* A socket moves within the channels it is in; an event may open a channel.
LEMMA Steady ==
  ASSUME TypeOK, CountsAreSockets, NEW s \in Sockets,
         \A u \in Sockets \ {s} : socket'[u].at = socket[u].at,
         \A c \in Channels : Within(s, c)' <=> Within(s, c),
         strays' = strays, total' = total,
         \/ hub' = hub
         \/ \E r \in Channels : hub' = Reopened(r)
  PROVE  CountsAreSockets'
  <1>1. \A c \in Channels : hub'[c].count = hub[c].count /\ (hub[c].open => hub'[c].open)
    BY DEF Reopened, TypeOK
  <1>2. ASSUME NEW c \in Channels PROVE Fits(c)'
    <2>1. Cardinality(Inside(c)') = Cardinality(Inside(c))
      BY Recount
    <2>2. Fits(c)
      BY CountsAre
    <2> QED BY <1>1, <2>1, <2>2 DEF Fits
  <1>3. total' = hub'["stream"].count + hub'["studio"].count + hub'["auth"].count
    BY <1>1, CountsAre, RoomsApart
  <1>4. \A c \in Channels : Fits(c)'
    BY <1>2
  <1> QED BY <1>3, <1>4 DEF CountsAreSockets, Fits

\* No socket enters or leaves at all.
LEMMA Untouched ==
  ASSUME TypeOK, CountsAreSockets,
         \A u \in Sockets : socket'[u].at = socket[u].at,
         strays' = strays, total' = total,
         \/ hub' = hub
         \/ \E r \in Channels : hub' = Reopened(r)
  PROVE  CountsAreSockets'
  <1>1. \A c \in Channels : hub'[c].count = hub[c].count /\ (hub[c].open => hub'[c].open)
    BY DEF Reopened, TypeOK
  <1>2. ASSUME NEW c \in Channels PROVE Inside(c)' = Inside(c)
    BY DEF Inside, Within, InAuth, At
  <1>3. ASSUME NEW c \in Channels PROVE Fits(c)'
    <2>1. Fits(c)
      BY CountsAre
    <2> QED BY <1>1, <1>2, <2>1 DEF Fits
  <1>4. total' = hub'["stream"].count + hub'["studio"].count + hub'["auth"].count
    BY <1>1, CountsAre, RoomsApart
  <1>5. \A c \in Channels : Fits(c)'
    BY <1>3
  <1> QED BY <1>4, <1>5 DEF CountsAreSockets, Fits

\* One socket joins one channel.
LEMMA Comes ==
  ASSUME TypeOK, CountsAreSockets, NEW s \in Sockets, NEW c \in Channels,
         \A u \in Sockets \ {s} : socket'[u].at = socket[u].at,
         \A d \in Channels \ {c} : Within(s, d)' <=> Within(s, d),
         Within(s, c)', ~Within(s, c), strays' = strays, Join(c)
  PROVE  CountsAreSockets'
  <1>1. hub' = [hub EXCEPT ![c] = [open |-> TRUE, count |-> hub[c].count + 1]] /\ total' = total + 1
    BY DEF Join
  <1>2. hub \in [Channels -> [open : BOOLEAN, count : Nat]]
    BY DEF TypeOK
  <1>3. hub'[c].count = hub[c].count + 1 /\ hub'[c].open
        /\ \A d \in Channels \ {c} : hub'[d] = hub[d]
    BY <1>1, <1>2
  <1>4. ASSUME NEW d \in Channels PROVE Fits(d)'
    <2>1. Fits(d)
      BY CountsAre
    <2>2. CASE d = c
      <3>1. Cardinality(Inside(c)') = Cardinality(Inside(c)) + 1 /\ Cardinality(Inside(c)) \in Nat
        BY Recount, InsideFinite
      <3>2. strays[c] \in Nat
        BY DEF TypeOK
      <3> QED BY <1>3, <2>1, <2>2, <3>1, <3>2 DEF Fits
    <2>3. CASE d # c
      <3>1. Cardinality(Inside(d)') = Cardinality(Inside(d))
        BY <2>3, Recount
      <3> QED BY <1>3, <2>1, <2>3, <3>1 DEF Fits
    <2> QED BY <2>2, <2>3
  <1>5. total' = hub'["stream"].count + hub'["studio"].count + hub'["auth"].count
    <2>1. total = hub["stream"].count + hub["studio"].count + hub["auth"].count
      BY CountsAre
    <2>2. c \in {"stream", "studio", "auth"} /\ \A d \in Channels : hub[d].count \in Nat
      BY <1>2 DEF Channels, Rooms
    <2> QED BY <1>1, <1>3, <2>1, <2>2, RoomsApart
  <1>6. \A d \in Channels : Fits(d)'
    BY <1>4
  <1> QED BY <1>5, <1>6 DEF CountsAreSockets, Fits

\* One socket leaves one channel, and another for good without saying so.
LEMMA Departs ==
  ASSUME TypeOK, CountsAreSockets, NEW s \in Sockets, NEW c \in Channels,
         \A u \in Sockets \ {s} : socket'[u].at = socket[u].at,
         \A d \in Channels \ {c} :
           \/ (Within(s, d)' <=> Within(s, d)) /\ strays'[d] = strays[d]
           \/ ~Within(s, d)' /\ Within(s, d) /\ strays'[d] = strays[d] + 1,
         ~Within(s, c)', Within(s, c), strays'[c] = strays[c], Leave(c)
  PROVE  CountsAreSockets'
  <1> DEFINE left == IF hub[c].count > 0 THEN hub[c].count - 1 ELSE 0
  <1>1. hub' = [hub EXCEPT ![c] = [open |-> left > 0, count |-> left]]
        /\ total' = IF hub[c].open THEN total - 1 ELSE total
    BY DEF Leave
  <1>2. hub \in [Channels -> [open : BOOLEAN, count : Nat]]
    BY DEF TypeOK
  <1>3. hub[c].count > 0 /\ hub[c].open /\ hub[c].count \in Nat
    BY <1>2, Inhabited
  <1>4. hub'[c].count = hub[c].count - 1 /\ (hub'[c].count > 0 => hub'[c].open)
        /\ \A d \in Channels \ {c} : hub'[d] = hub[d]
    BY <1>1, <1>2, <1>3
  <1>5. ASSUME NEW d \in Channels PROVE Fits(d)'
    <2>1. Fits(d)
      BY CountsAre
    <2>2. strays[d] \in Nat /\ Cardinality(Inside(d)) \in Nat
      BY InsideFinite DEF TypeOK
    <2>3. CASE d = c
      <3>1. Cardinality(Inside(c)') = Cardinality(Inside(c)) - 1
        BY Recount
      <3> QED BY <1>4, <2>1, <2>2, <2>3, <3>1 DEF Fits
    <2>4. CASE d # c /\ (Within(s, d)' <=> Within(s, d)) /\ strays'[d] = strays[d]
      <3>1. Cardinality(Inside(d)') = Cardinality(Inside(d))
        BY <2>4, Recount
      <3> QED BY <1>4, <2>1, <2>4, <3>1 DEF Fits
    <2>5. CASE d # c /\ ~Within(s, d)' /\ Within(s, d) /\ strays'[d] = strays[d] + 1
      <3>1. Cardinality(Inside(d)') = Cardinality(Inside(d)) - 1
        BY <2>5, Recount
      <3> QED BY <1>4, <2>1, <2>2, <2>5, <3>1 DEF Fits
    <2> QED BY <2>3, <2>4, <2>5
  <1>6. total' = hub'["stream"].count + hub'["studio"].count + hub'["auth"].count
    <2>1. total = hub["stream"].count + hub["studio"].count + hub["auth"].count
      BY CountsAre
    <2>2. c \in {"stream", "studio", "auth"} /\ \A d \in Channels : hub[d].count \in Nat
      BY <1>2 DEF Channels, Rooms
    <2> QED BY <1>1, <1>3, <1>4, <2>1, <2>2, RoomsApart
  <1>7. \A d \in Channels : Fits(d)'
    BY <1>5
  <1> QED BY <1>6, <1>7 DEF CountsAreSockets, Fits

\* A socket goes on without entering or leaving a channel.
LEMMA GoesOn ==
  ASSUME Inv, NEW s \in Sockets, NEW place \in Places,
         Goes(s, place) \/ Exits(s, place),
         \/ s \in Viewers /\ \/ At(s, "out") /\ place = "register"
                             \/ At(s, "register") /\ place \in {"read", "out"}
                             \/ At(s, "read") /\ place = "join"
                             \/ At(s, "greet") /\ place = "loop"
                             \/ At(s, "loop") /\ place = "disconnect"
                             \/ At(s, "disconnect") /\ place = "leave"
                             \/ At(s, "farewell") /\ place = "out"
         \/ s \in Studios /\ \/ At(s, "out") /\ place = "join"
                             \/ At(s, "register") /\ place \in {"greet", "abandon"}
                             \/ At(s, "greet") /\ place \in {"loop", "give up"}
                             \/ At(s, "loop") /\ place = "disconnect"
                             \/ At(s, "disconnect") /\ place = "leave"
                             \/ At(s, "give up") /\ place = "abandon",
         UNCHANGED counts
  PROVE  socket' \in [Sockets -> SocketStates] /\ Shape' /\ CountsAreSockets'
  <1>1. /\ socket' \in [Sockets -> SocketStates] /\ socket'[s].at = place
        /\ \A u \in Sockets \ {s} : socket'[u] = socket[u]
    BY GoingIs DEF Inv
  <1>2. Shape'
    BY <1>1, RoomsApart DEF Inv, Shape, At
  <1>3. \A c \in Channels : Within(s, c)' <=> Within(s, c)
    <2>1. CASE s \in Viewers
      <3>1. s \notin Studios
        BY <2>1, RoomsApart
      <3> QED BY <1>1, <2>1, <3>1 DEF Within, InAuth, At, Following, Room, Channels, Rooms
    <2>2. CASE s \in Studios
      <3>1. s \notin Viewers
        BY <2>2, RoomsApart
      <3> QED BY <1>1, <2>2, <3>1 DEF Within, InAuth, At, Following, Room, Channels, Rooms
    <2> QED BY <2>1, <2>2, RoomsApart
  <1>4. CountsAreSockets'
    <2>1. strays' = strays /\ total' = total /\ hub' = hub
      BY DEF counts
    <2>2. \A u \in Sockets \ {s} : socket'[u].at = socket[u].at
      BY <1>1
    <2> QED BY <1>3, <2>1, <2>2, Steady DEF Inv
  <1> QED BY <1>1, <1>2, <1>4

\* A step that writes the sockets and nothing else.
LEMMA SocketOnly ==
  ASSUME TypeOK, socket' \in [Sockets -> SocketStates],
         UNCHANGED <<counts, presence, chat, signed, seen>>
  PROVE  TypeOK'
BY DEF TypeOK, counts, presence, chat

-----------------------------------------------------------------------------
(* Each action keeps the counts right.                                     *)

LEMMA ConnectKeeps == ASSUME Inv, NEW s \in Sockets, Connect(s) PROVE Inv'
  <1> DEFINE place == IF s \in Viewers THEN "register" ELSE "join"
  <1>1. place \in Places /\ Goes(s, place) /\ At(s, "out")
    BY DEF Connect, Places
  <1>2. (s \in Viewers => place = "register") /\ (s \in Studios => place = "join")
    BY RoomsApart
  <1>3. UNCHANGED counts /\ UNCHANGED <<counts, presence, chat, signed, seen>>
    BY DEF Connect
  <1> HIDE DEF place
  <1>4. socket' \in [Sockets -> SocketStates] /\ Shape' /\ CountsAreSockets'
    BY <1>1, <1>2, <1>3, GoesOn, RoomsApart
  <1> QED BY <1>3, <1>4, SocketOnly DEF Inv

LEMMA RegisterKeeps == ASSUME Inv, NEW s \in Sockets, Register(s) PROVE Inv'
  <1>1. UNCHANGED <<counts, probe, chat, signed, seen>> /\ At(s, "register")
    BY DEF Register
  <1>2. CASE /\ row' = [row EXCEPT ![Room(s)] = [lease |-> s, silent |-> FALSE, gone |-> FALSE]]
             /\ mistaken' = IF s \in Studios THEN FALSE ELSE mistaken
             /\ Goes(s, IF s \in Viewers THEN "read" ELSE "greet")
    <2> DEFINE place == IF s \in Viewers THEN "read" ELSE "greet"
    <2>1. place \in Places /\ Goes(s, place)
      BY <1>2 DEF Places
    <2>2. (s \in Viewers => place = "read") /\ (s \in Studios => place = "greet")
      BY RoomsApart
    <2> HIDE DEF place
    <2>3. socket' \in [Sockets -> SocketStates] /\ Shape' /\ CountsAreSockets'
      BY <1>1, <2>1, <2>2, GoesOn, RoomsApart
    <2>4. row' \in [Rooms -> [lease : Sockets \cup {"none"}, silent : BOOLEAN, gone : BOOLEAN]]
      <3>1. row \in [Rooms -> [lease : Sockets \cup {"none"}, silent : BOOLEAN, gone : BOOLEAN]]
        BY DEF Inv, TypeOK
      <3> QED BY <1>2, <3>1
    <2>5. mistaken' \in BOOLEAN
      BY <1>2 DEF Inv, TypeOK
    <2>6. TypeOK'
      BY <1>1, <2>3, <2>4, <2>5 DEF Inv, TypeOK, counts, chat
    <2> QED BY <2>3, <2>6 DEF Inv
  <1>3. CASE /\ IF s \in Viewers THEN Exits(s, "out") ELSE Exits(s, "abandon")
             /\ UNCHANGED <<row, mistaken>>
    <2> DEFINE place == IF s \in Viewers THEN "out" ELSE "abandon"
    <2>1. place \in Places /\ Exits(s, place)
      BY <1>3 DEF Places
    <2>2. (s \in Viewers => place = "out") /\ (s \in Studios => place = "abandon")
      BY RoomsApart
    <2> HIDE DEF place
    <2>3. socket' \in [Sockets -> SocketStates] /\ Shape' /\ CountsAreSockets'
      BY <1>1, <2>1, <2>2, GoesOn, RoomsApart
    <2> QED BY <1>1, <1>3, <2>3, SocketOnly DEF Inv, presence
  <1> QED BY <1>2, <1>3 DEF Register

LEMMA ReadKeeps == ASSUME Inv, NEW v \in Viewers, Read(v) PROVE Inv'
  <1>0. v \in Sockets /\ TypeOK
    BY RoomsApart DEF Inv
  <1>1. PICK after : after = Highest(seen[v])
    OBVIOUS
  <1>2. PICK held, lost :
          /\ held \in SUBSET Messages /\ lost \in SUBSET Messages
          /\ socket' = [socket EXCEPT ![v] = [Out EXCEPT !.at = "join", !.held = held]]
          /\ missed' = [missed EXCEPT ![v] = lost]
    <2>1. /\ Replay(after) \subseteq table
          /\ Oldest(Above(after)) \subseteq table /\ Newest(Above(after)) \subseteq table
      BY DEF Replay, Oldest, Newest, Above
    <2>2. /\ socket' = [socket EXCEPT ![v] = [Out EXCEPT !.at = "join", !.held = Replay(after)]]
          /\ missed' = [missed EXCEPT ![v] =
                  (table \ (Above(after) \cup seen[v]))
                  \cup (Above(after) \ (IF after > 0 THEN Oldest(Above(after))
                                        ELSE Newest(Above(after))))]
      BY <1>1 DEF Read
    <2>3. Above(after) \subseteq table /\ table \subseteq Messages
      BY <1>0 DEF Above, TypeOK
    <2> QED BY <2>1, <2>2, <2>3
  <1>3. At(v, "read") /\ UNCHANGED <<counts, presence, cursor, table, sender, signed, seen>>
    BY DEF Read
  <1>4. [Out EXCEPT !.at = "join", !.held = held] \in SocketStates
    <2>1. [Out EXCEPT !.at = "join"] \in SocketStates
      BY OutIs DEF Places
    <2> QED BY <1>2, <2>1 DEF Out, SocketStates
  <1>5. /\ socket' \in [Sockets -> SocketStates] /\ socket'[v].at = "join"
        /\ \A u \in Sockets \ {v} : socket'[u] = socket[u]
    BY <1>0, <1>2, <1>4 DEF Out, TypeOK
  <1>6. TypeOK'
    BY <1>0, <1>2, <1>3, <1>5 DEF TypeOK, counts, presence
  <1>7. Shape'
    BY <1>0, <1>5, RoomsApart DEF Inv, Shape
  <1>8. CountsAreSockets'
    <2>1. \A c \in Channels : Within(v, c)' <=> Within(v, c)
      BY <1>3, <1>5, RoomsApart DEF Within, InAuth, At, Following, Room, Channels, Rooms
    <2>2. strays' = strays /\ total' = total /\ hub' = hub
      BY <1>3 DEF counts
    <2>3. \A u \in Sockets \ {v} : socket'[u].at = socket[u].at
      BY <1>5
    <2> QED BY <1>0, <2>1, <2>2, <2>3, Steady DEF Inv
  <1> QED BY <1>6, <1>7, <1>8 DEF Inv

LEMMA JoinRoomKeeps == ASSUME Inv, NEW s \in Sockets, JoinRoom(s) PROVE Inv'
  <1>0. TypeOK /\ CountsAreSockets /\ Shape /\ Room(s) \in Channels
    BY RoomsApart DEF Inv
  <1>1. /\ At(s, "join") /\ Join(Room(s)) /\ Goes(s, "auth")
        /\ UNCHANGED <<strays, presence, chat, signed, seen>>
    BY DEF JoinRoom
  <1>2. /\ socket' \in [Sockets -> SocketStates] /\ socket'[s].at = "auth"
        /\ \A u \in Sockets \ {s} : socket'[u] = socket[u]
    BY <1>0, <1>1, GoingIs DEF Places
  <1>3. hub' \in [Channels -> [open : BOOLEAN, count : Nat]] /\ total' \in Nat
    BY <1>0, <1>1, HubKept
  <1>4. TypeOK'
    BY <1>0, <1>1, <1>2, <1>3 DEF TypeOK, presence, chat
  <1>5. Shape'
    BY <1>0, <1>2, RoomsApart DEF Shape
  <1>6. /\ \A d \in Channels \ {Room(s)} : Within(s, d)' <=> Within(s, d)
        /\ Within(s, Room(s))' /\ ~Within(s, Room(s))
    BY <1>1, <1>2, RoomsApart DEF Within, InAuth, At, Following, Room, Channels, Rooms
  <1>7. CountsAreSockets'
    <2>1. \A u \in Sockets \ {s} : socket'[u].at = socket[u].at
      BY <1>2
    <2> QED BY <1>0, <1>1, <1>6, <2>1, Comes
  <1> QED BY <1>4, <1>5, <1>7 DEF Inv

LEMMA JoinAuthKeeps == ASSUME Inv, NEW s \in Sockets, JoinAuth(s) PROVE Inv'
  <1>0. TypeOK /\ CountsAreSockets /\ Shape /\ "auth" \in Channels
    BY RoomsApart DEF Inv
  <1> DEFINE place == IF s \in Viewers THEN "greet" ELSE "register"
  <1>1. /\ At(s, "auth") /\ Join("auth") /\ Goes(s, place) /\ place \in Places
        /\ UNCHANGED <<strays, presence, chat, signed, seen>>
    BY DEF JoinAuth, Places
  <1>a. (s \in Viewers => place = "greet") /\ (s \in Studios => place = "register")
    BY RoomsApart
  <1> HIDE DEF place
  <1>2. /\ socket' \in [Sockets -> SocketStates] /\ socket'[s].at = place
        /\ \A u \in Sockets \ {s} : socket'[u] = socket[u]
    BY <1>0, <1>1, GoingIs
  <1>3. hub' \in [Channels -> [open : BOOLEAN, count : Nat]] /\ total' \in Nat
    BY <1>0, <1>1, HubKept
  <1>4. TypeOK'
    BY <1>0, <1>1, <1>2, <1>3 DEF TypeOK, presence, chat
  <1>5. Shape'
    BY <1>0, <1>2, <1>a, RoomsApart DEF Shape
  <1>6. /\ \A d \in Channels \ {"auth"} : Within(s, d)' <=> Within(s, d)
        /\ Within(s, "auth")' /\ ~Within(s, "auth")
    <2>1. CASE s \in Viewers
      BY <1>1, <1>2, <1>a, <2>1, RoomsApart DEF Within, InAuth, At, Following, Room, Channels, Rooms
    <2>2. CASE s \in Studios
      BY <1>1, <1>2, <1>a, <2>2, RoomsApart DEF Within, InAuth, At, Following, Room, Channels, Rooms
    <2> QED BY <2>1, <2>2, RoomsApart
  <1>7. CountsAreSockets'
    <2>1. \A u \in Sockets \ {s} : socket'[u].at = socket[u].at
      BY <1>2
    <2> QED BY <1>0, <1>1, <1>6, <2>1, Comes
  <1> QED BY <1>4, <1>5, <1>7 DEF Inv

LEMMA PrepareKeeps == ASSUME Inv, NEW s \in Sockets, Prepare(s) PROVE Inv'
  <1>1. /\ At(s, "greet") /\ s \in Studios /\ UNCHANGED counts
        /\ Goes(s, "loop") \/ Goes(s, "give up")
        /\ UNCHANGED <<counts, presence, chat, signed, seen>>
    BY DEF Prepare
  <1>2. socket' \in [Sockets -> SocketStates] /\ Shape' /\ CountsAreSockets'
    <2>1. CASE Goes(s, "loop")
      <3>1. "loop" \in Places
        BY DEF Places
      <3> QED BY <1>1, <2>1, <3>1, GoesOn
    <2>2. CASE Goes(s, "give up")
      <3>1. "give up" \in Places
        BY DEF Places
      <3> QED BY <1>1, <2>2, <3>1, GoesOn
    <2> QED BY <1>1, <2>1, <2>2
  <1> QED BY <1>1, <1>2, SocketOnly DEF Inv

\* What a socket that goes writes of its row.
LEMMA LeavingRow ==
  ASSUME TypeOK, NEW s \in Sockets, Disconnect(s) \/ UNCHANGED <<row, mistaken>>
  PROVE  /\ row' \in [Rooms -> [lease : Sockets \cup {"none"}, silent : BOOLEAN, gone : BOOLEAN]]
         /\ mistaken' \in BOOLEAN
  <1>1. row \in [Rooms -> [lease : Sockets \cup {"none"}, silent : BOOLEAN, gone : BOOLEAN]]
    BY DEF TypeOK
  <1>2. PICK new \in [Rooms -> [lease : Sockets \cup {"none"}, silent : BOOLEAN, gone : BOOLEAN]] :
          new = [row EXCEPT ![Room(s)] = [lease |-> s, silent |-> FALSE, gone |-> TRUE]]
    BY <1>1
  <1>3. row' = row \/ row' = new
    BY <1>2 DEF Disconnect
  <1>4. mistaken' = mistaken /\ mistaken \in BOOLEAN
    BY DEF Disconnect, TypeOK
  <1> QED BY <1>1, <1>2, <1>3, <1>4

LEMMA CloseKeeps == ASSUME Inv, NEW s \in Sockets, Close(s) PROVE Inv'
  <1> DEFINE place == IF At(s, "give up") THEN "abandon" ELSE "leave"
  <1>1. /\ At(s, "disconnect") \/ At(s, "give up")
        /\ Disconnect(s) \/ UNCHANGED <<row, mistaken>>
        /\ Exits(s, place) /\ place \in Places
        /\ UNCHANGED <<counts, probe, chat, signed, seen>>
    BY DEF Close, Places
  <1>2. /\ At(s, "disconnect") => place = "leave"
        /\ At(s, "give up") => place = "abandon" /\ s \in Studios
    BY RoomsApart DEF Inv, Shape, At
  <1> HIDE DEF place
  <1>3. socket' \in [Sockets -> SocketStates] /\ Shape' /\ CountsAreSockets'
    BY <1>1, <1>2, GoesOn, RoomsApart
  <1>4. TypeOK'
    BY <1>1, <1>3, LeavingRow DEF Inv, TypeOK, counts, chat
  <1> QED BY <1>3, <1>4 DEF Inv

LEMMA LeaveRoomKeeps == ASSUME Inv, NEW s \in Sockets, LeaveRoom(s) PROVE Inv'
  <1>0. TypeOK /\ CountsAreSockets /\ Shape /\ Room(s) \in Channels
    BY RoomsApart DEF Inv
  <1>1. /\ At(s, "leave") /\ Leave(Room(s)) /\ Goes(s, "unauth")
        /\ UNCHANGED <<strays, presence, chat, signed, seen>>
    BY DEF LeaveRoom
  <1>2. /\ socket' \in [Sockets -> SocketStates] /\ socket'[s].at = "unauth"
        /\ \A u \in Sockets \ {s} : socket'[u] = socket[u]
    BY <1>0, <1>1, GoingIs DEF Places
  <1>6. /\ \A d \in Channels \ {Room(s)} : Within(s, d)' <=> Within(s, d)
        /\ ~Within(s, Room(s))' /\ Within(s, Room(s))
    BY <1>1, <1>2, RoomsApart DEF Within, InAuth, At, Following, Room, Channels, Rooms
  <1>3. hub' \in [Channels -> [open : BOOLEAN, count : Nat]] /\ total' \in Nat
    BY <1>0, <1>1, <1>6, HubKept, Inhabited
  <1>4. TypeOK'
    BY <1>0, <1>1, <1>2, <1>3 DEF TypeOK, presence, chat
  <1>5. Shape'
    BY <1>0, <1>2, RoomsApart DEF Shape
  <1>7. CountsAreSockets'
    <2>1. \A u \in Sockets \ {s} : socket'[u].at = socket[u].at
      BY <1>2
    <2> QED BY <1>0, <1>1, <1>6, <2>1, Departs
  <1> QED BY <1>4, <1>5, <1>7 DEF Inv

LEMMA LeaveAuthKeeps == ASSUME Inv, NEW s \in Sockets, LeaveAuth(s) PROVE Inv'
  <1>0. TypeOK /\ CountsAreSockets /\ Shape /\ "auth" \in Channels
    BY RoomsApart DEF Inv
  <1> DEFINE place == IF s \in Viewers THEN "farewell" ELSE "out"
  <1>1. /\ At(s, "unauth") /\ Leave("auth") /\ Goes(s, place) /\ place \in Places
        /\ UNCHANGED <<strays, presence, chat, signed, seen>>
    BY DEF LeaveAuth, Places
  <1>a. (s \in Viewers => place = "farewell") /\ (s \in Studios => place = "out")
    BY RoomsApart
  <1> HIDE DEF place
  <1>2. /\ socket' \in [Sockets -> SocketStates] /\ socket'[s].at = place
        /\ \A u \in Sockets \ {s} : socket'[u] = socket[u]
    BY <1>0, <1>1, GoingIs
  <1>6. /\ \A d \in Channels \ {"auth"} : Within(s, d)' <=> Within(s, d)
        /\ ~Within(s, "auth")' /\ Within(s, "auth")
    <2>1. CASE s \in Viewers
      BY <1>1, <1>2, <1>a, <2>1, RoomsApart DEF Within, InAuth, At, Following, Room, Channels, Rooms
    <2>2. CASE s \in Studios
      BY <1>1, <1>2, <1>a, <2>2, RoomsApart DEF Within, InAuth, At, Following, Room, Channels, Rooms
    <2> QED BY <2>1, <2>2, RoomsApart
  <1>3. hub' \in [Channels -> [open : BOOLEAN, count : Nat]] /\ total' \in Nat
    BY <1>0, <1>1, <1>6, HubKept, Inhabited
  <1>4. TypeOK'
    BY <1>0, <1>1, <1>2, <1>3 DEF TypeOK, presence, chat
  <1>5. Shape'
    BY <1>0, <1>2, <1>a, RoomsApart DEF Shape
  <1>7. CountsAreSockets'
    <2>1. \A u \in Sockets \ {s} : socket'[u].at = socket[u].at
      BY <1>2
    <2> QED BY <1>0, <1>1, <1>6, <2>1, Departs
  <1> QED BY <1>4, <1>5, <1>7 DEF Inv

LEMMA AbandonKeeps == ASSUME Inv, NEW s \in Sockets, Abandon(s) PROVE Inv'
  <1>0. /\ TypeOK /\ CountsAreSockets /\ Shape /\ "studio" \in Channels /\ "auth" \in Channels
        /\ s \in Studios /\ s \notin Viewers /\ strays \in [Channels -> Nat]
    BY RoomsApart DEF Inv, Abandon, Shape, At, TypeOK
  <1>1. /\ At(s, "abandon") /\ Leave("studio") /\ Goes(s, "out")
        /\ strays' = [strays EXCEPT !["auth"] = @ + 1]
        /\ UNCHANGED <<presence, chat, signed, seen>>
    BY DEF Abandon
  <1>2. /\ socket' \in [Sockets -> SocketStates] /\ socket'[s].at = "out"
        /\ \A u \in Sockets \ {s} : socket'[u] = socket[u]
    BY <1>0, <1>1, GoingIs DEF Places
  <1>3. /\ ~Within(s, "studio")' /\ Within(s, "studio")
        /\ ~Within(s, "auth")' /\ Within(s, "auth")
        /\ ~Within(s, "stream")' /\ ~Within(s, "stream")
    BY <1>0, <1>1, <1>2 DEF Within, InAuth, At, Following, Room
  <1>4. hub' \in [Channels -> [open : BOOLEAN, count : Nat]] /\ total' \in Nat
    BY <1>0, <1>1, <1>3, HubKept, Inhabited
  <1>5. /\ strays' \in [Channels -> Nat] /\ strays'["auth"] = strays["auth"] + 1
        /\ \A d \in Channels \ {"auth"} : strays'[d] = strays[d]
    BY <1>0, <1>1
  <1>6. TypeOK'
    BY <1>0, <1>1, <1>2, <1>4, <1>5 DEF TypeOK, presence, chat
  <1>7. Shape'
    BY <1>0, <1>2, RoomsApart DEF Shape
  <1>8. CountsAreSockets'
    <2>1. \A u \in Sockets \ {s} : socket'[u].at = socket[u].at
      BY <1>2
    <2>2. ASSUME NEW d \in Channels \ {"studio"}
          PROVE  \/ (Within(s, d)' <=> Within(s, d)) /\ strays'[d] = strays[d]
                 \/ ~Within(s, d)' /\ Within(s, d) /\ strays'[d] = strays[d] + 1
      <3>1. CASE d = "auth"
        BY <1>3, <1>5, <3>1
      <3>2. CASE d = "stream"
        BY <1>3, <1>5, <3>2
      <3> QED BY <3>1, <3>2 DEF Channels, Rooms
    <2>3. strays'["studio"] = strays["studio"]
      BY <1>0, <1>5
    <2> QED BY <1>0, <1>1, <1>3, <2>1, <2>2, <2>3, Departs
  <1> QED BY <1>6, <1>7, <1>8 DEF Inv

\* A viewer that arrives or has gone is announced to the others.
LEMMA Announces ==
  ASSUME Inv, NEW v \in Viewers, NEW place \in Places, NEW held \in SUBSET Messages,
         \/ At(v, "greet") /\ place = "loop"
         \/ At(v, "farewell") /\ place = "out",
         socket' = [Delivered(0) EXCEPT ![v] = [@ EXCEPT !.at = place, !.held = held]],
         hub' = Reopened("stream"), UNCHANGED <<total, strays>>
  PROVE  /\ socket' \in [Sockets -> SocketStates]
         /\ hub' \in [Channels -> [open : BOOLEAN, count : Nat]]
         /\ Shape' /\ CountsAreSockets'
  <1>0. TypeOK /\ v \in Sockets /\ 0 \in 0..Last
    BY RoomsApart, RoomAssumption DEF Inv
  <1>1. /\ Delivered(0) \in [Sockets -> SocketStates]
        /\ \A s \in Sockets : Delivered(0)[s].at = socket[s].at
    BY <1>0, Fanned
  <1>2. /\ socket' \in [Sockets -> SocketStates] /\ socket'[v].at = place
        /\ \A u \in Sockets \ {v} : socket'[u].at = socket[u].at
    <2>1. PICK f : f = Delivered(0)
      OBVIOUS
    <2>2. [f[v] EXCEPT !.at = place, !.held = held] \in SocketStates
          /\ [f[v] EXCEPT !.at = place, !.held = held].at = place
      BY <1>0, <1>1, <2>1 DEF SocketStates
    <2>3. socket' = [f EXCEPT ![v] = [f[v] EXCEPT !.at = place, !.held = held]]
      BY <2>1
    <2> QED BY <1>0, <1>1, <2>1, <2>2, <2>3
  <1>3. Shape'
    BY <1>0, <1>2, RoomsApart DEF Inv, Shape
  <1>4. \A c \in Channels : Within(v, c)' <=> Within(v, c)
    BY <1>2, RoomsApart DEF Within, InAuth, At, Following, Room, Channels, Rooms
  <1>5. CountsAreSockets'
    <2>1. \E r \in Channels : hub' = Reopened(r)
      BY RoomsApart
    <2> QED BY <1>0, <1>2, <1>4, <2>1, Steady DEF Inv
  <1>6. hub' \in [Channels -> [open : BOOLEAN, count : Nat]]
    BY RoomsApart DEF Reopened, Inv, TypeOK
  <1> QED BY <1>2, <1>3, <1>5, <1>6

LEMMA GreetKeeps == ASSUME Inv, NEW v \in Viewers, Greet(v) PROVE Inv'
  <1>0. TypeOK /\ v \in Sockets
    BY RoomsApart DEF Inv
  <1>1. /\ At(v, "greet") /\ hub' = Reopened("stream")
        /\ socket' = [Delivered(0) EXCEPT ![v] = [@ EXCEPT !.at = "loop", !.held = {}]]
        /\ seen' = [seen EXCEPT ![v] = @ \cup socket[v].held]
        /\ UNCHANGED <<total, strays, presence, chat, signed>>
    BY DEF Greet
  <1>2. /\ socket' \in [Sockets -> SocketStates]
        /\ hub' \in [Channels -> [open : BOOLEAN, count : Nat]]
        /\ Shape' /\ CountsAreSockets'
    <2>1. "loop" \in Places /\ {} \in SUBSET Messages
      BY DEF Places
    <2> QED BY <1>1, <2>1, Announces
  <1>3. seen' \in [Viewers -> SUBSET Messages]
    <2>1. socket[v].held \in SUBSET Messages /\ seen \in [Viewers -> SUBSET Messages]
      BY <1>0 DEF TypeOK, SocketStates
    <2> QED BY <1>1, <2>1
  <1>4. TypeOK'
    BY <1>0, <1>1, <1>2, <1>3 DEF TypeOK, presence, chat
  <1> QED BY <1>2, <1>4 DEF Inv

LEMMA FarewellKeeps == ASSUME Inv, NEW v \in Viewers, Farewell(v) PROVE Inv'
  <1>0. TypeOK /\ v \in Sockets /\ 0 \in 0..Last
    BY RoomsApart, RoomAssumption DEF Inv
  <1>1. /\ At(v, "farewell") /\ hub' = Reopened("stream")
        /\ socket' = [Delivered(0) EXCEPT ![v].at = "out"]
        /\ UNCHANGED <<total, strays, presence, chat, signed, seen>>
    BY DEF Farewell
  <1>2. PICK held \in SUBSET Messages :
          socket' = [Delivered(0) EXCEPT ![v] = [@ EXCEPT !.at = "out", !.held = held]]
    <2>1. PICK f \in [Sockets -> SocketStates] : f = Delivered(0)
      BY <1>0, Fanned
    <2>2. f[v].held \in SUBSET Messages /\ f[v] \in SocketStates
      BY <1>0 DEF SocketStates
    <2>3. [f[v] EXCEPT !.at = "out"] = [f[v] EXCEPT !.at = "out", !.held = f[v].held]
      BY <2>2 DEF SocketStates
    <2>4. socket' = [f EXCEPT ![v] = [f[v] EXCEPT !.at = "out"]]
      BY <1>1, <2>1
    <2>5. socket' = [f EXCEPT ![v] = [f[v] EXCEPT !.at = "out", !.held = f[v].held]]
      BY <2>3, <2>4
    <2>6. socket' = [Delivered(0) EXCEPT ![v] = [@ EXCEPT !.at = "out", !.held = f[v].held]]
      BY <2>1, <2>5
    <2> QED BY <2>2, <2>6
  <1>3. /\ socket' \in [Sockets -> SocketStates]
        /\ hub' \in [Channels -> [open : BOOLEAN, count : Nat]]
        /\ Shape' /\ CountsAreSockets'
    <2>1. "out" \in Places
      BY DEF Places
    <2> QED BY <1>1, <1>2, <2>1, Announces
  <1>4. TypeOK'
    BY <1>0, <1>1, <1>3 DEF TypeOK, presence, chat
  <1> QED BY <1>3, <1>4 DEF Inv

LEMMA TickKeeps == ASSUME Inv, NEW s \in Sockets, Tick(s) PROVE Inv'
  <1>1. /\ At(s, "loop") /\ UNCHANGED <<counts, probe, chat, signed, seen>>
        /\ \/ Touch(s) /\ UNCHANGED socket
           \/ Exits(s, "disconnect") /\ UNCHANGED <<row, mistaken>>
    BY DEF Tick
  <1>2. CASE Touch(s) /\ UNCHANGED socket
    <2>1. row \in [Rooms -> [lease : Sockets \cup {"none"}, silent : BOOLEAN, gone : BOOLEAN]]
          /\ mistaken \in BOOLEAN
      BY DEF Inv, TypeOK
    <2>2. row' \in [Rooms -> [lease : Sockets \cup {"none"}, silent : BOOLEAN, gone : BOOLEAN]]
      <3>1. PICK new \in [Rooms -> [lease : Sockets \cup {"none"}, silent : BOOLEAN,
                                    gone : BOOLEAN]] :
              new = [row EXCEPT ![Room(s)] = [lease |-> s, silent |-> FALSE, gone |-> FALSE]]
        BY <2>1
      <3>2. row' = row \/ row' = new
        BY <1>2, <3>1, Zenon DEF Touch
      <3> QED BY <2>1, <3>1, <3>2
    <2>3. mistaken' \in BOOLEAN
      <3>1. mistaken' = FALSE \/ mistaken' = mistaken
        BY <1>2, Zenon DEF Touch
      <3> QED BY <2>1, <3>1
    <2>4. TypeOK'
      BY <1>1, <1>2, <2>2, <2>3 DEF Inv, TypeOK, counts, chat
    <2>5. Shape' /\ CountsAreSockets'
      <3>1. UNCHANGED <<hub, total, strays, socket>>
        BY <1>1, <1>2 DEF counts
      <3>2. Shape'
        BY <3>1 DEF Inv, Shape
      <3>3. \A u \in Sockets : socket'[u].at = socket[u].at
        BY <3>1
      <3> QED BY <3>1, <3>2, <3>3, Untouched DEF Inv
    <2> QED BY <2>4, <2>5 DEF Inv
  <1>3. CASE Exits(s, "disconnect") /\ UNCHANGED <<row, mistaken>>
    <2>1. "disconnect" \in Places /\ UNCHANGED counts
      BY <1>1 DEF Places
    <2>2. socket' \in [Sockets -> SocketStates] /\ Shape' /\ CountsAreSockets'
      BY <1>1, <1>3, <2>1, GoesOn, RoomsApart
    <2> QED BY <1>1, <1>3, <2>2, SocketOnly DEF Inv, presence
  <1> QED BY <1>1, <1>2, <1>3

LEMMA HangUpKeeps == ASSUME Inv, NEW s \in Sockets, HangUp(s) PROVE Inv'
  <1>1. /\ At(s, "loop") /\ Exits(s, "disconnect") /\ "disconnect" \in Places
        /\ UNCHANGED counts /\ UNCHANGED <<counts, presence, chat, signed, seen>>
    BY DEF HangUp, Places
  <1>2. socket' \in [Sockets -> SocketStates] /\ Shape' /\ CountsAreSockets'
    BY <1>1, GoesOn, RoomsApart
  <1> QED BY <1>1, <1>2, SocketOnly DEF Inv

LEMMA ReceiveKeeps == ASSUME Inv, NEW v \in Viewers, Receive(v) PROVE Inv'
  <1>0. v \in Sockets /\ TypeOK /\ socket \in [Sockets -> SocketStates]
    BY RoomsApart DEF Inv, TypeOK
  <1>1. /\ At(v, "loop") /\ socket[v].inbox # <<>>
        /\ UNCHANGED <<counts, presence, chat, signed>> /\ UNCHANGED counts
    BY DEF Receive
  <1>2. CASE Exits(v, "disconnect") /\ UNCHANGED seen
    <2>1. "disconnect" \in Places
      BY DEF Places
    <2>2. socket' \in [Sockets -> SocketStates] /\ Shape' /\ CountsAreSockets'
      BY <1>0, <1>1, <1>2, <2>1, GoesOn
    <2> QED BY <1>0, <1>1, <1>2, <2>2, SocketOnly DEF Inv
  <1>3. CASE /\ socket' = [socket EXCEPT ![v].inbox = Tail(@)]
             /\ seen' = [seen EXCEPT ![v] = @ \cup ({Head(socket[v].inbox)} \ {0})]
    <2>1. /\ Head(socket[v].inbox) \in 0..Last /\ Tail(socket[v].inbox) \in Inboxes
      <3>1. socket[v].inbox \in Inboxes
        BY <1>0 DEF SocketStates
      <3> QED BY <1>1, <3>1, FirstAndRest
    <2>2. /\ socket' \in [Sockets -> SocketStates]
          /\ \A u \in Sockets : socket'[u].at = socket[u].at
      <3>1. PICK rest \in Inboxes : rest = Tail(socket[v].inbox)
        BY <2>1
      <3>2. socket' = [socket EXCEPT ![v].inbox = rest]
        BY <1>3, <3>1
      <3> QED BY <1>0, <3>2 DEF SocketStates
    <2>3. seen' \in [Viewers -> SUBSET Messages]
      <3>1. PICK first \in 0..Last : first = Head(socket[v].inbox)
        BY <2>1
      <3>2. {first} \ {0} \subseteq Messages
        BY RoomAssumption DEF Messages
      <3>3. seen \in [Viewers -> SUBSET Messages]
        BY <1>0 DEF TypeOK
      <3>4. seen' = [seen EXCEPT ![v] = @ \cup ({first} \ {0})]
        BY <1>3, <3>1
      <3> QED BY <3>2, <3>3, <3>4
    <2>4. TypeOK'
      BY <1>0, <1>1, <2>2, <2>3 DEF TypeOK, counts, presence, chat
    <2>5. Shape'
      BY <2>2 DEF Inv, Shape
    <2>6. CountsAreSockets'
      BY <1>1, <2>2, Untouched DEF Inv, counts
    <2> QED BY <2>4, <2>5, <2>6 DEF Inv
  <1> QED BY <1>2, <1>3 DEF Receive

LEMMA PublishKeeps == ASSUME Inv, Sent, NEW t \in Senders, Publish(t) PROVE Inv'
  <1>0. TypeOK /\ sender[t].seq \in 0..Last
    BY DEF Inv, TypeOK
  <1> DEFINE m == sender[t].seq
  <1>1. /\ sender[t].at = "publish" /\ hub' = Reopened("stream")
        /\ socket' = Delivered(m)
        /\ sender' = [sender EXCEPT ![t] = [at |-> "none", seq |-> 0]]
        /\ missed' = [v \in Viewers |->
                        IF At(v, "join") /\ m \notin socket[v].held
                        THEN missed[v] \cup {m} ELSE missed[v]]
        /\ UNCHANGED <<total, strays, presence, cursor, table, signed, seen>>
    BY DEF Publish
  <1>2. /\ socket' \in [Sockets -> SocketStates]
        /\ \A u \in Sockets : socket'[u].at = socket[u].at
    BY <1>0, <1>1, Fanned
  <1>3. hub' \in [Channels -> [open : BOOLEAN, count : Nat]]
    BY <1>1, RoomsApart DEF Reopened, Inv, TypeOK
  <1>4. sender' \in [Senders -> [at : {"none", "insert", "publish"}, seq : 0..Last]]
    BY <1>0, <1>1, RoomAssumption DEF TypeOK
  <1>5. missed' \in [Viewers -> SUBSET Messages]
    <2>1. m \in Messages
      BY <1>1 DEF Sent
    <2> QED BY <1>0, <1>1, <2>1 DEF TypeOK
  <1>6. TypeOK'
    BY <1>0, <1>1, <1>2, <1>3, <1>4, <1>5 DEF TypeOK, presence
  <1>7. Shape'
    BY <1>2 DEF Inv, Shape
  <1>8. CountsAreSockets'
    <2>1. \E r \in Channels : hub' = Reopened(r)
      BY <1>1, RoomsApart
    <2> QED BY <1>1, <1>2, <2>1, Untouched DEF Inv
  <1> QED BY <1>6, <1>7, <1>8 DEF Inv

\* Steps that open, enter and leave nothing.
LEMMA OthersKeep ==
  ASSUME Inv, UNCHANGED <<hub, total, strays, seen, missed>>,
         socket' \in [Sockets -> SocketStates],
         \A u \in Sockets : socket'[u].at = socket[u].at,
         row' \in [Rooms -> [lease : Sockets \cup {"none"}, silent : BOOLEAN, gone : BOOLEAN]],
         probe' \in BOOLEAN, mistaken' \in BOOLEAN,
         cursor' \in 0..Last, table' \subseteq Messages,
         sender' \in [Senders -> [at : {"none", "insert", "publish"}, seq : 0..Last]],
         signed' \in {"in", "revoked", "told"}
  PROVE  Inv'
  <1>1. TypeOK'
    BY DEF Inv, TypeOK
  <1>2. Shape'
    BY DEF Inv, Shape
  <1>3. CountsAreSockets'
    BY Untouched DEF Inv
  <1> QED BY <1>1, <1>2, <1>3 DEF Inv

LEMMA ChatKeeps == ASSUME Inv, Sent, NEW t \in Senders, Speak(t) \/ Insert(t) PROVE Inv'
  <1>0. /\ TypeOK /\ cursor \in 0..Last /\ Last \in Nat /\ table \subseteq Messages
        /\ sender \in [Senders -> [at : {"none", "insert", "publish"}, seq : 0..Last]]
    BY RoomAssumption DEF Inv, TypeOK
  <1>1. CASE Speak(t)
    <2>1. cursor' \in 0..Last
      BY <1>0, <1>1 DEF Speak
    <2>2. sender' \in [Senders -> [at : {"none", "insert", "publish"}, seq : 0..Last]]
      BY <1>0, <1>1 DEF Speak
    <2> QED BY <1>0, <1>1, <2>1, <2>2, OthersKeep DEF Speak, TypeOK, counts, presence
  <1>2. CASE Insert(t)
    <2>1. table' \subseteq Messages
      BY <1>0, <1>2 DEF Insert, Sent
    <2>2. sender' \in [Senders -> [at : {"none", "insert", "publish"}, seq : 0..Last]]
      BY <1>0, <1>2 DEF Insert
    <2> QED BY <1>0, <1>2, <2>1, <2>2, OthersKeep DEF Insert, TypeOK, counts, presence
  <1> QED BY <1>1, <1>2

LEMMA SignInKeeps == ASSUME Inv, Revoke PROVE Inv'
  BY OthersKeep DEF Revoke, Inv, TypeOK, counts, presence, chat

LEMMA TellKeeps == ASSUME Inv, Tell PROVE Inv'
  <1>0. TypeOK /\ socket \in [Sockets -> SocketStates]
    BY DEF Inv, TypeOK
  <1>1. /\ signed' = "told" /\ hub' = Reopened("auth")
        /\ socket' = [s \in Sockets |-> IF InAuth(s) THEN [socket[s] EXCEPT !.told = TRUE]
                                        ELSE socket[s]]
        /\ UNCHANGED <<total, strays, presence, chat, seen>>
    BY DEF Tell
  <1>2. ASSUME NEW s \in Sockets
        PROVE  /\ [socket[s] EXCEPT !.told = TRUE] \in SocketStates
               /\ [socket[s] EXCEPT !.told = TRUE].at = socket[s].at
    BY <1>0 DEF SocketStates
  <1>3. /\ socket' \in [Sockets -> SocketStates]
        /\ \A u \in Sockets : socket'[u].at = socket[u].at
    BY <1>0, <1>1, <1>2
  <1>4. hub' \in [Channels -> [open : BOOLEAN, count : Nat]]
    BY <1>1, RoomsApart DEF Reopened, Inv, TypeOK
  <1>5. TypeOK'
    BY <1>0, <1>1, <1>3, <1>4 DEF TypeOK, presence, chat
  <1>6. Shape'
    BY <1>3 DEF Inv, Shape
  <1>7. CountsAreSockets'
    <2>1. \E r \in Channels : hub' = Reopened(r)
      BY <1>1, RoomsApart
    <2> QED BY <1>1, <1>3, <2>1, Untouched DEF Inv
  <1> QED BY <1>5, <1>6, <1>7 DEF Inv

LEMMA TimeKeeps ==
  ASSUME Inv, (\E r \in Rooms : Silence(r) \/ Pass(r)) \/ ProbeRead \/ ProbeWrite
  PROVE  Inv'
  <1>0. /\ TypeOK /\ probe \in BOOLEAN /\ mistaken \in BOOLEAN
        /\ row \in [Rooms -> [lease : Sockets \cup {"none"}, silent : BOOLEAN, gone : BOOLEAN]]
    BY DEF Inv, TypeOK
  <1>1. ASSUME NEW r \in Rooms, Silence(r)
        PROVE  Inv'
    <2>1. row' \in [Rooms -> [lease : Sockets \cup {"none"}, silent : BOOLEAN, gone : BOOLEAN]]
      BY <1>0, <1>1 DEF Silence
    <2> QED BY <1>0, <1>1, <2>1, OthersKeep DEF Silence, TypeOK, counts, chat
  <1>2. ASSUME NEW r \in Rooms, Pass(r)
        PROVE  Inv'
    <2>1. row' \in [Rooms -> [lease : Sockets \cup {"none"}, silent : BOOLEAN, gone : BOOLEAN]]
      BY <1>0, <1>2 DEF Pass
    <2> QED BY <1>0, <1>2, <2>1, OthersKeep DEF Pass, TypeOK, counts, chat
  <1>3. CASE ProbeRead
    BY <1>0, <1>3, OthersKeep DEF ProbeRead, TypeOK, counts, chat
  <1>4. CASE ProbeWrite
    <2>1. row' \in [Rooms -> [lease : Sockets \cup {"none"}, silent : BOOLEAN, gone : BOOLEAN]]
      BY <1>0, <1>4, RoomsApart DEF ProbeWrite
    <2>2. mistaken' \in BOOLEAN
      BY <1>0, <1>4 DEF ProbeWrite
    <2> QED BY <1>0, <1>4, <2>1, <2>2, OthersKeep DEF ProbeWrite, TypeOK, counts, chat
  <1> QED BY <1>1, <1>2, <1>3, <1>4

\* Nobody is there: at the start, and after a restart.
LEMMA EmptyRoom ==
  ASSUME hub = [c \in Channels |-> [open |-> FALSE, count |-> 0]], total = 0,
         socket = [s \in Sockets |-> Out], strays = [c \in Channels |-> 0]
  PROVE  /\ hub \in [Channels -> [open : BOOLEAN, count : Nat]] /\ total \in Nat
         /\ socket \in [Sockets -> SocketStates] /\ strays \in [Channels -> Nat]
         /\ Shape /\ CountsAreSockets
  <1>1. Out \in SocketStates /\ Out.at = "out"
    <2>1. [Out EXCEPT !.at = "out"] = Out
      BY DEF Out
    <2>2. [Out EXCEPT !.at = "out"] \in SocketStates
      BY OutIs DEF Places
    <2> QED BY <2>1, <2>2 DEF Out
  <1>2. Shape
    BY <1>1 DEF Shape
  <1>3. ASSUME NEW c \in Channels PROVE Fits(c)
    <2>1. Inside(c) = {}
      BY <1>1 DEF Inside, Within, InAuth, At, Following
    <2> QED BY <2>1, FS_EmptySet DEF Fits
  <1>4. total = hub["stream"].count + hub["studio"].count + hub["auth"].count
    BY RoomsApart
  <1>5. \A c \in Channels : Fits(c)
    BY <1>3
  <1> QED BY <1>1, <1>2, <1>4, <1>5, CountsAre

LEMMA EmptyRoomNext ==
  (/\ hub = [c \in Channels |-> [open |-> FALSE, count |-> 0]] /\ total = 0
   /\ socket = [s \in Sockets |-> Out] /\ strays = [c \in Channels |-> 0])'
    => (/\ hub \in [Channels -> [open : BOOLEAN, count : Nat]] /\ total \in Nat
   /\ socket \in [Sockets -> SocketStates] /\ strays \in [Channels -> Nat]
   /\ Shape /\ CountsAreSockets)'
<1>1. (/\ hub = [c \in Channels |-> [open |-> FALSE, count |-> 0]] /\ total = 0
       /\ socket = [s \in Sockets |-> Out] /\ strays = [c \in Channels |-> 0])
        => (/\ hub \in [Channels -> [open : BOOLEAN, count : Nat]] /\ total \in Nat
       /\ socket \in [Sockets -> SocketStates] /\ strays \in [Channels -> Nat]
       /\ Shape /\ CountsAreSockets)
  BY EmptyRoom
<1> QED BY <1>1, PTL

LEMMA RestartKeeps == ASSUME Inv, Restart PROVE Inv'
  <1>1. /\ hub' \in [Channels -> [open : BOOLEAN, count : Nat]] /\ total' \in Nat
        /\ socket' \in [Sockets -> SocketStates] /\ strays' \in [Channels -> Nat]
        /\ Shape' /\ CountsAreSockets'
    <2>1. /\ hub' = [c \in Channels |-> [open |-> FALSE, count |-> 0]] /\ total' = 0
          /\ socket' = [s \in Sockets |-> Out] /\ strays' = [c \in Channels |-> 0]
      BY DEF Restart
    <2> QED BY <2>1, EmptyRoomNext
  <1>2. sender' \in [Senders -> [at : {"none", "insert", "publish"}, seq : 0..Last]]
    <2>1. 0 \in 0..Last
      BY RoomAssumption
    <2>2. sender' = [t \in Senders |-> [at |-> "none", seq |-> 0]]
      BY DEF Restart
    <2> QED BY <2>1, <2>2
  <1>3. signed' \in {"in", "revoked", "told"}
    BY DEF Restart
  <1>4. TypeOK'
    BY <1>1, <1>2, <1>3 DEF Restart, Inv, TypeOK
  <1> QED BY <1>1, <1>4 DEF Inv

LEMMA SentStays == ASSUME Inv, Sent, Next PROVE Sent'
  <1>0. /\ cursor \in 0..Last /\ Last \in Nat
        /\ sender \in [Senders -> [at : {"none", "insert", "publish"}, seq : 0..Last]]
    BY RoomAssumption DEF Inv, TypeOK
  <1>1. ASSUME NEW t \in Senders, Speak(t) PROVE Sent'
    <2>1. cursor + 1 \in Messages
      BY <1>0, <1>1 DEF Speak, Messages
    <2> QED BY <1>0, <1>1, <2>1 DEF Speak, Sent
  <1>2. ASSUME NEW t \in Senders, Insert(t) \/ Publish(t) PROVE Sent'
    BY <1>0, <1>2 DEF Insert, Publish, Sent
  <1>3. CASE Restart
    BY <1>3 DEF Restart, Sent
  <1>4. CASE UNCHANGED sender
    BY <1>4 DEF Sent
  <1> QED BY <1>1, <1>2, <1>3, <1>4
      DEF Next, Connect, Step, Tick, HangUp, Told, Follow, Receive, Read, Greet, Farewell,
          Register, JoinRoom, JoinAuth, Prepare, Close, LeaveRoom, LeaveAuth, Abandon,
          Revoke, Tell, Silence, Pass, ProbeRead, ProbeWrite, chat

LEMMA InvHolds == Spec => [](Inv /\ Sent)
  <1>1. Init => Inv /\ Sent
    <2> SUFFICES ASSUME Init PROVE Inv /\ Sent
      OBVIOUS
    <2>1. /\ hub \in [Channels -> [open : BOOLEAN, count : Nat]] /\ total \in Nat
          /\ socket \in [Sockets -> SocketStates] /\ strays \in [Channels -> Nat]
          /\ Shape /\ CountsAreSockets
      BY EmptyRoom DEF Init
    <2>2. TypeOK
      <3>1. row \in [Rooms -> [lease : Sockets \cup {"none"}, silent : BOOLEAN, gone : BOOLEAN]]
        BY DEF Init
      <3>2. sender \in [Senders -> [at : {"none", "insert", "publish"}, seq : 0..Last]]
            /\ cursor \in 0..Last /\ table \subseteq Messages
        BY RoomAssumption DEF Init
      <3>3. /\ seen \in [Viewers -> SUBSET Messages] /\ missed \in [Viewers -> SUBSET Messages]
            /\ probe \in BOOLEAN /\ mistaken \in BOOLEAN /\ signed \in {"in", "revoked", "told"}
        BY DEF Init
      <3> QED BY <2>1, <3>1, <3>2, <3>3 DEF TypeOK
    <2>3. Sent
      BY DEF Init, Sent
    <2> QED BY <2>1, <2>2, <2>3 DEF Inv
  <1>2. Inv /\ Sent /\ [Next]_vars => Inv' /\ Sent'
    <2>1. ASSUME Inv, Sent, Next PROVE Inv'
      <3>1. ASSUME NEW s \in Sockets, Connect(s) \/ Step(s) \/ Tick(s) \/ HangUp(s) \/ Told(s)
            PROVE  Inv'
        BY <2>1, <3>1, ConnectKeeps, RegisterKeeps, JoinRoomKeeps, JoinAuthKeeps, PrepareKeeps,
           CloseKeeps, LeaveRoomKeeps, LeaveAuthKeeps, AbandonKeeps, TickKeeps, HangUpKeeps
           DEF Step, Told
      <3>2. ASSUME NEW v \in Viewers, Follow(v) \/ Receive(v)
            PROVE  Inv'
        BY <2>1, <3>2, ReadKeeps, GreetKeeps, FarewellKeeps, ReceiveKeeps DEF Follow
      <3>3. ASSUME NEW t \in Senders, Speak(t) \/ Insert(t) \/ Publish(t)
            PROVE  Inv'
        BY <2>1, <3>3, ChatKeeps, PublishKeeps
      <3> QED BY <2>1, <3>1, <3>2, <3>3, SignInKeeps, TellKeeps, TimeKeeps, RestartKeeps DEF Next
    <2>2. ASSUME Inv, Sent, Next PROVE Sent'
      BY <2>2, SentStays
    <2>3. ASSUME Inv, Sent, UNCHANGED vars PROVE Inv' /\ Sent'
      <3>1. TypeOK'
        BY <2>3 DEF Inv, TypeOK, vars, counts, presence, chat
      <3>2. Shape' /\ Sent'
        BY <2>3 DEF Inv, Shape, Sent, vars, chat
      <3>3. CountsAreSockets'
        BY <2>3, Untouched DEF Inv, vars, counts
      <3> QED BY <3>1, <3>2, <3>3 DEF Inv
    <2> QED BY <2>1, <2>2, <2>3
  <1> QED BY <1>1, <1>2, PTL DEF Spec

\* Sockets, hub, rows and messages keep to their types (state.rs, the sockets).
THEOREM TypeCorrect == Spec => []TypeOK
BY InvHolds, PTL DEF Inv

\* Whatever the order of joins, departures, publications, early exits and
\* restarts: a channel counts the sockets in it and those that were abandoned, and
\* the total is the sum of the channels (state.rs, creator_live.rs).
THEOREM CountsHold == Spec => []CountsAreSockets
BY InvHolds, PTL DEF Inv

-----------------------------------------------------------------------------
(* The presence rows.                                                      *)

\* The holder of a room's row is one of the room's own sockets.
Belongs == /\ row["stream"].lease \in Viewers \cup {"none"}
           /\ row["studio"].lease \in Studios \cup {"none"}
\* A socket that has registered and does not go.
Here(s) == /\ socket[s].at \in {"read", "join", "auth", "greet", "loop"}
           /\ ~(s \in Studios /\ socket[s].at \in {"join", "auth"})
\* What a row that says "gone" beside such a holder may be excused by.
Excused(r) == row[r].silent \/ (r = "studio" /\ mistaken)
Present == \A r \in Rooms :
             row[r].lease \in Sockets /\ Here(row[r].lease) /\ row[r].gone => Excused(r)

LEMMA PresentIs == Present <=> PresentIsSeen
BY Zenon DEF Present, PresentIsSeen, Here, Excused

\* Rows that are left alone stay right while nobody comes to be there.
LEMMA RowsAlone ==
  ASSUME Present, Belongs, row' = row, mistaken' = mistaken,
         \A u \in Sockets : Here(u)' => Here(u)
  PROVE  Present' /\ Belongs'
  <1>1. Belongs'
    BY DEF Belongs
  <1>2. ASSUME NEW r \in Rooms, (row[r].lease \in Sockets /\ Here(row[r].lease) /\ row[r].gone)'
        PROVE  Excused(r)'
    <2>1. PICK holder : holder = row[r].lease
      OBVIOUS
    <2>2. holder \in Sockets /\ Here(holder)' /\ row[r].gone
      BY <1>2, <2>1 DEF Here
    <2>3. Excused(r)
      BY <2>1, <2>2 DEF Present
    <2> QED BY <2>3 DEF Excused
  <1> QED BY <1>1, <1>2 DEF Present

\* A row that a socket of its room has written is right; the other stays so.
LEMMA OwnRow ==
  ASSUME TypeOK, Present, Belongs, NEW s \in Sockets, NEW gone \in BOOLEAN,
         row' = [row EXCEPT ![Room(s)] = [lease |-> s, silent |-> FALSE, gone |-> gone]],
         gone => ~Here(s)',
         \A u \in Sockets \ {s} : Here(u)' => Here(u),
         mistaken' = mistaken \/ s \in Studios
  PROVE  Present' /\ Belongs'
  <1>0. row \in [Rooms -> [lease : Sockets \cup {"none"}, silent : BOOLEAN, gone : BOOLEAN]]
    BY DEF TypeOK
  <1>1. Belongs'
    BY <1>0, RoomsApart DEF Belongs, Room, Rooms
  <1>2. ASSUME NEW r \in Rooms, (row[r].lease \in Sockets /\ Here(row[r].lease) /\ row[r].gone)'
        PROVE  Excused(r)'
    <2>1. CASE r = Room(s)
      <3>1. row'[r] = [lease |-> s, silent |-> FALSE, gone |-> gone]
        BY <1>0, <2>1
      <3>2. Here(s)' /\ gone
        BY <1>2, <3>1 DEF Here
      <3> QED BY <3>2
    <2>2. CASE r # Room(s)
      <3>1. row'[r] = row[r]
        BY <1>0, <2>2, RoomsApart
      <3>2. PICK holder : holder = row[r].lease
        OBVIOUS
      <3>3. holder \in Sockets /\ Here(holder)' /\ row[r].gone
        BY <1>2, <3>1, <3>2 DEF Here
      <3>4. holder # s
        BY <2>2, <3>2, <3>3, RoomsApart DEF Belongs, Room, Rooms
      <3>5. Here(holder)
        BY <3>3, <3>4
      <3>6. Excused(r)
        BY <3>2, <3>3, <3>5 DEF Present
      <3>7. r = "studio" => s \notin Studios
        BY <2>2, RoomsApart DEF Room
      <3> QED BY <3>1, <3>6, <3>7 DEF Excused
    <2> QED BY <2>1, <2>2
  <1> QED BY <1>1, <1>2 DEF Present

\* Only the holder of the lease writes its row, and what it writes when it goes it
\* writes from a place it does not come back from; the others are the pass, which
\* takes silent rows, and the admin, who is on record.
LEMMA PresentStays ==
  ASSUME Inv, Sent, Present, Belongs, Next
  PROVE  Present' /\ Belongs'
  <1>0. /\ TypeOK /\ Viewers \subseteq Sockets /\ Studios \subseteq Sockets
        /\ \A s \in Sockets : s \in Viewers <=> s \notin Studios
        /\ row \in [Rooms -> [lease : Sockets \cup {"none"}, silent : BOOLEAN, gone : BOOLEAN]]
    BY RoomsApart DEF Inv, TypeOK
  <1>1. ASSUME NEW s \in Sockets, NEW place \in Places, Goes(s, place) \/ Exits(s, place),
               UNCHANGED <<row, mistaken>>,
               \/ place \in {"out", "register", "disconnect", "leave", "abandon", "give up",
                             "unauth", "farewell"}
               \/ s \in Studios /\ place \in {"join", "auth"}
               \/ Here(s)
        PROVE  Present' /\ Belongs'
    <2>1. socket'[s].at = place /\ \A u \in Sockets \ {s} : socket'[u] = socket[u]
      BY <1>0, <1>1, GoingIs
    <2>2. \A u \in Sockets : Here(u)' => Here(u)
      BY <1>1, <2>1 DEF Here
    <2> QED BY <1>1, <2>2, RowsAlone
  <1>2. ASSUME NEW s \in Sockets, Connect(s) PROVE Present' /\ Belongs'
    <2>1. PICK place \in {"register", "join"} :
            Goes(s, place) /\ (place = "join" => s \in Studios)
      BY <1>0, <1>2 DEF Connect
    <2> QED BY <1>1, <1>2, <2>1 DEF Connect, Places, presence
  <1>3. ASSUME NEW s \in Sockets, Register(s) PROVE Present' /\ Belongs'
    <2>1. CASE /\ row' = [row EXCEPT ![Room(s)] = [lease |-> s, silent |-> FALSE, gone |-> FALSE]]
               /\ mistaken' = IF s \in Studios THEN FALSE ELSE mistaken
               /\ Goes(s, IF s \in Viewers THEN "read" ELSE "greet")
      <3>1. \A u \in Sockets \ {s} : socket'[u] = socket[u]
        BY <1>0, <2>1, GoingIs DEF Places
      <3>2. mistaken' = mistaken \/ s \in Studios
        BY <2>1
      <3>3. \A u \in Sockets \ {s} : Here(u)' => Here(u)
        BY <3>1 DEF Here
      <3> QED BY <1>0, <2>1, <3>2, <3>3, OwnRow
    <2>2. CASE /\ IF s \in Viewers THEN Exits(s, "out") ELSE Exits(s, "abandon")
               /\ UNCHANGED <<row, mistaken>>
      BY <1>1, <2>2 DEF Places
    <2> QED BY <1>3, <2>1, <2>2 DEF Register
  <1>4. ASSUME NEW s \in Sockets, JoinRoom(s) PROVE Present' /\ Belongs'
    BY <1>0, <1>1, <1>4 DEF JoinRoom, Places, presence, Here, At
  <1>5. ASSUME NEW s \in Sockets, JoinAuth(s) PROVE Present' /\ Belongs'
    <2>1. PICK place \in {"greet", "register"} :
            Goes(s, place) /\ (place = "greet" => s \in Viewers)
      BY <1>5 DEF JoinAuth
    <2> QED BY <1>0, <1>1, <1>5, <2>1 DEF JoinAuth, Places, presence, Here, At
  <1>6. ASSUME NEW s \in Sockets, Prepare(s) PROVE Present' /\ Belongs'
    <2>1. Here(s) /\ UNCHANGED <<row, mistaken>> /\ (Goes(s, "loop") \/ Goes(s, "give up"))
      BY <1>6 DEF Prepare, Here, At, presence
    <2> QED BY <1>1, <2>1 DEF Places
  <1>7. ASSUME NEW s \in Sockets, Tick(s) PROVE Present' /\ Belongs'
    <2>1. CASE Touch(s) /\ UNCHANGED socket
      <3>1. \A u \in Sockets : Here(u)' => Here(u)
        BY <2>1 DEF Here
      <3>2. CASE row[Room(s)].lease = s
        <4>1. /\ row' = [row EXCEPT ![Room(s)] = [lease |-> s, silent |-> FALSE, gone |-> FALSE]]
              /\ mistaken' = IF s \in Studios THEN FALSE ELSE mistaken
          BY <2>1, <3>2 DEF Touch
        <4>2. mistaken' = mistaken \/ s \in Studios
          BY <4>1
        <4> QED BY <1>0, <3>1, <4>1, <4>2, OwnRow
      <3>3. CASE row[Room(s)].lease # s
        BY <2>1, <3>1, <3>3, RowsAlone DEF Touch
      <3> QED BY <3>2, <3>3
    <2>2. CASE Exits(s, "disconnect") /\ UNCHANGED <<row, mistaken>>
      BY <1>1, <2>2 DEF Places
    <2> QED BY <1>7, <2>1, <2>2 DEF Tick
  <1>8. ASSUME NEW s \in Sockets, HangUp(s) PROVE Present' /\ Belongs'
    BY <1>1, <1>8 DEF HangUp, Places, presence
  <1>9. ASSUME NEW s \in Sockets, Close(s) PROVE Present' /\ Belongs'
    <2>1. PICK place \in {"leave", "abandon"} : Exits(s, place)
      BY <1>9 DEF Close
    <2>2. socket'[s].at = place /\ \A u \in Sockets \ {s} : socket'[u] = socket[u]
      BY <1>0, <2>1, GoingIs DEF Places
    <2>3. ~Here(s)' /\ \A u \in Sockets \ {s} : Here(u)' => Here(u)
      BY <2>2 DEF Here
    <2>4. CASE Disconnect(s) /\ row[Room(s)].lease = s
      <3>1. /\ row' = [row EXCEPT ![Room(s)] = [lease |-> s, silent |-> FALSE, gone |-> TRUE]]
            /\ mistaken' = mistaken
        BY <2>4 DEF Disconnect
      <3> QED BY <1>0, <2>3, <3>1, OwnRow
    <2>5. CASE UNCHANGED <<row, mistaken>>
      BY <2>3, <2>5, RowsAlone
    <2> QED BY <1>9, <2>4, <2>5 DEF Close, Disconnect
  <1>10. ASSUME NEW s \in Sockets, LeaveRoom(s) \/ LeaveAuth(s) \/ Abandon(s)
         PROVE  Present' /\ Belongs'
    <2>1. PICK place \in {"unauth", "farewell", "out"} : Goes(s, place)
      BY <1>10 DEF LeaveRoom, LeaveAuth, Abandon
    <2>2. UNCHANGED <<row, mistaken>>
      BY <1>10 DEF LeaveRoom, LeaveAuth, Abandon, presence
    <2> QED BY <1>1, <2>1, <2>2 DEF Places
  <1>11. ASSUME UNCHANGED <<row, mistaken>>, \A u \in Sockets : socket'[u].at = socket[u].at
         PROVE  Present' /\ Belongs'
    BY <1>11, RowsAlone DEF Here
  <1>12. ASSUME NEW v \in Viewers, Read(v) PROVE Present' /\ Belongs'
    <2>1. \A u \in Sockets \ {v} : socket'[u] = socket[u]
      BY <1>0, <1>12 DEF Read, TypeOK
    <2>2. Here(v)
      BY <1>0, <1>12 DEF Read, Here, At
    <2>3. \A u \in Sockets : Here(u)' => Here(u)
      BY <2>1, <2>2 DEF Here
    <2> QED BY <1>12, <2>3, RowsAlone DEF Read, presence
  <1>13. ASSUME NEW v \in Viewers, Greet(v) \/ Farewell(v) PROVE Present' /\ Belongs'
    <2>1. /\ Delivered(0) \in [Sockets -> SocketStates]
          /\ \A s \in Sockets : Delivered(0)[s].at = socket[s].at
      <3>1. 0 \in 0..Last
        BY RoomAssumption
      <3> QED BY <1>0, <3>1, Fanned
    <2>2. \A u \in Sockets \ {v} : socket'[u].at = socket[u].at
      BY <1>13, <2>1 DEF Greet, Farewell
    <2>3. Here(v)' => Here(v)
      <3>1. CASE Greet(v)
        BY <1>0, <3>1 DEF Greet, Here, At
      <3>2. CASE Farewell(v)
        <4>1. socket'[v].at = "out"
          BY <1>0, <2>1, <3>2 DEF Farewell, SocketStates
        <4> QED BY <4>1 DEF Here
      <3> QED BY <1>13, <3>1, <3>2
    <2>4. \A u \in Sockets : Here(u)' => Here(u)
      BY <2>2, <2>3 DEF Here
    <2>5. UNCHANGED <<row, mistaken>>
      BY <1>13 DEF Greet, Farewell, presence
    <2> QED BY <2>4, <2>5, RowsAlone
  <1>14. ASSUME NEW v \in Viewers, Receive(v) PROVE Present' /\ Belongs'
    <2>1. UNCHANGED <<row, mistaken>>
      BY <1>14 DEF Receive, presence
    <2>2. CASE Exits(v, "disconnect")
      BY <1>0, <1>1, <2>1, <2>2 DEF Places
    <2>3. CASE socket' = [socket EXCEPT ![v].inbox = Tail(@)]
      <3>1. \A u \in Sockets : socket'[u].at = socket[u].at
        BY <1>0, <2>3 DEF TypeOK, SocketStates
      <3> QED BY <1>11, <2>1, <3>1
    <2> QED BY <1>14, <2>2, <2>3 DEF Receive
  <1>15. ASSUME NEW t \in Senders, Speak(t) \/ Insert(t) \/ Publish(t)
         PROVE  Present' /\ Belongs'
    <2>1. UNCHANGED <<row, mistaken>>
      BY <1>15 DEF Speak, Insert, Publish, presence
    <2>2. CASE UNCHANGED socket
      BY <1>11, <2>1, <2>2
    <2>3. CASE Publish(t)
      <3>1. sender[t].seq \in 0..Last /\ socket' = Delivered(sender[t].seq)
        BY <1>0, <2>3 DEF TypeOK, Publish
      <3>2. \A u \in Sockets : socket'[u].at = socket[u].at
        BY <1>0, <3>1, Fanned
      <3> QED BY <1>11, <2>1, <3>2
    <2> QED BY <1>15, <2>2, <2>3 DEF Speak, Insert
  <1>16. CASE Revoke \/ Tell
    <2>1. UNCHANGED <<row, mistaken>>
      BY <1>16 DEF Revoke, Tell, presence
    <2>2. \A u \in Sockets : socket'[u].at = socket[u].at
      <3>1. CASE Revoke
        BY <3>1 DEF Revoke
      <3>2. CASE Tell
        BY <1>0, <3>2 DEF Tell, TypeOK, SocketStates
      <3> QED BY <1>16, <3>1, <3>2
    <2> QED BY <1>11, <2>1, <2>2
  <1>17. ASSUME UNCHANGED socket,
                \/ \E r \in Rooms : Silence(r) \/ Pass(r)
                \/ ProbeWrite
         PROVE  Present' /\ Belongs'
    <2>1. PICK r \in Rooms, silent \in BOOLEAN, gone \in BOOLEAN :
            /\ row' = [row EXCEPT ![r] = [@ EXCEPT !.silent = silent, !.gone = gone]]
            /\ gone => silent \/ (r = "studio" /\ mistaken') \/ (row[r].gone /\ silent = row[r].silent)
            /\ mistaken => mistaken'
      <3>0. \A r \in Rooms : row[r].silent \in BOOLEAN /\ row[r].gone \in BOOLEAN
        BY <1>0
      <3>1. CASE \E r \in Rooms : Silence(r)
        <4>1. PICK r \in Rooms : Silence(r)
          BY <3>1
        <4>2. row' = [row EXCEPT ![r] = [@ EXCEPT !.silent = TRUE, !.gone = row[r].gone]]
          BY <1>0, <4>1 DEF Silence
        <4> QED BY <3>0, <4>1, <4>2 DEF Silence
      <3>2. CASE \E r \in Rooms : Pass(r)
        <4>1. PICK r \in Rooms : Pass(r)
          BY <3>2
        <4>2. row' = [row EXCEPT ![r] = [@ EXCEPT !.silent = row[r].silent, !.gone = TRUE]]
          BY <1>0, <4>1 DEF Pass
        <4> QED BY <3>0, <4>1, <4>2 DEF Pass
      <3>3. CASE ProbeWrite
        <4>1. "studio" \in Rooms
          BY DEF Rooms
        <4>2. row' = [row EXCEPT !["studio"] =
                        [@ EXCEPT !.silent = row["studio"].silent, !.gone = TRUE]]
          BY <1>0, <3>3, <4>1 DEF ProbeWrite
        <4>3. /\ mistaken => mistaken'
              /\ row["studio"].silent \/ mistaken' \/ row["studio"].gone
          BY <3>3, Zenon DEF ProbeWrite
        <4> QED BY <3>0, <4>1, <4>2, <4>3
      <3> QED BY <1>17, <3>1, <3>2, <3>3
    <2>2. /\ \A q \in Rooms \ {r} : row'[q] = row[q]
          /\ row'[r].lease = row[r].lease /\ row'[r].silent = silent /\ row'[r].gone = gone
      BY <1>0, <2>1
    <2>3. Belongs'
      <3>1. \A q \in Rooms : row'[q].lease = row[q].lease
        BY <2>2
      <3> QED BY <3>1 DEF Belongs, Rooms
    <2>4. ASSUME NEW q \in Rooms,
                 (row[q].lease \in Sockets /\ Here(row[q].lease) /\ row[q].gone)'
          PROVE  Excused(q)'
      <3>1. PICK holder : holder = row[q].lease
        OBVIOUS
      <3>2. holder \in Sockets /\ Here(holder) /\ row'[q].gone
        BY <1>17, <2>2, <2>4, <3>1 DEF Here
      <3>3. row[q].gone => Excused(q)
        BY <3>1, <3>2 DEF Present
      <3>4. CASE q = r
        BY <2>1, <2>2, <3>2, <3>3, <3>4 DEF Excused
      <3>5. CASE q # r
        BY <2>1, <2>2, <3>2, <3>3, <3>5 DEF Excused
      <3> QED BY <3>4, <3>5
    <2> QED BY <2>3, <2>4 DEF Present
  <1>18. CASE ProbeRead
    BY <1>11, <1>18 DEF ProbeRead
  <1>19. CASE Restart
    <2>1. \A u \in Sockets : ~Here(u)'
      BY <1>19 DEF Restart, Out, Here
    <2> QED BY <1>19, <2>1, RowsAlone DEF Restart
  <1>20. UNCHANGED socket \/ ~((\E r \in Rooms : Silence(r) \/ Pass(r)) \/ ProbeWrite)
    BY DEF Silence, Pass, ProbeWrite
  <1> QED BY <1>2, <1>3, <1>4, <1>5, <1>6, <1>7, <1>8, <1>9, <1>10, <1>12, <1>13, <1>14, <1>15,
             <1>16, <1>17, <1>18, <1>19, <1>20 DEF Next, Step, Follow, Told

\* A row says that its viewer has gone only if the socket with the lease is going
\* or was silent, or an admin's reconciliation crossed a touch, however many
\* sockets of one token follow each other (viewers.rs, sockets.rs, reconciliation.rs).
THEOREM PresenceHolds == Spec => []PresentIsSeen
  <1>1. Init => Present /\ Belongs
    BY RoomsApart DEF Init, Present, Belongs, Rooms
  <1>2. Inv /\ Sent /\ Present /\ Belongs /\ [Next]_vars => Present' /\ Belongs'
    <2>1. ASSUME Present, Belongs, UNCHANGED vars PROVE Present' /\ Belongs'
      BY <2>1, RowsAlone DEF vars, presence, Here
    <2> QED BY <2>1, PresentStays
  <1>3. Spec => [](Inv /\ Sent)
    BY InvHolds
  <1> QED BY <1>1, <1>2, <1>3, PresentIs, PTL DEF Spec

-----------------------------------------------------------------------------
(* What a viewer can miss.                                                 *)

\* A client that has seen something has a highest sequence, above 0.
LEMMA HighestIs ==
  ASSUME NEW S \in SUBSET Messages
  PROVE  Highest(S) \in Nat /\ (Highest(S) > 0 \/ S = {})
  <1>1. CASE S = {}
    BY <1>1 DEF Highest
  <1>2. CASE S # {}
    <2>0. Last \in Nat /\ \A m \in S : m \in 1..Last
      BY RoomAssumption DEF Messages
    <2> DEFINE T == {Last - m : m \in S}
    <2>1. T \in SUBSET Nat /\ T # {}
      BY <1>2, <2>0
    <2>2. PICK k \in T : \A j \in T : k <= j
      <3> HIDE DEF T
      <3>1. PICK k \in T : \A j \in T : <<j, k>> \notin OpToRel(<, Nat)
        BY <2>1, NatLessThanWellFounded, WFMin
      <3>2. \A j \in T : ~(j < k)
        BY <2>1, <3>1 DEF OpToRel
      <3>3. ASSUME NEW j \in T PROVE k <= j
        <4>1. j \in Nat /\ k \in Nat /\ ~(j < k)
          BY <2>1, <3>1, <3>2
        <4> QED BY <4>1
      <3> QED BY <3>1, <3>3
    <2>3. PICK top \in S : k = Last - top
      BY <2>2
    <2>4. \A n \in S : n <= top
      <3>1. ASSUME NEW n \in S PROVE n <= top
        <4>1. Last - top <= Last - n
          BY <2>2, <2>3
        <4> QED BY <2>0, <4>1
      <3> QED BY <3>1
    <2>5. Highest(S) \in S
      BY <1>2, <2>4 DEF Highest
    <2> QED BY <2>0, <2>5
  <1> QED BY <1>1, <1>2

\* What a viewer has, will be given, or is excused from.
Has(v) == seen[v] \cup socket[v].held \cup Items(socket[v].inbox) \cup missed[v]
\* A viewer that has read, from its join on or on its way there.
Attends(v) == socket[v].at \in Following \cup {"join"} /\ ~socket[v].lagged
\* StayingMissesNothing, from the read on: what a read has given, left out or
\* excused is settled before the join.
Staying == \A v \in Viewers : Attends(v) =>
             \A m \in table : m \in Has(v) \/ Waiting(m)

LEMMA StayingIs == Staying => StayingMissesNothing
BY Zenon DEF Staying, StayingMissesNothing, Attends, Has, Items, InBox

\* Nothing new is said, and everyone that attends has what it had.
LEMMA NobodyLoses ==
  ASSUME Staying, table' = table, sender' = sender,
         \A v \in Viewers : Attends(v)' => Attends(v) /\ Has(v) \subseteq Has(v)'
  PROVE  Staying'
  <1>1. \A m : Waiting(m)' <=> Waiting(m)
    BY DEF Waiting
  <1>2. ASSUME NEW v \in Viewers, Attends(v)', NEW m \in table'
        PROVE  (m \in Has(v) \/ Waiting(m))'
    <2>1. m \in Has(v) \/ Waiting(m)
      BY <1>2 DEF Staying
    <2>2. m \in Has(v)' \/ Waiting(m)'
      BY <1>1, <1>2, <2>1
    <2> QED BY <2>2
  <1> QED BY <1>2 DEF Staying

\* A socket that goes from place to place keeps what it holds, or attends no more.
LEMMA Rests ==
  ASSUME TypeOK, NEW s \in Sockets, NEW place \in Places,
         Goes(s, place) \/ (Exits(s, place) /\ place \notin Following \cup {"join"}),
         place \in Following => socket[s].at \in Following \cup {"join"} \/ s \notin Viewers,
         place # "join" \/ s \notin Viewers,
         UNCHANGED <<seen, missed>>
  PROVE  \A v \in Viewers : Attends(v)' => Attends(v) /\ Has(v) \subseteq Has(v)'
  <1>0. socket \in [Sockets -> SocketStates] /\ Viewers \subseteq Sockets
    BY RoomsApart DEF TypeOK
  <1>1. \A u \in Sockets \ {s} : socket'[u] = socket[u]
    BY GoingIs
  <1>2. ASSUME NEW v \in Viewers \ {s}
        PROVE  Attends(v)' => Attends(v) /\ Has(v) \subseteq Has(v)'
    BY <1>0, <1>1 DEF Attends, Has, Items
  <1>3. CASE Goes(s, place) /\ place \in Following
    <2>1. socket'[s] = [socket[s] EXCEPT !.at = place]
      BY <1>0, <1>3 DEF Goes
    <2>2. socket[s] \in SocketStates
      BY <1>0
    <2>3. socket'[s].inbox = socket[s].inbox /\ socket'[s].held = socket[s].held
          /\ socket'[s].lagged = socket[s].lagged
      BY <2>1, <2>2 DEF SocketStates
    <2>4. s \in Viewers => (Attends(s)' => Attends(s) /\ Has(s) \subseteq Has(s)')
      BY <1>3, <2>3 DEF Attends, Has, Items
    <2> QED BY <1>2, <2>4
  <1>4. CASE place \notin Following
    <2>1. socket'[s].at = place
      BY GoingIs
    <2>2. s \in Viewers => ~Attends(s)'
      BY <1>4, <2>1 DEF Attends
    <2> QED BY <1>2, <2>2
  <1>5. place \in Following => Goes(s, place)
    OBVIOUS
  <1> QED BY <1>3, <1>4, <1>5

\* The read settles every message that is in the table.
LEMMA ReadGives == ASSUME Inv, Staying, NEW v \in Viewers, Read(v) PROVE Staying'
  <1>0. /\ v \in Sockets /\ TypeOK /\ seen[v] \in SUBSET Messages /\ table \subseteq Messages
        /\ socket \in [Sockets -> SocketStates] /\ Viewers \subseteq Sockets
        /\ missed \in [Viewers -> SUBSET Messages]
    BY RoomsApart DEF Inv, TypeOK
  <1>1. PICK after : after = Highest(seen[v])
    OBVIOUS
  <1>2. after \in Nat
    BY <1>0, <1>1, HighestIs
  <1>3. /\ socket' = [socket EXCEPT ![v] = [Out EXCEPT !.at = "join", !.held = Replay(after)]]
        /\ missed' = [missed EXCEPT ![v] =
                  (table \ (Above(after) \cup seen[v]))
                  \cup (Above(after) \ (IF after > 0 THEN Oldest(Above(after))
                                        ELSE Newest(Above(after))))]
        /\ UNCHANGED <<counts, presence, cursor, table, sender, signed, seen>>
    BY <1>1 DEF Read
  <1>4. \A m : Waiting(m)' <=> Waiting(m)
    BY <1>3 DEF Waiting
  <1>5. ASSUME NEW u \in Viewers, Attends(u)', NEW m \in table PROVE m \in Has(u)' \/ Waiting(m)'
    <2>1. CASE u = v
      <3>1. /\ socket'[v].held = Replay(after) /\ seen'[v] = seen[v]
            /\ missed'[v] = (table \ (Above(after) \cup seen[v]))
                  \cup (Above(after) \ (IF after > 0 THEN Oldest(Above(after))
                                        ELSE Newest(Above(after))))
        BY <1>0, <1>3 DEF Out
      <3>2. CASE after > 0
        <4>1. Replay(after) = Oldest(Above(after))
          BY <3>2 DEF Replay
        <4> QED BY <2>1, <3>1, <3>2, <4>1 DEF Has
      <3>3. CASE after = 0
        <4>1. Replay(after) = Newest(table)
          BY <3>3 DEF Replay
        <4>2. \A k \in table : k > 0
          <5>1. table \subseteq 1..Last /\ Last \in Nat
            BY <1>0, RoomAssumption DEF Messages
          <5> QED BY <5>1
        <4>3. Above(after) = table
          BY <3>3, <4>2 DEF Above
        <4>4. missed'[v] = table \ Newest(table) \/ missed'[v] = (table \ (table \cup seen[v])) \cup (table \ Newest(table))
          BY <3>1, <3>3, <4>3
        <4> QED BY <2>1, <3>1, <4>1, <4>4 DEF Has
      <3> QED BY <1>2, <3>2, <3>3
    <2>2. CASE u # v
      <3>1. socket'[u] = socket[u] /\ seen'[u] = seen[u] /\ missed'[u] = missed[u]
        BY <1>0, <1>3, <2>2
      <3>2. Attends(u) /\ Has(u)' = Has(u)
        BY <1>5, <3>1 DEF Attends, Has, Items
      <3>3. m \in Has(u) \/ Waiting(m)
        BY <3>2 DEF Staying
      <3> QED BY <1>4, <3>2, <3>3
    <2> QED BY <2>1, <2>2
  <1>6. table' = table
    BY <1>3
  <1> QED BY <1>5, <1>6 DEF Staying

\* An announcement adds to the inboxes of those that attend.
LEMMA AnnouncedToo ==
  ASSUME Inv, Staying, NEW v \in Viewers, Greet(v) \/ Farewell(v) PROVE Staying'
  <1>0. /\ TypeOK /\ Viewers \subseteq Sockets /\ v \in Sockets /\ 0 \in 0..Last
        /\ seen \in [Viewers -> SUBSET Messages]
    BY RoomsApart, RoomAssumption DEF Inv, TypeOK
  <1>1. PICK f \in [Sockets -> SocketStates] :
          /\ f = Delivered(0)
          /\ \A s \in Sockets :
              /\ f[s].at = socket[s].at
              /\ f[s].held = socket[s].held
              /\ ~f[s].lagged => ~socket[s].lagged
              /\ ~f[s].lagged => Items(socket[s].inbox) \subseteq Items(f[s].inbox)
    BY <1>0, Fanned
  <1>a. \A u \in Viewers : Has(u)' = seen'[u] \cup socket'[u].held
                                     \cup Items(socket'[u].inbox) \cup missed'[u]
    BY DEF Has, Items
  <1>2. CASE Greet(v)
    <2>1. /\ socket' = [f EXCEPT ![v].at = "loop", ![v].held = {}]
          /\ seen' = [seen EXCEPT ![v] = @ \cup socket[v].held]
          /\ socket[v].at = "greet" /\ missed' = missed /\ table' = table /\ sender' = sender
      BY <1>1, <1>2 DEF Greet, At, chat
    <2>2. /\ socket'[v].lagged = f[v].lagged /\ socket'[v].inbox = f[v].inbox
          /\ seen'[v] = seen[v] \cup socket[v].held
      BY <1>0, <2>1 DEF SocketStates
    <2>3. Attends(v)' => Attends(v) /\ Has(v) \subseteq Has(v)'
      <3>1. v \in Sockets /\ socket'[v].at = "loop" /\ socket'[v].held = {}
        BY <1>0, <2>1 DEF SocketStates
      <3>2. Attends(v)' => ~f[v].lagged
        BY <2>2 DEF Attends
      <3>3. Attends(v)' => Attends(v)
        BY <1>1, <2>1, <3>1, <3>2 DEF Attends, Following
      <3>4. Attends(v)' => Items(socket[v].inbox) \subseteq Items(socket'[v].inbox)
        BY <1>1, <2>2, <3>1, <3>2
      <3> QED BY <1>a, <2>1, <2>2, <3>3, <3>4 DEF Has
    <2>4. ASSUME NEW u \in Viewers \ {v}
          PROVE  Attends(u)' => Attends(u) /\ Has(u) \subseteq Has(u)'
      <3>1. socket'[u] = f[u] /\ seen'[u] = seen[u] /\ u \in Sockets
        BY <1>0, <2>1
      <3>2. Attends(u)' => Attends(u)
        BY <1>1, <3>1 DEF Attends
      <3>3. Attends(u)' => Items(socket[u].inbox) \subseteq Items(socket'[u].inbox)
        BY <1>1, <3>1 DEF Attends
      <3> QED BY <1>1, <1>a, <2>1, <3>1, <3>2, <3>3 DEF Has
    <2> QED BY <2>1, <2>3, <2>4, NobodyLoses
  <1>3. CASE Farewell(v)
    <2>1. /\ socket' = [f EXCEPT ![v].at = "out"]
          /\ missed' = missed /\ table' = table /\ sender' = sender /\ seen' = seen
      BY <1>1, <1>3 DEF Farewell, chat
    <2>2. socket'[v].at = "out"
      BY <1>0, <2>1 DEF SocketStates
    <2>3. ~Attends(v)'
      BY <2>2 DEF Attends, Following
    <2>4. ASSUME NEW u \in Viewers \ {v}
          PROVE  Attends(u)' => Attends(u) /\ Has(u) \subseteq Has(u)'
      <3>1. socket'[u] = f[u] /\ seen'[u] = seen[u] /\ u \in Sockets
        BY <1>0, <2>1
      <3>2. Attends(u)' => Attends(u)
        BY <1>1, <3>1 DEF Attends
      <3>3. Attends(u)' => Items(socket[u].inbox) \subseteq Items(socket'[u].inbox)
        BY <1>1, <3>1 DEF Attends
      <3> QED BY <1>1, <1>a, <2>1, <3>1, <3>2, <3>3 DEF Has
    <2> QED BY <2>1, <2>3, <2>4, NobodyLoses
  <1> QED BY <1>2, <1>3

\* What leaves the inbox has reached the client.
LEMMA ReceivedIs ==
  ASSUME Inv, Staying, NEW v \in Viewers, Receive(v) PROVE Staying'
  <1>0. /\ TypeOK /\ Viewers \subseteq Sockets /\ v \in Sockets
        /\ seen \in [Viewers -> SUBSET Messages] /\ socket \in [Sockets -> SocketStates]
        /\ table \subseteq Messages
    BY RoomsApart DEF Inv, TypeOK
  <1>1. missed' = missed /\ table' = table /\ sender' = sender
    BY DEF Receive, chat
  <1>2. CASE Exits(v, "disconnect") /\ UNCHANGED seen
    <2>1. "disconnect" \in Places \ (Following \cup {"join"})
      BY DEF Places, Following
    <2> QED BY <1>0, <1>1, <1>2, <2>1, Rests, NobodyLoses
  <1>3. CASE /\ socket' = [socket EXCEPT ![v].inbox = Tail(@)]
             /\ seen' = [seen EXCEPT ![v] = @ \cup ({Head(socket[v].inbox)} \ {0})]
    <2>1. socket[v].inbox \in Inboxes /\ socket[v].inbox # <<>>
      BY <1>0 DEF SocketStates, Receive
    <2>2. Items(socket[v].inbox) = {Head(socket[v].inbox)} \cup Items(Tail(socket[v].inbox))
      BY <2>1, FirstAndRest
    <2>3. /\ socket'[v].inbox = Tail(socket[v].inbox) /\ socket'[v].at = socket[v].at
          /\ socket'[v].held = socket[v].held /\ socket'[v].lagged = socket[v].lagged
          /\ seen'[v] = seen[v] \cup ({Head(socket[v].inbox)} \ {0})
      BY <1>0, <1>3 DEF SocketStates
    <2>4. ASSUME NEW u \in Viewers \ {v}
          PROVE  Attends(u)' => Attends(u) /\ Has(u) \subseteq Has(u)'
      <3>1. socket'[u] = socket[u] /\ seen'[u] = seen[u]
        BY <1>0, <1>3
      <3> QED BY <1>1, <3>1 DEF Attends, Has, Items
    <2>5. ASSUME NEW u \in Viewers, Attends(u)', NEW m \in table
          PROVE  m \in Has(u)' \/ Waiting(m)'
      <3>1. m # 0
        BY <1>0, RoomAssumption DEF Messages
      <3>2. CASE u = v
        <4>1. Attends(v) /\ (m \in Has(v) \/ Waiting(m))
          BY <2>3, <2>5, <3>2 DEF Attends, Staying
        <4>2. m \in Has(v) => m \in Has(v)'
          <5>1. m \in Items(socket[v].inbox) =>
                  m \in seen'[v] \/ m \in Items(socket'[v].inbox)
            BY <2>2, <2>3, <3>1
          <5> QED BY <1>1, <2>3, <5>1 DEF Has, Items
        <4> QED BY <1>1, <3>2, <4>1, <4>2 DEF Waiting
      <3>3. CASE u # v
        <4>1. Attends(u) /\ Has(u) \subseteq Has(u)' /\ (m \in Has(u) \/ Waiting(m))
          BY <2>4, <2>5, <3>3 DEF Staying
        <4> QED BY <1>1, <4>1 DEF Waiting
      <3> QED BY <3>2, <3>3
    <2> QED BY <1>1, <2>5 DEF Staying
  <1> QED BY <1>2, <1>3 DEF Receive

\* A message enters the table with its publication to come, and that reaches
\* whoever has joined and is on record for whoever has not.
LEMMA ChatReaches ==
  ASSUME Inv, Staying, NEW t \in Senders, Speak(t) \/ Insert(t) \/ Publish(t) PROVE Staying'
  <1>0. /\ TypeOK /\ Viewers \subseteq Sockets /\ missed \in [Viewers -> SUBSET Messages]
        /\ sender \in [Senders -> [at : {"none", "insert", "publish"}, seq : 0..Last]]
    BY RoomsApart DEF Inv, TypeOK
  <1>1. CASE Speak(t) \/ Insert(t)
    <2>1. UNCHANGED <<socket, seen, missed>>
      BY <1>1 DEF Speak, Insert
    <2>2. \A v \in Viewers : Attends(v)' = Attends(v) /\ Has(v)' = Has(v)
      BY <2>1 DEF Attends, Has
    <2>3. ASSUME NEW m, Waiting(m) PROVE Waiting(m)'
      <3>1. PICK u \in Senders : sender[u].at = "publish" /\ sender[u].seq = m
        BY <2>3 DEF Waiting
      <3>2. u # t
        BY <1>1, <3>1 DEF Speak, Insert
      <3>3. sender'[u] = sender[u]
        BY <1>0, <1>1, <3>2 DEF Speak, Insert
      <3> QED BY <3>1, <3>3 DEF Waiting
    <2>4. \A m \in table' : m \in table \/ Waiting(m)'
      BY <1>0, <1>1 DEF Speak, Insert, Waiting
    <2> QED BY <2>2, <2>3, <2>4 DEF Staying
  <1>2. CASE Publish(t)
    <2> DEFINE m == sender[t].seq
    <2>0. m \in 0..Last
      BY <1>0
    <2>1. /\ socket' = Delivered(m) /\ table' = table /\ seen' = seen
          /\ sender' = [sender EXCEPT ![t] = [at |-> "none", seq |-> 0]]
          /\ missed' = [v \in Viewers |->
                          IF At(v, "join") /\ m \notin socket[v].held
                          THEN missed[v] \cup {m} ELSE missed[v]]
      BY <1>2 DEF Publish
    <2>2. ASSUME NEW k, Waiting(k), k # m PROVE Waiting(k)'
      <3>1. PICK u \in Senders : sender[u].at = "publish" /\ sender[u].seq = k
        BY <2>2 DEF Waiting
      <3>2. sender'[u] = sender[u]
        BY <1>0, <2>1, <2>2, <3>1
      <3> QED BY <3>1, <3>2 DEF Waiting
    <2>3. ASSUME NEW v \in Viewers, Attends(v)', NEW k \in table'
          PROVE  k \in Has(v)' \/ Waiting(k)'
      <3>1. /\ socket'[v].at = socket[v].at /\ socket'[v].held = socket[v].held
            /\ ~socket'[v].lagged => ~socket[v].lagged
            /\ ~socket'[v].lagged => Items(socket[v].inbox) \subseteq Items(socket'[v].inbox)
            /\ socket[v].at \in Following /\ ~socket'[v].lagged => m \in Items(socket'[v].inbox)
        BY <1>0, <2>0, <2>1, Fanned
      <3>2. Attends(v)
        BY <2>3, <3>1 DEF Attends
      <3>3. /\ missed[v] \subseteq missed'[v] /\ seen'[v] = seen[v]
            /\ At(v, "join") /\ m \notin socket[v].held => m \in missed'[v]
        BY <2>1
      <3>4. Has(v) \subseteq Has(v)'
        BY <2>3, <3>1, <3>3 DEF Attends, Has, Items
      <3>5. m \in Has(v)'
        BY <2>3, <3>1, <3>3 DEF Attends, Has, Items, At
      <3>6. k \in Has(v) \/ Waiting(k)
        BY <2>1, <2>3, <3>2 DEF Staying
      <3> QED BY <2>2, <3>4, <3>5, <3>6
    <2> QED BY <2>3 DEF Staying
  <1> QED BY <1>1, <1>2

LEMMA StayingStays == ASSUME Inv, Staying, Next PROVE Staying'
  <1>0. TypeOK /\ Viewers \subseteq Sockets /\ socket \in [Sockets -> SocketStates]
        /\ \A s \in Sockets : s \in Viewers <=> s \notin Studios
    BY RoomsApart DEF Inv, TypeOK
  <1>1. ASSUME NEW s \in Sockets, NEW place \in Places,
               Goes(s, place) \/ (Exits(s, place) /\ place \notin Following \cup {"join"}),
               place \in Following => socket[s].at \in Following \cup {"join"} \/ s \notin Viewers,
               place # "join" \/ s \notin Viewers,
               UNCHANGED <<seen, missed, table, sender>>
        PROVE  Staying'
    BY <1>0, <1>1, Rests, NobodyLoses
  <1>2. ASSUME NEW s \in Sockets, Connect(s) \/ Register(s) PROVE Staying'
    <2>1. UNCHANGED <<seen, missed, table, sender>>
      BY <1>2 DEF Connect, Register, chat
    <2>2. PICK place \in {"register", "join", "read", "greet", "out", "abandon"} :
            /\ Goes(s, place) \/ (Exits(s, place) /\ place \notin Following \cup {"join"})
            /\ place \in {"join", "greet"} => s \notin Viewers
      BY <1>0, <1>2 DEF Connect, Register, Following
    <2> QED BY <1>1, <2>1, <2>2 DEF Places, Following
  <1>3. ASSUME NEW s \in Sockets, JoinRoom(s) \/ JoinAuth(s) \/ Prepare(s) PROVE Staying'
    <2>1. UNCHANGED <<seen, missed, table, sender>>
      BY <1>3 DEF JoinRoom, JoinAuth, Prepare, chat
    <2>2. PICK place \in {"auth", "greet", "register", "loop", "give up"} :
            Goes(s, place) /\ socket[s].at \in Following \cup {"join"}
      BY <1>0, <1>3 DEF JoinRoom, JoinAuth, Prepare, At, Following
    <2> QED BY <1>1, <2>1, <2>2 DEF Places, Following
  <1>4. ASSUME NEW s \in Sockets,
               Close(s) \/ LeaveRoom(s) \/ LeaveAuth(s) \/ Abandon(s) \/ HangUp(s)
        PROVE  Staying'
    <2>1. UNCHANGED <<seen, missed, table, sender>>
      BY <1>4 DEF Close, LeaveRoom, LeaveAuth, Abandon, HangUp, chat
    <2>2. PICK place \in {"leave", "abandon", "unauth", "farewell", "out", "disconnect"} :
            Goes(s, place) \/ Exits(s, place)
      BY <1>4 DEF Close, LeaveRoom, LeaveAuth, Abandon, HangUp
    <2> QED BY <1>1, <2>1, <2>2 DEF Places, Following
  <1>5. ASSUME UNCHANGED <<socket, seen, missed, table, sender>> PROVE Staying'
    <2>1. \A v \in Viewers : Attends(v)' => Attends(v) /\ Has(v) \subseteq Has(v)'
      BY <1>5 DEF Attends, Has
    <2> QED BY <1>5, <2>1, NobodyLoses
  <1>6. ASSUME NEW s \in Sockets, Tick(s) PROVE Staying'
    <2>1. UNCHANGED <<seen, missed, table, sender>>
      BY <1>6 DEF Tick, chat
    <2>2. UNCHANGED socket \/ Exits(s, "disconnect")
      BY <1>6 DEF Tick
    <2> QED BY <1>1, <1>5, <2>1, <2>2 DEF Places, Following
  <1>7. CASE Tell
    <2>1. UNCHANGED <<seen, missed, table, sender>>
      BY <1>7 DEF Tell, chat
    <2>2. ASSUME NEW v \in Viewers
          PROVE  Attends(v)' => Attends(v) /\ Has(v) \subseteq Has(v)'
      <3>1. socket[v] \in SocketStates
        BY <1>0
      <3>2. /\ socket'[v].at = socket[v].at /\ socket'[v].lagged = socket[v].lagged
            /\ socket'[v].held = socket[v].held /\ socket'[v].inbox = socket[v].inbox
        BY <1>0, <1>7, <3>1 DEF Tell, SocketStates
      <3> QED BY <2>1, <3>2 DEF Attends, Has, Items
    <2> QED BY <2>1, <2>2, NobodyLoses
  <1>8. CASE Restart
    <2>1. \A v \in Viewers : ~Attends(v)'
      BY <1>0, <1>8 DEF Restart, Out, Attends, Following
    <2> QED BY <2>1 DEF Staying
  <1>9. CASE Revoke \/ ProbeRead \/ ProbeWrite \/ \E r \in Rooms : Silence(r) \/ Pass(r)
    BY <1>5, <1>9 DEF Revoke, ProbeRead, ProbeWrite, Silence, Pass, chat
  <1> QED BY <1>2, <1>3, <1>4, <1>6, <1>7, <1>8, <1>9, ReadGives, AnnouncedToo, ReceivedIs,
             ChatReaches DEF Next, Step, Follow, Told

\* A viewer that stays has every message of the table, or has it coming; but for
\* what its read left out, what crossed its join and what it fell behind by, for any
\* number of senders and any order of numbering, insertion and publication
\* (viewer_live.rs, chat.rs).
THEOREM NothingMissed == Spec => []StayingMissesNothing
  <1>1. Init => Staying
    BY DEF Init, Staying
  <1>2. Inv /\ Sent /\ Staying /\ [Next]_vars => Staying'
    <2>1. ASSUME Staying, UNCHANGED vars PROVE Staying'
      <3>1. \A v \in Viewers : Attends(v)' => Attends(v) /\ Has(v) \subseteq Has(v)'
        BY <2>1 DEF Attends, Has, vars, chat
      <3> QED BY <2>1, <3>1, NobodyLoses DEF vars, chat
    <2> QED BY <2>1, StayingStays
  <1> QED BY <1>1, <1>2, InvHolds, StayingIs, PTL DEF Spec

-----------------------------------------------------------------------------
(* The notification bus.                                                   *)


\* A task writes only the row it is at; the rest of the state is of the type
\* BusTypeOK says in every reachable state (notifications/dispatch.rs).
THEOREM BusTypes == BusSpec => []BusTypeOK
<1>1. BusInit => BusTypeOK
  BY BusAssumption DEF BusInit, BusTypeOK, DeliveryRow, States, DispatchTask, Steps
<1>2. BusTypeOK /\ [BusNext]_busVars => BusTypeOK'
  <2> SUFFICES ASSUME BusTypeOK, [BusNext]_busVars PROVE BusTypeOK'
    OBVIOUS
  <2> USE BusAssumption DEF BusTypeOK, DeliveryRow, States, DispatchTask, Steps,
                            History, Put, Turn, Arrive
  <2>1. ASSUME NEW w \in Dispatchers, Continue(w) PROVE BusTypeOK'
    <3>1. CASE InsertsDone(w) BY <3>1 DEF InsertsDone
    <3>2. CASE LoopDone(w) BY <3>2 DEF LoopDone
    <3>3. CASE Claim(w)
      <4> DEFINE d == task[w].at
      <4>1. d \in Deliveries /\ attempts[d] + 1 \in Nat
        OBVIOUS
      <4>2. delivery' \in [Deliveries -> DeliveryRow]
        BY <4>1, <3>3 DEF Claim
      <4>3. attempts' \in [Deliveries -> Nat]
        BY <4>1, <3>3 DEF Claim
      <4>4. task' \in [Dispatchers -> DispatchTask]
        BY <3>3 DEF Claim
      <4> QED BY <4>2, <4>3, <4>4, <3>3 DEF Claim
    <3>4. CASE ClaimMisses(w) BY <3>4 DEF ClaimMisses
    <3>5. CASE Recipient(w)
      <4>1. PICK next \in {"write", "mark"} : task' = [task EXCEPT ![w].pc = next]
        BY <3>5 DEF Recipient
      <4> QED BY <4>1, <3>5 DEF Recipient
    <3>6. CASE Deliver(w) BY <3>6 DEF Deliver
    <3>7. CASE DeliverFails(w) BY <3>7 DEF DeliverFails
    <3>8. CASE MarkFailed(w)
      <4>1. task[w].seen + 1 \in Nat /\ Ceiling(task[w].seen + 1) \in States
        BY DEF Ceiling
      <4> QED BY <4>1, <3>8 DEF MarkFailed
    <3>9. CASE RetryReset(w) BY <3>9 DEF RetryReset
    <3>10. ASSUME NEW d \in Deliveries, ReadRow(w, d) PROVE BusTypeOK'
      <4>1. delivery[d].retries \in Nat
        OBVIOUS
      <4> QED BY <4>1, <3>10 DEF ReadRow
    <3> QED BY <2>1, <3>1, <3>2, <3>3, <3>4, <3>5, <3>6, <3>7, <3>8, <3>9,
               <3>10 DEF Continue
  <2>2. ASSUME NEW w \in Dispatchers, DbFails(w) PROVE BusTypeOK'
    BY <2>2 DEF DbFails, HeldBy
  <2>3. ASSUME NEW w \in Dispatchers, NEW d \in Deliveries,
               Enqueue(w, d) \/ RetryRead(w, d)
        PROVE BusTypeOK'
    <3>1. CASE Enqueue(w, d) BY <3>1 DEF Enqueue
    <3>2. CASE RetryRead(w, d) BY <3>2 DEF RetryRead
    <3> QED BY <2>3, <3>1, <3>2
  <2>4. ASSUME NEW w \in Dispatchers, NEW S \in SUBSET Deliveries, Select(w, S)
        PROVE BusTypeOK'
    BY <2>4 DEF Select
  <2>5. ASSUME NEW d \in Deliveries, Elapse(d) PROVE BusTypeOK'
    BY <2>5 DEF Elapse
  <2>6. CASE Crash
    BY <2>6 DEF Crash, HeldBy
  <2>7. CASE UNCHANGED busVars
    BY <2>7 DEF busVars
  <2> QED BY <2>1, <2>2, <2>3, <2>4, <2>5, <2>6, <2>7 DEF BusNext
<1> QED BY <1>1, <1>2, PTL DEF BusSpec

-----------------------------------------------------------------------------
\* The count a task carries was true once, and the claim it makes adds one:
\* from the read to the mark, retry_count never overtakes the claims.
CountsAreClaims ==
  /\ \A d \in Deliveries :
       /\ delivery[d].retries <= attempts[d]
       /\ delivery[d].state = "dead_lettered" => delivery[d].retries >= MaxAttempts
  /\ \A w \in Dispatchers :
       /\ task[w].pc = "claim" => task[w].seen <= attempts[task[w].at]
       /\ Holds(w, task[w].at) => task[w].seen + 1 <= attempts[task[w].at]

\* Dead letters are earned: the lemma that the theorem below rests on.
LEMMA CountsStep ==
  ASSUME BusTypeOK, CountsAreClaims, [BusNext]_busVars
  PROVE  CountsAreClaims'
<1> USE BusAssumption DEF BusTypeOK, DeliveryRow, DispatchTask, Holds, History,
                          CountsAreClaims, Put, Turn, Arrive
<1>0. \A d \in Deliveries : attempts[d] \in Nat /\ delivery[d].retries \in Nat
  OBVIOUS
<1>1. ASSUME NEW w \in Dispatchers, Continue(w) PROVE CountsAreClaims'
  <2>1. CASE InsertsDone(w) BY <2>1 DEF InsertsDone
  <2>2. CASE LoopDone(w) BY <2>2 DEF LoopDone
  <2>3. CASE Claim(w)
    <3> DEFINE d == task[w].at
    <3>0. task[w].seen \in Nat /\ d \in Deliveries
      OBVIOUS
    <3>1. /\ attempts'[d] = attempts[d] + 1
          /\ \A e \in Deliveries : attempts'[e] >= attempts[e]
      BY <2>3, <1>0 DEF Claim
    <3>2. \A e \in Deliveries : /\ delivery'[e].retries = delivery[e].retries
                                /\ delivery'[e].state = "dead_lettered"
                                     => delivery[e].state = "dead_lettered"
      BY <2>3 DEF Claim
    <3>3. \A v \in Dispatchers : /\ task'[v].at = task[v].at
                                 /\ task'[v].seen = task[v].seen
                                 /\ v # w => task'[v].pc = task[v].pc
      BY <2>3 DEF Claim
    <3>4. task[w].seen <= attempts[d] /\ task'[w].pc = "recipient"
      BY <2>3 DEF Claim
    <3>5. \A e \in Deliveries :
            /\ delivery'[e].retries <= attempts'[e]
            /\ delivery'[e].state = "dead_lettered" => delivery'[e].retries >= MaxAttempts
      <4> TAKE e \in Deliveries
      <4>1. attempts'[e] \in Nat
        BY <2>3, <1>0 DEF Claim
      <4> QED BY <3>1, <3>2, <4>1, <1>0
    <3>6. ASSUME NEW v \in Dispatchers
          PROVE  /\ task'[v].pc = "claim" => task'[v].seen <= attempts'[task'[v].at]
                 /\ task'[v].pc \in {"recipient", "write", "mark"}
                      => task'[v].seen + 1 <= attempts'[task'[v].at]
      <4>1. /\ task[v].at \in Deliveries /\ task[v].seen \in Nat
            /\ attempts'[task[v].at] \in Nat /\ attempts[task[v].at] \in Nat
        BY <2>3, <1>0 DEF Claim
      <4>2. CASE v = w BY <4>1, <4>2, <3>1, <3>3, <3>4
      <4>3. CASE v # w BY <4>1, <4>3, <3>1, <3>3
      <4> QED BY <4>2, <4>3
    <3> QED BY <3>5, <3>6
  <2>4. CASE ClaimMisses(w) BY <2>4 DEF ClaimMisses
  <2>5. CASE Recipient(w)
    <3>1. PICK next \in {"write", "mark"} : task' = [task EXCEPT ![w].pc = next]
      BY <2>5 DEF Recipient
    <3>2. task[w].pc = "recipient" /\ delivery' = delivery /\ attempts' = attempts
      BY <2>5 DEF Recipient
    <3> QED BY <3>1, <3>2
  <2>6. CASE Deliver(w) BY <2>6 DEF Deliver
  <2>7. CASE DeliverFails(w) BY <2>7 DEF DeliverFails
  <2>8. CASE MarkFailed(w)
    <3> DEFINE d == task[w].at  n == task[w].seen + 1
    <3>1. /\ d \in Deliveries /\ n \in Nat
          /\ n <= attempts[d]
      BY <2>8 DEF MarkFailed
    <3>2. Ceiling(n) = "dead_lettered" => n >= MaxAttempts
      BY DEF Ceiling
    <3>3. delivery' = [delivery EXCEPT
                        ![d] = [state |-> Ceiling(n), retries |-> n, due |-> FALSE]]
      BY <2>8 DEF MarkFailed
    <3>4. attempts' = attempts /\ task' = [task EXCEPT ![w].pc = "loop"]
      BY <2>8 DEF MarkFailed
    <3>5. \A e \in Deliveries :
            /\ delivery'[e].retries <= attempts'[e]
            /\ delivery'[e].state = "dead_lettered" => delivery'[e].retries >= MaxAttempts
      BY <3>1, <3>2, <3>3, <3>4
    <3> QED BY <3>4, <3>5
  <2>9. CASE RetryReset(w) BY <2>9 DEF RetryReset
  <2>10. ASSUME NEW d \in Deliveries, ReadRow(w, d) PROVE CountsAreClaims'
    BY <2>10, <1>0 DEF ReadRow
  <2> QED BY <1>1, <2>1, <2>2, <2>3, <2>4, <2>5, <2>6, <2>7, <2>8, <2>9,
             <2>10 DEF Continue
<1>2. ASSUME NEW w \in Dispatchers, DbFails(w) PROVE CountsAreClaims'
  BY <1>2 DEF DbFails
<1>3. ASSUME NEW w \in Dispatchers, NEW d \in Deliveries,
             Enqueue(w, d) \/ RetryRead(w, d)
      PROVE CountsAreClaims'
  <2>1. CASE Enqueue(w, d) BY <2>1, <1>0 DEF Enqueue
  <2>2. CASE RetryRead(w, d) BY <2>2 DEF RetryRead
  <2> QED BY <1>3, <2>1, <2>2
<1>4. ASSUME NEW w \in Dispatchers, NEW S \in SUBSET Deliveries, Select(w, S)
      PROVE CountsAreClaims'
  BY <1>4 DEF Select
<1>5. ASSUME NEW d \in Deliveries, Elapse(d) PROVE CountsAreClaims'
  BY <1>5 DEF Elapse
<1>6. CASE Crash
  BY <1>6 DEF Crash
<1>7. CASE UNCHANGED busVars
  BY <1>7 DEF busVars
<1> QED BY <1>1, <1>2, <1>3, <1>4, <1>5, <1>6, <1>7 DEF BusNext

\* A dead letter has had MaxAttempts attempts, whatever the interleaving of
\* the tasks and however stale the count each of them started from.
THEOREM DeadLettersAreEarned == BusSpec => []NoEarlyDeadLetter
<1>1. BusInit => CountsAreClaims
  BY BusAssumption DEF BusInit, CountsAreClaims, Holds
<1>2. BusTypeOK /\ CountsAreClaims => NoEarlyDeadLetter
  BY BusAssumption DEF BusTypeOK, DeliveryRow, CountsAreClaims, NoEarlyDeadLetter
<1> QED BY <1>1, <1>2, CountsStep, BusTypes, PTL DEF BusSpec

-----------------------------------------------------------------------------
\* The exclusive claim is inductive by itself: the owner of an attempt is
\* the one task that can move its row on.
LEMMA OwnersStep ==
  ASSUME BusTypeOK, OneAttempt, StrandedByFault, [BusNext]_busVars
  PROVE  (OneAttempt /\ StrandedByFault)'
<1> USE DEF BusTypeOK, DeliveryRow, DispatchTask, Holds, History, Put, Turn, Arrive,
            OneAttempt, StrandedByFault
<1>1. ASSUME NEW w \in Dispatchers, Continue(w)
      PROVE  (OneAttempt /\ StrandedByFault)'
  <2>1. CASE InsertsDone(w) BY <2>1 DEF InsertsDone
  <2>2. CASE LoopDone(w) BY <2>2 DEF LoopDone
  <2>3. CASE Claim(w) BY <2>3 DEF Claim, Claimable
  <2>4. CASE ClaimMisses(w) BY <2>4 DEF ClaimMisses
  <2>5. CASE Recipient(w)
    <3>1. PICK next \in {"write", "mark"} : task' = [task EXCEPT ![w].pc = next]
      BY <2>5 DEF Recipient
    <3>2. /\ task[w].pc = "recipient" /\ delivery' = delivery
          /\ reset' = reset /\ dropped' = dropped
      BY <2>5 DEF Recipient
    <3>3. \A v \in Dispatchers, d \in Deliveries : Holds(v, d)' <=> Holds(v, d)
      BY <3>1, <3>2
    <3> QED BY <3>2, <3>3
  <2>6. CASE Deliver(w) BY <2>6 DEF Deliver
  <2>7. CASE DeliverFails(w) BY <2>7 DEF DeliverFails
  <2>8. CASE MarkFailed(w)
    <3>1. Ceiling(task[w].seen + 1) # "delivering"
      BY DEF Ceiling
    <3> QED BY <2>8, <3>1 DEF MarkFailed
  <2>9. CASE RetryReset(w) BY <2>9 DEF RetryReset
  <2>10. ASSUME NEW d \in Deliveries, ReadRow(w, d)
         PROVE  (OneAttempt /\ StrandedByFault)'
    BY <2>10 DEF ReadRow
  <2> QED BY <1>1, <2>1, <2>2, <2>3, <2>4, <2>5, <2>6, <2>7, <2>8, <2>9,
             <2>10 DEF Continue
<1>2. ASSUME NEW w \in Dispatchers, DbFails(w)
      PROVE  (OneAttempt /\ StrandedByFault)'
  BY <1>2 DEF DbFails, HeldBy
<1>3. ASSUME NEW w \in Dispatchers, NEW d \in Deliveries,
             Enqueue(w, d) \/ RetryRead(w, d)
      PROVE  (OneAttempt /\ StrandedByFault)'
  <2>1. CASE Enqueue(w, d) BY <2>1 DEF Enqueue
  <2>2. CASE RetryRead(w, d) BY <2>2 DEF RetryRead
  <2> QED BY <1>3, <2>1, <2>2
<1>4. ASSUME NEW w \in Dispatchers, NEW S \in SUBSET Deliveries, Select(w, S)
      PROVE  (OneAttempt /\ StrandedByFault)'
  BY <1>4 DEF Select
<1>5. ASSUME NEW d \in Deliveries, Elapse(d)
      PROVE  (OneAttempt /\ StrandedByFault)'
  BY <1>5 DEF Elapse
<1>6. CASE Crash
  BY <1>6 DEF Crash, HeldBy
<1>7. CASE UNCHANGED busVars
  BY <1>7 DEF busVars
<1> QED BY <1>1, <1>2, <1>3, <1>4, <1>5, <1>6, <1>7 DEF BusNext

LEMMA OwnersInit == BusInit => OneAttempt /\ StrandedByFault
BY DEF BusInit, OneAttempt, StrandedByFault, Holds

\* One owner per attempt, for any number of loops over the same rows.
THEOREM AttemptsAreExclusive == BusSpec => []OneAttempt
BY OwnersInit, OwnersStep, BusTypes, PTL DEF BusSpec

\* The only way to lose an attempt is an interruption of its owner.
THEOREM OnlyFaultsStrand == BusSpec => []StrandedByFault
BY OwnersInit, OwnersStep, BusTypes, PTL DEF BusSpec

\* Owners write rows that are being delivered and nothing else, so a settled
\* row is left alone although no UPDATE after the claim checks for it.
THEOREM SettledRowsStay == BusSpec => SettledStays
<1> DEFINE Kept == \A d \in Deliveries \ reset' :
                     delivery[d].state \in {"delivered", "dead_lettered"}
                       => delivery'[d] = delivery[d]
<1>1. ASSUME BusTypeOK, OneAttempt, [BusNext]_busVars PROVE Kept
  <2> USE DEF BusTypeOK, DeliveryRow, DispatchTask, History, Put, Turn, Arrive
  <2>1. ASSUME NEW w \in Dispatchers, Continue(w) PROVE Kept
    <3>1. CASE InsertsDone(w) BY <3>1 DEF InsertsDone
    <3>2. CASE LoopDone(w) BY <3>2 DEF LoopDone
    <3>3. CASE Claim(w) BY <3>3 DEF Claim, Claimable
    <3>4. CASE ClaimMisses(w) BY <3>4 DEF ClaimMisses
    <3>5. CASE Recipient(w) BY <3>5 DEF Recipient
    <3>6. CASE Deliver(w)
      <4> DEFINE e == task[w].at
      <4>0. task[w].pc = "write"
        BY <3>6 DEF Deliver
      <4>1. Holds(w, e) /\ e \in Deliveries
        BY <4>0, <1>1 DEF Holds
      <4>2. e \in reset \/ delivery[e].state = "delivering"
        BY <4>1, <1>1 DEF OneAttempt
      <4>3. \A d \in Deliveries : d # e => delivery'[d] = delivery[d]
        BY <3>6 DEF Deliver
      <4>4. reset' = reset
        BY <3>6 DEF Deliver
      <4> QED BY <4>2, <4>3, <4>4
    <3>7. CASE DeliverFails(w) BY <3>7 DEF DeliverFails
    <3>8. CASE MarkFailed(w)
      <4> DEFINE e == task[w].at
      <4>0. task[w].pc = "mark"
        BY <3>8 DEF MarkFailed
      <4>1. Holds(w, e) /\ e \in Deliveries
        BY <4>0, <1>1 DEF Holds
      <4>2. e \in reset \/ delivery[e].state = "delivering"
        BY <4>1, <1>1 DEF OneAttempt
      <4>3. \A d \in Deliveries : d # e => delivery'[d] = delivery[d]
        BY <3>8 DEF MarkFailed
      <4>4. reset' = reset
        BY <3>8 DEF MarkFailed
      <4> QED BY <4>2, <4>3, <4>4
    <3>9. CASE RetryReset(w) BY <3>9 DEF RetryReset
    <3>10. ASSUME NEW d \in Deliveries, ReadRow(w, d) PROVE Kept
      BY <3>10 DEF ReadRow
    <3> QED BY <2>1, <3>1, <3>2, <3>3, <3>4, <3>5, <3>6, <3>7, <3>8, <3>9,
               <3>10 DEF Continue
  <2>2. ASSUME NEW w \in Dispatchers, DbFails(w) PROVE Kept
    BY <2>2 DEF DbFails
  <2>3. ASSUME NEW w \in Dispatchers, NEW d \in Deliveries,
               Enqueue(w, d) \/ RetryRead(w, d)
        PROVE Kept
    <3>1. CASE Enqueue(w, d) BY <3>1 DEF Enqueue
    <3>2. CASE RetryRead(w, d) BY <3>2 DEF RetryRead
    <3> QED BY <2>3, <3>1, <3>2
  <2>4. ASSUME NEW w \in Dispatchers, NEW S \in SUBSET Deliveries, Select(w, S)
        PROVE Kept
    BY <2>4 DEF Select
  <2>5. ASSUME NEW d \in Deliveries, Elapse(d) PROVE Kept
    BY <2>5 DEF Elapse
  <2>6. CASE Crash
    BY <2>6 DEF Crash
  <2>7. CASE UNCHANGED busVars
    BY <2>7 DEF busVars
  <2> QED BY <1>1, <2>1, <2>2, <2>3, <2>4, <2>5, <2>6, <2>7 DEF BusNext
<1>2. ASSUME BusTypeOK, OneAttempt, [BusNext]_busVars PROVE [Kept]_busVars
  BY <1>1, <1>2
<1> QED BY <1>2, OwnersInit, AttemptsAreExclusive, BusTypes, PTL
        DEF BusSpec, SettledStays

=============================================================================
