-------------------------- MODULE Collaboration_proofs --------------------------
(***************************************************************************)
(* Theorems about Collaboration, for any number of requests, invites and   *)
(* grants: the tables keep to their states; a grant that is over stays     *)
(* over, but for a redeem on a reading that no longer held; a guest is in  *)
(* the session by an answered invite; and stage, grant, pickup and         *)
(* broadcast follow each other, by way of the request that is under way.   *)
(***************************************************************************)
EXTENDS Collaboration, TLAPS

\* What a request's place says of what it holds.
Shape(row) ==
  /\ row.at = "answer" => row.kind \in {"accept", "close"} /\ row.on \in Invites
  /\ row.at \in {"activate", "room", "make", "pick", "undo"} =>
       row.kind = "redeem" /\ row.on \in Grants
  /\ row.at = "pick" => row.cast \in Casts
  /\ row.at = "light" =>
       \/ row.kind = "sync"
       \/ row.kind = "redeem" /\ row.on \in Grants /\ row.cast \in Casts
  /\ row.kind = "sync" => row.at = "light"
Good(row) == row \in Rows /\ Shape(row)

\* A grant may be activated as long as the redeem's reading holds.
Ready(g) == session = "active" /\ guest = "live" /\ Revocable(g)

PickupsMade == \A g \in Grants : pickup[g].state # "none" => pickup[g].cast \in Casts
ListedPickups(row) ==
  row.kind = "sync" \/ row.at \in {"end", "dark"} => \A g \in row.held : pickup[g].state # "none"
\* A row that asks no more of the pickups than that those it ends are there.
Plain(row) == /\ row.kind # "sync" /\ row.at # "activate"
              /\ row.at \in {"end", "dark"} =>
                   \A g \in row.held : pickup[g].state # "none"
Held(row) == row.at = "activate" => row.stale \/ Ready(row.on)

TablesOK ==
  /\ session \in {"active", "ended"}
  /\ guest \in GuestStates
  /\ invite \in [Invites -> InviteStates]
  /\ grant \in [Grants -> GrantStates] /\ marked \subseteq Grants
  /\ pickup \in [Grants -> [state : {"none", "active", "ended"},
                            cast : Casts \cup {"none"}]]
  /\ cast \in [Casts -> {"none", "open", "ended"}]
  /\ late \subseteq Invites \cup Grants
  /\ muddled \subseteq Invites /\ loose \subseteq Grants \cup Casts

TasksOK ==
  /\ task \in [Tasks -> Rows]
  /\ \A t \in Tasks : Shape(task[t]) /\ ListedPickups(task[t]) /\ Held(task[t])

IInv == TablesOK /\ PickupsMade /\ TasksOK

-----------------------------------------------------------------------------
LEMMA Staleness ==
  ASSUME NEW row \in Rows, NEW stale \in BOOLEAN, NEW w,
         row.at = "activate", row.kind = "redeem"
  PROVE  /\ [row EXCEPT !.stale = stale] \in Rows
         /\ Grounds(row, w) <=> /\ w.session = "active" /\ w.guest = "live"
                                /\ w.grant[row.on] \in {"issued", "active"}
  <1>1. row.kind \notin DOMAIN Answer /\ row.kind # "issue" /\ row.at # "light"
    BY DEF Answer
  <1> QED BY <1>1 DEF Grounds, Rows

LEMMA WorldReady ==
  ASSUME NEW g \in Grants
  PROVE  Ready(g) <=> /\ World.session = "active" /\ World.guest = "live"
                      /\ World.grant[g] \in {"issued", "active"}
  BY DEF Ready, World, Revocable

\* A request's step, and the others as they were but for what has gone stale.
LEMMA Assemble ==
  ASSUME IInv, NEW t, NEW row, Goes(t, row), Good(row),
         TablesOK', PickupsMade',
         \A g \in Grants : pickup[g].state # "none" => pickup'[g].state # "none",
         row.kind = "sync" \/ row.at \in {"end", "dark"} =>
           \A g \in row.held : pickup'[g].state # "none",
         row.at = "activate" => row.stale \/ Ready(row.on)'
  PROVE  IInv'
  <1>1. ASSUME NEW u \in Tasks
        PROVE  /\ task'[u] \in Rows
               /\ Shape(task[u])'
               /\ ListedPickups(task[u])'
               /\ Held(task[u])'
    <2>1. CASE u = t
      <3>1. task'[u] = row
        BY <2>1 DEF Goes
      <3> QED BY <3>1 DEF Good, Shape, ListedPickups, Held
    <2>2. CASE u # t
      <3> DEFINE stale == task[u].stale \/ (Grounds(task[u], World) /\ ~Grounds(task[u], World'))
      <3>1. task'[u] = [task[u] EXCEPT !.stale = stale]
        BY <2>2 DEF Goes
      <3>2. task[u] \in Rows /\ Shape(task[u]) /\ ListedPickups(task[u]) /\ Held(task[u])
        BY DEF IInv, TasksOK
      <3>3. stale \in BOOLEAN
        BY <3>2 DEF Rows
      <3> HIDE DEF stale
      <3>4. /\ task'[u] \in Rows
            /\ task'[u].kind = task[u].kind /\ task'[u].at = task[u].at
            /\ task'[u].on = task[u].on /\ task'[u].held = task[u].held
            /\ task'[u].cast = task[u].cast /\ task'[u].stale = stale
        BY <3>1, <3>2, <3>3 DEF Rows
      <3>5. Shape(task[u])'
        BY <3>2, <3>4 DEF Shape
      <3>6. ListedPickups(task[u])'
        BY <3>2, <3>4 DEF ListedPickups, Rows
      <3>7. ASSUME task[u].at = "activate", ~stale
            PROVE  /\ session' = "active" /\ guest' = "live"
                   /\ grant'[task[u].on] \in {"issued", "active"}
        <4>1. task[u].kind = "redeem" /\ task[u].on \in Grants
          BY <3>2, <3>7 DEF Shape
        <4>2. ~task[u].stale /\ (Grounds(task[u], World) => Grounds(task[u], World'))
          BY <3>2, <3>7 DEF stale, Rows
        <4>3. Grounds(task[u], World)
          BY <3>2, <3>7, <4>1, <4>2, WorldReady, Staleness DEF Held, Rows
        <4>4. /\ World'.session = "active" /\ World'.guest = "live"
              /\ World'.grant[task[u].on] \in {"issued", "active"}
          BY <3>2, <3>7, <4>1, <4>2, <4>3, Staleness DEF Rows
        <4> QED BY <4>4 DEF World
      <3>8. Held(task[u])'
        BY <3>4, <3>7 DEF Held, Ready, Revocable
      <3> QED BY <3>4, <3>5, <3>6, <3>8
    <2> QED BY <2>1, <2>2
  <1>2. task' \in [Tasks -> Rows]
    <2>1. task' = [u \in Tasks |-> task'[u]]
      BY DEF Goes
    <2> QED BY <1>1, <2>1
  <1>3. TasksOK'
    BY <1>1, <1>2 DEF TasksOK
  <1> QED BY <1>3 DEF IInv

\* A request that is admitted changes no table.
LEMMA AdmitStep ==
  ASSUME IInv, NEW t \in Tasks, NEW row, Admit(t, row), Good(row),
         row.kind = "sync" \/ row.at \in {"end", "dark"} =>
           \A g \in row.held : pickup[g].state # "none",
         row.at = "activate" => Ready(row.on)
  PROVE  IInv'
  <1>1. Goes(t, row) /\ UNCHANGED <<session, guest, invite, grant, marked, pickup,
                                    cast, late, muddled, loose>>
    BY DEF Admit, tables
  <1>2. TablesOK' /\ PickupsMade'
    BY <1>1 DEF IInv, TablesOK, PickupsMade
  <1>3. row.at = "activate" => row.stale \/ Ready(row.on)'
    BY <1>1 DEF Ready, Revocable
  <1> QED BY <1>1, <1>2, <1>3, Assemble

LEMMA IdleGood == Good(Idle) /\ Plain(Idle) /\ Idle.kind = "none" /\ Idle.at = "none"
  BY DEF Idle, Good, Plain, Shape, Rows, Kinds, Places, GuestStates

LEMMA AnswerTypes ==
  \A kind \in {"accept", "close"} : Answer[kind] \in InviteStates
  BY DEF Answer, InviteStates

LEMMA TransitionTypes ==
  \A state \in {"backstage", "live", "solo", "gone"} : Transitions[state] \subseteq GuestStates
  BY DEF Transitions, GuestStates

LEMMA AfterGood ==
  ASSUME NEW row \in Rows
  PROVE  Good(After(row)) /\ Plain(After(row))
  <1>1. CASE row.kind = "issue"
    BY <1>1 DEF After, Good, Plain, Shape, Rows, Places
  <1>2. CASE row.kind # "issue"
    BY <1>2, IdleGood DEF After, Plain
  <1> QED BY <1>1, <1>2

-----------------------------------------------------------------------------
LEMMA AskSteps ==
  ASSUME IInv, NEW t \in Tasks, HostAsks(t) \/ GuestAsks(t) \/ ServerAsks(t)
  PROVE  IInv'
  <1>0. TablesOK
    BY DEF IInv
  <1>1. ASSUME NEW i \in Invites, NEW kind \in {"accept", "close"},
               Admit(t, [Begin(kind, "answer") EXCEPT !.on = i])
        PROVE  IInv'
    <2>1. Good([Begin(kind, "answer") EXCEPT !.on = i])
      BY DEF Begin, Idle, Good, Plain, Shape, Rows, Kinds, Places, GuestStates
    <2>2. LET row == [Begin(kind, "answer") EXCEPT !.on = i]
          IN  Plain(row)
      BY DEF Begin, Idle, Plain
    <2> QED BY <1>1, <2>1, <2>2, AdmitStep DEF Plain
  <1>2. ASSUME NEW kind \in {"update", "remove"}, NEW seat \in GuestStates,
               Admit(t, [Begin(kind, "seat") EXCEPT !.seat = seat])
        PROVE  IInv'
    <2>1. Good([Begin(kind, "seat") EXCEPT !.seat = seat])
      BY DEF Begin, Idle, Good, Plain, Shape, Rows, Kinds, Places, GuestStates
    <2>2. LET row == [Begin(kind, "seat") EXCEPT !.seat = seat]
          IN  Plain(row)
      BY DEF Begin, Idle, Plain
    <2> QED BY <1>2, <2>1, <2>2, AdmitStep DEF Plain
  <1>3. ASSUME NEW kind \in {"end", "withdraw", "issue"}, NEW at \in {"close", "list"},
               Admit(t, Begin(kind, at))
        PROVE  IInv'
    <2>1. Good(Begin(kind, at)) /\ Plain(Begin(kind, at))
      BY DEF Begin, Idle, Good, Plain, Shape, Rows, Kinds, Places, GuestStates
    <2> QED BY <1>3, <2>1, AdmitStep DEF Plain
  <1>4. ASSUME UpdateParticipant(t) PROVE IInv'
    <2>1. PICK state \in Transitions[guest] :
            Admit(t, [Begin("update", "seat") EXCEPT !.seat = state])
      BY <1>4 DEF UpdateParticipant
    <2>2. guest \in {"backstage", "live", "solo", "gone"}
      BY <1>0, <1>4 DEF UpdateParticipant, TablesOK, GuestStates
    <2> QED BY <1>2, <2>1, <2>2, TransitionTypes
  <1>5. ASSUME SyncPickups(t) PROVE IInv'
    <2> DEFINE active == {g \in Grants : pickup[g].state = "active"}
               row == [Begin("sync", "light") EXCEPT !.held = active]
    <2>1. Admit(t, row)
      BY <1>5 DEF SyncPickups
    <2>2. Good(row) /\ row.held = active /\ row.at \notin {"activate", "end", "dark"}
      BY DEF Begin, Idle, Good, Plain, Shape, Rows, Kinds, Places, GuestStates
    <2>3. \A g \in row.held : pickup[g].state # "none"
      BY <2>2
    <2> HIDE DEF row
    <2> QED BY <2>1, <2>2, <2>3, AdmitStep DEF Plain
  <1>6. ASSUME NEW g \in Grants, RedeemGrant(t, g) PROVE IInv'
    <2> DEFINE row == [Begin("redeem", "activate") EXCEPT !.on = g]
    <2>1. Admit(t, row) /\ Ready(g)
      BY <1>6 DEF RedeemGrant, Ready, MayMirror, Revocable
    <2>2. Good(row) /\ row.on = g /\ row.kind # "sync" /\ row.at \notin {"end", "dark"}
      BY DEF Begin, Idle, Good, Plain, Shape, Rows, Kinds, Places, GuestStates
    <2> HIDE DEF row
    <2> QED BY <2>1, <2>2, AdmitStep DEF Plain
  <1>7. ASSUME ExpireGrants(t) PROVE IInv'
    <2> DEFINE due == {g \in Grants : Revocable(g) /\ g \in late}
               row == [Begin("sweep", "expire") EXCEPT !.held = due]
    <2>1. Admit(t, row)
      BY <1>7 DEF ExpireGrants
    <2>2. Good(row) /\ row.at # "activate" /\ row.kind # "sync" /\ row.at \notin {"end", "dark"}
      BY DEF Begin, Idle, Good, Plain, Shape, Rows, Kinds, Places, GuestStates
    <2> HIDE DEF row
    <2> QED BY <2>1, <2>2, AdmitStep DEF Plain
  <1>8. "gone" \in GuestStates
    BY DEF GuestStates
  <1>9. CASE HostAsks(t)
    BY <1>1, <1>2, <1>3, <1>4, <1>5, <1>8, <1>9 DEF HostAsks, CloseInvite,
       RemoveParticipant, EndSession, RevokeGrants, IssueGrant
  <1>10. CASE GuestAsks(t)
    BY <1>1, <1>2, <1>6, <1>8, <1>10 DEF GuestAsks, AcceptInvite, CloseInvite,
       RemoveParticipant
  <1>11. CASE ServerAsks(t)
    BY <1>1, <1>7, <1>11 DEF ServerAsks, ExpireInvite
  <1> QED BY <1>9, <1>10, <1>11

-----------------------------------------------------------------------------
\* What is known of a request in progress.
LEMMA TaskFacts ==
  ASSUME IInv, NEW t \in Tasks
  PROVE  task[t] \in Rows /\ Shape(task[t]) /\ ListedPickups(task[t]) /\ Held(task[t])
  BY DEF IInv, TasksOK

\* A step that leaves the pickups alone, and its request at no place that matters.
LEMMA PlainStep ==
  ASSUME IInv, NEW t, NEW row, Goes(t, row), Good(row), TablesOK',
         UNCHANGED pickup, Plain(row)
  PROVE  IInv'
  <1>1. PickupsMade'
    BY DEF IInv, PickupsMade
  <1> QED BY <1>1, Assemble DEF Plain

\* At most places a request's row has its types and no more.
LEMMA Moved ==
  ASSUME NEW row \in Rows, row.kind # "sync",
         row.at \in {"look", "join", "seat", "list", "seats", "invites", "revoke",
                    "pickups", "end", "dark", "insert", "expire"},
         row.at \in {"end", "dark"} => \A g \in row.held : pickup[g].state # "none"
  PROVE  Good(row) /\ Plain(row)
  BY DEF Good, Plain, Shape

LEMMA InviteSteps ==
  ASSUME IInv, NEW t \in Tasks,
         AnswerInvite(t) \/ LookForGuest(t) \/ JoinBackstage(t) \/ WriteParticipant(t)
  PROVE  IInv'
  <1>0. TablesOK /\ task[t] \in Rows /\ Shape(task[t])
    BY TaskFacts DEF IInv
  <1>1. CASE AnswerInvite(t)
    <2> DEFINE row == IF task[t].kind = "accept" THEN [task[t] EXCEPT !.at = "look"] ELSE Idle
    <2>1. Goes(t, row)
      BY <1>1 DEF AnswerInvite
    <2>2. Good(row) /\ Plain(row)
      BY <1>0, IdleGood DEF Good, Plain, Shape, Rows, Places
    <2>3. task[t].kind \in {"accept", "close"} /\ task[t].on \in Invites
      BY <1>0, <1>1 DEF AnswerInvite, At, Shape
    <2>4. TablesOK'
      BY <1>0, <1>1, <2>3, AnswerTypes DEF AnswerInvite, TablesOK
    <2>5. UNCHANGED pickup
      BY <1>1 DEF AnswerInvite
    <2> HIDE DEF row
    <2> QED BY <2>1, <2>2, <2>4, <2>5, PlainStep
  <1>2. CASE LookForGuest(t)
    <2> DEFINE row == IF guest \in {"live", "solo"} THEN Idle
                      ELSE [task[t] EXCEPT !.at = "join", !.seat = guest, !.stale = FALSE]
    <2>1. Goes(t, row) /\ UNCHANGED <<tables, muddled, loose>>
      BY <1>2 DEF LookForGuest
    <2>2. Good(row) /\ Plain(row)
      <3>1. task[t].at = "look"
        BY <1>2 DEF LookForGuest, At
      <3> QED BY <1>0, <3>1, IdleGood DEF Good, Plain, Shape, Rows, Places, TablesOK
    <2>3. TablesOK' /\ PickupsMade' /\ UNCHANGED pickup
      BY <1>0, <2>1 DEF TablesOK, tables, IInv, PickupsMade
    <2> HIDE DEF row
    <2> QED BY <2>1, <2>2, <2>3, PlainStep
  <1>3. CASE JoinBackstage(t)
    <2>1. Goes(t, Idle) /\ UNCHANGED pickup
      BY <1>3 DEF JoinBackstage
    <2>2. guest' \in GuestStates /\ loose' \subseteq Grants \cup Casts
      BY <1>0, <1>3 DEF JoinBackstage, TablesOK, GuestStates
    <2>3. TablesOK'
      BY <1>0, <1>3, <2>2 DEF JoinBackstage, TablesOK
    <2> QED BY <2>1, <2>3, IdleGood, PlainStep
  <1>4. CASE WriteParticipant(t)
    <2> DEFINE row == IF task[t].seat = "live" THEN Idle ELSE Begin("withdraw", "list")
    <2>1. Goes(t, row) /\ UNCHANGED pickup
      BY <1>4 DEF WriteParticipant
    <2>2. Good(row) /\ Plain(row)
      BY IdleGood DEF Begin, Idle, Good, Plain, Shape, Rows, Kinds, Places, GuestStates
    <2>3. TablesOK'
      BY <1>0, <1>4 DEF WriteParticipant, TablesOK, Rows
    <2> HIDE DEF row
    <2> QED BY <2>1, <2>2, <2>3, PlainStep
  <1> QED BY <1>1, <1>2, <1>3, <1>4

LEMMA RevokeSteps ==
  ASSUME IInv, NEW t \in Tasks,
         CloseSession(t) \/ ListGrants(t) \/ RevokeListed(t) \/ ListPickups(t)
  PROVE  IInv'
  <1>0. TablesOK /\ task[t] \in Rows /\ Shape(task[t])
    BY TaskFacts DEF IInv
  <1>1. CASE CloseSession(t)
    <2>1. PICK row : /\ Goes(t, row)
                     /\ \/ row = [task[t] EXCEPT !.at = "seats"]
                        \/ row = [task[t] EXCEPT !.at = "invites"]
                        \/ row = Begin("withdraw", "list")
      BY <1>1 DEF CloseSession
    <2>2. task[t].kind # "sync"
      <3>1. ~(task[t].at = "light")
        BY <1>1 DEF CloseSession, At
      <3> QED BY <1>0, <3>1 DEF Shape
    <2>3. row \in Rows /\ row.kind # "sync" /\ row.at \in {"seats", "invites", "list"}
      <3>1. CASE row = [task[t] EXCEPT !.at = "seats"]
        BY <1>0, <2>2, <3>1 DEF Rows, Places
      <3>2. CASE row = [task[t] EXCEPT !.at = "invites"]
        BY <1>0, <2>2, <3>2 DEF Rows, Places
      <3>3. CASE row = Begin("withdraw", "list")
        BY <3>3 DEF Begin, Idle, Rows, Kinds, Places, GuestStates
      <3> QED BY <2>1, <3>1, <3>2, <3>3
    <2>4. TablesOK' /\ UNCHANGED pickup
      BY <1>0, <1>1 DEF CloseSession, TablesOK, GuestStates, InviteStates
    <2> QED BY <2>1, <2>3, <2>4, Moved, PlainStep
  <1>2. CASE ListGrants(t)
    <2> DEFINE open == {g \in Grants : Revocable(g)}
               row == IF open = {} THEN After(task[t])
                      ELSE [task[t] EXCEPT !.at = "revoke", !.held = open]
    <2>1. Goes(t, row) /\ UNCHANGED <<tables, muddled, loose>>
      BY <1>2 DEF ListGrants
    <2>2. task[t].kind # "sync"
      <3>1. ~(task[t].at = "light")
        BY <1>2 DEF ListGrants, At
      <3> QED BY <1>0, <3>1 DEF Shape
    <2>3. Good(row) /\ Plain(row)
      <3>1. CASE open = {}
        BY <1>0, <3>1, AfterGood
      <3>2. CASE ~(open = {})
        <4>1. open \in SUBSET Grants
          BY <1>0 DEF Rows
        <4> HIDE DEF open
        <4>2. /\ row \in Rows /\ row.kind # "sync" /\ row.at = "revoke"
              /\ row.held = open
          BY <1>0, <2>2, <3>2, <4>1 DEF Rows, Places
        <4> HIDE DEF row
        <4> QED BY <4>2, Moved
      <3> QED BY <3>1, <3>2
    <2>4. TablesOK' /\ UNCHANGED pickup
      BY <1>0, <2>1 DEF tables, TablesOK
    <2> HIDE DEF row
    <2> QED BY <2>1, <2>3, <2>4, PlainStep
  <1>3. CASE RevokeListed(t)
    <2> DEFINE row == [task[t] EXCEPT !.at = "pickups"]
    <2>1. Goes(t, row) /\ UNCHANGED pickup
      BY <1>3 DEF RevokeListed
    <2>2. task[t].kind # "sync"
      <3>1. ~(task[t].at = "light")
        BY <1>3 DEF RevokeListed, At
      <3> QED BY <1>0, <3>1 DEF Shape
    <2>3. row \in Rows /\ row.kind # "sync" /\ row.at = "pickups"
      BY <1>0, <2>2 DEF Rows, Places
    <2>4. TablesOK'
      BY <1>0, <1>3 DEF RevokeListed, TablesOK, GrantStates
    <2> HIDE DEF row
    <2> QED BY <2>1, <2>3, <2>4, Moved, PlainStep
  <1>4. CASE ListPickups(t)
    <2> DEFINE active == {g \in task[t].held :
                            /\ pickup[g].state = "active"
                            /\ task[t].kind = "sweep" => grant[g] = "over"}
               row == IF active = {} THEN After(task[t])
                      ELSE [task[t] EXCEPT !.at = "end", !.held = active, !.stamped = {}]
    <2>1. Goes(t, row) /\ UNCHANGED <<tables, muddled, loose>>
      BY <1>4 DEF ListPickups
    <2>2. task[t].kind # "sync"
      <3>1. ~(task[t].at = "light")
        BY <1>4 DEF ListPickups, At
      <3> QED BY <1>0, <3>1 DEF Shape
    <2>3. Good(row) /\ Plain(row)
      <3>1. CASE active = {}
        BY <1>0, <3>1, AfterGood
      <3>2. CASE ~(active = {})
        <4>1. active \in SUBSET Grants
          BY <1>0 DEF Rows
        <4> HIDE DEF active
        <4>2. /\ row \in Rows /\ row.kind # "sync" /\ row.at = "end"
              /\ row.held = active
          BY <1>0, <2>2, <3>2, <4>1 DEF Rows, Places
        <4> HIDE DEF row
        <4>3. \A g \in active : pickup[g].state # "none"
          BY DEF active
        <4> QED BY <4>2, <4>3, Moved
      <3> QED BY <3>1, <3>2
    <2>4. TablesOK' /\ UNCHANGED pickup
      BY <1>0, <2>1 DEF tables, TablesOK
    <2> HIDE DEF row
    <2> QED BY <2>1, <2>3, <2>4, PlainStep
  <1> QED BY <1>1, <1>2, <1>3, <1>4

LEMMA DarkSteps ==
  ASSUME IInv, NEW t \in Tasks, EndPickup(t) \/ EndCast(t) \/ ExpireGrant(t)
  PROVE  IInv'
  <1>0. TablesOK /\ PickupsMade /\ task[t] \in Rows /\ Shape(task[t])
    BY TaskFacts DEF IInv
  <1>1. CASE EndPickup(t)
    <2>1. PICK g \in task[t].held :
            /\ At(t, "end")
            /\ pickup' = [pickup EXCEPT ![g].state = "ended"]
            /\ UNCHANGED <<session, guest, invite, grant, marked, cast, late, muddled, loose>>
            /\ Goes(t, [task[t] EXCEPT !.at = "dark", !.on = g])
      BY <1>1 DEF EndPickup
    <2> DEFINE row == [task[t] EXCEPT !.at = "dark", !.on = g]
    <2>2. g \in Grants /\ task[t].kind # "sync" /\ pickup[g].state # "none"
      BY <1>0, <2>1, TaskFacts DEF At, Shape, Rows, ListedPickups
    <2>3. /\ row \in Rows /\ row.kind # "sync" /\ row.at = "dark"
          /\ row.held = task[t].held
      BY <1>0, <2>2 DEF Rows, Places
    <2>4. TablesOK'
      BY <1>0, <2>1, <2>2 DEF TablesOK
    <2>5. PickupsMade' /\ \A h \in Grants : pickup[h].state # "none" => pickup'[h].state # "none"
      <3>1. \A h \in Grants : h # g => pickup'[h] = pickup[h]
        BY <2>1, <2>2, <1>0 DEF TablesOK
      <3>2. pickup'[g].state = "ended" /\ pickup'[g].cast = pickup[g].cast
        BY <2>1, <2>2, <1>0 DEF TablesOK
      <3> QED BY <1>0, <2>2, <3>1, <3>2 DEF PickupsMade
    <2>8. Goes(t, row)
      BY <2>1
    <2> HIDE DEF row
    <2>6. \A h \in row.held : pickup[h].state # "none" /\ h \in Grants
      BY <1>0, <2>1, <2>3, TaskFacts DEF At, ListedPickups, Rows
    <2>7. Good(row)
      BY <2>3 DEF Good, Shape
    <2>9. \A h \in row.held : pickup'[h].state # "none"
      BY <2>5, <2>6
    <2> QED BY <2>3, <2>4, <2>5, <2>7, <2>8, <2>9, Assemble
  <1>2. CASE EndCast(t)
    <2> DEFINE rest == task[t].held \ {task[t].on}
               row == IF rest = {} THEN After(task[t])
                      ELSE [task[t] EXCEPT !.at = "end", !.held = rest]
    <2>1. Goes(t, row) /\ UNCHANGED pickup
      BY <1>2 DEF EndCast
    <2>2. task[t].kind # "sync"
      <3>1. ~(task[t].at = "light")
        BY <1>2 DEF EndCast, At
      <3> QED BY <1>0, <3>1 DEF Shape
    <2>3. Good(row) /\ Plain(row)
      <3>1. CASE rest = {}
        BY <1>0, <3>1, AfterGood
      <3>2. CASE ~(rest = {})
        <4>1. rest \in SUBSET Grants
          BY <1>0 DEF Rows
        <4> HIDE DEF rest
        <4>2. /\ row \in Rows /\ row.kind # "sync" /\ row.at = "end"
              /\ row.held = rest
          BY <1>0, <2>2, <3>2, <4>1 DEF Rows, Places
        <4> HIDE DEF row
        <4>3. task[t].at = "dark" /\ rest \subseteq task[t].held
          BY <1>2 DEF EndCast, At, rest
        <4>4. \A g \in rest : pickup[g].state # "none"
          BY <1>0, <4>3, TaskFacts DEF ListedPickups, Rows
        <4> QED BY <4>2, <4>4, Moved
      <3> QED BY <3>1, <3>2
    <2>4. TablesOK'
      BY <1>0, <1>2 DEF EndCast, TablesOK
    <2> HIDE DEF row
    <2> QED BY <2>1, <2>3, <2>4, PlainStep
  <1>3. CASE ExpireGrant(t)
    <2>1. PICK g \in task[t].held :
            /\ At(t, "expire")
            /\ grant' = [grant EXCEPT ![g] = "over"]
            /\ marked' = marked \cup {g}
            /\ UNCHANGED <<session, guest, invite, pickup, cast, late, muddled, loose>>
            /\ \E row : /\ Goes(t, row)
                        /\ \/ row = [task[t] EXCEPT !.held = @ \ {g},
                                        !.stamped = @ \cup ({g} \ marked)]
                           \/ row = [task[t] EXCEPT !.at = "pickups",
                                        !.held = task[t].stamped \cup ({g} \ marked),
                                        !.stamped = @ \cup ({g} \ marked)]
      BY <1>3 DEF ExpireGrant
    <2>2. PICK row : /\ Goes(t, row)
                     /\ \/ row = [task[t] EXCEPT !.held = @ \ {g},
                                     !.stamped = @ \cup ({g} \ marked)]
                        \/ row = [task[t] EXCEPT !.at = "pickups",
                                     !.held = task[t].stamped \cup ({g} \ marked),
                                     !.stamped = @ \cup ({g} \ marked)]
      BY <2>1
    <2>3. g \in Grants /\ task[t].kind # "sync" /\ task[t].at = "expire"
      BY <1>0, <2>1 DEF At, Shape, Rows
    <2>4. row \in Rows /\ row.kind # "sync" /\ row.at \in {"expire", "pickups"}
      <3> DEFINE held == task[t].held \ {g}
                 stamped == task[t].stamped \cup ({g} \ marked)
      <3>1. held \in SUBSET Grants /\ stamped \in SUBSET Grants
        BY <1>0, <2>3 DEF Rows
      <3>2. \/ row = [task[t] EXCEPT !.held = held, !.stamped = stamped]
            \/ row = [task[t] EXCEPT !.at = "pickups", !.held = stamped, !.stamped = stamped]
        BY <2>2
      <3> HIDE DEF held, stamped
      <3>3. CASE row = [task[t] EXCEPT !.held = held, !.stamped = stamped]
        BY <1>0, <2>3, <3>1, <3>3 DEF Rows, Places
      <3>4. CASE row = [task[t] EXCEPT !.at = "pickups", !.held = stamped, !.stamped = stamped]
        BY <1>0, <2>3, <3>1, <3>4 DEF Rows, Places
      <3> QED BY <3>2, <3>3, <3>4
    <2>5. TablesOK'
      BY <1>0, <2>1, <2>3 DEF TablesOK, GrantStates
    <2> QED BY <2>1, <2>2, <2>4, <2>5, Moved, PlainStep
  <1> QED BY <1>1, <1>2, <1>3

\* A redeem's row at its later places.
LEMMA Redeeming ==
  ASSUME NEW row \in Rows, row.kind = "redeem", row.on \in Grants,
         row.at \in {"room", "make", "undo"} \/ (row.at \in {"pick", "light"} /\ row.cast \in Casts)
  PROVE  Good(row) /\ Plain(row)
  BY DEF Good, Plain, Shape

LEMMA RedeemSteps ==
  ASSUME IInv, NEW t \in Tasks,
         \/ InsertGrant(t) \/ ActivateGrant(t) \/ LookForRoom(t) \/ MakeCast(t)
         \/ PickUp(t)
  PROVE  IInv'
  <1>0. TablesOK /\ PickupsMade /\ task[t] \in Rows /\ Shape(task[t])
    BY TaskFacts DEF IInv
  <1>1. CASE InsertGrant(t)
    <2>1. Goes(t, Idle) /\ UNCHANGED pickup
      BY <1>1 DEF InsertGrant
    <2>2. grant' \in [Grants -> GrantStates] /\ loose' \subseteq Grants \cup Casts
      BY <1>0, <1>1 DEF InsertGrant, TablesOK, GrantStates
    <2>3. TablesOK'
      BY <1>0, <1>1, <2>2 DEF InsertGrant, TablesOK
    <2> QED BY <2>1, <2>3, IdleGood, PlainStep
  <1>2. CASE ActivateGrant(t)
    <2> DEFINE row == [task[t] EXCEPT !.at = "room"]
    <2>1. Goes(t, row) /\ UNCHANGED pickup
      BY <1>2 DEF ActivateGrant
    <2>2. task[t].kind = "redeem" /\ task[t].on \in Grants
      <3>1. task[t].at = "activate"
        BY <1>2 DEF ActivateGrant, At
      <3> QED BY <1>0, <3>1 DEF Shape
    <2>3. row \in Rows /\ row.kind = "redeem" /\ row.on \in Grants /\ row.at = "room"
      BY <1>0, <2>2 DEF Rows, Places
    <2>4. TablesOK'
      BY <1>0, <1>2, <2>2 DEF ActivateGrant, TablesOK, GrantStates
    <2> HIDE DEF row
    <2> QED BY <2>1, <2>3, <2>4, Redeeming, PlainStep
  <1>3. CASE LookForRoom(t)
    <2>1. PICK found \in {"make", "undo"} :
            /\ At(t, "room") /\ UNCHANGED <<tables, muddled, loose>>
            /\ Goes(t, [task[t] EXCEPT !.at = found])
      BY <1>3 DEF LookForRoom
    <2> DEFINE row == [task[t] EXCEPT !.at = found]
    <2>2. task[t].kind = "redeem" /\ task[t].on \in Grants
      BY <1>0, <2>1 DEF Shape, At
    <2>3. row \in Rows /\ row.kind = "redeem" /\ row.on \in Grants /\ row.at \in {"make", "undo"}
      BY <1>0, <2>2 DEF Rows, Places
    <2>4. TablesOK' /\ UNCHANGED pickup
      BY <1>0, <2>1 DEF tables, TablesOK
    <2>5. Goes(t, row)
      BY <2>1
    <2> HIDE DEF row
    <2> QED BY <2>3, <2>4, <2>5, Redeeming, PlainStep
  <1>4. CASE MakeCast(t)
    <2>1. PICK c \in Casts :
            /\ At(t, "make") /\ cast[c] = "none"
            /\ cast' = [cast EXCEPT ![c] = "open"]
            /\ UNCHANGED <<session, guest, invite, grant, marked, pickup, late, muddled, loose>>
            /\ Goes(t, [task[t] EXCEPT !.at = "pick", !.cast = c])
      BY <1>4 DEF MakeCast
    <2> DEFINE row == [task[t] EXCEPT !.at = "pick", !.cast = c]
    <2>2. task[t].kind = "redeem" /\ task[t].on \in Grants
      BY <1>0, <2>1 DEF Shape, At
    <2>3. /\ row \in Rows /\ row.kind = "redeem" /\ row.on \in Grants
          /\ row.at = "pick" /\ row.cast \in Casts
      BY <1>0, <2>2 DEF Rows, Places
    <2>4. TablesOK'
      BY <1>0, <2>1 DEF TablesOK
    <2>5. Goes(t, row)
      BY <2>1
    <2> HIDE DEF row
    <2> QED BY <2>1, <2>3, <2>4, <2>5, Redeeming, PlainStep
  <1>5. CASE PickUp(t)
    <2> DEFINE first == pickup[task[t].on].state = "none"
               row == [task[t] EXCEPT !.at = IF first THEN "light" ELSE "undo"]
    <2>1. Goes(t, row)
      BY <1>5 DEF PickUp
    <2>2. task[t].kind = "redeem" /\ task[t].on \in Grants /\ task[t].cast \in Casts
      <3>1. task[t].at = "pick"
        BY <1>5 DEF PickUp, At
      <3> QED BY <1>0, <3>1 DEF Shape
    <2>3. /\ row \in Rows /\ row.kind = "redeem" /\ row.on \in Grants
          /\ row.at \in {"light", "undo"} /\ row.cast \in Casts
      BY <1>0, <2>2 DEF Rows, Places
    <2> HIDE DEF row
    <2>4. /\ pickup' \in [Grants -> [state : {"none", "active", "ended"},
                                     cast : Casts \cup {"none"}]]
          /\ \A g \in Grants :
               \/ pickup'[g] = pickup[g]
               \/ pickup'[g].state = "active" /\ pickup'[g].cast \in Casts
      <3>1. CASE first
        <4> DEFINE made == [state |-> "active", cast |-> task[t].cast]
        <4>1. pickup' = [pickup EXCEPT ![task[t].on] = made]
          BY <1>5, <3>1 DEF PickUp
        <4>2. /\ made \in [state : {"none", "active", "ended"}, cast : Casts \cup {"none"}]
              /\ made.state = "active" /\ made.cast \in Casts
          BY <2>2
        <4> HIDE DEF made
        <4> QED BY <1>0, <4>1, <4>2 DEF TablesOK
      <3>2. CASE ~first
        <4>1. pickup' = pickup
          BY <1>5, <3>2 DEF PickUp
        <4> QED BY <1>0, <4>1 DEF TablesOK
      <3> QED BY <3>1, <3>2
    <2>5. PickupsMade' /\ \A g \in Grants : pickup[g].state # "none" => pickup'[g].state # "none"
      BY <1>0, <2>4 DEF PickupsMade
    <2>6. loose' \subseteq Grants \cup Casts
      BY <1>0, <1>5, <2>2 DEF PickUp, TablesOK
    <2>7. TablesOK'
      BY <1>0, <1>5, <2>4, <2>6 DEF PickUp, TablesOK
    <2>8. Good(row) /\ Plain(row)
      BY <2>3, Redeeming
    <2> QED BY <2>1, <2>3, <2>5, <2>7, <2>8, Assemble
  <1> QED BY <1>1, <1>2, <1>3, <1>4, <1>5

LEMMA LightSteps ==
  ASSUME IInv, NEW t \in Tasks, LightCast(t) \/ UndoRedeem(t) \/ SyncCast(t)
  PROVE  IInv'
  <1>0. TablesOK /\ PickupsMade /\ task[t] \in Rows /\ Shape(task[t])
    BY TaskFacts DEF IInv
  <1>1. CASE LightCast(t)
    <2>1. Goes(t, Idle) /\ UNCHANGED pickup
      BY <1>1 DEF LightCast
    <2>2. task[t].cast \in Casts
      <3>1. task[t].at = "light" /\ task[t].kind = "redeem"
        BY <1>1 DEF LightCast, At
      <3> QED BY <1>0, <3>1 DEF Shape
    <2>3. TablesOK'
      BY <1>0, <1>1, <2>2 DEF LightCast, TablesOK
    <2> QED BY <2>1, <2>3, IdleGood, PlainStep
  <1>2. CASE UndoRedeem(t)
    <2> DEFINE row == [task[t] EXCEPT !.at = "pickups", !.held = {task[t].on}]
    <2>1. Goes(t, row) /\ UNCHANGED pickup
      BY <1>2 DEF UndoRedeem
    <2>2. task[t].kind = "redeem" /\ task[t].on \in Grants
      <3>1. task[t].at = "undo"
        BY <1>2 DEF UndoRedeem, At
      <3> QED BY <1>0, <3>1 DEF Shape
    <2>3. row \in Rows /\ row.kind # "sync" /\ row.at = "pickups"
      BY <1>0, <2>2 DEF Rows, Places
    <2>4. TablesOK'
      BY <1>0, <1>2, <2>2 DEF UndoRedeem, TablesOK, GrantStates
    <2> HIDE DEF row
    <2> QED BY <2>1, <2>3, <2>4, Moved, PlainStep
  <1>3. CASE SyncCast(t)
    <2>1. PICK g \in task[t].held :
            /\ At(t, "light") /\ task[t].kind = "sync"
            /\ cast' = [cast EXCEPT ![pickup[g].cast] = "open"]
            /\ loose' = IF task[t].stale THEN loose \cup {pickup[g].cast} ELSE loose
            /\ UNCHANGED <<session, guest, invite, grant, marked, pickup, late, muddled>>
            /\ Goes(t, IF task[t].held \ {g} = {} THEN Idle
                       ELSE [task[t] EXCEPT !.held = task[t].held \ {g}])
      BY <1>3 DEF SyncCast
    <2> DEFINE rest == task[t].held \ {g}
               row == IF rest = {} THEN Idle ELSE [task[t] EXCEPT !.held = rest]
    <2>2. /\ task[t].held \subseteq Grants
          /\ \A h \in task[t].held : pickup[h].state # "none" /\ pickup[h].cast \in Casts
      BY <1>0, <2>1, TaskFacts DEF ListedPickups, PickupsMade, Rows
    <2>3. TablesOK'
      BY <1>0, <2>1, <2>2 DEF TablesOK
    <2>4. Good(row) /\ row.at # "activate" /\ row.held \subseteq task[t].held
      <3>1. CASE rest = {}
        BY <3>1, IdleGood DEF Idle
      <3>2. CASE rest # {}
        <4>1. rest \in SUBSET Grants
          BY <2>2
        <4>2. /\ row \in Rows /\ row.kind = "sync" /\ row.at = "light" /\ row.held = rest
          <5> HIDE DEF rest
          <5> QED BY <1>0, <2>1, <3>2, <4>1 DEF Rows, At
        <4> QED BY <4>2 DEF Good, Shape
      <3> QED BY <3>1, <3>2
    <2>5. PickupsMade' /\ UNCHANGED pickup
      BY <1>0, <2>1 DEF PickupsMade
    <2>6. Goes(t, row)
      BY <2>1
    <2> HIDE DEF row
    <2> QED BY <2>2, <2>3, <2>4, <2>5, <2>6, Assemble
  <1> QED BY <1>1, <1>2, <1>3

-----------------------------------------------------------------------------
LEMMA Start == Init => IInv
  <1> SUFFICES ASSUME Init PROVE IInv
    OBVIOUS
  <1>1. TablesOK /\ PickupsMade
    BY DEF Init, TablesOK, PickupsMade, GuestStates, InviteStates, GrantStates
  <1>2. \A t \in Tasks : task[t] = Idle
    BY DEF Init
  <1>3. TasksOK
    BY <1>2, IdleGood DEF Init, TasksOK, Good, ListedPickups, Held
  <1> QED BY <1>1, <1>3 DEF IInv

LEMMA Keeps == IInv /\ [Next]_vars => IInv'
  <1> SUFFICES ASSUME IInv, [Next]_vars PROVE IInv'
    OBVIOUS
  <1>0. TablesOK
    BY DEF IInv
  <1>1. ASSUME NEW i \in Invites, CreateInvite(i) PROVE IInv'
    <2>1. Goes("none", Idle) /\ UNCHANGED pickup
      BY <1>1 DEF CreateInvite
    <2>2. TablesOK'
      BY <1>0, <1>1 DEF CreateInvite, TablesOK, InviteStates
    <2> QED BY <2>1, <2>2, IdleGood, PlainStep
  <1>2. ASSUME Lapse PROVE IInv'
    <2>1. /\ UNCHANGED <<session, guest, invite, grant, marked, pickup, cast, task,
                         muddled, loose>>
          /\ late' \subseteq Invites \cup Grants
      BY <1>0, <1>2 DEF Lapse, TablesOK
    <2> QED BY <2>1 DEF IInv, TablesOK, PickupsMade, TasksOK, Shape, ListedPickups,
                        Held, Ready, Revocable
  <1>3. ASSUME NEW t \in Tasks, CutShort(t) PROVE IInv'
    <2>1. Goes(t, Idle) /\ UNCHANGED <<tables, muddled>>
      BY <1>3 DEF CutShort
    <2>2. TablesOK' /\ UNCHANGED pickup
      BY <1>0, <1>3 DEF CutShort, tables, TablesOK
    <2> QED BY <2>1, <2>2, IdleGood, PlainStep
  <1>4. ASSUME NEW t \in Tasks, Work(t) PROVE IInv'
    BY <1>4, InviteSteps, RevokeSteps, DarkSteps, RedeemSteps, LightSteps DEF Work
  <1>5. CASE UNCHANGED vars
    BY <1>5 DEF vars, IInv, TablesOK, PickupsMade, TasksOK, Shape, ListedPickups,
                Held, Ready, Revocable
  <1> QED BY <1>1, <1>2, <1>3, <1>4, <1>5, AskSteps DEF Next, Tasks

LEMMA Invariant == Spec => []IInv
  <1> QED BY Start, Keeps, PTL DEF Spec

\* Every table keeps to the states its CHECK constraint or its code names, and a
\* request in progress to the places of its handler, with the rows it goes by.
THEOREM TypeCorrect == Spec => []TypeOK
  <1>1. IInv => TypeOK
    BY DEF IInv, TablesOK, TasksOK, TypeOK
  <1> QED BY <1>1, Invariant, PTL

\* For any number of requests and grants: only the redeem that wrote on a reading
\* that no longer held opens a grant that was revoked or had expired.
THEOREM OverStays == Spec => OverStaysOver
  <1> DEFINE Closed == \A g \in Grants : (grant[g] = "over" /\ grant'[g] # "over") => g \in loose'
  <1>1. IInv /\ [Next]_vars => [Closed]_vars
    <2> SUFFICES ASSUME IInv, [Next]_vars, NEW g \in Grants,
                        grant[g] = "over", grant'[g] # "over"
                 PROVE  g \in loose'
      OBVIOUS
    <2>0. TablesOK
      BY DEF IInv
    <2>1. PICK t \in Tasks : InsertGrant(t) \/ ActivateGrant(t) \/ UndoRedeem(t)
                            \/ RevokeListed(t) \/ ExpireGrant(t)
      <3>1. UNCHANGED vars => grant' = grant
        BY DEF vars
      <3>2. \A i \in Invites : CreateInvite(i) => grant' = grant
        BY DEF CreateInvite
      <3>3. Lapse => grant' = grant
        BY DEF Lapse
      <3>4. ASSUME NEW t, NEW row, Admit(t, row) PROVE grant' = grant
        BY <3>4 DEF Admit, tables
      <3>5. ASSUME NEW t, HostAsks(t) \/ GuestAsks(t) \/ ServerAsks(t) PROVE grant' = grant
        BY <3>4, <3>5 DEF HostAsks, GuestAsks, ServerAsks, CloseInvite, AcceptInvite,
           ExpireInvite, UpdateParticipant, RemoveParticipant, EndSession, RevokeGrants,
           IssueGrant, SyncPickups, RedeemGrant, ExpireGrants
      <3>6. ASSUME NEW t, Work(t), grant' # grant
            PROVE  InsertGrant(t) \/ ActivateGrant(t) \/ UndoRedeem(t)
                   \/ RevokeListed(t) \/ ExpireGrant(t)
        BY <3>6 DEF Work, AnswerInvite, LookForGuest, JoinBackstage, WriteParticipant,
           CloseSession, ListGrants, ListPickups, EndPickup, EndCast, LookForRoom,
           MakeCast, PickUp, LightCast, SyncCast, tables
      <3>7. ASSUME NEW t, CutShort(t) PROVE grant' = grant
        BY <3>7 DEF CutShort, tables
      <3> QED BY <3>1, <3>2, <3>3, <3>5, <3>6, <3>7 DEF Next
    <2>2. CASE InsertGrant(t)
      BY <2>0, <2>2 DEF InsertGrant, TablesOK
    <2>3. CASE ActivateGrant(t)
      <3>1. task[t].at = "activate" /\ grant' = [grant EXCEPT ![task[t].on] = "active"]
            /\ (task[t].stale => task[t].on \in loose')
        BY <2>3 DEF ActivateGrant, At
      <3>2. g = task[t].on
        BY <2>0, <3>1 DEF TablesOK
      <3>3. task[t].stale
        BY <3>1, <3>2, TaskFacts DEF Held, Ready, Revocable
      <3> QED BY <3>1, <3>2, <3>3
    <2>4. CASE UndoRedeem(t)
      BY <2>0, <2>4 DEF UndoRedeem, TablesOK
    <2>5. CASE RevokeListed(t)
      BY <2>0, <2>5 DEF RevokeListed, TablesOK
    <2>6. CASE ExpireGrant(t)
      BY <2>0, <2>6 DEF ExpireGrant, TablesOK
    <2> QED BY <2>1, <2>2, <2>3, <2>4, <2>5, <2>6
  <1> QED BY <1>1, Invariant, PTL DEF Spec, OverStaysOver
-----------------------------------------------------------------------------
(* Seat, grant, pickup and broadcast follow each other.  None of the four  *)
(* invariants is inductive: each must say where the request is that will   *)
(* put right what another one has changed, and that a request which has    *)
(* not gone stale still finds what it read.                                *)

Answered(i) == invite[i] = "accepted" \/ i \in muddled
Redeems == {"activate", "room", "make", "pick", "light"}
\* What a request that has not gone stale may rely on.
Grounded(row) ==
  /\ row.at = "answer" => invite[row.on] \in {"pending", Answer[row.kind]}
  /\ row.at = "join" => guest \notin {"live", "solo"}
  /\ row.kind = "issue" => MayMirror
  /\ row.kind = "redeem" /\ row.at \in Redeems => MayMirror /\ Revocable(row.on)
  /\ row.kind = "redeem" /\ row.at = "light" => pickup[row.on].state = "active"
  /\ row.kind = "sync" => \A g \in row.held : pickup[g].state = "active"
Fresh(row) == row.stale \/ Grounded(row)
\* What a request's place says of the tables, stale or not.
Story(row) ==
  /\ row.at \in {"look", "join"} => row.kind = "accept" /\ row.on \in Invites /\ Answered(row.on)
  /\ row.at = "seat" => guest # "none" /\ row.seat # "none"
  /\ row.at \in Redeems \cup {"undo"} /\ row.kind = "redeem" => grant[row.on] # "none"
  /\ row.at = "expire" => \A g \in row.held : grant[g] # "none"
  /\ row.at = "dark" => row.on \in row.held /\ pickup[row.on].state = "ended"
  /\ row.at = "light" /\ row.kind = "redeem" =>
       pickup[row.on].state # "none" /\ pickup[row.on].cast = row.cast
  /\ row.at \in {"close", "seats", "invites"} => row.kind = "end"
  /\ row.at = "insert" => row.kind = "issue"
  /\ row.kind = "issue" => row.at \in {"list", "revoke", "pickups", "end", "dark", "insert"}
Tasked == \A t \in Tasks : Story(task[t]) /\ Fresh(task[t])

\* A taken seat has an answered invite, and a pickup a grant.
Seated == guest # "none" => \E i \in Invites : Answered(i)
Marks == /\ \A g \in Grants : pickup[g].state # "none" => grant[g] # "none"
         /\ \A g \in Grants : pickup[g].state = "none" => pickup[g].cast = "none"
         /\ \A g \in Grants : g \in marked /\ g \notin loose => grant[g] = "over"

\* A request that will revoke g, that will end its pickup, and that has ended it
\* and not yet its broadcast.
Revokes(row, g) == \/ row.at \in {"seats", "invites", "list"} /\ row.kind # "issue"
                   \/ row.at \in {"revoke", "expire"} /\ g \in row.held
Takes(row, g) == \/ row.at \in {"revoke", "pickups", "end", "dark"} /\ g \in row.held
                 \/ row.at = "expire" /\ g \in row.stamped
Darkens(row, g) == row.at = "dark" /\ row.on = g
\* Grants follow the stage, pickups their grants and broadcasts their pickups,
\* or a request is on its way to see to it.
Stage == \A g \in Grants \ loose :
           Revocable(g) => MayMirror \/ \E t \in Tasks : Revokes(task[t], g)
Picked == \A g \in Grants \ loose :
            pickup[g].state = "active" => Revocable(g) \/ \E t \in Tasks : Takes(task[t], g)
Mirrors(g, c) == /\ pickup[g].cast = c
                 /\ \/ pickup[g].state = "active" \/ g \in loose
                    \/ \E t \in Tasks : Darkens(task[t], g)
Dark == \A c \in Casts \ loose : cast[c] = "open" =>
          \/ \E g \in Grants : Mirrors(g, c)
          \/ \E t \in Tasks : task[t].at = "pick" /\ task[t].cast = c
DInv == Tasked /\ Seated /\ Marks /\ Stage /\ Picked /\ Dark

-----------------------------------------------------------------------------
\* What no step undoes.
Onward ==
  /\ loose \subseteq loose'
  /\ \A i \in Invites : Answered(i) => Answered(i)'
  /\ guest # "none" => guest' # "none"
  /\ \A g \in Grants : grant[g] # "none" => grant'[g] # "none"
  /\ \A g \in Grants : pickup[g].state # "none" =>
       /\ pickup'[g].state # "none" /\ pickup'[g].cast = pickup[g].cast
       /\ pickup[g].state = "ended" => pickup'[g].state = "ended"

\* Grounds, kind by kind.
LEMMA GroundsMean ==
  ASSUME NEW row \in Rows, NEW w
  PROVE  /\ row.kind \in {"accept", "close"} /\ row.at = "answer" =>
              (Grounds(row, w) <=> w.invite[row.on] \in {"pending", Answer[row.kind]})
         /\ row.kind \in {"accept", "close"} /\ row.at # "answer" =>
              (Grounds(row, w) <=> w.guest \notin {"live", "solo"})
         /\ row.kind = "issue" =>
              (Grounds(row, w) <=> w.session = "active" /\ w.guest = "live")
         /\ row.kind = "redeem" =>
              (Grounds(row, w) <=> /\ w.session = "active" /\ w.guest = "live"
                                   /\ w.grant[row.on] \in {"issued", "active"}
                                   /\ row.at = "light" => w.pickup[row.on].state = "active")
         /\ row.kind = "sync" =>
              (Grounds(row, w) <=> \A g \in row.held : w.pickup[g].state = "active")
  <1>1. DOMAIN Answer = {"accept", "close"}
    BY DEF Answer
  <1> QED BY <1>1 DEF Grounds

\* The other requests keep their rows, but for what goes stale.
LEMMA Others ==
  ASSUME IInv, NEW t, NEW row, Goes(t, row), NEW u \in Tasks, u # t
  PROVE  /\ task'[u].kind = task[u].kind /\ task'[u].at = task[u].at
         /\ task'[u].on = task[u].on /\ task'[u].seat = task[u].seat
         /\ task'[u].held = task[u].held /\ task'[u].stamped = task[u].stamped
         /\ task'[u].cast = task[u].cast
         /\ task'[u].stale = (task[u].stale \/ (Grounds(task[u], World) /\ ~Grounds(task[u], World')))
  <1> DEFINE stale == task[u].stale \/ (Grounds(task[u], World) /\ ~Grounds(task[u], World'))
  <1>1. task'[u] = [task[u] EXCEPT !.stale = stale]
    BY DEF Goes
  <1>2. task[u] \in Rows
    BY TaskFacts
  <1> HIDE DEF stale
  <1>3. /\ task'[u].kind = task[u].kind /\ task'[u].at = task[u].at
        /\ task'[u].on = task[u].on /\ task'[u].seat = task[u].seat
        /\ task'[u].held = task[u].held /\ task'[u].stamped = task[u].stamped
        /\ task'[u].cast = task[u].cast /\ task'[u].stale = stale
    BY <1>1, <1>2 DEF Rows
  <1> QED BY <1>3 DEF stale

LEMMA Mine ==
  ASSUME NEW t \in Tasks, NEW row, Goes(t, row)
  PROVE  task'[t] = row
  BY DEF Goes

\* Whoever has not gone stale still finds what it read.
LEMMA StaysFresh ==
  ASSUME IInv, NEW t, NEW row, Goes(t, row), NEW u \in Tasks, u # t,
         Story(task[u]), Fresh(task[u])
  PROVE  Fresh(task[u])'
  <1>0. task[u] \in Rows /\ Shape(task[u]) /\ task[u].stale \in BOOLEAN
    BY TaskFacts DEF Rows
  <1>1. SUFFICES ASSUME ~task'[u].stale PROVE Grounded(task[u])'
    BY DEF Fresh
  <1>2. Grounded(task[u]) /\ (Grounds(task[u], World) => Grounds(task[u], World'))
    BY <1>0, <1>1, Others DEF Fresh
  <1>3. /\ World.session = session /\ World.guest = guest /\ World.invite = invite
        /\ World.grant = grant /\ World.pickup = pickup
        /\ World'.session = session' /\ World'.guest = guest' /\ World'.invite = invite'
        /\ World'.grant = grant' /\ World'.pickup = pickup'
    BY DEF World
  <1>4. task[u].at = "answer" => invite'[task[u].on] \in {"pending", Answer[task[u].kind]}
    BY <1>0, <1>2, <1>3, GroundsMean DEF Shape, Grounded
  <1>5. task[u].at = "join" => guest' \notin {"live", "solo"}
    BY <1>0, <1>2, <1>3, GroundsMean DEF Story, Grounded
  <1>6. task[u].kind = "issue" => MayMirror'
    BY <1>0, <1>2, <1>3, GroundsMean DEF Grounded, MayMirror
  <1>7. task[u].kind = "redeem" /\ task[u].at \in Redeems =>
          /\ MayMirror' /\ grant'[task[u].on] \in {"issued", "active"}
          /\ task[u].at = "light" => pickup'[task[u].on].state = "active"
    BY <1>0, <1>2, <1>3, GroundsMean DEF Grounded, MayMirror, Revocable, Redeems
  <1>8. task[u].kind = "sync" => \A g \in task[u].held : pickup'[g].state = "active"
    BY <1>0, <1>2, <1>3, GroundsMean DEF Grounded
  <1>9. /\ task'[u].kind = task[u].kind /\ task'[u].at = task[u].at
        /\ task'[u].on = task[u].on /\ task'[u].held = task[u].held
    BY Others
  <1> QED BY <1>4, <1>5, <1>6, <1>7, <1>8, <1>9 DEF Grounded, Revocable, Redeems

LEMMA TaskedStep ==
  ASSUME IInv, Tasked, NEW t, NEW row, Goes(t, row), Onward,
         t \in Tasks => Story(row)' /\ Fresh(row)'
  PROVE  Tasked'
  <1> SUFFICES ASSUME NEW u \in Tasks PROVE Story(task[u])' /\ Fresh(task[u])'
    BY DEF Tasked
  <1>1. CASE u = t
    <2>1. task'[u] = row
      BY <1>1, Mine
    <2> QED BY <1>1, <2>1 DEF Story, Fresh, Grounded
  <1>2. CASE u # t
    <2>1. Story(task[u]) /\ Fresh(task[u])
      BY DEF Tasked
    <2>2. Fresh(task[u])'
      BY <1>2, <2>1, StaysFresh
    <2>3. /\ task'[u].kind = task[u].kind /\ task'[u].at = task[u].at
          /\ task'[u].on = task[u].on /\ task'[u].held = task[u].held
          /\ task'[u].cast = task[u].cast /\ task'[u].seat = task[u].seat
      BY <1>2, Others
    <2>4. task[u] \in Rows /\ Shape(task[u]) /\ ListedPickups(task[u])
      BY TaskFacts
    <2>5. Story(task[u])'
      BY <2>1, <2>3, <2>4 DEF Story, Shape, ListedPickups, Onward, Rows, Redeems
    <2> QED BY <2>2, <2>5
  <1> QED BY <1>1, <1>2

-----------------------------------------------------------------------------
(* One lemma for each of the three chains: what the request at hand must   *)
(* see to, given that no other one lets go.                                *)

LEMMA StageStep ==
  ASSUME IInv, Stage, NEW t \in Tasks, NEW row, Goes(t, row), loose \subseteq loose',
         \A g \in Grants \ loose' : Revocable(g)' =>
           \/ MayMirror'
           \/ Revokes(row, g)
           \/ Revocable(g) /\ ~MayMirror /\ ~Revokes(task[t], g)
  PROVE  Stage'
  <1> SUFFICES ASSUME NEW g \in Grants \ loose', Revocable(g)', ~MayMirror'
               PROVE  \E u \in Tasks : Revokes(task'[u], g)
    BY DEF Stage, Revokes
  <1>1. CASE Revokes(row, g)
    BY <1>1, Mine
  <1>2. CASE ~Revokes(row, g)
    <2>1. Revocable(g) /\ ~MayMirror /\ ~Revokes(task[t], g)
      BY <1>2
    <2>2. PICK u \in Tasks : Revokes(task[u], g)
      BY <2>1 DEF Stage
    <2>3. Revokes(task'[u], g)
      BY <2>1, <2>2, Others DEF Revokes
    <2> QED BY <2>3
  <1> QED BY <1>1, <1>2

LEMMA PickedStep ==
  ASSUME IInv, Picked, NEW t \in Tasks, NEW row, Goes(t, row), loose \subseteq loose',
         \A g \in Grants \ loose' : pickup'[g].state = "active" =>
           \/ Revocable(g)'
           \/ Takes(row, g)
           \/ pickup[g].state = "active" /\ ~Revocable(g) /\ ~Takes(task[t], g)
  PROVE  Picked'
  <1> SUFFICES ASSUME NEW g \in Grants \ loose', pickup'[g].state = "active", ~Revocable(g)'
               PROVE  \E u \in Tasks : Takes(task'[u], g)
    BY DEF Picked, Takes
  <1>1. CASE Takes(row, g)
    BY <1>1, Mine
  <1>2. CASE ~Takes(row, g)
    <2>1. pickup[g].state = "active" /\ ~Revocable(g) /\ ~Takes(task[t], g)
      BY <1>2
    <2>2. PICK u \in Tasks : Takes(task[u], g)
      BY <2>1 DEF Picked
    <2>3. Takes(task'[u], g)
      BY <2>1, <2>2, Others DEF Takes
    <2> QED BY <2>3
  <1> QED BY <1>1, <1>2

LEMMA DarkStep ==
  ASSUME IInv, Dark, NEW t \in Tasks, NEW row, Goes(t, row), Onward,
         Marks,
         \A c \in Casts \ loose' : cast'[c] = "open" =>
           \/ row.at = "pick" /\ row.cast = c
           \/ \E g \in Grants : /\ pickup'[g].cast = c
                                /\ \/ pickup'[g].state = "active" \/ g \in loose'
                                   \/ Darkens(row, g)
           \/ /\ cast[c] = "open"
              /\ ~(task[t].at = "pick" /\ task[t].cast = c)
              /\ \A g \in Grants : pickup[g].cast = c =>
                   /\ ~Darkens(task[t], g)
                   /\ pickup[g].state = "active" => pickup'[g].state = "active"
  PROVE  Dark'
  <1> SUFFICES ASSUME NEW c \in Casts \ loose', cast'[c] = "open"
               PROVE  \/ \E g \in Grants : Mirrors(g, c)'
                      \/ \E u \in Tasks : task'[u].at = "pick" /\ task'[u].cast = c
    BY DEF Dark, Mirrors, Darkens
  <1>0. task'[t] = row
    BY Mine
  <1>1. CASE row.at = "pick" /\ row.cast = c
    BY <1>0, <1>1
  <1>2. ASSUME NEW g \in Grants, pickup'[g].cast = c,
               pickup'[g].state = "active" \/ g \in loose' \/ Darkens(row, g)
        PROVE  Mirrors(g, c)'
    BY <1>0, <1>2 DEF Mirrors, Darkens
  <1>3. CASE /\ cast[c] = "open"
             /\ ~(task[t].at = "pick" /\ task[t].cast = c)
             /\ \A g \in Grants : pickup[g].cast = c =>
                  /\ ~Darkens(task[t], g)
                  /\ pickup[g].state = "active" => pickup'[g].state = "active"
    <2>1. c \in Casts \ loose
      BY DEF Onward
    <2>2. CASE \E u \in Tasks : task[u].at = "pick" /\ task[u].cast = c
      <3>1. PICK u \in Tasks : task[u].at = "pick" /\ task[u].cast = c
        BY <2>2
      <3>2. u # t
        BY <1>3, <3>1
      <3>3. task'[u].at = "pick" /\ task'[u].cast = c
        BY <3>1, <3>2, Others
      <3> QED BY <3>3
    <2>3. CASE \E g \in Grants : Mirrors(g, c)
      <3>1. PICK g \in Grants : Mirrors(g, c)
        BY <2>3
      <3>2. pickup[g].cast = c /\ pickup'[g].cast = c
        BY <3>1, <2>1, CollaborationAssumption DEF Mirrors, Onward, Marks
      <3>3. CASE pickup[g].state = "active" \/ g \in loose
        BY <1>3, <3>2, <3>3 DEF Mirrors, Onward
      <3>4. CASE \E u \in Tasks : Darkens(task[u], g)
        <4>1. PICK u \in Tasks : Darkens(task[u], g)
          BY <3>4
        <4>2. u # t
          BY <1>3, <3>2, <4>1
        <4>3. Darkens(task'[u], g)
          BY <4>1, <4>2, Others DEF Darkens
        <4> QED BY <3>2, <4>3 DEF Mirrors, Darkens
      <3> QED BY <3>1, <3>3, <3>4 DEF Mirrors
    <2> QED BY <1>3, <2>1, <2>2, <2>3 DEF Dark
  <1> QED BY <1>1, <1>2, <1>3

LEMMA DeepStep ==
  ASSUME IInv, DInv, NEW t \in Tasks, NEW row, Goes(t, row), Onward,
         Story(row)', Fresh(row)', Marks',
         guest' # "none" => guest # "none" \/ \E i \in Invites : Answered(i),
         \A g \in Grants \ loose' : Revocable(g)' =>
           \/ MayMirror'
           \/ Revokes(row, g)
           \/ Revocable(g) /\ ~MayMirror /\ ~Revokes(task[t], g),
         \A g \in Grants \ loose' : pickup'[g].state = "active" =>
           \/ Revocable(g)'
           \/ Takes(row, g)
           \/ pickup[g].state = "active" /\ ~Revocable(g) /\ ~Takes(task[t], g),
         \A c \in Casts \ loose' : cast'[c] = "open" =>
           \/ row.at = "pick" /\ row.cast = c
           \/ \E g \in Grants : /\ pickup'[g].cast = c
                                /\ \/ pickup'[g].state = "active" \/ g \in loose'
                                   \/ Darkens(row, g)
           \/ /\ cast[c] = "open"
              /\ ~(task[t].at = "pick" /\ task[t].cast = c)
              /\ \A g \in Grants : pickup[g].cast = c =>
                   /\ ~Darkens(task[t], g)
                   /\ pickup[g].state = "active" => pickup'[g].state = "active"
  PROVE  DInv'
  <1>1. Tasked' /\ Stage' /\ Picked' /\ Dark'
    BY TaskedStep, StageStep, PickedStep, DarkStep DEF DInv, Onward
  <1>2. Seated'
    BY DEF Seated, Onward, DInv
  <1> QED BY <1>1, <1>2 DEF DInv

\* A request that writes nothing and is at no broadcast.
LEMMA QuietStep ==
  ASSUME IInv, DInv, NEW t \in Tasks, NEW row, Goes(t, row),
         UNCHANGED <<tables, muddled, loose>>,
         Story(row), Fresh(row), task[t].at \notin {"pick", "dark"},
         \A g \in Grants : Revocable(g) /\ Revokes(task[t], g) => Revokes(row, g),
         \A g \in Grants : pickup[g].state = "active" /\ ~Revocable(g) /\ Takes(task[t], g)
           => Takes(row, g)
  PROVE  DInv'
  <1>1. UNCHANGED <<session, guest, invite, grant, marked, pickup, cast, muddled, loose>>
    BY DEF tables
  <1>2. Onward
    BY <1>1 DEF Onward, Answered
  <1>3. Story(row)' /\ Fresh(row)' /\ Marks'
    BY <1>1 DEF Story, Fresh, Grounded, Marks, DInv, Answered, MayMirror, Revocable
  <1>4. \A g \in Grants : Revocable(g)' = Revocable(g) /\ MayMirror' = MayMirror
    BY <1>1 DEF Revocable, MayMirror
  <1>5. guest' # "none" => guest # "none"
    BY <1>1
  <1>6. \A g \in Grants \ loose' : Revocable(g)' =>
           \/ MayMirror'
           \/ Revokes(row, g)
           \/ Revocable(g) /\ ~MayMirror /\ ~Revokes(task[t], g)
    BY <1>4
  <1>7. \A g \in Grants \ loose' : pickup'[g].state = "active" =>
           \/ Revocable(g)'
           \/ Takes(row, g)
           \/ pickup[g].state = "active" /\ ~Revocable(g) /\ ~Takes(task[t], g)
    BY <1>1, <1>4
  <1>8. \A c \in Casts \ loose' : cast'[c] = "open" =>
           /\ cast[c] = "open"
           /\ ~(task[t].at = "pick" /\ task[t].cast = c)
           /\ \A g \in Grants : pickup[g].cast = c =>
                /\ ~Darkens(task[t], g)
                /\ pickup[g].state = "active" => pickup'[g].state = "active"
    BY <1>1 DEF Darkens
  <1> QED BY <1>2, <1>3, <1>5, <1>6, <1>7, <1>8, DeepStep

LEMMA IdleIsQuiet ==
  /\ Story(Idle) /\ Fresh(Idle)
  /\ \A g \in Grants : ~Revokes(Idle, g) /\ ~Takes(Idle, g) /\ ~Darkens(Idle, g)
  BY DEF Idle, Story, Fresh, Grounded, Redeems, Revokes, Takes, Darkens

\* What is known of the request at hand.
LEMMA DeepFacts ==
  ASSUME IInv, DInv, NEW t \in Tasks
  PROVE  Story(task[t]) /\ Fresh(task[t])
  BY DEF DInv, Tasked

-----------------------------------------------------------------------------
LEMMA DeepAdmit ==
  ASSUME IInv, DInv, NEW t \in Tasks, NEW row, Admit(t, row), Story(row), Grounded(row)
  PROVE  DInv'
  <1>1. Goes(t, row) /\ task[t].at = "none" /\ UNCHANGED <<tables, muddled, loose>>
    BY DEF Admit, At
  <1>2. Fresh(row)
    BY DEF Fresh
  <1>3. \A g \in Grants : ~Revokes(task[t], g) /\ ~Takes(task[t], g)
    BY <1>1 DEF Revokes, Takes
  <1> QED BY <1>1, <1>2, <1>3, QuietStep

LEMMA DeepAsks ==
  ASSUME IInv, DInv, NEW t \in Tasks, HostAsks(t) \/ GuestAsks(t) \/ ServerAsks(t)
  PROVE  DInv'
  <1>1. ASSUME NEW i \in Invites, NEW kind \in {"accept", "close"}, invite[i] = "pending",
               Admit(t, [Begin(kind, "answer") EXCEPT !.on = i])
        PROVE  DInv'
    <2>1. PICK row : row = [Begin(kind, "answer") EXCEPT !.on = i]
      OBVIOUS
    <2>2. Story(row) /\ Grounded(row)
      BY <1>1, <2>1 DEF Begin, Idle, Story, Grounded, Redeems
    <2> QED BY <1>1, <2>1, <2>2, DeepAdmit
  <1>2. ASSUME NEW kind \in {"update", "remove"}, NEW seat \in GuestStates \ {"none"},
               guest # "none", Admit(t, [Begin(kind, "seat") EXCEPT !.seat = seat])
        PROVE  DInv'
    <2>1. PICK row : row = [Begin(kind, "seat") EXCEPT !.seat = seat]
      OBVIOUS
    <2>2. Story(row) /\ Grounded(row)
      BY <1>2, <2>1 DEF Begin, Idle, Story, Grounded, Redeems
    <2> QED BY <1>2, <2>1, <2>2, DeepAdmit
  <1>3. ASSUME NEW kind \in {"end", "withdraw", "issue"}, NEW at \in {"close", "list"},
               kind = "end" <=> at = "close", kind = "issue" => MayMirror,
               Admit(t, Begin(kind, at))
        PROVE  DInv'
    <2>1. PICK row : row = Begin(kind, at)
      OBVIOUS
    <2>2. Story(row) /\ Grounded(row)
      BY <1>3, <2>1 DEF Begin, Idle, Story, Grounded, Redeems
    <2> QED BY <1>3, <2>1, <2>2, DeepAdmit
  <1>4. ASSUME UpdateParticipant(t) PROVE DInv'
    <2>1. PICK state \in Transitions[guest] :
            Admit(t, [Begin("update", "seat") EXCEPT !.seat = state])
      BY <1>4 DEF UpdateParticipant
    <2>2. guest # "none" /\ state \in GuestStates \ {"none"}
      BY <1>4, <2>1 DEF UpdateParticipant, IInv, TablesOK, GuestStates, Transitions
    <2> QED BY <1>2, <2>1, <2>2
  <1>5. ASSUME RemoveParticipant(t) PROVE DInv'
    BY <1>2, <1>5 DEF RemoveParticipant, GuestStates
  <1>6. ASSUME SyncPickups(t) PROVE DInv'
    <2> DEFINE active == {g \in Grants : pickup[g].state = "active"}
    <2>1. PICK row : row = [Begin("sync", "light") EXCEPT !.held = active] /\ Admit(t, row)
      BY <1>6 DEF SyncPickups
    <2>2. Story(row) /\ Grounded(row)
      BY <2>1 DEF Begin, Idle, Story, Grounded, Redeems
    <2> QED BY <2>1, <2>2, DeepAdmit
  <1>7. ASSUME NEW g \in Grants, RedeemGrant(t, g) PROVE DInv'
    <2>1. PICK row : row = [Begin("redeem", "activate") EXCEPT !.on = g] /\ Admit(t, row)
      BY <1>7 DEF RedeemGrant
    <2>2. grant[g] = "issued" /\ MayMirror
      BY <1>7 DEF RedeemGrant
    <2>3. Story(row) /\ Grounded(row)
      BY <2>1, <2>2 DEF Begin, Idle, Story, Grounded, Redeems, Revocable
    <2> QED BY <2>1, <2>3, DeepAdmit
  <1>8. ASSUME ExpireGrants(t) PROVE DInv'
    <2> DEFINE due == {g \in Grants : Revocable(g) /\ g \in late}
    <2>1. PICK row : row = [Begin("sweep", "expire") EXCEPT !.held = due] /\ Admit(t, row)
      BY <1>8 DEF ExpireGrants
    <2>2. Story(row) /\ Grounded(row)
      BY <2>1 DEF Begin, Idle, Story, Grounded, Redeems, Revocable
    <2> QED BY <2>1, <2>2, DeepAdmit
  <1>9. CASE HostAsks(t)
    BY <1>1, <1>3, <1>4, <1>5, <1>6, <1>9 DEF HostAsks, CloseInvite, Pending, EndSession,
       RevokeGrants, IssueGrant
  <1>10. CASE GuestAsks(t)
    BY <1>1, <1>5, <1>7, <1>10 DEF GuestAsks, AcceptInvite, CloseInvite, Pending
  <1>11. CASE ServerAsks(t)
    BY <1>1, <1>8, <1>11 DEF ServerAsks, ExpireInvite
  <1> QED BY <1>9, <1>10, <1>11

LEMMA DeepInvites ==
  ASSUME IInv, DInv, NEW t \in Tasks,
         AnswerInvite(t) \/ LookForGuest(t) \/ JoinBackstage(t) \/ WriteParticipant(t)
  PROVE  DInv'
  <1>0. /\ TablesOK /\ task[t] \in Rows /\ Shape(task[t])
        /\ Story(task[t]) /\ Fresh(task[t])
    BY TaskFacts, DeepFacts DEF IInv
  <1>1. CASE AnswerInvite(t)
    <2>1. PICK row : /\ row = IF task[t].kind = "accept" THEN [task[t] EXCEPT !.at = "look"]
                              ELSE Idle
                     /\ Goes(t, row)
      BY <1>1 DEF AnswerInvite
    <2>2. /\ task[t].at = "answer" /\ task[t].kind \in {"accept", "close"}
          /\ task[t].on \in Invites
          /\ invite' = [invite EXCEPT ![task[t].on] = Answer[task[t].kind]]
          /\ muddled' = IF task[t].stale THEN muddled \cup {task[t].on} ELSE muddled
          /\ UNCHANGED <<session, guest, grant, marked, pickup, cast, late, loose>>
      BY <1>0, <1>1 DEF AnswerInvite, At, Shape
    <2>3. Answer["accept"] = "accepted" /\ Answer["close"] = "closed"
      BY DEF Answer
    <2>4. task[t].stale \/ invite[task[t].on] \in {"pending", Answer[task[t].kind]}
      BY <1>0, <2>2 DEF Fresh, Grounded
    <2>5. /\ muddled \subseteq muddled'
          /\ invite'[task[t].on] = Answer[task[t].kind]
          /\ task[t].stale => task[t].on \in muddled'
          /\ \A i \in Invites : i # task[t].on => invite'[i] = invite[i]
      BY <1>0, <2>2 DEF TablesOK
    <2>10. task[t].kind = "accept" => \A i \in Invites : i = task[t].on => Answered(i)'
      BY <2>3, <2>5 DEF Answered
    <2>11. ASSUME NEW i \in Invites, Answered(i) PROVE Answered(i)'
      <3>1. CASE i # task[t].on \/ i \in muddled
        BY <2>5, <2>11, <3>1 DEF Answered
      <3>2. CASE i = task[t].on /\ i \notin muddled
        <4>1. invite[i] = "accepted"
          BY <2>11, <3>2 DEF Answered
        <4>2. task[t].stale \/ task[t].kind = "accept"
          BY <2>2, <2>3, <2>4, <3>2, <4>1
        <4> QED BY <2>5, <2>10, <3>2, <4>2 DEF Answered
      <3> QED BY <3>1, <3>2
    <2>6. Onward
      BY <2>2, <2>11 DEF Onward
    <2>7. Story(row)' /\ Fresh(row)'
      <3>1. CASE task[t].kind = "accept"
        <4>1. row.at = "look" /\ row.kind = "accept" /\ row.on = task[t].on
          BY <1>0, <2>1, <3>1 DEF Rows
        <4>2. Answered(row.on)'
          BY <2>2, <2>10, <3>1, <4>1
        <4>3. Story(row)'
          BY <2>2, <4>1, <4>2 DEF Story, Redeems
        <4>4. Grounded(row)'
          BY <4>1 DEF Grounded
        <4> QED BY <4>3, <4>4 DEF Fresh
      <3>2. CASE task[t].kind # "accept"
        BY <2>1, <3>2 DEF Idle, Story, Fresh, Grounded, Redeems
      <3> QED BY <3>1, <3>2
    <2>8. Marks' /\ MayMirror' = MayMirror /\ \A g \in Grants : Revocable(g)' = Revocable(g)
      BY <2>2 DEF DInv, Marks, MayMirror, Revocable
    <2>9. \A g \in Grants : /\ ~Revokes(task[t], g) /\ ~Takes(task[t], g)
                            /\ ~Darkens(task[t], g)
      BY <2>2 DEF Revokes, Takes, Darkens
    <2> QED BY <2>1, <2>2, <2>6, <2>7, <2>8, <2>9, DeepStep
  <1>2. CASE LookForGuest(t)
    <2>1. PICK row : /\ row = IF guest \in {"live", "solo"} THEN Idle
                              ELSE [task[t] EXCEPT !.at = "join", !.seat = guest, !.stale = FALSE]
                     /\ Goes(t, row)
      BY <1>2 DEF LookForGuest
    <2>2. task[t].at = "look" /\ UNCHANGED <<tables, muddled, loose>>
      BY <1>2 DEF LookForGuest, At
    <2>3. Story(row) /\ Fresh(row)
      <3>1. CASE guest \in {"live", "solo"}
        BY <2>1, <3>1, IdleIsQuiet
      <3>2. CASE guest \notin {"live", "solo"}
        <4>1. row.at = "join" /\ row.kind = task[t].kind /\ row.on = task[t].on
          BY <1>0, <2>1, <3>2 DEF Rows
        <4> QED BY <1>0, <2>2, <3>2, <4>1 DEF Story, Fresh, Grounded, Redeems
      <3> QED BY <3>1, <3>2
    <2>4. \A g \in Grants : ~Revokes(task[t], g) /\ ~Takes(task[t], g)
      BY <2>2 DEF Revokes, Takes
    <2> QED BY <2>1, <2>2, <2>3, <2>4, QuietStep
  <1>3. CASE JoinBackstage(t)
    <2> DEFINE taken == task[t].seat = "none" /\ guest # "none"
    <2>1. /\ task[t].at = "join" /\ Goes(t, Idle)
          /\ guest' = IF taken THEN guest ELSE "backstage"
          /\ loose' = IF task[t].stale /\ ~taken THEN loose \cup {g \in Grants : Revocable(g)}
                      ELSE loose
          /\ UNCHANGED <<session, invite, grant, marked, pickup, cast, late, muddled>>
      BY <1>3 DEF JoinBackstage, At
    <2>2. Onward
      BY <2>1 DEF Onward, Answered
    <2>3. task[t].on \in Invites /\ Answered(task[t].on)
      BY <1>0, <2>1 DEF Story
    <2>4. Story(Idle)' /\ Fresh(Idle)' /\ Marks'
      BY <2>1 DEF Idle, Story, Fresh, Grounded, Redeems, DInv, Marks
    <2>5. \A g \in Grants : /\ ~Revokes(task[t], g) /\ ~Takes(task[t], g)
                            /\ ~Darkens(task[t], g) /\ Revocable(g)' = Revocable(g)
      BY <2>1 DEF Revokes, Takes, Darkens, Revocable
    <2>6. ASSUME NEW g \in Grants \ loose', Revocable(g)'
          PROVE  MayMirror' \/ (Revocable(g) /\ ~MayMirror)
      <3>1. CASE taken
        BY <2>1, <2>5, <2>6, <3>1 DEF MayMirror
      <3>2. CASE ~taken
        <4>1. ~task[t].stale
          BY <2>1, <2>5, <2>6, <3>2
        <4> QED BY <1>0, <2>1, <2>5, <2>6, <4>1 DEF Fresh, Grounded, MayMirror
      <3> QED BY <3>1, <3>2
    <2> HIDE DEF taken
    <2> QED BY <2>1, <2>2, <2>3, <2>4, <2>5, <2>6, DeepStep
  <1>4. CASE WriteParticipant(t)
    <2>1. PICK row : /\ row = IF task[t].seat = "live" THEN Idle ELSE Begin("withdraw", "list")
                     /\ Goes(t, row)
      BY <1>4 DEF WriteParticipant
    <2>2. /\ task[t].at = "seat" /\ guest' = task[t].seat
          /\ UNCHANGED <<session, invite, grant, marked, pickup, cast, late, muddled, loose>>
      BY <1>4 DEF WriteParticipant, At
    <2>3. guest # "none" /\ guest' # "none"
      BY <1>0, <2>2 DEF Story
    <2>4. Onward
      BY <2>2, <2>3 DEF Onward, Answered
    <2>5. Story(row)' /\ Fresh(row)' /\ Marks'
      BY <2>1, <2>2 DEF Begin, Idle, Story, Fresh, Grounded, Redeems, DInv, Marks
    <2>6. \A g \in Grants : /\ ~Revokes(task[t], g) /\ ~Takes(task[t], g)
                            /\ ~Darkens(task[t], g) /\ Revocable(g)' = Revocable(g)
      BY <2>2 DEF Revokes, Takes, Darkens, Revocable
    <2>7. MayMirror' \/ ~MayMirror \/ \A g \in Grants : Revokes(row, g)
      <3>1. CASE task[t].seat = "live"
        BY <2>2, <3>1 DEF MayMirror
      <3>2. CASE task[t].seat # "live"
        BY <2>1, <3>2 DEF Begin, Idle, Revokes
      <3> QED BY <3>1, <3>2
    <2> QED BY <2>1, <2>2, <2>3, <2>4, <2>5, <2>6, <2>7, DeepStep
  <1> QED BY <1>1, <1>2, <1>3, <1>4


LEMMA DeepEnds ==
  ASSUME IInv, DInv, NEW t \in Tasks, CloseSession(t)
  PROVE  DInv'
  <1>0. /\ TablesOK /\ task[t] \in Rows /\ Shape(task[t])
        /\ Story(task[t]) /\ Fresh(task[t])
    BY TaskFacts, DeepFacts DEF IInv
  <1>1. PICK row : /\ Goes(t, row)
                   /\ \/ row = [task[t] EXCEPT !.at = "seats"]
                      \/ row = [task[t] EXCEPT !.at = "invites"]
                      \/ row = Begin("withdraw", "list")
    BY DEF CloseSession
  <1>2. /\ task[t].at \in {"close", "seats", "invites"}
        /\ UNCHANGED <<grant, marked, pickup, cast, muddled, loose>>
        /\ guest' = guest \/ (guest # "none" /\ guest' = "gone")
        /\ invite' = invite \/ invite' = [i \in Invites |->
             IF invite[i] = "pending" THEN "closed" ELSE invite[i]]
    BY DEF CloseSession, At
  <1>3. /\ row.at \in {"seats", "invites", "list"} /\ row.kind \in {"end", "withdraw"}
        /\ row.at # "list" => row.kind = "end"
    BY <1>0, <1>1, <1>2 DEF Begin, Idle, Story, Rows
  <1>4. \A i \in Invites : Answered(i) => Answered(i)'
    BY <1>2 DEF Answered
  <1>5. Onward
    BY <1>2, <1>4 DEF Onward
  <1>6. Story(row)' /\ Fresh(row)' /\ Marks'
    BY <1>2, <1>3 DEF Story, Fresh, Grounded, Redeems, DInv, Marks
  <1>7. \A g \in Grants : /\ Revokes(row, g) /\ ~Takes(task[t], g) /\ ~Darkens(task[t], g)
                          /\ Revocable(g)' = Revocable(g)
    BY <1>2, <1>3 DEF Revokes, Takes, Darkens, Revocable
  <1>8. guest' # "none" => guest # "none"
    BY <1>2
  <1> QED BY <1>1, <1>2, <1>5, <1>6, <1>7, <1>8, DeepStep

\* What comes after the pickups: a grant to insert, or nothing.
LEMMA AfterMeans ==
  ASSUME NEW row \in Rows, Fresh(row)
  PROVE  /\ Story(After(row)) /\ Fresh(After(row))
         /\ \A g : ~Revokes(After(row), g) /\ ~Takes(After(row), g) /\ ~Darkens(After(row), g)
  <1>1. CASE row.kind = "issue"
    <2>1. PICK next : next = After(row)
      OBVIOUS
    <2>2. /\ next.at = "insert" /\ next.kind = "issue" /\ next.stale = row.stale
      BY <1>1, <2>1 DEF After, Rows
    <2>3. Story(next) /\ Fresh(next)
      BY <1>1, <2>2 DEF Story, Fresh, Grounded, Redeems
    <2> QED BY <2>1, <2>2, <2>3 DEF Revokes, Takes, Darkens
  <1>2. CASE row.kind # "issue"
    BY <1>2, IdleIsQuiet DEF After, Idle, Revokes, Takes, Darkens
  <1> QED BY <1>1, <1>2

LEMMA DeepLists ==
  ASSUME IInv, DInv, NEW t \in Tasks, ListGrants(t) \/ RevokeListed(t) \/ ListPickups(t)
  PROVE  DInv'
  <1> DEFINE open == {g \in Grants : Revocable(g)}
  <1>0. /\ TablesOK /\ task[t] \in Rows /\ Shape(task[t])
        /\ Story(task[t]) /\ Fresh(task[t])
    BY TaskFacts, DeepFacts DEF IInv
  <1>1. CASE ListGrants(t)
    <2>1. PICK row : /\ row = IF open = {} THEN After(task[t])
                              ELSE [task[t] EXCEPT !.at = "revoke", !.held = open]
                     /\ Goes(t, row)
      BY <1>1 DEF ListGrants
    <2>2. task[t].at = "list" /\ UNCHANGED <<tables, muddled, loose>>
      BY <1>1 DEF ListGrants, At
    <2>3. CASE open = {}
      BY <1>0, <2>1, <2>2, <2>3, AfterMeans, QuietStep DEF Takes
    <2>4. CASE open # {}
      <3>1. /\ row.at = "revoke" /\ row.held = open /\ row.kind = task[t].kind
            /\ row.on = task[t].on /\ row.stale = task[t].stale
        BY <1>0, <2>1, <2>4 DEF Rows
      <3>2. Story(row) /\ Fresh(row)
        BY <1>0, <2>2, <3>1 DEF Shape, Story, Fresh, Grounded, Redeems
      <3>3. \A g \in Grants : /\ ~Takes(task[t], g)
                              /\ Revocable(g) => Revokes(row, g)
        BY <2>2, <3>1 DEF Takes, Revokes
      <3> QED BY <2>1, <2>2, <3>2, <3>3, QuietStep
    <2> QED BY <2>3, <2>4
  <1>2. CASE RevokeListed(t)
    <2>1. PICK row : row = [task[t] EXCEPT !.at = "pickups"] /\ Goes(t, row)
      BY <1>2 DEF RevokeListed
    <2>2. /\ task[t].at = "revoke"
          /\ grant' = [g \in Grants |-> IF g \in open THEN "over" ELSE grant[g]]
          /\ marked' = marked \cup open
          /\ loose' = loose \cup {g \in open \ task[t].held : pickup[g].state = "active"}
          /\ UNCHANGED <<session, guest, invite, pickup, cast, late, muddled>>
      BY <1>2 DEF RevokeListed, At
    <2>3. \A g \in Grants : /\ ~Revocable(g)'
                            /\ grant[g] # "none" => grant'[g] # "none"
                            /\ g \in open => grant'[g] = "over"
                            /\ g \notin open => grant'[g] = grant[g]
      BY <2>2 DEF Revocable
    <2>4. Onward
      BY <2>2, <2>3 DEF Onward, Answered
    <2>5. Marks'
      BY <2>2, <2>3 DEF DInv, Marks
    <2>6. /\ row.at = "pickups" /\ row.held = task[t].held /\ row.kind = task[t].kind
          /\ row.stale = task[t].stale
      BY <1>0, <2>1 DEF Rows
    <2>7. Story(row)' /\ Fresh(row)'
      BY <1>0, <2>2, <2>6 DEF Shape, Story, Fresh, Grounded, Redeems, MayMirror
    <2>8. ASSUME NEW g \in Grants \ loose', pickup'[g].state = "active"
          PROVE  Takes(row, g) \/ (pickup[g].state = "active" /\ ~Revocable(g) /\ ~Takes(task[t], g))
      BY <2>2, <2>6, <2>8 DEF Takes
    <2>9. \A g \in Grants : ~Darkens(task[t], g)
      BY <2>2 DEF Darkens
    <2> HIDE DEF open
    <2> QED BY <2>1, <2>2, <2>3, <2>4, <2>5, <2>7, <2>8, <2>9, DeepStep
  <1>3. CASE ListPickups(t)
    <2> DEFINE active == {g \in task[t].held :
                            /\ pickup[g].state = "active"
                            /\ task[t].kind = "sweep" => grant[g] = "over"}
    <2>1. PICK row : /\ row = IF active = {} THEN After(task[t])
                              ELSE [task[t] EXCEPT !.at = "end", !.held = active, !.stamped = {}]
                     /\ Goes(t, row)
      BY <1>3 DEF ListPickups
    <2>2. task[t].at = "pickups" /\ UNCHANGED <<tables, muddled, loose>>
      BY <1>3 DEF ListPickups, At
    <2>3. \A g \in Grants : ~Revokes(task[t], g)
      BY <2>2 DEF Revokes
    <2>4. ASSUME NEW g \in Grants, pickup[g].state = "active", ~Revocable(g), Takes(task[t], g)
          PROVE  g \in active
      <3>1. g \in task[t].held
        BY <2>2, <2>4 DEF Takes
      <3>2. grant[g] = "over"
        BY <1>0, <2>4 DEF DInv, Marks, Revocable, TablesOK, GrantStates
      <3> QED BY <2>4, <3>1, <3>2
    <2>5. CASE active = {}
      <3>1. Story(row) /\ Fresh(row)
        BY <1>0, <2>1, <2>5, AfterMeans
      <3> QED BY <2>1, <2>2, <2>3, <2>4, <2>5, <3>1, QuietStep
    <2>6. CASE active # {}
      <3>1. /\ row.at = "end" /\ row.held = active /\ row.kind = task[t].kind
            /\ row.stale = task[t].stale
        BY <1>0, <2>1, <2>6 DEF Rows
      <3>2. Story(row) /\ Fresh(row)
        BY <1>0, <2>2, <3>1 DEF Shape, Story, Fresh, Grounded, Redeems
      <3>3. \A g \in active : Takes(row, g)
        BY <3>1 DEF Takes
      <3> QED BY <2>1, <2>2, <2>3, <2>4, <3>2, <3>3, QuietStep
    <2> QED BY <2>5, <2>6
  <1> QED BY <1>1, <1>2, <1>3

LEMMA DeepDarkens ==
  ASSUME IInv, DInv, NEW t \in Tasks, EndPickup(t) \/ EndCast(t)
  PROVE  DInv'
  <1>0. /\ TablesOK /\ PickupsMade /\ task[t] \in Rows /\ Shape(task[t])
        /\ ListedPickups(task[t]) /\ Story(task[t]) /\ Fresh(task[t])
    BY TaskFacts, DeepFacts DEF IInv
  <1>1. CASE EndPickup(t)
    <2>1. PICK g, row :
            /\ g \in task[t].held /\ task[t].at = "end"
            /\ pickup' = [pickup EXCEPT ![g].state = "ended"]
            /\ UNCHANGED <<session, guest, invite, grant, marked, cast, late, muddled, loose>>
            /\ row = [task[t] EXCEPT !.at = "dark", !.on = g] /\ Goes(t, row)
      BY <1>1 DEF EndPickup, At
    <2>2. g \in Grants /\ pickup[g].state # "none"
      BY <1>0, <2>1 DEF ListedPickups, Rows
    <2>3. /\ pickup'[g].state = "ended" /\ pickup'[g].cast = pickup[g].cast
          /\ \A h \in Grants : h # g => pickup'[h] = pickup[h]
      BY <1>0, <2>1, <2>2 DEF TablesOK
    <2>4. Onward
      BY <2>1, <2>2, <2>3 DEF Onward, Answered
    <2>5. Marks'
      BY <2>1, <2>2, <2>3 DEF DInv, Marks
    <2>6. /\ row.at = "dark" /\ row.held = task[t].held /\ row.kind = task[t].kind
          /\ row.stale = task[t].stale /\ row.on = g
      BY <1>0, <2>1, <2>2 DEF Rows
    <2>7. Story(row)' /\ Fresh(row)'
      BY <1>0, <2>1, <2>3, <2>6 DEF Shape, Story, Fresh, Grounded, Redeems, MayMirror
    <2>8. \A h \in Grants : /\ Revocable(h)' = Revocable(h) /\ MayMirror' = MayMirror
                            /\ ~Revokes(task[t], h) /\ ~Darkens(task[t], h)
                            /\ Takes(task[t], h) => Takes(row, h)
      BY <2>1, <2>6 DEF Revocable, MayMirror, Revokes, Darkens, Takes
    <2>9. ASSUME NEW h \in Grants \ loose', pickup'[h].state = "active"
          PROVE  \/ Revocable(h)' \/ Takes(row, h)
                 \/ pickup[h].state = "active" /\ ~Revocable(h) /\ ~Takes(task[t], h)
      BY <2>3, <2>8, <2>9
    <2>10. ASSUME NEW c \in Casts \ loose', cast'[c] = "open"
           PROVE  \/ \E h \in Grants : pickup'[h].cast = c /\ Darkens(row, h)
                  \/ /\ cast[c] = "open"
                     /\ \A h \in Grants : pickup[h].cast = c =>
                          (pickup[h].state = "active" => pickup'[h].state = "active")
      <3>1. CASE pickup[g].cast = c
        BY <2>2, <2>3, <2>6, <3>1 DEF Darkens
      <3>2. CASE pickup[g].cast # c
        BY <2>1, <2>3, <2>10, <3>2
      <3> QED BY <3>1, <3>2
    <2>11. guest' # "none" => guest # "none"
      BY <2>1
    <2>12. \A c \in Casts \ loose' : cast'[c] = "open" =>
             \/ row.at = "pick" /\ row.cast = c
             \/ \E h \in Grants : /\ pickup'[h].cast = c
                                  /\ \/ pickup'[h].state = "active" \/ h \in loose'
                                     \/ Darkens(row, h)
             \/ /\ cast[c] = "open"
                /\ ~(task[t].at = "pick" /\ task[t].cast = c)
                /\ \A h \in Grants : pickup[h].cast = c =>
                     /\ ~Darkens(task[t], h)
                     /\ pickup[h].state = "active" => pickup'[h].state = "active"
      BY <2>1, <2>8, <2>10
    <2> QED BY <2>1, <2>4, <2>5, <2>7, <2>8, <2>9, <2>11, <2>12, DeepStep
  <1>2. CASE EndCast(t)
    <2> DEFINE rest == task[t].held \ {task[t].on}
    <2>1. PICK row : /\ row = IF rest = {} THEN After(task[t])
                              ELSE [task[t] EXCEPT !.at = "end", !.held = rest]
                     /\ Goes(t, row)
      BY <1>2 DEF EndCast
    <2>2. /\ task[t].at = "dark"
          /\ cast' = [cast EXCEPT ![pickup[task[t].on].cast] = "ended"]
          /\ UNCHANGED <<session, guest, invite, grant, marked, pickup, late, muddled, loose>>
      BY <1>2 DEF EndCast, At
    <2>3. /\ task[t].on \in task[t].held /\ task[t].on \in Grants
          /\ pickup[task[t].on].state = "ended" /\ pickup[task[t].on].cast \in Casts
      BY <1>0, <2>2 DEF Story, PickupsMade, Rows
    <2>4. Onward
      BY <2>2 DEF Onward, Answered
    <2>5. Marks'
      BY <2>2 DEF DInv, Marks
    <2>6. Story(row) /\ Fresh(row) /\ \A g \in rest : Takes(row, g)
      <3>1. CASE rest = {}
        BY <1>0, <2>1, <3>1, AfterMeans
      <3>2. CASE rest # {}
        <4> HIDE DEF rest
        <4>1. /\ row.at = "end" /\ row.held = rest /\ row.kind = task[t].kind
              /\ row.stale = task[t].stale
          BY <1>0, <2>1, <3>2 DEF Rows
        <4> QED BY <1>0, <2>2, <4>1 DEF Shape, Story, Fresh, Grounded, Redeems, Takes
      <3> QED BY <3>1, <3>2
    <2>7. Story(row)' /\ Fresh(row)'
      BY <2>2, <2>6 DEF Story, Fresh, Grounded, Answered, MayMirror, Revocable
    <2>8. \A h \in Grants : /\ Revocable(h)' = Revocable(h) /\ MayMirror' = MayMirror
                            /\ ~Revokes(task[t], h)
                            /\ Darkens(task[t], h) => h = task[t].on
                            /\ Takes(task[t], h) => h \in task[t].held
      BY <2>2 DEF Revocable, MayMirror, Revokes, Darkens, Takes
    <2>9. ASSUME NEW h \in Grants \ loose', pickup'[h].state = "active"
          PROVE  \/ Takes(row, h)
                 \/ pickup[h].state = "active" /\ ~Takes(task[t], h)
      <3>1. h # task[t].on
        BY <2>2, <2>3, <2>9
      <3> QED BY <2>2, <2>6, <2>8, <2>9, <3>1
    <2>10. ASSUME NEW c \in Casts \ loose', cast'[c] = "open"
           PROVE  /\ cast[c] = "open"
                  /\ \A h \in Grants : pickup[h].cast = c => ~Darkens(task[t], h)
      <3>1. c # pickup[task[t].on].cast
        BY <1>0, <2>2, <2>3, <2>10 DEF TablesOK
      <3> QED BY <1>0, <2>2, <2>8, <2>10, <3>1 DEF TablesOK
    <2>11. guest' # "none" => guest # "none"
      BY <2>2
    <2> HIDE DEF rest
    <2> QED BY <2>1, <2>2, <2>4, <2>5, <2>7, <2>8, <2>9, <2>10, <2>11, DeepStep
  <1> QED BY <1>1, <1>2

LEMMA DeepGrants ==
  ASSUME IInv, DInv, NEW t \in Tasks,
         ExpireGrant(t) \/ InsertGrant(t) \/ ActivateGrant(t) \/ UndoRedeem(t)
  PROVE  DInv'
  <1>0. /\ TablesOK /\ PickupsMade /\ task[t] \in Rows /\ Shape(task[t])
        /\ Story(task[t]) /\ Fresh(task[t])
    BY TaskFacts, DeepFacts DEF IInv
  <1>1. CASE ExpireGrant(t)
    <2>1. PICK g \in task[t].held :
            /\ task[t].at = "expire"
            /\ grant' = [grant EXCEPT ![g] = "over"] /\ marked' = marked \cup {g}
            /\ UNCHANGED <<session, guest, invite, pickup, cast, late, muddled, loose>>
            /\ Goes(t, IF task[t].held \ {g} # {}
                       THEN [task[t] EXCEPT !.held = task[t].held \ {g},
                                            !.stamped = task[t].stamped \cup ({g} \ marked)]
                       ELSE [task[t] EXCEPT !.at = "pickups",
                                            !.held = task[t].stamped \cup ({g} \ marked),
                                            !.stamped = task[t].stamped \cup ({g} \ marked)])
      BY <1>1 DEF ExpireGrant, At
    <2> DEFINE rest == task[t].held \ {g}
               stamped == task[t].stamped \cup ({g} \ marked)
    <2>2. PICK row : /\ row = IF rest # {} THEN [task[t] EXCEPT !.held = rest, !.stamped = stamped]
                              ELSE [task[t] EXCEPT !.at = "pickups", !.held = stamped,
                                                   !.stamped = stamped]
                     /\ Goes(t, row)
      BY <2>1
    <2>3. g \in Grants /\ grant[g] # "none" /\ task[t].kind \notin {"issue", "sync"}
      BY <1>0, <2>1 DEF Story, Rows, Shape
    <2>4. /\ grant'[g] = "over" /\ \A h \in Grants : h # g => grant'[h] = grant[h]
      BY <1>0, <2>1, <2>3 DEF TablesOK
    <2>5. Onward
      BY <2>1, <2>3, <2>4 DEF Onward, Answered
    <2>6. Marks'
      BY <2>1, <2>3, <2>4 DEF DInv, Marks
    <2>7. /\ row.kind = task[t].kind /\ row.stale = task[t].stale
          /\ \/ row.at = "expire" /\ rest # {} /\ row.held = rest /\ row.stamped = stamped
             \/ row.at = "pickups" /\ rest = {} /\ row.held = stamped
      <3> HIDE DEF rest, stamped
      <3> QED BY <1>0, <2>1, <2>2 DEF Rows
    <2>8. Story(row)' /\ Fresh(row)'
      BY <1>0, <2>1, <2>3, <2>4, <2>7 DEF Story, Fresh, Grounded, Redeems, Rows
    <2>9. ASSUME NEW h \in Grants, Revocable(h)'
          PROVE  Revocable(h) /\ (Revokes(row, h) \/ ~Revokes(task[t], h))
      <3>1. h # g /\ Revocable(h)
        BY <2>4, <2>9 DEF Revocable
      <3> QED BY <2>1, <2>7, <3>1 DEF Revokes
    <2>10. ASSUME NEW h \in Grants \ loose', pickup'[h].state = "active", ~Revocable(h)'
           PROVE  \/ Takes(row, h)
                  \/ pickup[h].state = "active" /\ ~Revocable(h) /\ ~Takes(task[t], h)
      <3>1. \A k \in stamped : Takes(row, k)
        BY <2>7 DEF Takes
      <3>2. CASE Revocable(h)
        <4>1. h = g
          BY <2>4, <2>10, <3>2 DEF Revocable
        <4>2. g \notin marked
          BY <2>1, <2>10, <3>2, <4>1 DEF Revocable, DInv, Marks
        <4> QED BY <3>1, <4>1, <4>2
      <3>3. CASE ~Revocable(h)
        <4>1. Takes(task[t], h) => h \in stamped
          BY <2>1 DEF Takes
        <4> QED BY <2>1, <2>10, <3>1, <3>3, <4>1
      <3> QED BY <3>2, <3>3
    <2>11. \A h \in Grants : ~Darkens(task[t], h)
      BY <2>1 DEF Darkens
    <2>12. MayMirror' = MayMirror /\ (guest' # "none" => guest # "none")
      BY <2>1 DEF MayMirror
    <2> HIDE DEF rest, stamped
    <2> QED BY <2>1, <2>2, <2>5, <2>6, <2>8, <2>9, <2>10, <2>11, <2>12, DeepStep
  <1>2. CASE InsertGrant(t)
    <2>1. /\ task[t].at = "insert" /\ Goes(t, Idle)
          /\ UNCHANGED <<session, guest, invite, marked, pickup, cast, late, muddled>>
      BY <1>2 DEF InsertGrant, At
    <2>2. PICK new \in SUBSET Grants :
            /\ \A g \in new : grant[g] = "none" /\ grant'[g] = "issued"
            /\ \A g \in Grants \ new : grant'[g] = grant[g]
            /\ loose' = IF task[t].stale THEN loose \cup new ELSE loose
      <3>1. CASE \A g \in Grants : grant[g] # "none"
        <4>1. UNCHANGED <<grant, loose>>
          BY <1>2, <3>1 DEF InsertGrant
        <4> WITNESS {} \in SUBSET Grants
        <4> QED BY <4>1
      <3>2. CASE \E g \in Grants : grant[g] = "none"
        <4>1. PICK g \in Grants : /\ grant[g] = "none"
                                  /\ grant' = [grant EXCEPT ![g] = "issued"]
                                  /\ loose' = IF task[t].stale THEN loose \cup {g} ELSE loose
          BY <1>2, <3>2 DEF InsertGrant
        <4>2. grant'[g] = "issued" /\ \A h \in Grants : h # g => grant'[h] = grant[h]
          BY <1>0, <4>1 DEF TablesOK
        <4>3. {g} \in SUBSET Grants
          OBVIOUS
        <4> QED BY <4>1, <4>2, <4>3
      <3> QED BY <3>1, <3>2
    <2>3. task[t].stale \/ MayMirror'
      BY <1>0, <2>1 DEF Story, Fresh, Grounded, MayMirror
    <2>4. Onward
      BY <2>1, <2>2 DEF Onward, Answered
    <2>5. Marks'
      BY <2>1, <2>2 DEF DInv, Marks
    <2>6. Story(Idle)' /\ Fresh(Idle)'
      BY DEF Idle, Story, Fresh, Grounded, Redeems
    <2>7. \A g \in Grants : ~Revokes(task[t], g) /\ ~Takes(task[t], g) /\ ~Darkens(task[t], g)
      BY <2>1 DEF Revokes, Takes, Darkens
    <2>8. ASSUME NEW g \in Grants \ loose', Revocable(g)'
          PROVE  MayMirror' \/ (Revocable(g) /\ ~MayMirror)
      BY <2>1, <2>2, <2>3, <2>8 DEF Revocable, MayMirror
    <2>9. ASSUME NEW g \in Grants \ loose', pickup'[g].state = "active"
          PROVE  Revocable(g)' \/ (pickup[g].state = "active" /\ ~Revocable(g))
      BY <2>1, <2>2, <2>9 DEF Revocable
    <2>10. guest' # "none" => guest # "none"
      BY <2>1
    <2> QED BY <2>1, <2>4, <2>5, <2>6, <2>7, <2>8, <2>9, <2>10, DeepStep
  <1>3. CASE ActivateGrant(t)
    <2>1. PICK row : row = [task[t] EXCEPT !.at = "room"] /\ Goes(t, row)
      BY <1>3 DEF ActivateGrant
    <2>2. PICK on : on = task[t].on
      OBVIOUS
    <2>3. /\ task[t].at = "activate" /\ task[t].kind = "redeem" /\ on \in Grants
          /\ grant' = [grant EXCEPT ![on] = "active"]
          /\ loose' = IF task[t].stale THEN loose \cup {on} ELSE loose
          /\ UNCHANGED <<session, guest, invite, marked, pickup, cast, late, muddled>>
      BY <1>0, <1>3, <2>2 DEF ActivateGrant, At, Shape
    <2>4. grant[on] # "none" /\ (task[t].stale \/ (MayMirror /\ Revocable(on)))
      BY <1>0, <2>2, <2>3 DEF Story, Fresh, Grounded, Redeems
    <2>5. grant'[on] = "active" /\ \A h \in Grants : h # on => grant'[h] = grant[h]
      BY <1>0, <2>3 DEF TablesOK
    <2>6. Onward
      BY <2>3, <2>4, <2>5 DEF Onward, Answered
    <2>7. Marks'
      BY <2>3, <2>4, <2>5 DEF DInv, Marks, Revocable
    <2>8. /\ row.at = "room" /\ row.kind = "redeem" /\ row.on = on /\ row.stale = task[t].stale
      BY <1>0, <2>1, <2>2, <2>3 DEF Rows
    <2>9. Story(row)' /\ Fresh(row)'
      BY <2>3, <2>4, <2>5, <2>8 DEF Story, Fresh, Grounded, Redeems, MayMirror, Revocable
    <2>10. \A g \in Grants : ~Revokes(task[t], g) /\ ~Takes(task[t], g) /\ ~Darkens(task[t], g)
      BY <2>3 DEF Revokes, Takes, Darkens
    <2>11. ASSUME NEW g \in Grants \ loose', Revocable(g)'
           PROVE  MayMirror' \/ (Revocable(g) /\ ~MayMirror)
      BY <2>3, <2>4, <2>5, <2>11 DEF Revocable, MayMirror
    <2>12. ASSUME NEW g \in Grants \ loose', pickup'[g].state = "active"
           PROVE  Revocable(g)' \/ (pickup[g].state = "active" /\ ~Revocable(g))
      BY <2>3, <2>5, <2>12 DEF Revocable
    <2>13. guest' # "none" => guest # "none"
      BY <2>3
    <2> QED BY <2>1, <2>3, <2>6, <2>7, <2>9, <2>10, <2>11, <2>12, <2>13, DeepStep
  <1>4. CASE UndoRedeem(t)
    <2>1. PICK row : row = [task[t] EXCEPT !.at = "pickups", !.held = {task[t].on}] /\ Goes(t, row)
      BY <1>4 DEF UndoRedeem
    <2>2. /\ task[t].at = "undo" /\ task[t].kind = "redeem" /\ task[t].on \in Grants
          /\ grant' = IF grant[task[t].on] = "active"
                      THEN [grant EXCEPT ![task[t].on] = "issued"] ELSE grant
          /\ UNCHANGED <<session, guest, invite, marked, pickup, cast, late, muddled, loose>>
      BY <1>0, <1>4 DEF UndoRedeem, At, Shape
    <2>3. \A g \in Grants : /\ Revocable(g)' = Revocable(g)
                            /\ grant[g] # "none" => grant'[g] # "none"
                            /\ grant[g] = "over" => grant'[g] = "over"
      BY <1>0, <2>2 DEF TablesOK, Revocable
    <2>4. Onward
      BY <2>2, <2>3 DEF Onward, Answered
    <2>5. Marks'
      BY <2>2, <2>3 DEF DInv, Marks
    <2>6. row.at = "pickups" /\ row.kind = "redeem"
      BY <1>0, <2>1, <2>2 DEF Rows
    <2>7. Story(row)' /\ Fresh(row)'
      BY <2>6 DEF Story, Fresh, Grounded, Redeems
    <2>8. \A g \in Grants : ~Revokes(task[t], g) /\ ~Takes(task[t], g) /\ ~Darkens(task[t], g)
      BY <2>2 DEF Revokes, Takes, Darkens
    <2>9. MayMirror' = MayMirror /\ (guest' # "none" => guest # "none")
      BY <2>2 DEF MayMirror
    <2> QED BY <2>1, <2>2, <2>3, <2>4, <2>5, <2>7, <2>8, <2>9, DeepStep
  <1> QED BY <1>1, <1>2, <1>3, <1>4

LEMMA DeepCasts ==
  ASSUME IInv, DInv, NEW t \in Tasks,
         LookForRoom(t) \/ MakeCast(t) \/ PickUp(t) \/ LightCast(t) \/ SyncCast(t)
  PROVE  DInv'
  <1>0. /\ TablesOK /\ PickupsMade /\ task[t] \in Rows /\ Shape(task[t])
        /\ ListedPickups(task[t]) /\ Story(task[t]) /\ Fresh(task[t])
    BY TaskFacts, DeepFacts DEF IInv
  <1>n. "none" \notin Casts
    BY CollaborationAssumption
  <1>1. CASE LookForRoom(t)
    <2>1. PICK found, row :
            found \in {"make", "undo"} /\ row = [task[t] EXCEPT !.at = found] /\ Goes(t, row)
      BY <1>1 DEF LookForRoom
    <2>2. /\ task[t].at = "room" /\ task[t].kind = "redeem"
          /\ UNCHANGED <<tables, muddled, loose>>
      BY <1>0, <1>1 DEF LookForRoom, At, Shape
    <2>3. /\ row.at = found /\ row.kind = "redeem" /\ row.on = task[t].on
          /\ row.stale = task[t].stale
      BY <1>0, <2>1, <2>2 DEF Rows
    <2>4. Story(row) /\ Fresh(row)
      BY <1>0, <2>1, <2>2, <2>3 DEF Story, Fresh, Grounded, Redeems
    <2>5. \A g \in Grants : ~Revokes(task[t], g) /\ ~Takes(task[t], g)
      BY <2>2 DEF Revokes, Takes
    <2> QED BY <2>1, <2>2, <2>4, <2>5, QuietStep
  <1>2. ASSUME NEW row, Goes(t, row), Onward, Story(row)', Fresh(row)', Marks',
               UNCHANGED <<session, guest, grant>>,
               task[t].at \in {"make", "pick", "light"},
               \A g \in Grants \ loose' : pickup'[g].state = "active" =>
                 Revocable(g) \/ pickup[g].state = "active",
               \A c \in Casts \ loose' : cast'[c] = "open" =>
                 \/ row.at = "pick" /\ row.cast = c
                 \/ \E g \in Grants : pickup'[g].cast = c /\ pickup'[g].state = "active"
                 \/ /\ cast[c] = "open" /\ ~(task[t].at = "pick" /\ task[t].cast = c)
                    /\ \A g \in Grants : pickup[g].cast = c =>
                         (pickup[g].state = "active" => pickup'[g].state = "active")
        PROVE  DInv'
    <2>1. \A g \in Grants : /\ Revocable(g)' = Revocable(g) /\ MayMirror' = MayMirror
                            /\ ~Revokes(task[t], g) /\ ~Takes(task[t], g) /\ ~Darkens(task[t], g)
      BY <1>2 DEF Revocable, MayMirror, Revokes, Takes, Darkens
    <2>2. guest' # "none" => guest # "none"
      BY <1>2
    <2> QED BY <1>2, <2>1, <2>2, DeepStep
  <1>3. CASE MakeCast(t)
    <2>1. PICK c, row :
            /\ c \in Casts
            /\ task[t].at = "make" /\ cast' = [cast EXCEPT ![c] = "open"]
            /\ UNCHANGED <<session, guest, invite, grant, marked, pickup, late, muddled, loose>>
            /\ row = [task[t] EXCEPT !.at = "pick", !.cast = c] /\ Goes(t, row)
      BY <1>3 DEF MakeCast, At
    <2>2. /\ row.at = "pick" /\ row.kind = "redeem" /\ row.on = task[t].on
          /\ row.stale = task[t].stale /\ row.cast = c
      BY <1>0, <2>1 DEF Rows, Shape
    <2>3. Onward
      BY <2>1 DEF Onward, Answered
    <2>4. Story(row) /\ Fresh(row)
      BY <1>0, <2>1, <2>2 DEF Shape, Story, Fresh, Grounded, Redeems
    <2>5. Story(row)' /\ Fresh(row)'
      BY <2>1, <2>4 DEF Story, Fresh, Grounded, Answered, MayMirror, Revocable
    <2>6. Marks'
      BY <2>1 DEF DInv, Marks
    <2>7. ASSUME NEW d \in Casts, cast'[d] = "open"
          PROVE  d = row.cast \/ cast[d] = "open"
      BY <1>0, <2>1, <2>2, <2>7 DEF TablesOK
    <2> QED BY <1>2, <2>1, <2>2, <2>3, <2>5, <2>6, <2>7
  <1>4. CASE PickUp(t)
    <2> DEFINE first == pickup[task[t].on].state = "none"
    <2>1. PICK row : row = [task[t] EXCEPT !.at = IF first THEN "light" ELSE "undo"] /\ Goes(t, row)
      BY <1>4 DEF PickUp
    <2>2. PICK on, made : on = task[t].on /\ made = task[t].cast
      OBVIOUS
    <2>3. /\ task[t].at = "pick" /\ task[t].kind = "redeem" /\ on \in Grants /\ made \in Casts
          /\ pickup' = IF first THEN [pickup EXCEPT ![on] = [state |-> "active", cast |-> made]]
                       ELSE pickup
          /\ loose' = IF ~first THEN loose \cup {made}
                      ELSE IF task[t].stale THEN loose \cup {on, made} ELSE loose
          /\ UNCHANGED <<session, guest, invite, grant, marked, cast, late, muddled>>
      BY <1>0, <1>4, <2>2 DEF PickUp, At, Shape
    <2>4. grant[on] # "none" /\ (task[t].stale \/ (MayMirror /\ Revocable(on)))
      BY <1>0, <2>2, <2>3 DEF Story, Fresh, Grounded, Redeems
    <2>5. /\ row.kind = "redeem" /\ row.on = on /\ row.cast = made
          /\ row.stale = task[t].stale /\ row.at = IF first THEN "light" ELSE "undo"
      BY <1>0, <2>1, <2>2, <2>3 DEF Rows
    <2>6. CASE first
      <3>1. /\ pickup'[on] = [state |-> "active", cast |-> made]
            /\ \A g \in Grants : g # on => pickup'[g] = pickup[g]
            /\ pickup[on].state = "none" /\ pickup[on].cast = "none"
        BY <1>0, <2>2, <2>3, <2>6 DEF TablesOK, DInv, Marks
      <3>2. pickup'[on].state = "active" /\ pickup'[on].cast = made
        BY <3>1
      <3>3. Onward
        BY <2>3, <2>6, <3>1 DEF Onward, Answered
      <3>4. Marks'
        BY <2>3, <2>4, <2>6, <3>1, <3>2 DEF DInv, Marks
      <3>5. Story(row)' /\ Fresh(row)'
        BY <2>3, <2>4, <2>5, <2>6, <3>2 DEF Story, Fresh, Grounded, Redeems, MayMirror, Revocable
      <3>6. ASSUME NEW g \in Grants \ loose', pickup'[g].state = "active"
            PROVE  Revocable(g) \/ pickup[g].state = "active"
        BY <2>3, <2>4, <2>6, <3>1, <3>6
      <3>7. ASSUME NEW c \in Casts, cast'[c] = "open"
            PROVE  \/ \E g \in Grants : pickup'[g].cast = c /\ pickup'[g].state = "active"
                   \/ /\ cast[c] = "open" /\ ~(task[t].at = "pick" /\ task[t].cast = c)
                      /\ \A g \in Grants : pickup[g].cast = c =>
                           (pickup[g].state = "active" => pickup'[g].state = "active")
        <4>1. CASE c = made
          BY <2>3, <3>2, <4>1
        <4>2. CASE c # made
          BY <1>n, <2>2, <2>3, <3>1, <3>7, <4>2
        <4> QED BY <4>1, <4>2
      <3> HIDE DEF first
      <3> QED BY <1>2, <2>1, <2>3, <3>3, <3>4, <3>5, <3>6, <3>7
    <2>7. CASE ~first
      <3>1. pickup' = pickup /\ loose' = loose \cup {made}
        BY <2>3, <2>7
      <3>2. Onward
        BY <2>3, <3>1 DEF Onward, Answered
      <3>3. Marks'
        BY <2>3, <3>1 DEF DInv, Marks
      <3>4. Story(row)' /\ Fresh(row)'
        BY <2>3, <2>4, <2>5, <2>7 DEF Story, Fresh, Grounded, Redeems
      <3> HIDE DEF first
      <3> QED BY <1>2, <2>1, <2>2, <2>3, <3>1, <3>2, <3>3, <3>4
    <2> QED BY <2>6, <2>7
  <1>5. CASE LightCast(t)
    <2>1. /\ task[t].at = "light" /\ task[t].kind = "redeem" /\ task[t].on \in Grants
          /\ task[t].cast \in Casts
          /\ cast' = [cast EXCEPT ![task[t].cast] = "open"]
          /\ loose' = IF task[t].stale THEN loose \cup {task[t].cast} ELSE loose
          /\ UNCHANGED <<session, guest, invite, grant, marked, pickup, late, muddled>>
          /\ Goes(t, Idle)
      BY <1>0, <1>5 DEF LightCast, At, Shape
    <2>2. /\ pickup[task[t].on].cast = task[t].cast
          /\ task[t].stale \/ pickup[task[t].on].state = "active"
      BY <1>0, <2>1 DEF Story, Fresh, Grounded
    <2>3. Onward
      BY <2>1 DEF Onward, Answered
    <2>4. Story(Idle)' /\ Fresh(Idle)'
      BY DEF Idle, Story, Fresh, Grounded, Redeems
    <2>5. Marks'
      BY <2>1 DEF DInv, Marks
    <2>6. ASSUME NEW c \in Casts \ loose', cast'[c] = "open"
          PROVE  \/ \E g \in Grants : pickup'[g].cast = c /\ pickup'[g].state = "active"
                 \/ cast[c] = "open"
      BY <1>0, <2>1, <2>2, <2>6 DEF TablesOK
    <2> QED BY <1>2, <2>1, <2>3, <2>4, <2>5, <2>6
  <1>6. CASE SyncCast(t)
    <2>1. PICK g \in task[t].held :
            /\ task[t].at = "light" /\ task[t].kind = "sync"
            /\ cast' = [cast EXCEPT ![pickup[g].cast] = "open"]
            /\ loose' = IF task[t].stale THEN loose \cup {pickup[g].cast} ELSE loose
            /\ UNCHANGED <<session, guest, invite, grant, marked, pickup, late, muddled>>
            /\ Goes(t, IF task[t].held \ {g} = {} THEN Idle
                       ELSE [task[t] EXCEPT !.held = task[t].held \ {g}])
      BY <1>6 DEF SyncCast, At
    <2> DEFINE rest == task[t].held \ {g}
    <2>2. PICK row : /\ row = IF rest = {} THEN Idle ELSE [task[t] EXCEPT !.held = rest]
                     /\ Goes(t, row)
      BY <2>1
    <2>3. /\ g \in Grants /\ pickup[g].cast \in Casts
          /\ task[t].stale \/ \A h \in task[t].held : pickup[h].state = "active"
      BY <1>0, <2>1 DEF ListedPickups, PickupsMade, Fresh, Grounded, Rows
    <2>4. Onward
      BY <2>1 DEF Onward, Answered
    <2>5. Story(row)' /\ Fresh(row)'
      <3>1. CASE rest = {}
        BY <2>2, <3>1 DEF Idle, Story, Fresh, Grounded, Redeems
      <3>2. CASE rest # {}
        <4>1. /\ row.at = "light" /\ row.kind = "sync" /\ row.held = rest
              /\ row.stale = task[t].stale
          <5> HIDE DEF rest
          <5> QED BY <1>0, <2>1, <2>2, <3>2 DEF Rows
        <4> QED BY <2>1, <2>3, <4>1 DEF Story, Fresh, Grounded, Redeems
      <3> QED BY <3>1, <3>2
    <2>6. Marks'
      BY <2>1 DEF DInv, Marks
    <2>7. ASSUME NEW c \in Casts \ loose', cast'[c] = "open"
          PROVE  \/ \E h \in Grants : pickup'[h].cast = c /\ pickup'[h].state = "active"
                 \/ cast[c] = "open"
      BY <1>0, <2>1, <2>3, <2>7 DEF TablesOK
    <2> HIDE DEF rest
    <2> QED BY <1>2, <2>1, <2>2, <2>4, <2>5, <2>6, <2>7
  <1> QED BY <1>1, <1>3, <1>4, <1>5, <1>6

-----------------------------------------------------------------------------
LEMMA DeepStart == Init => DInv
  <1> SUFFICES ASSUME Init PROVE DInv
    OBVIOUS
  <1>1. \A t \in Tasks : task[t] = Idle
    BY DEF Init
  <1>2. Tasked
    BY <1>1, IdleIsQuiet DEF Tasked
  <1>3. Seated /\ Marks /\ Stage /\ Picked /\ Dark
    BY DEF Init, Seated, Marks, Stage, Picked, Dark, Revocable
  <1> QED BY <1>2, <1>3 DEF DInv

\* An invite is sent by no request in progress.
LEMMA DeepCreate ==
  ASSUME IInv, DInv, NEW i \in Invites, CreateInvite(i)
  PROVE  DInv'
  <1>1. /\ Goes("none", Idle) /\ invite[i] = "none" /\ invite' = [invite EXCEPT ![i] = "pending"]
        /\ UNCHANGED <<session, guest, grant, marked, pickup, cast, late, muddled, loose>>
    BY DEF CreateInvite
  <1>2. "none" \notin Tasks
    BY CollaborationAssumption DEF Tasks
  <1>3. \A j \in Invites : Answered(j) => Answered(j)'
    BY <1>1 DEF IInv, TablesOK, Answered
  <1>4. Onward
    BY <1>1, <1>3 DEF Onward
  <1>5. Tasked'
    BY <1>1, <1>2, <1>4, TaskedStep DEF DInv
  <1>6. Seated'
    BY <1>1, <1>3 DEF DInv, Seated
  <1>7. Marks'
    BY <1>1 DEF DInv, Marks
  <1>8. \A u \in Tasks : /\ task'[u].kind = task[u].kind /\ task'[u].at = task[u].at
                         /\ task'[u].on = task[u].on /\ task'[u].held = task[u].held
                         /\ task'[u].stamped = task[u].stamped
                         /\ task'[u].cast = task[u].cast
    BY <1>1, <1>2, Others
  <1>9. Stage'
    BY <1>1, <1>8 DEF DInv, Stage, Revocable, MayMirror, Revokes
  <1>10. Picked'
    BY <1>1, <1>8 DEF DInv, Picked, Revocable, Takes
  <1>11. Dark'
    BY <1>1, <1>8 DEF DInv, Dark, Mirrors, Darkens
  <1> QED BY <1>5, <1>6, <1>7, <1>9, <1>10, <1>11 DEF DInv

\* A request cut short: what there is then is on record.
LEMMA DeepCut ==
  ASSUME IInv, DInv, NEW t \in Tasks, CutShort(t)
  PROVE  DInv'
  <1>1. /\ Goes(t, Idle) /\ UNCHANGED <<session, guest, invite, grant, marked, pickup, cast, muddled>>
        /\ loose \subseteq loose'
        /\ \A g \in Grants \ loose' : grant[g] = "none"
        /\ \A c \in Casts \ loose' : cast[c] # "open"
    BY DEF CutShort, tables
  <1>2. Onward
    BY <1>1 DEF Onward, Answered
  <1>3. Marks'
    BY <1>1 DEF DInv, Marks
  <1>4. Story(Idle)' /\ Fresh(Idle)'
    BY DEF Idle, Story, Fresh, Grounded, Redeems
  <1>5. \A g \in Grants \ loose' : ~Revocable(g)' /\ pickup'[g].state # "active"
    BY <1>1 DEF Revocable, DInv, Marks
  <1>6. \A c \in Casts \ loose' : cast'[c] # "open"
    BY <1>1
  <1>7. guest' # "none" => guest # "none"
    BY <1>1
  <1> QED BY <1>1, <1>2, <1>3, <1>4, <1>5, <1>6, <1>7, DeepStep

LEMMA DeepKeeps == IInv /\ DInv /\ [Next]_vars => DInv'
  <1> SUFFICES ASSUME IInv, DInv, [Next]_vars PROVE DInv'
    OBVIOUS
  <1>1. ASSUME UNCHANGED <<session, guest, invite, grant, marked, pickup, cast, task,
                           muddled, loose>>
        PROVE  DInv'
    <2>1. Tasked'
      BY <1>1 DEF DInv, Tasked, Story, Fresh, Grounded, Answered, MayMirror, Revocable
    <2>2. Seated' /\ Marks' /\ Stage' /\ Picked' /\ Dark'
      BY <1>1 DEF DInv, Seated, Answered, Marks, Stage, Picked, Dark, Mirrors, Darkens,
         Revokes, Takes, MayMirror, Revocable
    <2> QED BY <2>1, <2>2 DEF DInv
  <1>2. CASE Lapse
    BY <1>1, <1>2 DEF Lapse
  <1>3. CASE UNCHANGED vars
    BY <1>1, <1>3 DEF vars
  <1>4. ASSUME NEW t \in Tasks, Work(t) PROVE DInv'
    BY <1>4, DeepInvites, DeepEnds, DeepLists, DeepDarkens, DeepGrants, DeepCasts DEF Work
  <1> QED BY <1>2, <1>3, <1>4, DeepCreate, DeepCut, DeepAsks DEF Next, Tasks

LEMMA Deep == Spec => [](IInv /\ DInv)
  <1> QED BY Start, Keeps, DeepStart, DeepKeeps, PTL DEF Spec

\* For any number of invites, requests and passes: whoever is in the session was
\* answered into it, by an invite that stands as accepted, or by one that was
\* answered twice over on a reading that no longer held.
THEOREM SeatsAreInvited == Spec => []SeatedByInvite
  <1>1. DInv => SeatedByInvite
    BY DEF DInv, Seated, Answered, SeatedByInvite
  <1> QED BY <1>1, Deep, PTL

\* For any number of requests and grants: a grant open off the stage, and a pickup
\* active without its grant, each have a request on its way to them, which read
\* them after the change that it answers; or are on record as left behind.
THEOREM MirrorFollows == Spec => []MirrorFollowsTheStage
  <1>1. IInv /\ DInv => MirrorFollowsTheStage
    <2> SUFFICES ASSUME DInv, NEW g \in Grants \ loose
                 PROVE  /\ Revocable(g) => MayMirror \/ Closing(g)
                        /\ pickup[g].state = "active" => Revocable(g) \/ Closing(g)
      BY DEF MirrorFollowsTheStage, GrantsNeedTheStage, PickupsNeedTheirGrant
    <2>1. ASSUME NEW t \in Tasks, Revocable(g), Revokes(task[t], g) PROVE Closing(g)
      BY <2>1 DEF Closing, Revokes
    <2>2. ASSUME NEW t \in Tasks, Takes(task[t], g) PROVE Closing(g)
      BY <2>2 DEF Closing, Takes
    <2> QED BY <2>1, <2>2 DEF DInv, Stage, Picked
  <1> QED BY <1>1, Deep, PTL

\* For any number of requests and broadcasts: a broadcast open on the guest's
\* channel belongs to an active pickup, or its request is between two statements
\* of making it or of taking it down; or it is on record as left behind.
THEOREM MirrorsGoDark == Spec => []MirrorGoesDark
  <1>1. IInv /\ DInv => MirrorGoesDark
    <2> SUFFICES ASSUME DInv, NEW c \in Casts \ loose, cast[c] = "open"
                 PROVE  \/ \E g \in Grants : /\ pickup[g].cast = c
                                             /\ pickup[g].state = "active" \/ Closing(g) \/ g \in loose
                        \/ \E t \in Tasks : task[t].at = "pick" /\ task[t].cast = c
      BY DEF MirrorGoesDark
    <2>1. ASSUME NEW g \in Grants, NEW t \in Tasks, Darkens(task[t], g) PROVE Closing(g)
      <3>1. task[t].at = "dark" /\ g \in task[t].held
        BY <2>1, DeepFacts DEF Darkens, DInv, Tasked, Story
      <3> QED BY <3>1 DEF Closing
    <2> QED BY <2>1 DEF DInv, Dark, Mirrors
  <1> QED BY <1>1, Deep, PTL
=============================================================================
