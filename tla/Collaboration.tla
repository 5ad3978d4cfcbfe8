----------------------------- MODULE Collaboration -----------------------------
(***************************************************************************)
(* A collaboration session on a host's broadcast and one guest of it: the  *)
(* guest's invites, its row as a participant, the grants that let it carry *)
(* the broadcast on its own channel, and the pickups with the broadcasts   *)
(* that are made when a grant is redeemed (collab, collabs and mirror of   *)
(* the API).                                                               *)
(*                                                                         *)
(* Every request reads, decides and then writes row after row, with no     *)
(* transaction and, mostly, by id alone: it is a record of where it is and *)
(* of what it read.  The tables a pickup touches on the guest's channel    *)
(* (broadcasts, creator_profiles, live_streams, streamers) are one         *)
(* broadcast here, open or ended.  The guest has a creator profile; its    *)
(* invites ask for the mirror.                                             *)
(***************************************************************************)
EXTENDS Integers, FiniteSets

CONSTANTS
  Hosts,      \* requests of the host in progress (its encoder's among them)
  Guests,     \* requests of the guest in progress
  Servers,    \* passes over what has expired (every read makes one too)
  Invites,    \* bound: invites sent
  Grants,     \* bound: grants issued
  Casts,      \* bound: broadcasts made on the guest's channel
  Slips       \* bound: exceptions on record, after which nothing more is asked

ASSUME CollaborationAssumption ==
  /\ Grants \cap Casts = {}
  /\ Invites \cap Grants = {} /\ Invites \cap Casts = {}
  /\ Slips \in Nat
  /\ "none" \notin Invites \cup Grants \cup Casts \cup Hosts \cup Guests \cup Servers

VARIABLES
  session,   \* collaboration_sessions.status
  guest,     \* the participant's state and mirror_to_guest_channel
  invite,    \* collaboration_invites.state: "closed" is declined, revoked, expired
  grant,     \* collaboration_mirror_grants.state: "over" is revoked, expired
  marked,    \* the grants whose revoked_at is set
  pickup,    \* collaboration_mirror_pickups: state, guest_broadcast_id
  cast,      \* the broadcasts made for pickups
  late,      \* the invites and grants whose expires_at has passed
  task,      \* the requests in progress
  muddled,   \* history: invites answered on a reading that no longer held
  loose      \* history: grants and broadcasts left to themselves by a write on
             \* such a reading, or by a request cut short

vars == <<session, guest, invite, grant, marked, pickup, cast, late, task,
          muddled, loose>>

-----------------------------------------------------------------------------
Tasks == Hosts \cup Guests \cup Servers
\* "live" with the mirror on, "solo" with it off; "gone": left, removed.
GuestStates == {"none", "backstage", "live", "solo", "gone"}
InviteStates == {"none", "pending", "accepted", "closed"}
GrantStates == {"none", "issued", "active", "over"}
Kinds == {"none", "accept", "close", "update", "remove", "end", "withdraw",
          "issue", "redeem", "sync", "sweep"}
Places == {"none", "answer", "look", "join", "seat", "list", "revoke", "pickups",
           "end", "dark", "insert", "activate", "room", "make", "pick", "light",
           "undo", "close", "seats", "invites", "expire"}
\* `on': the invite, or the grant at hand; `seat': the guest's row as it will be
\* written, or was read; `held': the grants read and not done with; `stamped':
\* those whose revoked_at this pass set; `stale': what it read has ceased to hold.
Rows == [kind : Kinds, at : Places, on : Invites \cup Grants \cup {"none"},
         seat : GuestStates, held : SUBSET Grants, stamped : SUBSET Grants,
         cast : Casts \cup {"none"}, stale : BOOLEAN]
Idle == [kind |-> "none", at |-> "none", on |-> "none", seat |-> "none",
         held |-> {}, stamped |-> {}, cast |-> "none", stale |-> FALSE]

Revocable(g) == grant[g] \in {"issued", "active"}
MayMirror == session = "active" /\ guest = "live"

Answer == [accept |-> "accepted", close |-> "closed"]

\* What a request relies on from its reading to its writing.
World == [session |-> session, guest |-> guest, invite |-> invite,
          grant |-> grant, pickup |-> pickup]
Grounds(row, world) ==
  CASE row.kind \in DOMAIN Answer ->
         IF row.at = "answer" THEN world.invite[row.on] \in {"pending", Answer[row.kind]}
         ELSE world.guest \notin {"live", "solo"}
    [] row.kind = "issue" -> world.session = "active" /\ world.guest = "live"
    [] row.kind = "redeem" ->
         /\ world.session = "active" /\ world.guest = "live"
         /\ world.grant[row.on] \in {"issued", "active"}
         /\ row.at = "light" => world.pickup[row.on].state = "active"
    [] row.kind = "sync" -> \A g \in row.held : world.pickup[g].state = "active"
    [] OTHER -> TRUE

\* Request t goes on as `row'; the others see their grounds go, or not.
Goes(t, row) ==
  task' = [u \in Tasks |->
    IF u = t THEN row
    ELSE [task[u] EXCEPT !.stale =
            @ \/ (Grounds(task[u], World) /\ ~Grounds(task[u], World'))]]
At(t, place) == task[t].at = place
On(t) == task[t].on

Init ==
  /\ session = "active" /\ guest = "none"
  /\ invite = [i \in Invites |-> "none"]
  /\ grant = [g \in Grants |-> "none"] /\ marked = {}
  /\ pickup = [g \in Grants |-> [state |-> "none", cast |-> "none"]]
  /\ cast = [c \in Casts |-> "none"]
  /\ late = {}
  /\ task = [t \in Tasks |-> Idle]
  /\ muddled = {} /\ loose = {}

tables == <<session, guest, invite, grant, marked, pickup, cast, late>>
Admit(t, row) ==
  /\ At(t, "none")
  /\ UNCHANGED <<tables, muddled, loose>>
  /\ Goes(t, row)
Begin(kind, at) == [Idle EXCEPT !.kind = kind, !.at = at]

-----------------------------------------------------------------------------
(* Invites.                                                                *)

\* (A second one sent beside this one only adds an invite.)
CreateInvite(i) ==
  /\ session = "active" /\ guest \in {"none", "gone"}
  /\ \A j \in Invites : invite[j] # "pending"
  /\ invite[i] = "none"
  /\ invite' = [invite EXCEPT ![i] = "pending"]
  /\ UNCHANGED <<session, guest, grant, marked, pickup, cast, late, muddled, loose>>
  /\ Goes("none", Idle)

Pending(i) == invite[i] = "pending" /\ i \notin late
AcceptInvite(t, i)  == Pending(i) /\ Admit(t, [Begin("accept", "answer") EXCEPT !.on = i])
\* (A variant that closes an invite whatever it is.)
CloseAny(t, i) == invite[i] # "none" /\ Admit(t, [Begin("close", "answer") EXCEPT !.on = i])
\* The guest declines; the host revokes (in an active session) just the same.
CloseInvite(t, i)  == Pending(i) /\ Admit(t, [Begin("close", "answer") EXCEPT !.on = i])
ExpireInvite(t, i)  == /\ invite[i] = "pending" /\ i \in late
                       /\ Admit(t, [Begin("close", "answer") EXCEPT !.on = i])

\* The invite is answered by its id alone.
AnswerInvite(t) ==
  LET row == task[t] IN
  /\ At(t, "answer")
  /\ invite' = [invite EXCEPT ![row.on] = Answer[row.kind]]
  /\ muddled' = IF row.stale THEN muddled \cup {row.on} ELSE muddled
  /\ UNCHANGED <<session, guest, grant, marked, pickup, cast, late, loose>>
  /\ Goes(t, IF row.kind = "accept" THEN [row EXCEPT !.at = "look"] ELSE Idle)

\* A guest that is live may not be accepted again: the invite stays answered.
LookForGuest(t) ==
  /\ At(t, "look")
  /\ UNCHANGED <<tables, muddled, loose>>
  /\ Goes(t, IF guest \in {"live", "solo"} THEN Idle
             ELSE [task[t] EXCEPT !.at = "join", !.seat = guest, !.stale = FALSE])
\* One row of a session and user: an INSERT beside another fails.
JoinBackstage(t) ==
  LET row == task[t]
      taken == row.seat = "none" /\ guest # "none"
  IN
  /\ At(t, "join")
  /\ guest' = IF taken THEN guest ELSE "backstage"
  /\ loose' = IF row.stale /\ ~taken THEN loose \cup {g \in Grants : Revocable(g)}
              ELSE loose
  /\ UNCHANGED <<session, invite, grant, marked, pickup, cast, late, muddled>>
  /\ Goes(t, Idle)

-----------------------------------------------------------------------------
(* The guest's row.                                                        *)

Transitions == [backstage |-> {"backstage", "live", "solo", "gone"},
                live |-> {"live", "solo", "backstage", "gone"},
                solo |-> {"live", "solo", "backstage", "gone"},
                gone |-> {"gone", "backstage"}]
UpdateParticipant(t) ==
  /\ session = "active" /\ guest # "none"
  /\ \E state \in Transitions[guest] :
       Admit(t, [Begin("update", "seat") EXCEPT !.seat = state])
\* The host removes the guest, or the guest leaves.
RemoveParticipant(t) ==
  /\ session = "active" /\ guest \in {"backstage", "live", "solo"}
  /\ Admit(t, [Begin("remove", "seat") EXCEPT !.seat = "gone"])

\* (A variant that looks at the state and forgets the mirror.)
WriteStateOnly(t) ==
  LET row == task[t] IN
  /\ At(t, "seat")
  /\ guest' = row.seat
  /\ UNCHANGED <<session, invite, grant, marked, pickup, cast, late, muddled, loose>>
  /\ Goes(t, IF row.seat \in {"live", "solo"} THEN Idle ELSE Begin("withdraw", "list"))
\* The row is written by its id; the grants of a guest off stage are revoked.
WriteParticipant(t) ==
  LET row == task[t] IN
  /\ At(t, "seat")
  /\ guest' = row.seat
  /\ UNCHANGED <<session, invite, grant, marked, pickup, cast, late, muddled, loose>>
  /\ Goes(t, IF row.seat = "live" THEN Idle
             ELSE Begin("withdraw", "list"))

\* The session's end: its row, the participants, the invites, then the grants.
EndSession(t) == session = "active" /\ Admit(t, Begin("end", "close"))
CloseSession(t) ==
  LET row == task[t] IN
  \/ /\ At(t, "close")
     /\ session' = "ended"
     /\ UNCHANGED <<guest, invite, grant, marked, pickup, cast, late, muddled, loose>>
     /\ Goes(t, [row EXCEPT !.at = "seats"])
  \/ /\ At(t, "seats")
     /\ guest' = IF guest = "none" THEN "none" ELSE "gone"
     /\ UNCHANGED <<session, invite, grant, marked, pickup, cast, late, muddled, loose>>
     /\ Goes(t, [row EXCEPT !.at = "invites"])
  \/ /\ At(t, "invites")
     /\ invite' = [i \in Invites |->
                     IF invite[i] = "pending" THEN "closed" ELSE invite[i]]
     /\ UNCHANGED <<session, guest, grant, marked, pickup, cast, late, muddled, loose>>
     /\ Goes(t, Begin("withdraw", "list"))

-----------------------------------------------------------------------------
(* Grants are revoked, and what was made on them taken down.               *)

RevokeGrants(t) == guest # "none" /\ Admit(t, Begin("withdraw", "list"))

After(row) == IF row.kind = "issue" THEN [row EXCEPT !.at = "insert", !.held = {}]
              ELSE Idle
\* With nothing to revoke the pickups are not looked at.
ListGrants(t) ==
  LET open == {g \in Grants : Revocable(g)} IN
  /\ At(t, "list")
  /\ UNCHANGED <<tables, muddled, loose>>
  /\ Goes(t, IF open = {} THEN After(task[t])
             ELSE [task[t] EXCEPT !.at = "revoke", !.held = open])
\* Every open grant is revoked, those that were not in the list among them.
RevokeListed(t) ==
  LET open == {g \in Grants : Revocable(g)} IN
  /\ At(t, "revoke")
  /\ grant' = [g \in Grants |-> IF g \in open THEN "over" ELSE grant[g]]
  /\ marked' = marked \cup open
  /\ loose' = loose \cup {g \in open \ task[t].held : pickup[g].state = "active"}
  /\ UNCHANGED <<session, guest, invite, pickup, cast, late, muddled>>
  /\ Goes(t, [task[t] EXCEPT !.at = "pickups"])

ListPickups(t) ==
  LET row == task[t]
      active == {g \in row.held : /\ pickup[g].state = "active"
                                  /\ row.kind = "sweep" => grant[g] = "over"}
  IN
  /\ At(t, "pickups")
  /\ UNCHANGED <<tables, muddled, loose>>
  /\ Goes(t, IF active = {} THEN After(row)
             ELSE [row EXCEPT !.at = "end", !.held = active, !.stamped = {}])
EndPickup(t) ==
  \E g \in task[t].held :
    /\ At(t, "end")
    /\ pickup' = [pickup EXCEPT ![g].state = "ended"]
    /\ UNCHANGED <<session, guest, invite, grant, marked, cast, late, muddled, loose>>
    /\ Goes(t, [task[t] EXCEPT !.at = "dark", !.on = g])
EndCast(t) ==
  LET row == task[t]
      rest == row.held \ {row.on}
  IN
  /\ At(t, "dark")
  /\ cast' = [cast EXCEPT ![pickup[row.on].cast] = "ended"]
  /\ UNCHANGED <<session, guest, invite, grant, marked, pickup, late, muddled, loose>>
  /\ Goes(t, IF rest = {} THEN After(row) ELSE [row EXCEPT !.at = "end", !.held = rest])

-----------------------------------------------------------------------------
(* A grant is issued and redeemed.                                         *)

IssueGrant(t) ==
  /\ MayMirror
  /\ \E g \in Grants : grant[g] = "none"
  /\ Admit(t, Begin("issue", "list"))
InsertGrant(t) ==
  /\ At(t, "insert")
  /\ \/ \E g \in Grants :
          /\ grant[g] = "none"
          /\ grant' = [grant EXCEPT ![g] = "issued"]
          /\ loose' = IF task[t].stale THEN loose \cup {g} ELSE loose
     \/ /\ \A g \in Grants : grant[g] # "none"
        /\ UNCHANGED <<grant, loose>>
  /\ UNCHANGED <<session, guest, invite, marked, pickup, cast, late, muddled>>
  /\ Goes(t, Idle)

RedeemGrant(t, g) ==
  /\ grant[g] = "issued" /\ g \notin late /\ MayMirror
  /\ Admit(t, [Begin("redeem", "activate") EXCEPT !.on = g])
ActivateGrant(t) ==
  LET row == task[t] IN
  /\ At(t, "activate")
  /\ grant' = [grant EXCEPT ![row.on] = "active"]
  /\ loose' = IF row.stale THEN loose \cup {row.on} ELSE loose
  /\ UNCHANGED <<session, guest, invite, marked, pickup, cast, late, muddled>>
  /\ Goes(t, [row EXCEPT !.at = "room"])
\* The guest's channel is free, or carries another broadcast; one of its own, or
\* the one of a pickup, which a second pickup may not name.
LookForRoom(t) ==
  \E found \in {"make", "undo"} :
    /\ At(t, "room")
    /\ found = "make" => \A c \in Casts : cast[c] # "open"
    /\ UNCHANGED <<tables, muddled, loose>>
    /\ Goes(t, [task[t] EXCEPT !.at = found])
MakeCast(t) ==
  \E c \in Casts :
    /\ At(t, "make") /\ cast[c] = "none"
    /\ cast' = [cast EXCEPT ![c] = "open"]
    /\ UNCHANGED <<session, guest, invite, grant, marked, pickup, late, muddled, loose>>
    /\ Goes(t, [task[t] EXCEPT !.at = "pick", !.cast = c])
\* One pickup of a grant, for good: a second INSERT fails, and its broadcast stays.
PickUp(t) ==
  LET row == task[t]
      first == pickup[row.on].state = "none"
  IN
  /\ At(t, "pick")
  /\ pickup' = IF first THEN [pickup EXCEPT ![row.on] =
                                [state |-> "active", cast |-> row.cast]]
               ELSE pickup
  /\ loose' = IF ~first THEN loose \cup {row.cast}
              ELSE IF row.stale THEN loose \cup {row.on, row.cast} ELSE loose
  /\ UNCHANGED <<session, guest, invite, grant, marked, cast, late, muddled>>
  /\ Goes(t, [row EXCEPT !.at = IF first THEN "light" ELSE "undo"])
LightCast(t) ==
  LET row == task[t] IN
  /\ At(t, "light") /\ row.kind = "redeem"
  /\ cast' = [cast EXCEPT ![row.cast] = "open"]
  /\ loose' = IF row.stale THEN loose \cup {row.cast} ELSE loose
  /\ UNCHANGED <<session, guest, invite, grant, marked, pickup, late, muddled>>
  /\ Goes(t, Idle)
\* (A variant that gives the grant back whatever became of it.)
UndoAlways(t) ==
  LET row == task[t] IN
  /\ At(t, "undo")
  /\ grant' = [grant EXCEPT ![row.on] = "issued"]
  /\ UNCHANGED <<session, guest, invite, marked, pickup, cast, late, muddled, loose>>
  /\ Goes(t, [row EXCEPT !.at = "pickups", !.held = {row.on}])
UndoRedeem(t) ==
  LET row == task[t] IN
  /\ At(t, "undo")
  /\ grant' = IF grant[row.on] = "active" THEN [grant EXCEPT ![row.on] = "issued"]
              ELSE grant
  /\ UNCHANGED <<session, guest, invite, marked, pickup, cast, late, muddled, loose>>
  /\ Goes(t, [row EXCEPT !.at = "pickups", !.held = {row.on}])

\* (A variant that lists the pickups there ever were.)
SyncAll(t) ==
  LET active == {g \in Grants : pickup[g].state # "none"} IN
  /\ session = "active" /\ active # {}
  /\ Admit(t, [Begin("sync", "light") EXCEPT !.held = active])
\* The host's ingest moves: the broadcasts of the active pickups follow it.
SyncPickups(t) ==
  LET active == {g \in Grants : pickup[g].state = "active"} IN
  /\ session = "active" /\ active # {}
  /\ Admit(t, [Begin("sync", "light") EXCEPT !.held = active])
SyncCast(t) ==
  \E g \in task[t].held :
    LET row == task[t]
        rest == row.held \ {g}
    IN
    /\ At(t, "light") /\ row.kind = "sync"
    /\ cast' = [cast EXCEPT ![pickup[g].cast] = "open"]
    /\ loose' = IF row.stale THEN loose \cup {pickup[g].cast} ELSE loose
    /\ UNCHANGED <<session, guest, invite, grant, marked, pickup, late, muddled>>
    /\ Goes(t, IF rest = {} THEN Idle ELSE [row EXCEPT !.held = rest])

-----------------------------------------------------------------------------
(* Time, and the passes over what has expired (any read makes one too).    *)

Lapse ==
  \E x \in {i \in Invites : invite[i] = "pending"} \cup {g \in Grants : Revocable(g)} :
    /\ x \notin late
    /\ late' = late \cup {x}
    /\ UNCHANGED <<session, guest, invite, grant, marked, pickup, cast, task,
                   muddled, loose>>

\* (A variant that looks for unredeemed grants only.)
ExpireIssued(t) ==
  LET due == {g \in Grants : grant[g] = "issued" /\ g \in late} IN
  /\ due # {}
  /\ Admit(t, [Begin("sweep", "expire") EXCEPT !.held = due])
ExpireGrants(t) ==
  LET due == {g \in Grants : Revocable(g) /\ g \in late} IN
  /\ due # {}
  /\ Admit(t, [Begin("sweep", "expire") EXCEPT !.held = due])
\* By id again; the pickups taken down are those of the grants stamped here.
ExpireGrant(t) ==
  \E g \in task[t].held :
    LET row == task[t]
        rest == row.held \ {g}
        stamped == row.stamped \cup ({g} \ marked)
    IN
    /\ At(t, "expire")
    /\ grant' = [grant EXCEPT ![g] = "over"]
    /\ marked' = marked \cup {g}
    /\ UNCHANGED <<session, guest, invite, pickup, cast, late, muddled, loose>>
    /\ Goes(t, IF rest # {} THEN [row EXCEPT !.held = rest, !.stamped = stamped]
               ELSE [row EXCEPT !.at = "pickups", !.held = stamped, !.stamped = stamped])

\* A request cut short after its first write (its client goes, an error, a
\* crash): what it would still have taken down stays up.  (Bound: once.)
Begun(row) ==
  \/ row.at \in {"seats", "invites", "list", "revoke", "pickups", "end", "dark",
                 "room", "make", "pick", "light", "undo"}
  \/ row.at = "expire" /\ row.stamped # {}
CutShort(t) ==
  /\ Begun(task[t]) /\ loose = {}
  /\ loose' = loose \cup {g \in Grants : grant[g] # "none"}
                    \cup {c \in Casts : cast[c] # "none"}
  /\ UNCHANGED <<tables, muddled>>
  /\ Goes(t, Idle)

-----------------------------------------------------------------------------
Asking == Cardinality(muddled \cup loose) <= Slips
HostAsks(t) ==
  \/ \E i \in Invites : CloseInvite(t, i)
  \/ UpdateParticipant(t) \/ RemoveParticipant(t) \/ EndSession(t)
  \/ RevokeGrants(t) \/ IssueGrant(t) \/ SyncPickups(t)
GuestAsks(t) ==
  \/ \E i \in Invites : AcceptInvite(t, i) \/ CloseInvite(t, i)
  \/ RemoveParticipant(t)
  \/ \E g \in Grants : RedeemGrant(t, g)
ServerAsks(t) ==
  \/ ExpireGrants(t)
  \/ \E i \in Invites : ExpireInvite(t, i)
Work(t) ==
  \/ AnswerInvite(t) \/ LookForGuest(t) \/ JoinBackstage(t)
  \/ WriteParticipant(t) \/ CloseSession(t)
  \/ ListGrants(t) \/ RevokeListed(t) \/ ListPickups(t) \/ EndPickup(t) \/ EndCast(t)
  \/ InsertGrant(t) \/ ActivateGrant(t) \/ LookForRoom(t) \/ MakeCast(t)
  \/ PickUp(t) \/ LightCast(t) \/ UndoRedeem(t) \/ SyncCast(t) \/ ExpireGrant(t)

Next ==
  \/ \E i \in Invites : CreateInvite(i)
  \/ Lapse
  \/ Asking /\ \E t \in Hosts : HostAsks(t)
  \/ Asking /\ \E t \in Guests : GuestAsks(t)
  \/ \E t \in Servers : ServerAsks(t)
  \/ \E t \in Tasks : Work(t) \/ CutShort(t)

\* The passes come round every few seconds, and each statement returns.
Fairness == /\ \A t \in Servers : WF_vars(ExpireGrants(t))
            /\ \A t \in Tasks : WF_vars(Work(t))
Spec == Init /\ [][Next]_vars /\ Fairness

-----------------------------------------------------------------------------
TypeOK ==
  /\ session \in {"active", "ended"}
  /\ guest \in GuestStates
  /\ invite \in [Invites -> InviteStates]
  /\ grant \in [Grants -> GrantStates] /\ marked \subseteq Grants
  /\ pickup \in [Grants -> [state : {"none", "active", "ended"},
                            cast : Casts \cup {"none"}]]
  /\ cast \in [Casts -> {"none", "open", "ended"}]
  /\ late \subseteq Invites \cup Grants
  /\ task \in [Tasks -> Rows]
  /\ muddled \subseteq Invites /\ loose \subseteq Grants \cup Casts

\* A guest is in the session by an invite that stands as accepted, however the
\* answers to it crossed; unless one of them was given on a reading that had
\* ceased to hold (the answers of collabs/member/invite.rs, host/invites.rs and
\* the expiry pass are each written by id alone).
SeatedByInvite ==
  guest \in {"backstage", "live", "solo"} =>
    \E i \in Invites : invite[i] = "accepted" \/ i \in muddled

\* Some request is on its way to g: it has taken the guest off the stage, or has
\* listed the grant.
Closing(g) ==
  \E t \in Tasks :
    LET row == task[t] IN
    \/ row.at \in {"seats", "invites", "list"} /\ row.kind # "issue" /\ Revocable(g)
    \/ row.at \in {"revoke", "pickups", "end", "dark", "expire"} /\ g \in row.held \cup row.stamped

\* A grant is open only while its guest is live with the mirror in an active
\* session, or a request is on its way to revoke it; unless it was written on a
\* reading that had ceased to hold (mirror/grants.rs, host/participants.rs,
\* member/leave.rs, sessions/end.rs).
GrantsNeedTheStage ==
  \A g \in Grants \ loose : Revocable(g) => MayMirror \/ Closing(g)

\* A pickup is active only while its grant is open or a request that took the
\* grant away is on its way to it, with the same exception
\* (mirror/pickups/lifecycle.rs, runtime/reconciliation.rs).
PickupsNeedTheirGrant ==
  \A g \in Grants \ loose : pickup[g].state = "active" => Revocable(g) \/ Closing(g)

\* Stage, grant and pickup follow each other, but for what is on record
\* (mirror/grants.rs, mirror/pickups/lifecycle.rs).
MirrorFollowsTheStage == GrantsNeedTheStage /\ PickupsNeedTheirGrant

\* The guest's channel carries a mirror only for an active pickup, or between two
\* statements of the request that makes it or takes it down
\* (mirror/pickups/broadcast.rs, sync.rs, lifecycle.rs).
MirrorGoesDark ==
  \A c \in Casts \ loose : cast[c] = "open" =>
    \/ \E g \in Grants : /\ pickup[g].cast = c
                         /\ pickup[g].state = "active" \/ Closing(g) \/ g \in loose
    \/ \E t \in Tasks : task[t].at = "pick" /\ task[t].cast = c

\* What was revoked or has expired is not open again, whoever comes late with
\* what; unless a redeem that had read the grant open makes it so
\* (redeem_collaboration_mirror_grant_internal writes by id).
OverStaysOver ==
  [][\A g \in Grants : (grant[g] = "over" /\ grant'[g] # "over") => g \in loose']_vars

\* The pickup of a grant that has expired is taken down in the end: the pass
\* finds the grant open and late, and the pickup by the stamp it set itself.
ExpiryReleases ==
  \A g \in Grants :
    (pickup[g].state = "active" /\ g \in late /\ g \notin loose)
      ~> (pickup[g].state = "ended" \/ g \in loose)
=============================================================================
