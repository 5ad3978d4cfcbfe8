----------------------------- MODULE LiveIngest -----------------------------
(***************************************************************************)
(* One creator going live: the broadcasts, the ingest sessions of the      *)
(* encoders, the creator's profile and the public listing, as the          *)
(* handlers of ingest/ and control/ write them.                            *)
(*                                                                         *)
(* No handler opens a transaction.  What a handler read first it uses      *)
(* last, and its writes to the five tables are five statements, each by    *)
(* id.  Handlers differ in what they read and in the values they write,    *)
(* hardly in the order, so the writes are shared actions (WriteSession to  *)
(* WriteListing) and `mode' says which handler's values are written.       *)
(***************************************************************************)
EXTENDS Integers, FiniteSets

CONSTANTS
  Clients,         \* requests that may be in progress
  Poller,          \* the background pass
  NoBroadcast,     \* a NULL current_broadcast_id
  MaxSessions,     \* bound: ingest sessions ever inserted
  MaxBroadcasts,   \* bound: broadcasts ever created
  MaxRotations,    \* bound: stream key rotations
  MaxFaults,       \* bound: times requests are cut short
  MaxTogether      \* bound: calls in progress at the same time

ASSUME LiveAssumption ==
  /\ Poller \notin Clients
  /\ NoBroadcast \notin Nat
  /\ {MaxSessions, MaxBroadcasts, MaxRotations, MaxFaults, MaxTogether}
       \subseteq Nat

Calls      == Clients \cup {Poller}
Sessions   == 1 .. MaxSessions      \* in the order of connected_at
Broadcasts == 1 .. MaxBroadcasts    \* in the order of started_at

VARIABLES
  session,     \* live_ingest_sessions
  broadcast,   \* the status of each broadcast
  profile,     \* live_status and current_broadcast_id of the creator
  flag,        \* streamers.is_live
  listed,      \* the creator's row in live_streams exists
  key,         \* the stream key, counted by rotations
  call,        \* the requests in progress
  crossed,     \* history: requests overlapped, one was cut short, or one
               \* closed a session that a later one had replaced
  faults

vars == <<session, broadcast, profile, flag, listed, key, call, crossed, faults>>

-----------------------------------------------------------------------------
Terminal   == {"ended", "terminated"}
SessionRow == [status : {"absent", "connected", "stale"} \cup Terminal,
               of : Broadcasts \cup {NoBroadcast},
               silent : BOOLEAN,     \* last_heartbeat_at is past the cutoff
               key : Nat]            \* what stream_key_hash is the hash of
BroadcastStatus == {"absent", "ready", "live", "ended"}
ProfileRow == [status : {"offline", "ready", "live"},
               current : Broadcasts \cup {NoBroadcast}]
Kinds == {"none", "connect", "start", "end", "rotate", "beat", "disconnect",
          "terminate", "reconcile"}
Modes == {"none", "live", "ready", "stale", "takeover", "ended", "terminated", "end"}
Steps == {"idle", "active", "next", "fetch", "look", "decide", "insert", "create",
          "point", "rekey", "beat", "session", "broadcast", "profile", "flag", "listing", "sessions"}
CallState == [kind : Kinds, pc : Steps, mode : Modes,
              todo : SUBSET Sessions,
              s : Sessions \cup {0}, b : Broadcasts \cup {NoBroadcast}, key : Nat]

Request(kind, pc, mode, s, b) ==
  [kind |-> kind, pc |-> pc, mode |-> mode, todo |-> {}, s |-> s, b |-> b,
   key |-> key]
NoCall == [kind |-> "none", pc |-> "idle", mode |-> "none", todo |-> {},
           s |-> 0, b |-> NoBroadcast, key |-> 0]

Connected == {s \in Sessions : session[s].status = "connected"}
\* is_live_ingest_session_stale: connected, and no heartbeat for 45 s.
Silent == {s \in Connected : session[s].silent}
\* ORDER BY connected_at DESC LIMIT 1
Latest(s) == s \in Connected /\ \A r \in Connected : r <= s

Open == {b \in Broadcasts : broadcast[b] \in {"ready", "live"}}
Fresh(table, ids) == {i \in ids : table[i] = "absent" /\
                                   \A j \in ids : j < i => table[j] # "absent"}

Busy == {c \in Calls : call[c].pc # "idle"}
CanStart(c) == call[c].pc = "idle" /\ Cardinality(Busy) < MaxTogether

Goto(c, pc) == call' = [call EXCEPT ![c].pc = pc]
Done(c) == call' = [call EXCEPT ![c] = NoCall]

\* The writes that follow a decision, with the values of `mode'.
Writes(c, pc, mode, s) ==
  call' = [call EXCEPT ![c] = [kind |-> @.kind, pc |-> pc, mode |-> mode,
                               todo |-> @.todo \ {s}, s |-> s, b |-> @.b,
                               key |-> @.key]]

\* The broadcast a write is about: that of the session, if there is one.
Target(c) == IF call[c].s = 0 THEN call[c].b ELSE session[call[c].s].of

Tables == <<session, broadcast, profile, flag, listed, key, crossed, faults>>

Init ==
  /\ session = [s \in Sessions |-> [status |-> "absent", of |-> NoBroadcast,
                                    silent |-> FALSE, key |-> 0]]
  /\ broadcast = [b \in Broadcasts |-> "absent"]
  /\ profile = [status |-> "offline", current |-> NoBroadcast]
  /\ flag = FALSE /\ listed = FALSE /\ key = 0
  /\ call = [c \in Calls |-> NoCall]
  /\ crossed = FALSE /\ faults = 0

-----------------------------------------------------------------------------
(* What a request reads first, and whether it goes on.                     *)

Begin(c, request) ==
  /\ CanStart(c)
  /\ call' = [call EXCEPT ![c] = request]
  /\ crossed' = (crossed \/ Busy # {})
  /\ UNCHANGED <<session, broadcast, profile, flag, listed, key, faults>>

\* connect_live_ingest: the key is the creator's, and the broadcast, named in
\* the request or the current one, is ready or live.
Connect(c, b) ==
  /\ c \in Clients /\ b \in Open
  /\ Begin(c, Request("connect", "active", "none", 0, b))

\* start_broadcast, end_broadcast (the broadcast must be the current one),
\* rotate_stream_key.
Start(c) ==
  c \in Clients /\ Begin(c, Request("start", "active", "none", 0, NoBroadcast))

End(c) ==
  /\ c \in Clients /\ profile.current # NoBroadcast
  /\ Begin(c, Request("end", "active", "none", 0, profile.current))

Rotate(c) ==
  /\ c \in Clients /\ key < MaxRotations
  /\ Begin(c, Request("rotate", "active", "none", 0, NoBroadcast))

\* The token of the session, and a status that is looked at only here.
Heartbeat(c, s) ==
  /\ c \in Clients /\ s \in Connected
  /\ Begin(c, Request("beat", "beat", "none", s, NoBroadcast))

Disconnect(c, s) ==
  /\ c \in Clients /\ session[s].status \in {"connected", "stale"}
  /\ Begin(c, Request("disconnect", "session", "ended", s, NoBroadcast))

\* The encoder's, the creator's and the operator's terminate.
Terminate(c, s) ==
  /\ c \in Clients /\ s \in Connected
  /\ Begin(c, Request("terminate", "session", "terminated", s, NoBroadcast))

\* reconcile_stale_live_ingest_sessions, by the background pass or a read.
Reconcile(c) ==
  Silent # {} /\ Begin(c, Request("reconcile", "active", "none", 0, NoBroadcast))

-----------------------------------------------------------------------------
(* fetch_active_live_ingest_session: the sessions that have gone silent    *)
(* are listed, each is marked, then the latest connected one is read.      *)

List(c, sessions) ==
  /\ call[c].pc = "active"
  /\ call' = [call EXCEPT ![c] = [kind |-> @.kind, pc |-> "next", mode |-> @.mode,
                               todo |-> sessions, s |-> @.s, b |-> @.b, key |-> @.key]]
  /\ UNCHANGED Tables

\* (A variant whose comparison with the cutoff is reversed.)
ListTalking(c) == List(c, Connected \ Silent)

ListSilent(c) == List(c, Silent)

MarkNext(c, s) ==
  /\ call[c].pc = "next" /\ s \in call[c].todo
  /\ Writes(c, "session", "stale", s)
  /\ UNCHANGED Tables

AllMarked(c) ==
  /\ call[c].pc = "next" /\ call[c].todo = {}
  /\ IF call[c].kind = "reconcile" THEN Done(c) ELSE Goto(c, "fetch")
  /\ UNCHANGED Tables

\* A session that fell silent after that is marked by the request itself.
TakeOver(c, s) ==
  /\ call[c].pc = "fetch" /\ call[c].kind \in {"connect", "start"}
  /\ Latest(s) /\ s \in Silent
  /\ Writes(c, "session", "takeover", s)
  /\ UNCHANGED Tables

Fetched(c, kind) == call[c].pc = "fetch" /\ call[c].kind = kind
LatestIsSilent == \E s \in Silent : Latest(s)

\* A connect is refused while any session is connected.
ConnectDecides(c) ==
  /\ Fetched(c, "connect") /\ ~LatestIsSilent
  /\ IF Connected # {} THEN Done(c) ELSE Goto(c, "insert")
  /\ UNCHANGED Tables

Having(status) == {b \in Broadcasts : broadcast[b] = status}

\* The snapshot queries the live broadcast and the ready one side by side: in
\* whichever order they are answered, one that is found is returned.  `mode'
\* holds the status the second query asks for.
StartLooks(c) ==
  /\ call[c].pc = "look" \/ (Fetched(c, "start") /\ ~LatestIsSilent)
  /\ \/ Open # {} /\ Done(c)
     \/ Having("live") = {} /\ Writes(c, "decide", "ready", 0)
     \/ Having("ready") = {} /\ Writes(c, "decide", "live", 0)
  /\ UNCHANGED Tables

StartDecides(c) ==
  /\ call[c].pc = "decide"
  /\ IF Having(call[c].mode) # {} THEN Done(c) ELSE Goto(c, "create")
  /\ UNCHANGED Tables

EndDecides(c) ==
  /\ Fetched(c, "end")
  /\ \/ \E s \in Sessions :
          /\ Latest(s) /\ session[s].of = call[c].b
          /\ Writes(c, "session", "ended", s)
     \/ /\ \A s \in Sessions : Latest(s) => session[s].of # call[c].b
        /\ Writes(c, "broadcast", "end", 0)
  /\ UNCHANGED Tables

RotateDecides(c) ==
  /\ Fetched(c, "rotate")
  /\ \/ \E s \in Sessions : Latest(s) /\ Writes(c, "rekey", "terminated", s)
     \/ Connected = {} /\ Writes(c, "rekey", "none", 0)
  /\ UNCHANGED Tables

\* The key is replaced, and then the session that was active before is closed.
Rekey(c) ==
  /\ call[c].pc = "rekey"
  /\ key' = key + 1
  /\ IF call[c].s = 0 THEN Done(c) ELSE Goto(c, "session")
  /\ UNCHANGED <<session, broadcast, profile, flag, listed, crossed, faults>>

-----------------------------------------------------------------------------
(* The rows a request creates.                                             *)

Insert(c) ==
  /\ call[c].pc = "insert"
  /\ \E s \in Fresh([r \in Sessions |-> session[r].status], Sessions) :
       /\ session' = [session EXCEPT ![s] = [status |-> "connected",
                        of |-> call[c].b, silent |-> FALSE, key |-> call[c].key]]
       /\ Writes(c, "broadcast", "live", s)
  /\ UNCHANGED <<broadcast, profile, flag, listed, key, crossed, faults>>

Create(c) ==
  /\ call[c].pc = "create"
  /\ \E b \in Fresh(broadcast, Broadcasts) :
       /\ broadcast' = [broadcast EXCEPT ![b] = "ready"]
       /\ call' = [call EXCEPT ![c] = [kind |-> @.kind, pc |-> "point", mode |-> @.mode,
                        todo |-> @.todo, s |-> @.s, b |-> b, key |-> @.key]]
  /\ UNCHANGED <<session, profile, flag, listed, key, crossed, faults>>

Point(c) ==
  /\ call[c].pc = "point"
  /\ profile' = [status |-> "ready", current |-> call[c].b]
  /\ Done(c)
  /\ UNCHANGED <<session, broadcast, flag, listed, key, crossed, faults>>

\* The heartbeat's UPDATE sets status = 'connected' for the id it was given,
\* and refreshes the listing of the creator.
Beat(c) ==
  /\ call[c].pc = "beat"
  /\ session' = [session EXCEPT ![call[c].s] =
        [status |-> "connected", of |-> @.of, silent |-> FALSE, key |-> @.key]]
  /\ Writes(c, "listing", "live", call[c].s)
  /\ UNCHANGED <<broadcast, profile, flag, listed, key, crossed, faults>>

-----------------------------------------------------------------------------
(* The writes of transition_broadcast_to_live (live), of                   *)
(* mark_live_ingest_session_stale_in_db (stale), of                        *)
(* close_live_ingest_session (ended, terminated) and of end_broadcast when *)
(* no session is active (end).                                             *)

Stales(c) == call[c].mode \in {"stale", "takeover"}

\* By id, whatever the status has become since the session was read.
WriteSession(c) == LET s == call[c].s IN
  /\ call[c].pc = "session"
  /\ session' = [session EXCEPT ![s] =
        [status |-> IF Stales(c) THEN "stale" ELSE call[c].mode,
         of |-> @.of, silent |-> FALSE, key |-> @.key]]
  /\ crossed' = (crossed \/ /\ call[c].mode \in Terminal
                                /\ \E r \in Sessions : r > s /\ session[r].status # "absent")
  /\ Goto(c, "broadcast")
  /\ UNCHANGED <<broadcast, profile, flag, listed, key, faults>>

\* (A variant without the condition.)
ReadyUnguarded(status) == "ready"

\* The stale mark returns to 'ready' only a broadcast that is live.
Ready(status) == IF status = "live" THEN "ready" ELSE status

WriteBroadcast(c) == LET m == call[c].mode  b == Target(c) IN
  /\ call[c].pc = "broadcast"
  /\ broadcast' = [broadcast EXCEPT ![b] =
        CASE m = "live"  -> "live"
          [] Stales(c)   -> Ready(@)
          [] OTHER       -> "ended"]
  /\ Goto(c, "profile")
  /\ UNCHANGED <<session, profile, flag, listed, key, crossed, faults>>

\* (A variant that keeps pointing to the broadcast.)
ClosedPointing(current) == [status |-> "offline", current |-> current]

Closed(current) == [status |-> "offline", current |-> NoBroadcast]

WriteProfile(c) == LET m == call[c].mode IN
  /\ call[c].pc = "profile"
  /\ profile' = CASE m = "live" -> [status |-> "live", current |-> Target(c)]
                  [] Stales(c)  -> [status |-> "ready", current |-> Target(c)]
                  [] OTHER      -> Closed(profile.current)
  /\ Goto(c, "flag")
  /\ UNCHANGED <<session, broadcast, flag, listed, key, crossed, faults>>

WriteFlag(c) ==
  /\ call[c].pc = "flag"
  /\ flag' = (call[c].mode = "live")
  /\ Goto(c, "listing")
  /\ UNCHANGED <<session, broadcast, profile, listed, key, crossed, faults>>

\* After marking a session stale a request takes up what it was about.
ResumesAt(c) == CASE call[c].mode = "stale"     -> "next"
                  [] call[c].kind = "connect"   -> "insert"
                  [] OTHER                      -> "look"

WriteListing(c) ==
  /\ call[c].pc = "listing"
  /\ listed' = (call[c].mode = "live")
  /\ CASE Stales(c)             -> Writes(c, ResumesAt(c), "none", 0)
       [] call[c].mode = "end"  -> Goto(c, "sessions")
       [] OTHER                 -> Done(c)
  /\ UNCHANGED <<session, broadcast, profile, flag, key, crossed, faults>>

\* end_broadcast's UPDATE of every session of the broadcast.
EndSessions(c) ==
  /\ call[c].pc = "sessions"
  /\ session' = [s \in Sessions |->
       IF session[s].of = call[c].b /\ session[s].status \in {"connected", "stale"}
       THEN [status |-> "ended", of |-> call[c].b, silent |-> FALSE, key |-> session[s].key]
       ELSE session[s]]
  /\ Done(c)
  /\ UNCHANGED <<broadcast, profile, flag, listed, key, crossed, faults>>

-----------------------------------------------------------------------------
\* 45 s without a heartbeat.
FallSilent(s) ==
  /\ s \in Connected \ Silent
  /\ session' = [session EXCEPT ![s].silent = TRUE]
  /\ UNCHANGED <<broadcast, profile, flag, listed, key, call, crossed, faults>>

\* A statement fails and `?' leaves the handler, or the process restarts.
CutShort(C) ==
  /\ C # {} /\ C \subseteq Busy /\ faults < MaxFaults
  /\ faults' = faults + 1
  /\ call' = [c \in Calls |-> IF c \in C THEN NoCall ELSE call[c]]
  /\ crossed' = TRUE
  /\ UNCHANGED <<session, broadcast, profile, flag, listed, key>>

Continue(c) ==
  \/ ConnectDecides(c) \/ StartLooks(c) \/ StartDecides(c) \/ EndDecides(c) \/ RotateDecides(c)
  \/ Rekey(c) \/ Insert(c) \/ Create(c) \/ Point(c) \/ Beat(c)
  \/ WriteSession(c) \/ WriteBroadcast(c) \/ WriteProfile(c) \/ WriteFlag(c)
  \/ WriteListing(c) \/ EndSessions(c)
  \/ ListSilent(c) \/ AllMarked(c)
  \/ \E s \in Sessions : MarkNext(c, s) \/ TakeOver(c, s)

Arrive(c) ==
  \/ Start(c) \/ End(c) \/ Rotate(c) \/ Reconcile(c)
  \/ \E b \in Broadcasts : Connect(c, b)
  \/ \E s \in Sessions : \/ Heartbeat(c, s) \/ Disconnect(c, s)
                         \/ Terminate(c, s)

Next ==
  \/ \E c \in Calls : Continue(c) \/ Arrive(c)
  \/ \E s \in Sessions : FallSilent(s)
  \/ \E C \in SUBSET Calls : CutShort(C)

Spec == Init /\ [][Next]_vars

\* A spawned handler runs to its end, and the background pass comes round.
FairSpec ==
  /\ Spec
  /\ \A c \in Calls : WF_vars(Continue(c))
  /\ WF_vars(Reconcile(Poller))
-----------------------------------------------------------------------------
\* The shape of the tables and of what the requests carry.
TypeOK ==
  /\ session \in [Sessions -> SessionRow]
  /\ broadcast \in [Broadcasts -> BroadcastStatus]
  /\ profile \in ProfileRow
  /\ flag \in BOOLEAN /\ listed \in BOOLEAN /\ key \in Nat
  /\ call \in [Calls -> CallState]
  /\ crossed \in BOOLEAN /\ faults \in Nat

\* As long as requests ran one after another, each to its end, the five tables
\* tell one story whenever none is running: at most one broadcast is open and
\* one encoder connected, and the broadcast, the profile, the flag and the
\* listing say so.  (Not where an encoder has disconnected a session that
\* another one had already replaced.)
TablesAgree ==
  Busy = {} /\ ~crossed =>
    /\ \A r, s \in Connected : r = s
    /\ \A a, b \in Open : a = b
    /\ flag <=> Connected # {}
    /\ listed <=> Connected # {}
    /\ profile.current = NoBroadcast <=> Open = {}
    /\ \A b \in Open : profile = [status |-> broadcast[b], current |-> b]
    /\ \A s \in Connected : broadcast[session[s].of] = "live"

\* An ended broadcast comes back only through a connect that was let in; a
\* stale mark that arrives late does not reopen it.
EndedStaysEnded ==
  [][\A b \in Broadcasts :
       broadcast[b] = "ended" /\ broadcast'[b] # "ended" =>
         \E c \in Calls : call[c].kind = "connect" /\ call[c].b = b]_vars

\* An encoder that has gone silent does not stay connected: the background
\* pass comes, unless a heartbeat does.
SilentSessionsLeave ==
  \A s \in Sessions : s \in Silent ~> s \notin Silent
=============================================================================
