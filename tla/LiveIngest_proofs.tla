------------------------- MODULE LiveIngest_proofs -------------------------
(***************************************************************************)
(* Theorems about LiveIngest, for any number of requests, sessions and     *)
(* broadcasts: the types, that only a connect reopens a broadcast, and     *)
(* that requests one after another leave the five tables in agreement.     *)
(***************************************************************************)
EXTENDS LiveIngest, TLAPS

\* What a request carries at a step: a session to close or to mark, and a
\* live write only by the connect that inserted a session of its broadcast.
CarriesOK(c) ==
  /\ call[c].pc = "session" => call[c].mode \in {"stale", "takeover"} \cup Terminal
  /\ call[c].pc = "insert" => call[c].kind = "connect"
  /\ call[c].pc = "rekey" /\ call[c].s # 0 => call[c].mode = "terminated"
  /\ call[c].pc = "broadcast" /\ call[c].mode = "live" =>
       /\ call[c].kind = "connect" /\ call[c].s \in Sessions
       /\ session[call[c].s].status # "absent"
       /\ session[call[c].s].of = call[c].b

IInv == TypeOK /\ \A c \in Calls : CarriesOK(c)

\* No statement deletes a session or moves it to another broadcast.
SessionsKept == \A s \in Sessions : session[s].status # "absent" =>
  session'[s].status # "absent" /\ session'[s].of = session[s].of

\* TypeOK without the requests.
TablesOK ==
  /\ session \in [Sessions -> SessionRow]
  /\ broadcast \in [Broadcasts -> BroadcastStatus]
  /\ profile \in ProfileRow
  /\ flag \in BOOLEAN /\ listed \in BOOLEAN /\ key \in Nat
  /\ crossed \in BOOLEAN /\ faults \in Nat

\* What a step of one request leaves of the others.
OneCall(c) == /\ call' \in [Calls -> CallState]
              /\ \A d \in Calls \ {c} : call'[d] = call[d]

-----------------------------------------------------------------------------
LEMMA GotoMoves ==
  ASSUME TypeOK, NEW c \in Calls, NEW pc \in Steps, Goto(c, pc)
  PROVE  /\ OneCall(c) /\ call'[c].pc = pc /\ call'[c].kind = call[c].kind
         /\ call'[c].mode = call[c].mode /\ call'[c].s = call[c].s
         /\ call'[c].b = call[c].b
  BY DEF TypeOK, Goto, OneCall, CallState

LEMMA WritesMoves ==
  ASSUME TypeOK, NEW c \in Calls, NEW pc \in Steps, NEW mode \in Modes,
         NEW s \in Sessions \cup {0}, Writes(c, pc, mode, s)
  PROVE  /\ OneCall(c) /\ call'[c].pc = pc /\ call'[c].kind = call[c].kind
         /\ call'[c].mode = mode /\ call'[c].s = s /\ call'[c].b = call[c].b
  <1>1. [kind |-> call[c].kind, pc |-> pc, mode |-> mode,
         todo |-> call[c].todo \ {s}, s |-> s, b |-> call[c].b,
         key |-> call[c].key] \in CallState
    BY DEF TypeOK, CallState
  <1> QED BY <1>1 DEF TypeOK, Writes, OneCall

LEMMA DoneMoves ==
  ASSUME TypeOK, NEW c \in Calls, Done(c)
  PROVE  OneCall(c) /\ call'[c].pc = "idle"
  <1>1. NoCall \in CallState
    BY DEF NoCall, CallState, Kinds, Steps, Modes
  <1> QED BY <1>1 DEF TypeOK, Done, OneCall, NoCall

LEMMA BeginMoves ==
  ASSUME TypeOK, NEW c \in Calls, NEW kind \in Kinds, NEW pc \in Steps,
         NEW mode \in Modes, NEW s \in Sessions \cup {0},
         NEW b \in Broadcasts \cup {NoBroadcast},
         Begin(c, Request(kind, pc, mode, s, b))
  PROVE  /\ OneCall(c) /\ call'[c].pc = pc /\ call'[c].mode = mode
         /\ TablesOK' /\ SessionsKept
  <1>1. Request(kind, pc, mode, s, b) \in CallState
    BY DEF TypeOK, Request, CallState
  <1>2. OneCall(c) /\ call'[c] = Request(kind, pc, mode, s, b)
    BY <1>1 DEF TypeOK, Begin, OneCall
  <1>3. TablesOK'
    BY DEF TypeOK, Begin, TablesOK
  <1>4. SessionsKept
    BY DEF Begin, SessionsKept
  <1> QED BY <1>2, <1>3, <1>4 DEF Request

\* A step that changes one call and no session keeps what the others carry.
LEMMA CarriesKept ==
  ASSUME IInv, NEW c \in Calls, OneCall(c), SessionsKept, CarriesOK(c)'
  PROVE  \A d \in Calls : CarriesOK(d)'
  BY DEF IInv, TypeOK, OneCall, SessionsKept, CarriesOK

LEMMA SameSessions ==
  ASSUME session' = session
  PROVE  SessionsKept
  BY DEF SessionsKept

LEMMA Assemble ==
  ASSUME IInv, NEW c \in Calls, OneCall(c), SessionsKept, CarriesOK(c)', TablesOK'
  PROVE  IInv'
  BY CarriesKept DEF IInv, TypeOK, TablesOK, OneCall

LEMMA SameTables ==
  ASSUME IInv, UNCHANGED Tables
  PROVE  TablesOK' /\ SessionsKept
  BY SameSessions DEF IInv, TypeOK, TablesOK, Tables

\* A request that turns to a step which demands nothing of it.
LEMMA Turns ==
  ASSUME IInv, NEW c \in Calls, OneCall(c), SessionsKept, TablesOK',
         call'[c].pc \notin {"session", "insert", "rekey", "broadcast"}
  PROVE  IInv'
  <1>1. CarriesOK(c)'
    BY DEF CarriesOK
  <1> QED BY <1>1, Assemble

-----------------------------------------------------------------------------
LEMMA ArriveKeeps ==
  ASSUME IInv, NEW c \in Calls, Arrive(c)
  PROVE  IInv'
  <1>1. TypeOK
    BY DEF IInv
  <1>0. /\ Kinds = {"none", "connect", "start", "end", "rotate", "beat", "disconnect",
                    "terminate", "reconcile"}
        /\ {"active", "beat", "session"} \subseteq Steps
        /\ {"none", "ended", "terminated"} \subseteq Modes
        /\ NoBroadcast \in Broadcasts \cup {NoBroadcast}
        /\ profile.current \in Broadcasts \cup {NoBroadcast}
        /\ 0 \in Sessions \cup {0}
    BY <1>1 DEF Kinds, Steps, Modes, TypeOK, ProfileRow
  <1>2. ASSUME NEW kind \in Kinds, NEW b \in Broadcasts \cup {NoBroadcast},
               Begin(c, Request(kind, "active", "none", 0, b))
        PROVE  IInv'
    <2>1. OneCall(c) /\ call'[c].pc = "active" /\ TablesOK' /\ SessionsKept
      BY <1>0, <1>1, <1>2, BeginMoves
    <2> QED BY <2>1, Turns
  <1>3. CASE Start(c)
    BY <1>0, <1>2, <1>3 DEF Start
  <1>4. CASE End(c)
    BY <1>0, <1>2, <1>4 DEF End
  <1>5. CASE Rotate(c)
    BY <1>0, <1>2, <1>5 DEF Rotate
  <1>6. CASE Reconcile(c)
    BY <1>0, <1>2, <1>6 DEF Reconcile
  <1>7. ASSUME NEW b \in Broadcasts, Connect(c, b) PROVE IInv'
    BY <1>0, <1>2, <1>7 DEF Connect
  <1>8. ASSUME NEW s \in Sessions, Heartbeat(c, s) PROVE IInv'
    <2>1. OneCall(c) /\ call'[c].pc = "beat" /\ TablesOK' /\ SessionsKept
      BY <1>0, <1>1, <1>8, BeginMoves DEF Heartbeat
    <2> QED BY <2>1, Turns
  <1>9. ASSUME NEW s \in Sessions, Disconnect(c, s) \/ Terminate(c, s) PROVE IInv'
    <2>1. /\ OneCall(c) /\ call'[c].pc = "session" /\ TablesOK' /\ SessionsKept
          /\ call'[c].mode \in Terminal
      BY <1>0, <1>1, <1>9, BeginMoves DEF Disconnect, Terminate, Terminal
    <2>2. CarriesOK(c)'
      BY <2>1 DEF CarriesOK
    <2> QED BY <2>1, <2>2, Assemble
  <1> QED BY <1>3, <1>4, <1>5, <1>6, <1>7, <1>8, <1>9 DEF Arrive

-----------------------------------------------------------------------------
\* The steps that read and decide change no table.
LEMMA DecisionsKeep ==
  ASSUME IInv, NEW c \in Calls,
         \/ ConnectDecides(c) \/ StartLooks(c) \/ StartDecides(c)
         \/ EndDecides(c) \/ RotateDecides(c) \/ AllMarked(c) \/ ListSilent(c)
         \/ \E s \in Sessions : MarkNext(c, s) \/ TakeOver(c, s)
  PROVE  IInv'
  <1>1. TypeOK
    BY DEF IInv
  <1>0. /\ {"idle", "next", "fetch", "look", "decide", "insert", "create", "rekey",
            "session", "broadcast"} \subseteq Steps
        /\ {"none", "live", "ready", "stale", "takeover", "ended", "terminated", "end"}
             \subseteq Modes
        /\ 0 \in Sessions \cup {0}
    BY DEF Steps, Modes
  <1>2. CASE ConnectDecides(c)
    <2>1. UNCHANGED Tables /\ (Done(c) \/ Goto(c, "insert")) /\ call[c].kind = "connect"
      BY <1>2 DEF ConnectDecides, Fetched
    <2>2. /\ OneCall(c) /\ call'[c].pc \in {"idle", "insert"}
          /\ call'[c].pc = "insert" => call'[c].kind = "connect"
      BY <2>1, <1>0, <1>1, DoneMoves, GotoMoves
    <2>3. CarriesOK(c)'
      BY <2>2 DEF CarriesOK
    <2> QED BY <2>1, <2>2, <2>3, SameTables, Assemble
  <1>3. CASE StartLooks(c)
    <2>1. /\ UNCHANGED Tables
          /\ Done(c) \/ \E mode \in {"ready", "live"} : Writes(c, "decide", mode, 0)
      BY <1>3 DEF StartLooks
    <2>2. OneCall(c) /\ call'[c].pc \in {"idle", "decide"}
      BY <2>1, <1>0, <1>1, DoneMoves, WritesMoves
    <2> QED BY <2>1, <2>2, SameTables, Turns
  <1>4. CASE StartDecides(c)
    <2>1. UNCHANGED Tables /\ (Done(c) \/ Goto(c, "create"))
      BY <1>4 DEF StartDecides
    <2> QED BY <2>1, <1>0, <1>1, DoneMoves, GotoMoves, SameTables, Turns
  <1>5. CASE EndDecides(c)
    <2>1. /\ UNCHANGED Tables
          /\ \/ \E s \in Sessions : Writes(c, "session", "ended", s)
             \/ Writes(c, "broadcast", "end", 0)
      BY <1>5 DEF EndDecides
    <2>2. /\ OneCall(c) /\ call'[c].pc \in {"session", "broadcast"}
          /\ call'[c].mode \in {"ended", "end"}
          /\ call'[c].pc = "session" => call'[c].mode = "ended"
      BY <2>1, <1>0, <1>1, WritesMoves
    <2>3. CarriesOK(c)'
      BY <2>2 DEF CarriesOK, Terminal
    <2> QED BY <2>1, <2>2, <2>3, SameTables, Assemble
  <1>6. CASE RotateDecides(c)
    <2>1. /\ UNCHANGED Tables
          /\ \/ \E s \in Sessions : Writes(c, "rekey", "terminated", s)
             \/ Writes(c, "rekey", "none", 0)
      BY <1>6 DEF RotateDecides
    <2>2. /\ OneCall(c) /\ call'[c].pc = "rekey"
          /\ call'[c].s # 0 => call'[c].mode = "terminated"
      BY <2>1, <1>0, <1>1, WritesMoves
    <2>3. CarriesOK(c)'
      BY <2>2 DEF CarriesOK
    <2> QED BY <2>1, <2>2, <2>3, SameTables, Assemble
  <1>7. CASE AllMarked(c)
    <2>1. UNCHANGED Tables /\ (Done(c) \/ Goto(c, "fetch"))
      BY <1>7 DEF AllMarked
    <2> QED BY <2>1, <1>0, <1>1, DoneMoves, GotoMoves, SameTables, Turns
  <1>8. CASE ListSilent(c)
    <2>1. UNCHANGED Tables
      BY <1>8 DEF ListSilent, List
    <2>2. Silent \in SUBSET Sessions
      BY DEF Silent, Connected
    <2>3. [kind |-> call[c].kind, pc |-> "next", mode |-> call[c].mode,
           todo |-> Silent, s |-> call[c].s, b |-> call[c].b, key |-> call[c].key]
             \in CallState
      BY <1>0, <1>1, <2>2 DEF TypeOK, CallState
    <2>4. OneCall(c) /\ call'[c].pc = "next"
      BY <1>1, <1>8, <2>3 DEF ListSilent, List, TypeOK, OneCall
    <2> QED BY <2>1, <2>4, SameTables, Turns
  <1>9. ASSUME NEW s \in Sessions, MarkNext(c, s) \/ TakeOver(c, s) PROVE IInv'
    <2>1. /\ UNCHANGED Tables
          /\ Writes(c, "session", "stale", s) \/ Writes(c, "session", "takeover", s)
      BY <1>9 DEF MarkNext, TakeOver
    <2>2. /\ OneCall(c) /\ call'[c].pc = "session"
          /\ call'[c].mode \in {"stale", "takeover"}
      BY <2>1, <1>0, <1>1, WritesMoves
    <2>3. CarriesOK(c)'
      BY <2>2 DEF CarriesOK
    <2> QED BY <2>1, <2>2, <2>3, SameTables, Assemble
  <1> QED BY <1>2, <1>3, <1>4, <1>5, <1>6, <1>7, <1>8, <1>9

-----------------------------------------------------------------------------
\* The statements that create or change a row of the sessions.
LEMMA SessionWritesKeep ==
  ASSUME IInv, NEW c \in Calls,
         Insert(c) \/ Beat(c) \/ WriteSession(c) \/ EndSessions(c)
  PROVE  IInv' /\ UNCHANGED broadcast
  <1>1. TypeOK /\ CarriesOK(c)
    BY DEF IInv
  <1>0. /\ {"idle", "listing", "broadcast"} \subseteq Steps
        /\ {"live"} \subseteq Modes
        /\ call[c].s \in Sessions \cup {0}
        /\ call[c].b \in Broadcasts \cup {NoBroadcast} /\ call[c].key \in Nat
        /\ Terminal \cup {"connected", "stale"} \subseteq
             {"absent", "connected", "stale"} \cup Terminal
    BY <1>1 DEF Steps, Modes, TypeOK, CallState
  <1>2. CASE Insert(c)
    <2>1. PICK s \in Fresh([r \in Sessions |-> session[r].status], Sessions) :
            /\ session' = [session EXCEPT ![s] = [status |-> "connected",
                             of |-> call[c].b, silent |-> FALSE, key |-> call[c].key]]
            /\ Writes(c, "broadcast", "live", s)
      BY <1>2 DEF Insert
    <2>2. s \in Sessions /\ session[s].status = "absent"
      BY DEF Fresh
    <2>3. /\ UNCHANGED <<broadcast, profile, flag, listed, key, crossed, faults>>
          /\ call[c].pc = "insert"
      BY <1>2 DEF Insert
    <2>4. [status |-> "connected", of |-> call[c].b, silent |-> FALSE,
           key |-> call[c].key] \in SessionRow
      BY <1>0 DEF SessionRow
    <2>5. session' \in [Sessions -> SessionRow]
      BY <1>1, <2>1, <2>4 DEF TypeOK
    <2>6. /\ OneCall(c) /\ call'[c].pc = "broadcast" /\ call'[c].mode = "live"
          /\ call'[c].s = s /\ call'[c].b = call[c].b /\ call'[c].kind = call[c].kind
      BY <1>0, <1>1, <2>1, <2>2, WritesMoves
    <2>7. SessionsKept
      BY <1>1, <2>1, <2>2 DEF SessionsKept, TypeOK
    <2>8. TablesOK'
      BY <1>1, <2>3, <2>5 DEF TablesOK, TypeOK
    <2>9. session'[s].status = "connected" /\ session'[s].of = call[c].b
      BY <1>1, <2>1, <2>2 DEF TypeOK
    <2>10. call[c].kind = "connect"
      BY <1>1, <2>3 DEF CarriesOK
    <2>11. CarriesOK(c)'
      BY <2>2, <2>6, <2>9, <2>10 DEF CarriesOK
    <2> QED BY <2>3, <2>6, <2>7, <2>8, <2>11, Assemble
  <1>3. CASE Beat(c)
    <2>1. /\ session' = [session EXCEPT ![call[c].s] =
                [status |-> "connected", of |-> @.of, silent |-> FALSE, key |-> @.key]]
          /\ Writes(c, "listing", "live", call[c].s)
          /\ UNCHANGED <<broadcast, profile, flag, listed, key, crossed, faults>>
      BY <1>3 DEF Beat
    <2>2. session' \in [Sessions -> SessionRow]
      BY <1>0, <1>1, <2>1 DEF TypeOK, SessionRow
    <2>3. SessionsKept
      BY <1>1, <2>1 DEF SessionsKept, TypeOK
    <2>4. TablesOK'
      BY <1>1, <2>1, <2>2 DEF TablesOK, TypeOK
    <2>5. OneCall(c) /\ call'[c].pc = "listing"
      BY <1>0, <1>1, <2>1, WritesMoves
    <2> QED BY <2>1, <2>3, <2>4, <2>5, Turns
  <1>4. CASE WriteSession(c)
    <2> DEFINE st == IF Stales(c) THEN "stale" ELSE call[c].mode
    <2>1. /\ call[c].pc = "session"
          /\ session' = [session EXCEPT ![call[c].s] =
                [status |-> st, of |-> @.of, silent |-> FALSE, key |-> @.key]]
          /\ crossed' \in BOOLEAN
          /\ Goto(c, "broadcast")
          /\ UNCHANGED <<broadcast, profile, flag, listed, key, faults>>
      BY <1>1, <1>4 DEF WriteSession, TypeOK
    <2>2. call[c].mode \in {"stale", "takeover"} \cup Terminal
      BY <1>1, <2>1 DEF CarriesOK
    <2>3. st \in {"stale"} \cup Terminal /\ st # "absent"
      BY <2>2 DEF Stales, Terminal
    <2> HIDE DEF st
    <2>4. session' \in [Sessions -> SessionRow]
      BY <1>0, <1>1, <2>1, <2>3 DEF TypeOK, SessionRow
    <2>5. SessionsKept
      BY <1>1, <2>1, <2>3 DEF SessionsKept, TypeOK
    <2>6. TablesOK'
      BY <1>1, <2>1, <2>4 DEF TablesOK, TypeOK
    <2>7. OneCall(c) /\ call'[c].pc = "broadcast" /\ call'[c].mode = call[c].mode
      BY <1>0, <1>1, <2>1, GotoMoves
    <2>8. CarriesOK(c)'
      BY <2>2, <2>7 DEF CarriesOK, Terminal
    <2> QED BY <2>1, <2>5, <2>6, <2>7, <2>8, Assemble
  <1>5. CASE EndSessions(c)
    <2>1. /\ session' = [s \in Sessions |->
                IF session[s].of = call[c].b /\ session[s].status \in {"connected", "stale"}
                THEN [status |-> "ended", of |-> call[c].b, silent |-> FALSE, key |-> session[s].key]
                ELSE session[s]]
          /\ Done(c)
          /\ UNCHANGED <<broadcast, profile, flag, listed, key, crossed, faults>>
      BY <1>5 DEF EndSessions
    <2>2. session' \in [Sessions -> SessionRow]
      BY <1>0, <1>1, <2>1 DEF TypeOK, SessionRow, Terminal
    <2>3. SessionsKept
      BY <1>1, <2>1 DEF SessionsKept, TypeOK
    <2>4. TablesOK'
      BY <1>1, <2>1, <2>2 DEF TablesOK, TypeOK
    <2>5. OneCall(c) /\ call'[c].pc = "idle"
      BY <1>1, <2>1, DoneMoves
    <2> QED BY <2>1, <2>3, <2>4, <2>5, Turns
  <1> QED BY <1>2, <1>3, <1>4, <1>5

-----------------------------------------------------------------------------
\* Only a connect reopens a broadcast that has ended.
Reopening == \A b \in Broadcasts :
  broadcast[b] = "ended" /\ broadcast'[b] # "ended" =>
    \E c \in Calls : call[c].kind = "connect" /\ call[c].b = b

LEMMA TargetType ==
  ASSUME TypeOK, NEW c \in Calls
  PROVE  Target(c) \in Broadcasts \cup {NoBroadcast}
  BY DEF TypeOK, Target, CallState, SessionRow

\* The statements of a request on the other tables.
LEMMA TableWritesKeep ==
  ASSUME IInv, NEW c \in Calls,
         \/ Rekey(c) \/ Create(c) \/ Point(c) \/ WriteBroadcast(c)
         \/ WriteProfile(c) \/ WriteFlag(c) \/ WriteListing(c)
  PROVE  IInv' /\ Reopening
  <1>1. TypeOK /\ CarriesOK(c)
    BY DEF IInv
  <1>0. /\ {"idle", "session", "point", "profile", "flag", "listing", "sessions", "next",
            "insert", "look"} \subseteq Steps
        /\ "none" \in Modes /\ 0 \in Sessions \cup {0}
        /\ call[c].b \in Broadcasts \cup {NoBroadcast}
        /\ call[c].s \in Sessions \cup {0}
    BY <1>1 DEF Steps, Modes, TypeOK, CallState
  <1>a. session' = session
    BY DEF Rekey, Create, Point, WriteBroadcast, WriteProfile, WriteFlag, WriteListing
  <1>b. SessionsKept
    BY <1>a, SameSessions
  <1>c. broadcast' = broadcast => Reopening
    BY DEF Reopening
  <1>2. CASE Rekey(c)
    <2>1. /\ key' = key + 1 /\ call[c].pc = "rekey"
          /\ Done(c) \/ (call[c].s # 0 /\ Goto(c, "session"))
          /\ UNCHANGED <<session, broadcast, profile, flag, listed, crossed, faults>>
      BY <1>2 DEF Rekey
    <2>2. TablesOK'
      BY <1>1, <2>1 DEF TablesOK, TypeOK
    <2>3. /\ OneCall(c) /\ call'[c].pc \in {"idle", "session"}
          /\ call'[c].pc = "session" => call[c].s # 0 /\ call'[c].mode = call[c].mode
      BY <1>0, <1>1, <2>1, DoneMoves, GotoMoves
    <2>4. CarriesOK(c)'
      BY <1>1, <2>1, <2>3 DEF CarriesOK, Terminal
    <2> QED BY <1>b, <1>c, <2>1, <2>2, <2>3, <2>4, Assemble
  <1>3. CASE Create(c)
    <2>1. PICK b \in Fresh(broadcast, Broadcasts) :
            /\ broadcast' = [broadcast EXCEPT ![b] = "ready"]
            /\ call' = [call EXCEPT ![c] = [kind |-> @.kind, pc |-> "point", mode |-> @.mode,
                 todo |-> @.todo, s |-> @.s, b |-> b, key |-> @.key]]
      BY <1>3 DEF Create
    <2>2. b \in Broadcasts /\ broadcast[b] = "absent"
      BY DEF Fresh
    <2>3. UNCHANGED <<session, profile, flag, listed, key, crossed, faults>>
      BY <1>3 DEF Create
    <2>4. broadcast' \in [Broadcasts -> BroadcastStatus]
      BY <1>1, <2>1 DEF TypeOK, BroadcastStatus
    <2>5. TablesOK'
      BY <1>1, <2>3, <2>4 DEF TablesOK, TypeOK
    <2>6. [kind |-> call[c].kind, pc |-> "point", mode |-> call[c].mode,
           todo |-> call[c].todo, s |-> call[c].s, b |-> b, key |-> call[c].key]
             \in CallState
      BY <1>0, <1>1, <2>2 DEF TypeOK, CallState
    <2>7. OneCall(c) /\ call'[c].pc = "point"
      BY <1>1, <2>1, <2>6 DEF TypeOK, OneCall
    <2>8. Reopening
      BY <1>1, <2>1, <2>2 DEF TypeOK, Reopening
    <2> QED BY <1>b, <2>5, <2>7, <2>8, Turns
  <1>4. CASE Point(c)
    <2>1. /\ profile' = [status |-> "ready", current |-> call[c].b]
          /\ Done(c)
          /\ UNCHANGED <<session, broadcast, flag, listed, key, crossed, faults>>
      BY <1>4 DEF Point
    <2>2. TablesOK'
      BY <1>0, <1>1, <2>1 DEF TablesOK, TypeOK, ProfileRow
    <2> QED BY <1>1, <1>b, <1>c, <2>1, <2>2, DoneMoves, Turns
  <1>5. CASE WriteBroadcast(c)
    <2> DEFINE val(old) == CASE call[c].mode = "live" -> "live"
                             [] Stales(c) -> Ready(old)
                             [] OTHER -> "ended"
    <2>1. /\ call[c].pc = "broadcast"
          /\ broadcast' = [broadcast EXCEPT ![Target(c)] = val(@)]
          /\ Goto(c, "profile")
          /\ UNCHANGED <<session, profile, flag, listed, key, crossed, faults>>
      BY <1>5 DEF WriteBroadcast
    <2>2. \A old \in BroadcastStatus :
            /\ val(old) \in BroadcastStatus
            /\ call[c].mode # "live" /\ old = "ended" => val(old) = "ended"
      BY DEF Ready, BroadcastStatus, Stales
    <2> HIDE DEF val
    <2>3. TablesOK'
      BY <1>1, <2>1, <2>2 DEF TablesOK, TypeOK
    <2>4. OneCall(c) /\ call'[c].pc = "profile"
      BY <1>0, <1>1, <2>1, GotoMoves
    <2>5. ASSUME NEW b \in Broadcasts, broadcast[b] = "ended", broadcast'[b] # "ended"
          PROVE  call[c].kind = "connect" /\ call[c].b = b
      <3>1. b = Target(c) /\ call[c].mode = "live"
        BY <1>1, <2>1, <2>2, <2>5 DEF TypeOK
      <3>2. /\ call[c].kind = "connect" /\ call[c].s \in Sessions
            /\ session[call[c].s].of = call[c].b
        BY <1>1, <2>1, <3>1 DEF CarriesOK
      <3>3. call[c].s # 0
        BY <3>2, LiveAssumption DEF Sessions
      <3> QED BY <3>1, <3>2, <3>3 DEF Target
    <2>6. Reopening
      BY <2>5 DEF Reopening
    <2> QED BY <1>b, <2>3, <2>4, <2>6, Turns
  <1>6. CASE WriteProfile(c)
    <2>1. /\ profile' \in {[status |-> "live", current |-> Target(c)],
                          [status |-> "ready", current |-> Target(c)],
                          [status |-> "offline", current |-> NoBroadcast]}
          /\ Goto(c, "flag")
          /\ UNCHANGED <<session, broadcast, flag, listed, key, crossed, faults>>
      BY <1>6 DEF WriteProfile, Closed
    <2>2. profile' \in ProfileRow
      BY <1>1, <2>1, TargetType DEF ProfileRow
    <2>3. TablesOK'
      BY <1>1, <2>1, <2>2 DEF TablesOK, TypeOK
    <2>4. OneCall(c) /\ call'[c].pc = "flag"
      BY <1>0, <1>1, <2>1, GotoMoves
    <2> QED BY <1>b, <1>c, <2>1, <2>3, <2>4, Turns
  <1>7. CASE WriteFlag(c)
    <2>1. /\ flag' \in BOOLEAN /\ Goto(c, "listing")
          /\ UNCHANGED <<session, broadcast, profile, listed, key, crossed, faults>>
      BY <1>7 DEF WriteFlag
    <2>2. TablesOK'
      BY <1>1, <2>1 DEF TablesOK, TypeOK
    <2>3. OneCall(c) /\ call'[c].pc = "listing"
      BY <1>0, <1>1, <2>1, GotoMoves
    <2> QED BY <1>b, <1>c, <2>1, <2>2, <2>3, Turns
  <1>8. CASE WriteListing(c)
    <2>1. /\ listed' \in BOOLEAN
          /\ \/ Writes(c, ResumesAt(c), "none", 0)
             \/ Goto(c, "sessions") \/ Done(c)
          /\ UNCHANGED <<session, broadcast, profile, flag, key, crossed, faults>>
      BY <1>8 DEF WriteListing
    <2>2. /\ ResumesAt(c) \in {"next", "insert", "look"}
          /\ ResumesAt(c) = "insert" => call[c].kind = "connect"
      BY DEF ResumesAt
    <2>3. TablesOK'
      BY <1>1, <2>1 DEF TablesOK, TypeOK
    <2>4. /\ OneCall(c) /\ call'[c].pc \in {"next", "insert", "look", "sessions", "idle"}
          /\ call'[c].pc = "insert" => call'[c].kind = "connect"
      <3>1. CASE Writes(c, ResumesAt(c), "none", 0)
        <4>1. ResumesAt(c) \in Steps
          BY <1>0, <2>2
        <4> QED BY <1>0, <1>1, <2>2, <3>1, <4>1, WritesMoves
      <3>2. CASE Goto(c, "sessions")
        BY <1>0, <1>1, <3>2, GotoMoves
      <3>3. CASE Done(c)
        BY <1>1, <3>3, DoneMoves
      <3> QED BY <2>1, <3>1, <3>2, <3>3
    <2>5. CarriesOK(c)'
      BY <2>4 DEF CarriesOK
    <2> QED BY <1>b, <1>c, <2>1, <2>3, <2>4, <2>5, Assemble
  <1> QED BY <1>2, <1>3, <1>4, <1>5, <1>6, <1>7, <1>8

-----------------------------------------------------------------------------
LEMMA ContinueKeeps ==
  ASSUME IInv, NEW c \in Calls, Continue(c)
  PROVE  IInv' /\ Reopening
  <1>1. CASE Insert(c) \/ Beat(c) \/ WriteSession(c) \/ EndSessions(c)
    BY <1>1, SessionWritesKeep DEF Reopening
  <1>2. CASE \/ Rekey(c) \/ Create(c) \/ Point(c) \/ WriteBroadcast(c)
             \/ WriteProfile(c) \/ WriteFlag(c) \/ WriteListing(c)
    BY <1>2, TableWritesKeep
  <1>3. CASE \/ ConnectDecides(c) \/ StartLooks(c) \/ StartDecides(c)
             \/ EndDecides(c) \/ RotateDecides(c) \/ AllMarked(c) \/ ListSilent(c)
             \/ \E s \in Sessions : MarkNext(c, s) \/ TakeOver(c, s)
    <2>1. broadcast' = broadcast
      BY <1>3 DEF ConnectDecides, StartLooks, StartDecides, EndDecides, RotateDecides,
                  AllMarked, ListSilent, List, MarkNext, TakeOver, Tables
    <2> QED BY <1>3, <2>1, DecisionsKeep DEF Reopening
  <1> QED BY <1>1, <1>2, <1>3 DEF Continue

LEMMA ArriveReopensNothing ==
  ASSUME NEW c \in Calls, Arrive(c)
  PROVE  broadcast' = broadcast
  BY DEF Arrive, Start, End, Rotate, Reconcile, Connect, Heartbeat, Disconnect,
         Terminate, Begin, Tables

LEMMA EnvironmentKeeps ==
  ASSUME IInv, \/ \E s \in Sessions : FallSilent(s)
               \/ \E C \in SUBSET Calls : CutShort(C)
  PROVE  IInv' /\ Reopening
  <1>1. TypeOK
    BY DEF IInv
  <1>2. ASSUME NEW s \in Sessions, FallSilent(s) PROVE IInv' /\ Reopening
    <2>1. /\ session' = [session EXCEPT ![s].silent = TRUE]
          /\ UNCHANGED <<broadcast, profile, flag, listed, key, call, crossed, faults>>
      BY <1>2 DEF FallSilent
    <2>2. session' \in [Sessions -> SessionRow]
      BY <1>1, <2>1 DEF TypeOK, SessionRow
    <2>3. \A r \in Sessions : session'[r].status = session[r].status
                             /\ session'[r].of = session[r].of
      BY <1>1, <2>1 DEF TypeOK
    <2>4. TypeOK'
      BY <1>1, <2>1, <2>2 DEF TypeOK
    <2>5. \A c \in Calls : CarriesOK(c)'
      BY <2>1, <2>3 DEF IInv, CarriesOK
    <2> QED BY <2>1, <2>4, <2>5 DEF IInv, Reopening
  <1>3. ASSUME NEW C \in SUBSET Calls, CutShort(C) PROVE IInv' /\ Reopening
    <2>1. /\ faults' = faults + 1
          /\ call' = [c \in Calls |-> IF c \in C THEN NoCall ELSE call[c]]
          /\ crossed' = TRUE
          /\ UNCHANGED <<session, broadcast, profile, flag, listed, key>>
      BY <1>3 DEF CutShort
    <2>2. NoCall \in CallState /\ NoCall.pc = "idle"
      BY DEF NoCall, CallState, Kinds, Steps, Modes
    <2>3. TypeOK'
      BY <1>1, <2>1, <2>2 DEF TypeOK
    <2>4. ASSUME NEW c \in Calls PROVE CarriesOK(c)'
      <3>1. CASE c \in C
        BY <2>1, <2>2, <3>1 DEF CarriesOK
      <3>2. CASE c \notin C
        BY <2>1, <3>2 DEF IInv, CarriesOK
      <3> QED BY <3>1, <3>2
    <2> QED BY <2>1, <2>3, <2>4 DEF IInv, Reopening
  <1> QED BY <1>2, <1>3

LEMMA StepKeeps ==
  ASSUME IInv, [Next]_vars
  PROVE  IInv' /\ Reopening
  <1>1. ASSUME NEW c \in Calls, Continue(c) PROVE IInv' /\ Reopening
    BY <1>1, ContinueKeeps
  <1>2. ASSUME NEW c \in Calls, Arrive(c) PROVE IInv' /\ Reopening
    BY <1>2, ArriveKeeps, ArriveReopensNothing DEF Reopening
  <1>3. CASE UNCHANGED vars
    BY <1>3 DEF vars, IInv, TypeOK, CarriesOK, Reopening
  <1> QED BY <1>1, <1>2, <1>3, EnvironmentKeeps DEF Next

LEMMA InitHolds ==
  ASSUME Init
  PROVE  IInv
  <1>1. NoCall \in CallState /\ NoCall.pc = "idle"
    BY DEF NoCall, CallState, Kinds, Steps, Modes
  <1>2. TypeOK
    BY <1>1 DEF Init, TypeOK, SessionRow, BroadcastStatus, ProfileRow
  <1>3. ASSUME NEW c \in Calls PROVE CarriesOK(c)
    BY <1>1 DEF Init, CarriesOK
  <1> QED BY <1>2, <1>3 DEF IInv

\* The tables and the requests keep to their types whatever the handlers'
\* statements interleave to (ingest/ and control/).
THEOREM TypeInvariant == Spec => []TypeOK
  <1>1. Init => IInv
    BY InitHolds
  <1>2. IInv /\ [Next]_vars => IInv'
    BY StepKeeps
  <1>3. IInv => TypeOK
    BY DEF IInv
  <1> QED BY <1>1, <1>2, <1>3, PTL DEF Spec

\* However late the statements of a stale mark, a close or a creation arrive,
\* they never reopen a broadcast that has ended: only a connect that was let
\* in before it ended does (control/reconciliation.rs:48, connect.rs:150).
THEOREM EndedBroadcastsStay == Spec => EndedStaysEnded
  <1>1. Init => IInv
    BY InitHolds
  <1>2. IInv /\ [Next]_vars => IInv'
    BY StepKeeps
  <1>3. IInv /\ [Next]_vars =>
          [\A b \in Broadcasts :
             broadcast[b] = "ended" /\ broadcast'[b] # "ended" =>
               \E c \in Calls : call[c].kind = "connect" /\ call[c].b = b]_vars
    BY StepKeeps DEF Reopening
  <1> QED BY <1>1, <1>2, <1>3, PTL DEF Spec, EndedStaysEnded

-----------------------------------------------------------------------------
(* The tables of a creator whose requests ran one after another.  Such a   *)
(* request has written the tables in order, so at each of its steps those  *)
(* before it tell what its mode says, and those after it are rewritten.    *)

Newest(s) == /\ session[s].status # "absent"
             /\ \A r \in Sessions : session[r].status # "absent" => r <= s
SessionsTell ==
  /\ \A r, s \in Sessions : r < s /\ session[r].status = "absent" => session[s].status = "absent"
  /\ \A s \in Sessions : session[s].status # "absent" => session[s].of \in Broadcasts
  /\ \A s \in Connected : Newest(s)
\* The last session is not one that could still come back.
NoneWaits == \A s \in Sessions : Newest(s) => session[s].status # "stale"

Story ==
  /\ SessionsTell
  /\ \A a, b \in Open : a = b
  /\ \A s \in Sessions : Newest(s) /\ session[s].status = "stale" => session[s].of \in Open
  /\ \A s \in Connected : broadcast[session[s].of] = "live"
  /\ \A b \in Open : profile = [status |-> broadcast[b], current |-> b]
  /\ profile.current = NoBroadcast <=> Open = {}
  /\ flag <=> Connected # {}
  /\ listed <=> Connected # {}

Closing(c) == call[c].mode \in Terminal
Writing == {"broadcast", "profile", "flag", "listing", "sessions"}

\* What a request leaves of the sessions, before end_broadcast's last UPDATE.
SessionsLeft(c) == LET s == call[c].s IN
  /\ SessionsTell /\ Target(c) \in Broadcasts
  /\ call[c].mode \in {"live", "stale", "takeover", "end"} \cup Terminal
  /\ IF call[c].mode = "live" THEN s \in Connected ELSE Connected = {}
  /\ Stales(c) => s \in Sessions /\ Newest(s) /\ session[s].status = "stale"
  /\ Closing(c) => s \in Sessions /\ NoneWaits
  /\ call[c].mode = "end" => s = 0 /\ \A r \in Sessions :
       Newest(r) /\ session[r].status = "stale" => session[r].of = call[c].b
BroadcastDue(c) == /\ Open \subseteq {Target(c)}
                   /\ Stales(c) => broadcast[Target(c)] = "live"
BroadcastLeft(c) ==
  /\ Open = IF Stales(c) \/ call[c].mode = "live" THEN {Target(c)} ELSE {}
  /\ Stales(c) => broadcast[Target(c)] = "ready"
  /\ call[c].mode = "live" => broadcast[Target(c)] = "live"
ProfileLeft(c) ==
  IF Open = {} THEN profile.current = NoBroadcast
               ELSE profile = [status |-> broadcast[Target(c)], current |-> Target(c)]

\* The session a request has chosen, and what it has found out.
Chosen(c) == LET s == call[c].s IN
  CASE call[c].pc = "session" -> 
         /\ s \in Sessions
         /\ session[s].status = "connected" \/ (Closing(c) /\ session[s].status = "stale")
    [] call[c].pc = "beat"    -> s \in Connected
    [] call[c].pc = "rekey"   -> s # 0 => s \in Connected
    [] call[c].pc = "insert"  -> Connected = {}
    [] call[c].pc = "decide"  -> \/ call[c].mode = "ready" /\ Having("live") = {}
                                 \/ call[c].mode = "live" /\ Having("ready") = {}
    [] call[c].pc = "create"  -> Open = {}
    [] OTHER -> TRUE

\* Where a request stands that runs alone.
Place(c) == LET pc == call[c].pc IN
  /\ IF pc = "next" THEN call[c].todo \subseteq Connected ELSE call[c].todo = {}
  /\ call[c].kind \in {"connect", "end"} =>
       call[c].b \in IF pc \in Writing /\ (Closing(c) \/ call[c].mode = "end")
                     THEN Broadcasts ELSE Open
  /\ CASE pc = "point" ->
            /\ SessionsTell /\ NoneWaits /\ Connected = {} /\ ~flag /\ ~listed
            /\ Open = {call[c].b} /\ broadcast[call[c].b] = "ready"
       [] pc \in Writing ->
            /\ SessionsLeft(c)
            /\ IF pc = "broadcast" THEN BroadcastDue(c) ELSE BroadcastLeft(c)
            /\ pc \in {"flag", "listing", "sessions"} => ProfileLeft(c)
            /\ pc \in {"listing", "sessions"} => (flag <=> call[c].mode = "live")
            /\ pc = "sessions" => ~listed /\ call[c].mode = "end"
       [] OTHER -> Story /\ Chosen(c)

Tidy == \E c \in Calls :
  Place(c) /\ \A d \in Calls \ {c} : call[d].pc = "idle"
CInv == crossed \/ Tidy

-----------------------------------------------------------------------------
\* Neither the tables of a story nor what is read off them have changed.
LEMMA SameStory ==
  ASSUME UNCHANGED <<session, broadcast, profile, flag, listed>>
  PROVE  /\ Connected' = Connected /\ Open' = Open /\ Story' = Story
         /\ \A status : Having(status)' = Having(status)
  <1>1. Connected' = Connected /\ Open' = Open
    BY DEF Connected, Open
  <1>2. \A s \in Sessions : Newest(s)' = Newest(s)
    BY DEF Newest
  <1>3. SessionsTell' = SessionsTell
    BY <1>1 DEF SessionsTell, Newest
  <1>4. Story' = Story
    BY <1>1, <1>2, <1>3 DEF Story
  <1> QED BY <1>1, <1>4 DEF Having

\* At most one encoder is connected; the broadcasts are those of the table.
LEMMA StoryFacts ==
  ASSUME TypeOK, Story
  PROVE  /\ \A r, s \in Connected : r = s
         /\ \A s \in Connected : session[s].of \in Open
         /\ Connected \subseteq Sessions /\ Open \subseteq Broadcasts
         /\ Sessions \subseteq Nat
  <1>1. Connected \subseteq Sessions /\ Open \subseteq Broadcasts /\ Sessions \subseteq Nat
    BY LiveAssumption DEF Connected, Open, Sessions
  <1>2. \A r, s \in Connected : r <= s /\ s <= r
    BY <1>1 DEF Story, SessionsTell, Newest, Connected
  <1>3. \A s \in Connected : session[s].of \in Broadcasts
    BY DEF Story, SessionsTell, Connected
  <1> QED BY <1>1, <1>2, <1>3 DEF Story, Open

\* The rest of a request's row.
LEMMA GotoCarries ==
  ASSUME TypeOK, NEW c \in Calls, NEW pc \in Steps, Goto(c, pc)
  PROVE  call'[c].todo = call[c].todo
  BY DEF TypeOK, Goto, CallState

LEMMA WritesCarries ==
  ASSUME TypeOK, NEW c \in Calls, NEW pc, NEW mode, NEW s, Writes(c, pc, mode, s)
  PROVE  call'[c].todo = call[c].todo \ {s}
  BY DEF TypeOK, Writes

\* A request that ends leaves a story.
LEMMA Rests ==
  ASSUME TypeOK, NEW c \in Calls, Done(c), Story'
  PROVE  Place(c)'
  <1>1. call'[c] = NoCall
    BY DEF TypeOK, Done
  <1>2. call'[c].pc = "idle" /\ call'[c].todo = {} /\ call'[c].kind = "none"
    BY <1>1 DEF NoCall
  <1> QED BY <1>2 DEF Place, Chosen, Writing

\* A request that has not written yet, and one that still has not.
LEMMA Reads ==
  ASSUME NEW c \in Calls, Place(c), call[c].pc \notin Writing \cup {"point"}
  PROVE  /\ Story /\ Chosen(c)
         /\ call[c].pc # "next" => call[c].todo = {}
         /\ call[c].pc = "next" => call[c].todo \subseteq Connected
         /\ call[c].kind \in {"connect", "end"} => call[c].b \in Open
  BY DEF Place

LEMMA StillReads ==
  ASSUME NEW c \in Calls, call'[c].pc \notin Writing \cup {"point"}, Story', Chosen(c)',
         call'[c].pc # "next" => call'[c].todo = {},
         call'[c].pc = "next" => call'[c].todo \subseteq Connected',
         call'[c].kind \in {"connect", "end"} => call'[c].b \in Open'
  PROVE  Place(c)'
  BY DEF Place, Writing

LEMMA DecisionsPlace ==
  ASSUME TypeOK, NEW c \in Calls, Place(c), UNCHANGED <<session, broadcast, profile, flag, listed>>,
         \/ ListSilent(c) \/ AllMarked(c) \/ \E s \in Sessions : MarkNext(c, s) \/ TakeOver(c, s)
         \/ ConnectDecides(c) \/ StartLooks(c) \/ StartDecides(c) \/ RotateDecides(c) \/ Rekey(c)
  PROVE  Place(c)'
  <1>a. call[c].pc \in {"active", "next", "fetch", "look", "decide", "rekey"}
    BY DEF ListSilent, List, AllMarked, MarkNext, TakeOver, ConnectDecides, StartLooks,
           StartDecides, RotateDecides, Rekey, Fetched
  <1>b. /\ Story /\ Chosen(c)
        /\ call[c].pc # "next" => call[c].todo = {}
        /\ call[c].pc = "next" => call[c].todo \subseteq Connected
        /\ call[c].kind \in {"connect", "end"} => call[c].b \in Open
    BY <1>a, Reads DEF Writing
  <1>c. /\ Story' /\ Connected' = Connected /\ Open' = Open
        /\ \A status : Having(status)' = Having(status)
    BY <1>b, SameStory
  <1>d. /\ {"next", "fetch", "insert", "create", "rekey", "decide", "session"} \subseteq Steps
        /\ {"none", "stale", "takeover", "terminated", "ready", "live"} \subseteq Modes
        /\ 0 \in Sessions \cup {0} /\ Connected \subseteq Sessions
    BY DEF Steps, Modes, Connected
  <1>e. ASSUME Done(c) PROVE Place(c)'
    BY <1>c, <1>e, Rests
  \* The row moves on with the same broadcast and nothing left to mark.
  <1>f. ASSUME NEW pc \in {"fetch", "insert", "create", "session"}, Goto(c, pc),
               call[c].todo = {}, Chosen(c)'
        PROVE  Place(c)'
    <2>1. /\ call'[c].pc = pc /\ call'[c].todo = {} /\ call'[c].kind = call[c].kind
          /\ call'[c].b = call[c].b
      BY <1>d, <1>f, GotoMoves, GotoCarries
    <2> QED BY <1>b, <1>c, <1>f, <2>1, StillReads DEF Writing
  <1>g. ASSUME NEW pc \in {"session", "decide", "rekey"}, NEW mode \in Modes,
               NEW s \in Sessions \cup {0}, Writes(c, pc, mode, s),
               call[c].todo \subseteq {s}, Chosen(c)'
        PROVE  Place(c)'
    <2>1. /\ call'[c].pc = pc /\ call'[c].todo = call[c].todo \ {s}
          /\ call'[c].kind = call[c].kind /\ call'[c].b = call[c].b
      BY <1>d, <1>g, WritesMoves, WritesCarries
    <2> QED BY <1>b, <1>c, <1>g, <2>1, StillReads DEF Writing
  <1>h. ASSUME NEW mode \in Modes, NEW s \in Connected, Writes(c, "session", mode, s)
        PROVE  Chosen(c)'
    <2>1. call'[c].pc = "session" /\ call'[c].s = s
      BY <1>d, <1>h, WritesMoves
    <2> QED BY <1>d, <1>h, <2>1 DEF Chosen, Connected
  <1>1. CASE ListSilent(c)
    <2>1. call' = [call EXCEPT ![c] = [kind |-> @.kind, pc |-> "next", mode |-> @.mode,
                      todo |-> Silent, s |-> @.s, b |-> @.b, key |-> @.key]]
          /\ call[c].pc = "active"
      BY <1>1 DEF ListSilent, List
    <2>2. /\ call'[c].pc = "next" /\ call'[c].todo = Silent
          /\ call'[c].kind = call[c].kind /\ call'[c].b = call[c].b
      BY <2>1 DEF TypeOK
    <2>3. Silent \subseteq Connected /\ Chosen(c)'
      BY <2>2 DEF Silent, Chosen
    <2> QED BY <1>b, <1>c, <2>2, <2>3, StillReads DEF Writing
  <1>2. CASE AllMarked(c)
    <2>1. CASE Goto(c, "fetch")
      <3>1. call'[c].pc = "fetch"
        BY <1>d, <2>1, GotoMoves
      <3>2. Chosen(c)'
        BY <3>1 DEF Chosen
      <3> QED BY <1>2, <1>f, <2>1, <3>2 DEF AllMarked
    <2> QED BY <1>2, <1>e, <2>1 DEF AllMarked
  <1>3. ASSUME NEW s \in Sessions, MarkNext(c, s) PROVE Place(c)'
    <2>1. s \in Connected /\ call[c].todo \subseteq {s}
      BY <1>3, <1>b, StoryFacts DEF MarkNext
    <2> QED BY <1>d, <1>3, <1>g, <1>h, <2>1 DEF MarkNext
  <1>4. ASSUME NEW s \in Sessions, TakeOver(c, s) PROVE Place(c)'
    <2>1. s \in Connected /\ call[c].todo = {}
      BY <1>4, <1>b DEF TakeOver, Silent
    <2> QED BY <1>d, <1>4, <1>g, <1>h, <2>1 DEF TakeOver
  <1>5. CASE ConnectDecides(c)
    <2>1. CASE Connected = {} /\ Goto(c, "insert")
      <3>1. call'[c].pc = "insert"
        BY <1>d, <2>1, GotoMoves
      <3>2. Chosen(c)'
        BY <1>c, <2>1, <3>1 DEF Chosen
      <3> QED BY <1>5, <1>b, <1>f, <2>1, <3>2 DEF ConnectDecides, Fetched
    <2> QED BY <1>5, <1>e, <2>1 DEF ConnectDecides
  <1>6. CASE StartLooks(c)
    <2>1. ASSUME NEW mode \in {"ready", "live"}, Writes(c, "decide", mode, 0),
                 mode = "ready" => Having("live") = {}, mode = "live" => Having("ready") = {}
          PROVE  Place(c)'
      <3>1. call'[c].pc = "decide" /\ call'[c].mode = mode
        BY <1>d, <2>1, WritesMoves
      <3>2. Chosen(c)'
        BY <1>c, <2>1, <3>1 DEF Chosen
      <3>3. call[c].todo = {}
        BY <1>6, <1>b DEF StartLooks, Fetched
      <3> QED BY <1>d, <1>g, <2>1, <3>2, <3>3
    <2> QED BY <1>6, <1>e, <2>1 DEF StartLooks
  <1>7. CASE StartDecides(c)
    <2>1. CASE Having(call[c].mode) = {} /\ Goto(c, "create")
      <3>1. call'[c].pc = "create"
        BY <1>d, <2>1, GotoMoves
      <3>2. Having("live") = {} /\ Having("ready") = {}
        BY <1>7, <1>b, <2>1 DEF StartDecides, Chosen
      <3>3. Open = {}
        BY <3>2 DEF Open, Having
      <3>4. Chosen(c)'
        BY <1>c, <3>1, <3>3 DEF Chosen
      <3> QED BY <1>7, <1>b, <1>f, <2>1, <3>4 DEF StartDecides
    <2> QED BY <1>7, <1>e, <2>1 DEF StartDecides
  <1>8. CASE RotateDecides(c)
    <2>1. PICK s \in Connected \cup {0}, mode \in Modes : Writes(c, "rekey", mode, s)
      BY <1>d, <1>8 DEF RotateDecides, Latest
    <2>2. call'[c].pc = "rekey" /\ call'[c].s = s
      BY <1>d, <2>1, WritesMoves
    <2>3. Chosen(c)'
      BY <1>c, <2>1, <2>2 DEF Chosen
    <2>4. call[c].todo = {}
      BY <1>8, <1>b DEF RotateDecides, Fetched
    <2> QED BY <1>d, <1>g, <2>1, <2>3, <2>4
  <1>9. CASE Rekey(c)
    <2>1. CASE call[c].s # 0 /\ Goto(c, "session")
      <3>1. call'[c].pc = "session" /\ call'[c].s = call[c].s
        BY <1>d, <2>1, GotoMoves
      <3>2. call[c].s \in Connected
        BY <1>9, <1>b, <2>1 DEF Rekey, Chosen
      <3>3. Chosen(c)'
        BY <1>d, <3>1, <3>2 DEF Chosen, Connected
      <3> QED BY <1>9, <1>b, <1>f, <2>1, <3>3 DEF Rekey
    <2> QED BY <1>9, <1>e, <2>1 DEF Rekey
  <1> QED BY <1>1, <1>2, <1>3, <1>4, <1>5, <1>6, <1>7, <1>8, <1>9

\* A request in the middle of its writes.
LEMMA StillWrites ==
  ASSUME NEW c \in Calls, call'[c].pc \in Writing, call'[c].todo = {}, SessionsLeft(c)',
         call'[c].kind \in {"connect", "end"} =>
           call'[c].b \in IF Closing(c)' \/ call'[c].mode = "end" THEN Broadcasts ELSE Open',
         IF call'[c].pc = "broadcast" THEN BroadcastDue(c)' ELSE BroadcastLeft(c)',
         call'[c].pc \in {"flag", "listing", "sessions"} => ProfileLeft(c)',
         call'[c].pc \in {"listing", "sessions"} => (flag' <=> call'[c].mode = "live"),
         call'[c].pc = "sessions" => ~listed' /\ call'[c].mode = "end"
  PROVE  Place(c)'
  BY DEF Place, Writing

LEMMA Written ==
  ASSUME NEW c \in Calls, Place(c), call[c].pc \in Writing
  PROVE  /\ call[c].todo = {} /\ SessionsLeft(c)
         /\ call[c].kind \in {"connect", "end"} =>
              call[c].b \in IF Closing(c) \/ call[c].mode = "end" THEN Broadcasts ELSE Open
         /\ IF call[c].pc = "broadcast" THEN BroadcastDue(c) ELSE BroadcastLeft(c)
         /\ call[c].pc \in {"flag", "listing", "sessions"} => ProfileLeft(c)
         /\ call[c].pc \in {"listing", "sessions"} => (flag <=> call[c].mode = "live")
         /\ call[c].pc = "sessions" => ~listed /\ call[c].mode = "end"
  BY DEF Place, Writing

\* A heartbeat, or its absence, is not told by any other table.
LEMMA SameStatuses ==
  ASSUME UNCHANGED <<broadcast, profile, flag, listed>>,
         \A s \in Sessions : session'[s].status = session[s].status
                             /\ session'[s].of = session[s].of
  PROVE  /\ Connected' = Connected /\ Open' = Open /\ Story' = Story
         /\ SessionsTell' = SessionsTell /\ NoneWaits' = NoneWaits
         /\ \A s \in Sessions : Newest(s)' = Newest(s)
         /\ \A status : Having(status)' = Having(status)
  <1>1. Connected' = Connected /\ Open' = Open
    BY DEF Connected, Open
  <1>2. \A s \in Sessions : Newest(s)' = Newest(s)
    BY DEF Newest
  <1>3. SessionsTell' = SessionsTell
    BY <1>1, <1>2 DEF SessionsTell, Connected
  <1>4. NoneWaits' = NoneWaits
    BY <1>2 DEF NoneWaits
  <1>5. \A s \in Connected : s \in Sessions
    BY DEF Connected
  <1>6. Story' = Story
    BY <1>1, <1>2, <1>3, <1>5 DEF Story
  <1> QED BY <1>1, <1>2, <1>3, <1>4, <1>6 DEF Having

LEMMA EndDecidesPlace ==
  ASSUME TypeOK, NEW c \in Calls, Place(c), EndDecides(c)
  PROVE  Place(c)'
  <1>0. UNCHANGED <<session, broadcast, profile, flag, listed>> /\ call[c].pc = "fetch"
        /\ call[c].kind = "end"
    BY DEF EndDecides, Fetched, Tables
  <1>1. Story /\ call[c].todo = {} /\ call[c].b \in Open
    BY <1>0, Reads DEF Writing
  <1>2. Story' /\ Connected' = Connected /\ Open' = Open
    BY <1>0, <1>1, SameStory
  <1>3. /\ {"session", "broadcast"} \subseteq Steps /\ {"ended", "end"} \subseteq Modes
        /\ 0 \in Sessions \cup {0} /\ Connected \subseteq Sessions /\ Open \subseteq Broadcasts
    BY DEF Steps, Modes, Connected, Open
  <1>4. ASSUME NEW s \in Sessions, Latest(s), Writes(c, "session", "ended", s)
        PROVE  Place(c)'
    <2>1. /\ call'[c].pc = "session" /\ call'[c].s = s /\ call'[c].todo = {}
          /\ call'[c].kind = "end" /\ call'[c].b = call[c].b
      BY <1>0, <1>1, <1>3, <1>4, WritesMoves, WritesCarries
    <2>2. Chosen(c)'
      BY <1>0, <1>4, <2>1 DEF Chosen, Latest, Connected
    <2> QED BY <1>1, <1>2, <2>1, <2>2, StillReads DEF Writing
  <1>5. ASSUME \A s \in Sessions : Latest(s) => session[s].of # call[c].b,
               Writes(c, "broadcast", "end", 0)
        PROVE  Place(c)'
    <2>1. /\ call'[c].pc = "broadcast" /\ call'[c].mode = "end" /\ call'[c].s = 0
          /\ call'[c].todo = {} /\ call'[c].kind = "end" /\ call'[c].b = call[c].b
      BY <1>0, <1>1, <1>3, <1>5, WritesMoves, WritesCarries
    <2>2. Connected = {}
      <3>1. ASSUME NEW s \in Connected PROVE FALSE
        <4>1. Latest(s)
          BY <1>1, StoryFacts DEF Latest
        <4>2. session[s].of = call[c].b
          BY <1>1, StoryFacts DEF Story
        <4> QED BY <1>3, <1>5, <4>1, <4>2
      <3> QED BY <3>1
    <2>3. Target(c)' = call[c].b /\ ~Closing(c)' /\ ~Stales(c)'
      BY <2>1 DEF Target, Closing, Stales, Terminal
    <2>4. \A r \in Sessions : Newest(r)' = Newest(r)
      BY <1>0 DEF Newest
    <2>5. SessionsLeft(c)'
      <3>1. SessionsTell'
        BY <1>2 DEF Story
      <3>2. \A r \in Sessions : Newest(r) /\ session[r].status = "stale"
                                => session[r].of = call[c].b
        BY <1>1 DEF Story
      <3> QED BY <1>0, <1>1, <1>2, <1>3, <2>1, <2>2, <2>3, <2>4, <3>1, <3>2 DEF SessionsLeft
    <2>6. BroadcastDue(c)'
      BY <1>1, <1>2, <2>3 DEF BroadcastDue, Story
    <2> QED BY <1>1, <1>3, <2>1, <2>5, <2>6, StillWrites DEF Writing
  <1> QED BY <1>4, <1>5 DEF EndDecides

LEMMA CreatePlace ==
  ASSUME TypeOK, NEW c \in Calls, Place(c), Create(c)
  PROVE  Place(c)'
  <1>1. call[c].pc = "create"
    BY DEF Create
  <1>2. Story /\ Open = {} /\ call[c].todo = {}
    BY <1>1, Reads DEF Writing, Chosen
  <1>3. PICK b \in Broadcasts :
          /\ broadcast' = [broadcast EXCEPT ![b] = "ready"]
          /\ call' = [call EXCEPT ![c] = [kind |-> @.kind, pc |-> "point", mode |-> @.mode,
                        todo |-> @.todo, s |-> @.s, b |-> b, key |-> @.key]]
    BY DEF Create, Fresh
  <1>4. UNCHANGED <<session, profile, flag, listed>>
    BY DEF Create
  <1>5. call'[c].pc = "point" /\ call'[c].todo = {} /\ call'[c].b = b
    BY <1>2, <1>3 DEF TypeOK
  <1>6. Open' = {b} /\ broadcast'[b] = "ready"
    BY <1>2, <1>3 DEF TypeOK, Open
  <1>7. Connected = {} /\ Connected' = {} /\ ~flag /\ ~listed
    BY <1>2, <1>4, StoryFacts DEF Story, Connected
  <1>8. NoneWaits' /\ SessionsTell'
    BY <1>2, <1>4 DEF Story, NoneWaits, SessionsTell, Newest, Connected
  <1> QED BY <1>4, <1>5, <1>6, <1>7, <1>8 DEF Place, Writing

LEMMA PointPlace ==
  ASSUME TypeOK, NEW c \in Calls, Place(c), Point(c)
  PROVE  Place(c)'
  <1>1. /\ SessionsTell /\ NoneWaits /\ Connected = {} /\ ~flag /\ ~listed
        /\ Open = {call[c].b} /\ broadcast[call[c].b] = "ready"
    BY DEF Point, Place, Writing
  <1>2. /\ profile' = [status |-> "ready", current |-> call[c].b] /\ Done(c)
        /\ UNCHANGED <<session, broadcast, flag, listed>>
    BY DEF Point
  <1>3. call[c].b # NoBroadcast
    BY <1>1, LiveAssumption DEF Open, Broadcasts
  <1>4. Open' = Open /\ Connected' = {} /\ SessionsTell' /\ NoneWaits'
    BY <1>1, <1>2 DEF Open, Connected, SessionsTell, NoneWaits, Newest
  <1>5. Story'
    BY <1>1, <1>2, <1>3, <1>4 DEF Story, NoneWaits
  <1> QED BY <1>2, <1>5, Rests

LEMMA InsertPlace ==
  ASSUME IInv, NEW c \in Calls, Place(c), Insert(c)
  PROVE  Place(c)'
  <1>0. TypeOK /\ call[c].pc = "insert" /\ call[c].kind = "connect"
    BY DEF IInv, CarriesOK, Insert
  <1>1. Story /\ Connected = {} /\ call[c].todo = {} /\ call[c].b \in Open
    BY <1>0, Reads DEF Writing, Chosen
  <1>2. PICK s \in Sessions :
          /\ session[s].status = "absent"
          /\ \A r \in Sessions : r < s => session[r].status # "absent"
          /\ session' = [session EXCEPT ![s] = [status |-> "connected",
                           of |-> call[c].b, silent |-> FALSE, key |-> call[c].key]]
          /\ Writes(c, "broadcast", "live", s)
    BY DEF Insert, Fresh
  <1>3. UNCHANGED <<broadcast, profile, flag, listed>>
    BY DEF Insert
  <1>4. /\ call'[c].pc = "broadcast" /\ call'[c].mode = "live" /\ call'[c].s = s
        /\ call'[c].todo = {} /\ call'[c].kind = "connect" /\ call'[c].b = call[c].b
    <2>1. "broadcast" \in Steps /\ "live" \in Modes
      BY DEF Steps, Modes
    <2> QED BY <1>0, <1>1, <1>2, <2>1, WritesMoves, WritesCarries
  <1>5. /\ session'[s].status = "connected" /\ session'[s].of = call[c].b
        /\ \A r \in Sessions \ {s} : session'[r] = session[r]
    BY <1>0, <1>2 DEF TypeOK
  <1>6. Connected' = {s}
    BY <1>1, <1>5 DEF Connected
  <1>7. Sessions \subseteq Nat /\ s \in Nat
    BY LiveAssumption DEF Sessions
  <1>8. \A r \in Sessions : s < r => session[r].status = "absent"
    BY <1>1, <1>2 DEF Story, SessionsTell
  <1>9. SessionsTell'
    <2>1. Newest(s)'
      BY <1>5, <1>7, <1>8 DEF Newest
    <2>2. ASSUME NEW r \in Sessions, NEW q \in Sessions, r < q, session'[r].status = "absent"
          PROVE  session'[q].status = "absent"
      <3>1. r # s /\ session[r].status = "absent"
        BY <1>5, <2>2
      <3>2. session[q].status = "absent"
        BY <1>1, <2>2, <3>1 DEF Story, SessionsTell
      <3>3. ~(r < s)
        BY <1>2, <3>1
      <3>4. q # s
        BY <1>7, <2>2, <3>3
      <3> QED BY <1>5, <3>2, <3>4
    <2>3. \A r \in Sessions : session'[r].status # "absent" => session'[r].of \in Broadcasts
      BY <1>1, <1>5 DEF Story, SessionsTell, Open
    <2> QED BY <1>6, <2>1, <2>2, <2>3 DEF SessionsTell
  <1>10. Target(c)' = call[c].b /\ ~Closing(c)' /\ ~Stales(c)'
    BY <1>4, <1>5, <1>7, LiveAssumption DEF Target, Closing, Stales, Terminal, Sessions
  <1>11. SessionsLeft(c)'
    BY <1>1, <1>4, <1>6, <1>9, <1>10 DEF SessionsLeft, Open
  <1>12. Open' = Open /\ BroadcastDue(c)'
    BY <1>1, <1>3, <1>10 DEF BroadcastDue, Story, Open
  <1> QED BY <1>1, <1>4, <1>10, <1>11, <1>12, StillWrites DEF Writing

LEMMA BeatPlace ==
  ASSUME TypeOK, NEW c \in Calls, Place(c), Beat(c)
  PROVE  Place(c)'
  <1> DEFINE s == call[c].s
  <1>0. call[c].pc = "beat"
    BY DEF Beat
  <1>1. /\ Story /\ s \in Connected /\ call[c].todo = {}
        /\ call[c].kind \in {"connect", "end"} => call[c].b \in Open
    BY <1>0, Reads DEF Writing, Chosen
  <1>2. s \in Sessions /\ session[s].status = "connected" /\ s # 0
    BY <1>1, LiveAssumption DEF Connected, Sessions
  <1>3. /\ UNCHANGED <<broadcast, profile, flag, listed>> /\ Writes(c, "listing", "live", s)
        /\ session' = [session EXCEPT ![s] = [status |-> "connected", of |-> @.of,
                                              silent |-> FALSE, key |-> @.key]]
    BY DEF Beat
  <1>4. /\ call'[c].pc = "listing" /\ call'[c].mode = "live" /\ call'[c].s = s
        /\ call'[c].todo = {} /\ call'[c].kind = call[c].kind /\ call'[c].b = call[c].b
    <2>1. "listing" \in Steps /\ "live" \in Modes
      BY DEF Steps, Modes
    <2> QED BY <1>1, <1>2, <1>3, <2>1, WritesMoves, WritesCarries
  <1>5. \A r \in Sessions : session'[r].status = session[r].status
                            /\ session'[r].of = session[r].of
    BY <1>2, <1>3 DEF TypeOK
  <1>6. Connected' = Connected /\ Open' = Open /\ Story'
    BY <1>1, <1>3, <1>5, SameStatuses
  <1>7. Target(c)' = session[s].of /\ ~Closing(c)' /\ ~Stales(c)'
    BY <1>2, <1>4, <1>5 DEF Target, Closing, Stales, Terminal
  <1>8. session[s].of \in Open /\ Open = {session[s].of} /\ broadcast[session[s].of] = "live"
    <2>1. session[s].of \in Open
      BY <1>1, StoryFacts
    <2> QED BY <1>1, <2>1 DEF Story
  <1>9. SessionsLeft(c)' /\ BroadcastLeft(c)' /\ ProfileLeft(c)' /\ flag'
    <2>1. SessionsLeft(c)'
      BY <1>1, <1>4, <1>6, <1>7, <1>8 DEF SessionsLeft, Story, Open
    <2>2. BroadcastLeft(c)'
      BY <1>3, <1>4, <1>6, <1>7, <1>8 DEF BroadcastLeft
    <2>3. ProfileLeft(c)'
      BY <1>1, <1>3, <1>6, <1>7, <1>8 DEF ProfileLeft, Story
    <2>4. flag'
      BY <1>1, <1>3 DEF Story
    <2> QED BY <2>1, <2>2, <2>3, <2>4
  <1> QED BY <1>1, <1>4, <1>6, <1>7, <1>9, StillWrites DEF Writing

\* A session that is closed or marked by a request that runs alone is the last.
LEMMA WriteSessionPlace ==
  ASSUME IInv, NEW c \in Calls, Place(c), WriteSession(c), ~crossed'
  PROVE  Place(c)'
  <1> DEFINE s == call[c].s
             status == IF Stales(c) THEN "stale" ELSE call[c].mode
  <1>0. /\ TypeOK /\ call[c].pc = "session"
        /\ call[c].mode \in {"stale", "takeover", "ended", "terminated"}
    BY DEF IInv, CarriesOK, WriteSession, Terminal
  <1>1. /\ Story /\ s \in Sessions /\ call[c].todo = {}
        /\ session[s].status = "connected" \/ (Closing(c) /\ session[s].status = "stale")
        /\ call[c].kind \in {"connect", "end"} => call[c].b \in Open
    BY <1>0, Reads DEF Writing, Chosen
  <1>2. /\ session' = [session EXCEPT ![s] = [status |-> status, of |-> @.of,
                                              silent |-> FALSE, key |-> @.key]]
        /\ UNCHANGED <<broadcast, profile, flag, listed>> /\ Goto(c, "broadcast")
        /\ Closing(c) => ~\E r \in Sessions : r > s /\ session[r].status # "absent"
    BY DEF WriteSession, Closing
  <1>3. /\ call'[c].pc = "broadcast" /\ call'[c].mode = call[c].mode /\ call'[c].s = s
        /\ call'[c].todo = {} /\ call'[c].kind = call[c].kind /\ call'[c].b = call[c].b
    <2>1. "broadcast" \in Steps
      BY DEF Steps
    <2> QED BY <1>0, <1>1, <1>2, <2>1, GotoMoves, GotoCarries
  <1>4. /\ session'[s].status = status /\ session'[s].of = session[s].of
        /\ \A r \in Sessions \ {s} : session'[r] = session[r]
    BY <1>0, <1>1, <1>2 DEF TypeOK
  <1>5. /\ Closing(c)' = Closing(c) /\ Stales(c)' = Stales(c) /\ Closing(c) # Stales(c)
        /\ Closing(c) => status \in Terminal
    BY <1>0, <1>3 DEF Closing, Stales, Terminal
  <1>6. status \notin {"absent", "connected"} /\ session[s].status # "absent"
    BY <1>0, <1>1
  <1>7. Sessions \subseteq Nat /\ s # 0
    BY <1>1, LiveAssumption DEF Sessions
  <1>8. Newest(s)
    <2>1. CASE Closing(c)
      BY <1>1, <1>2, <1>6, <1>7, <2>1 DEF Newest
    <2>2. CASE ~Closing(c)
      BY <1>1, <2>2 DEF Story, SessionsTell, Connected
    <2> QED BY <2>1, <2>2
  <1>9. \A r \in Sessions : Newest(r) => r = s
    BY <1>1, <1>6, <1>7, <1>8 DEF Newest
  <1>10. \A r \in Sessions : Newest(r)' = Newest(r)
    BY <1>4, <1>6 DEF Newest
  <1>11. Connected' = {}
    <2>1. \A r \in Connected : r \in Sessions /\ r = s
      BY <1>1, <1>9 DEF Story, SessionsTell, Connected
    <2> QED BY <1>4, <1>6, <2>1 DEF Connected
  <1>12. SessionsTell'
    BY <1>1, <1>4, <1>6, <1>11 DEF Story, SessionsTell
  <1>13. Target(c)' = session[s].of /\ session[s].of \in Open /\ Open \subseteq {session[s].of}
    <2>1. Target(c)' = session[s].of
      BY <1>3, <1>4, <1>7 DEF Target
    <2>2. session[s].of \in Open
      <3>1. CASE session[s].status = "connected"
        BY <1>0, <1>1, <3>1, StoryFacts DEF Connected
      <3>2. CASE session[s].status = "stale"
        BY <1>1, <1>8, <3>2 DEF Story
      <3> QED BY <1>1, <3>1, <3>2
    <2> QED BY <1>1, <2>1, <2>2 DEF Story
  <1>14. SessionsLeft(c)'
    <2>1. Stales(c)' => Newest(s)' /\ session'[s].status = "stale"
      <3>1. Newest(s)'
        BY <1>1, <1>3, <1>8, <1>10
      <3>2. Stales(c) => session'[s].status = "stale"
        BY <1>4
      <3> QED BY <1>5, <3>1, <3>2
    <2>2. Closing(c)' => NoneWaits'
      BY <1>4, <1>5, <1>9, <1>10 DEF NoneWaits, Terminal
    <2> QED BY <1>0, <1>1, <1>3, <1>11, <1>12, <1>13, <2>1, <2>2 DEF SessionsLeft, Open, Terminal
  <1>15. Open' = Open /\ BroadcastDue(c)'
    <2>1. Stales(c) => broadcast[session[s].of] = "live"
      BY <1>1, <1>5 DEF Story, Connected
    <2> QED BY <1>2, <1>5, <1>13, <2>1 DEF BroadcastDue, Open
  <1> QED BY <1>1, <1>3, <1>5, <1>14, <1>15, StillWrites DEF Writing, Open

\* The other four tables, one after another.
LEMMA WritesPlace ==
  ASSUME TypeOK, NEW c \in Calls, Place(c),
         WriteBroadcast(c) \/ WriteProfile(c) \/ WriteFlag(c)
  PROVE  Place(c)'
  <1> DEFINE t == Target(c)
  <1>0. /\ call[c].pc \in {"broadcast", "profile", "flag"} /\ session' = session
        /\ listed' = listed
        /\ \E pc \in {"profile", "flag", "listing"} : Goto(c, pc)
    BY DEF WriteBroadcast, WriteProfile, WriteFlag
  <1>1. /\ call[c].todo = {} /\ SessionsLeft(c)
        /\ call[c].kind \in {"connect", "end"} =>
             call[c].b \in IF Closing(c) \/ call[c].mode = "end" THEN Broadcasts ELSE Open
        /\ IF call[c].pc = "broadcast" THEN BroadcastDue(c) ELSE BroadcastLeft(c)
        /\ call[c].pc = "flag" => ProfileLeft(c)
    BY <1>0, Written DEF Writing
  <1>2. /\ call'[c].pc \in {"profile", "flag", "listing"} /\ call'[c].todo = {}
        /\ call'[c].mode = call[c].mode /\ call'[c].s = call[c].s
        /\ call'[c].kind = call[c].kind /\ call'[c].b = call[c].b
        /\ \A pc \in {"profile", "flag", "listing"} : Goto(c, pc) => call'[c].pc = pc
    <2>1. {"profile", "flag", "listing"} \subseteq Steps
      BY DEF Steps
    <2> QED BY <1>0, <1>1, <2>1, GotoMoves, GotoCarries
  <1>3. Target(c)' = t /\ Closing(c)' = Closing(c) /\ Stales(c)' = Stales(c)
    BY <1>0, <1>2 DEF Target, Closing, Stales
  <1>4. SessionsLeft(c)'
    <2>1. Connected' = Connected /\ SessionsTell' = SessionsTell /\ NoneWaits' = NoneWaits
      BY <1>0 DEF Connected, SessionsTell, NoneWaits, Newest
    <2>2. \A r \in Sessions : Newest(r)' = Newest(r)
      BY <1>0 DEF Newest
    <2> QED BY <1>0, <1>1, <1>2, <1>3, <2>1, <2>2 DEF SessionsLeft
  <1>5. /\ t \in Broadcasts /\ t # NoBroadcast
        /\ call[c].mode \in {"live", "stale", "takeover", "end", "ended", "terminated"}
        /\ Stales(c) <=> call[c].mode \in {"stale", "takeover"}
        /\ Closing(c) <=> call[c].mode \in {"ended", "terminated"}
    BY <1>1, LiveAssumption DEF SessionsLeft, Stales, Closing, Terminal, Broadcasts
  <1>6. CASE WriteBroadcast(c)
    <2> DEFINE new == CASE call[c].mode = "live"  -> "live"
                        [] Stales(c)   -> Ready(broadcast[t])
                        [] OTHER       -> "ended"
    <2>1. /\ call[c].pc = "broadcast" /\ call'[c].pc = "profile"
          /\ broadcast' = [broadcast EXCEPT ![t] = new]
      BY <1>2, <1>6 DEF WriteBroadcast
    <2>2. Open \subseteq {t} /\ (Stales(c) => broadcast[t] = "live")
      BY <1>1, <2>1 DEF BroadcastDue
    <2>0. new = IF call[c].mode = "live" THEN "live" ELSE IF Stales(c) THEN "ready" ELSE "ended"
      <3>1. CASE call[c].mode = "live"
        BY <1>5, <3>1
      <3>2. CASE Stales(c)
        BY <1>5, <2>2, <3>2 DEF Ready
      <3>3. CASE call[c].mode # "live" /\ ~Stales(c)
        BY <3>3
      <3> QED BY <3>1, <3>2, <3>3
    <2> HIDE DEF new
    <2>3. broadcast'[t] = new
      BY <1>5, <2>1 DEF TypeOK
    <2>4. \A b \in Broadcasts \ {t} : broadcast'[b] = broadcast[b] /\ b \notin Open
      BY <1>5, <2>1, <2>2 DEF TypeOK
    <2>5. Open' = IF Stales(c) \/ call[c].mode = "live" THEN {t} ELSE {}
      BY <1>5, <2>0, <2>3, <2>4 DEF Open
    <2>6. BroadcastLeft(c)'
      BY <1>2, <1>3, <1>5, <2>0, <2>3, <2>5 DEF BroadcastLeft
    <2>7. call[c].kind \in {"connect", "end"} =>
            call[c].b \in IF Closing(c) \/ call[c].mode = "end" THEN Broadcasts ELSE Open'
      <3>1. CASE Closing(c) \/ call[c].mode = "end"
        BY <1>1, <3>1
      <3>2. CASE ~(Closing(c) \/ call[c].mode = "end")
        <4>1. Open' = {t}
          BY <1>5, <2>5, <3>2
        <4> QED BY <1>1, <2>2, <3>2, <4>1
      <3> QED BY <3>1, <3>2
    <2> QED BY <1>2, <1>3, <1>4, <2>1, <2>6, <2>7, StillWrites DEF Writing
  <1>7. CASE WriteProfile(c) \/ WriteFlag(c)
    <2>1. /\ call[c].pc # "broadcast" /\ call'[c].pc \in {"flag", "listing"}
          /\ broadcast' = broadcast
      BY <1>2, <1>7 DEF WriteProfile, WriteFlag
    <2>2. Open' = Open /\ BroadcastLeft(c) /\ BroadcastLeft(c)'
      BY <1>1, <1>2, <1>3, <2>1 DEF BroadcastLeft, Open
    <2>3. ProfileLeft(c)'
      <3>1. CASE WriteProfile(c)
        <4>1. profile' = CASE call[c].mode = "live" -> [status |-> "live", current |-> t]
                           [] Stales(c)  -> [status |-> "ready", current |-> t]
                           [] OTHER      -> Closed(profile.current)
          BY <3>1 DEF WriteProfile
        <4>2. CASE call[c].mode = "live"
          BY <1>3, <1>5, <2>1, <2>2, <4>1, <4>2 DEF ProfileLeft, BroadcastLeft
        <4>3. CASE Stales(c)
          BY <1>3, <1>5, <2>1, <2>2, <4>1, <4>3 DEF ProfileLeft, BroadcastLeft
        <4>4. CASE call[c].mode # "live" /\ ~Stales(c)
          BY <1>3, <1>5, <2>1, <2>2, <4>1, <4>4 DEF ProfileLeft, BroadcastLeft, Closed
        <4> QED BY <4>2, <4>3, <4>4
      <3>2. CASE WriteFlag(c)
        BY <1>1, <1>3, <2>1, <2>2, <3>2 DEF WriteFlag, ProfileLeft
      <3> QED BY <1>7, <3>1, <3>2
    <2>4. call'[c].pc = "listing" => (flag' <=> call'[c].mode = "live")
      BY <1>2, <1>7 DEF WriteProfile, WriteFlag
    <2> QED BY <1>1, <1>2, <1>3, <1>4, <2>1, <2>2, <2>3, <2>4, StillWrites DEF Writing
  <1> QED BY <1>6, <1>7

\* After the last table a request takes up what it was about, or ends.
LEMMA WriteListingPlace ==
  ASSUME TypeOK, NEW c \in Calls, Place(c), WriteListing(c)
  PROVE  Place(c)'
  <1> DEFINE t == Target(c)
             s == call[c].s
  <1>0. /\ call[c].pc = "listing" /\ listed' = (call[c].mode = "live")
        /\ UNCHANGED <<session, broadcast, profile, flag>>
    BY DEF WriteListing
  <1>1. /\ call[c].todo = {} /\ SessionsLeft(c) /\ BroadcastLeft(c) /\ ProfileLeft(c)
        /\ call[c].kind \in {"connect", "end"} =>
             call[c].b \in IF Closing(c) \/ call[c].mode = "end" THEN Broadcasts ELSE Open
        /\ flag <=> call[c].mode = "live"
    BY <1>0, Written DEF Writing
  <1>2. Open' = Open /\ Connected' = Connected /\ SessionsTell' /\ NoneWaits' = NoneWaits
    BY <1>0, <1>1 DEF Open, Connected, SessionsTell, NoneWaits, Newest, SessionsLeft
  <1>3. \A r \in Sessions : Newest(r)' = Newest(r)
    BY <1>0 DEF Newest
  <1>4. Sessions \subseteq Nat /\ 0 \notin Sessions /\ t \in Broadcasts /\ t # NoBroadcast
    BY <1>1, LiveAssumption DEF Sessions, SessionsLeft, Broadcasts
  <1>5. /\ call[c].mode \in {"live", "stale", "takeover", "end", "ended", "terminated"}
        /\ Stales(c) <=> call[c].mode \in {"stale", "takeover"}
        /\ Closing(c) <=> call[c].mode \in {"ended", "terminated"}
    BY <1>1 DEF SessionsLeft, Stales, Closing, Terminal
  <1>6. \A q, r \in Sessions : Newest(q) /\ Newest(r) => q = r
    BY <1>4 DEF Newest
  <1>7. s \in Sessions => t = session[s].of
    BY <1>4 DEF Target
  <1>8. ASSUME call[c].mode # "end" PROVE Story'
    <2>1. \A q \in Sessions : Newest(q) /\ session[q].status = "stale" => session[q].of \in Open
      <3>1. CASE Closing(c)
        BY <1>1, <3>1 DEF SessionsLeft, NoneWaits
      <3>2. CASE Stales(c)
        BY <1>1, <1>6, <1>7, <3>2 DEF SessionsLeft, BroadcastLeft
      <3>3. CASE call[c].mode = "live"
        <4>1. s \in Sessions /\ Newest(s) /\ session[s].status = "connected"
          BY <1>1, <3>3 DEF SessionsLeft, SessionsTell, Connected
        <4> QED BY <1>6, <4>1
      <3> QED BY <1>5, <1>8, <3>1, <3>2, <3>3
    <2>2. \A q \in Connected : broadcast[session[q].of] = "live"
      <3>1. ASSUME NEW q \in Connected PROVE broadcast[session[q].of] = "live"
        <4>1. call[c].mode = "live" /\ s \in Sessions /\ Newest(s) /\ q \in Sessions /\ Newest(q)
          BY <1>1, <3>1 DEF SessionsLeft, SessionsTell, Connected
        <4> QED BY <1>1, <1>6, <1>7, <4>1 DEF BroadcastLeft
      <3> QED BY <3>1
    <2>3. Connected # {} <=> call[c].mode = "live"
      BY <1>1 DEF SessionsLeft
    <2>4. \A a, b \in Open : a = b
      BY <1>1 DEF BroadcastLeft
    <2>5. /\ \A b \in Open : profile = [status |-> broadcast[b], current |-> b]
          /\ profile.current = NoBroadcast <=> Open = {}
      BY <1>1, <1>4 DEF ProfileLeft, BroadcastLeft
    <2>6. \A q \in Sessions : Newest(q)' /\ session'[q].status = "stale" => session'[q].of \in Open'
      BY <1>0, <1>2, <1>3, <2>1
    <2> QED BY <1>0, <1>1, <1>2, <2>2, <2>3, <2>4, <2>5, <2>6 DEF Story
  <1>9. CASE Stales(c)
    <2>1. Writes(c, ResumesAt(c), "none", 0)
      BY <1>5, <1>9 DEF WriteListing
    <2>2. ResumesAt(c) \in {"next", "insert", "look"}
      BY DEF ResumesAt
    <2>3. /\ call'[c].pc \in {"next", "insert", "look"} /\ call'[c].mode = "none"
          /\ call'[c].todo = {} /\ call'[c].kind = call[c].kind /\ call'[c].b = call[c].b
      <3>1. {"next", "insert", "look"} \subseteq Steps /\ "none" \in Modes /\ 0 \in Sessions \cup {0}
        BY DEF Steps, Modes
      <3> QED BY <1>1, <2>1, <2>2, <3>1, WritesMoves, WritesCarries
    <2>4. Connected' = {}
      BY <1>1, <1>2, <1>5, <1>9 DEF SessionsLeft
    <2>5. Chosen(c)'
      BY <2>3, <2>4 DEF Chosen
    <2> QED BY <1>1, <1>2, <1>5, <1>8, <1>9, <2>3, <2>5, StillReads DEF Writing
  <1>10. CASE call[c].mode = "end"
    <2>1. Goto(c, "sessions") /\ ~listed'
      BY <1>0, <1>5, <1>10 DEF WriteListing
    <2>2. /\ call'[c].pc = "sessions" /\ call'[c].todo = {} /\ call'[c].mode = "end"
          /\ call'[c].s = s /\ call'[c].kind = call[c].kind /\ call'[c].b = call[c].b
      <3>1. "sessions" \in Steps
        BY DEF Steps
      <3> QED BY <1>1, <1>10, <2>1, <3>1, GotoMoves, GotoCarries
    <2>3. Target(c)' = t /\ Closing(c)' = Closing(c) /\ Stales(c)' = Stales(c)
      BY <1>0, <1>10, <2>2 DEF Target, Closing, Stales
    <2>4. SessionsLeft(c)'
      BY <1>0, <1>1, <1>2, <1>3, <1>5, <1>10, <2>2, <2>3 DEF SessionsLeft
    <2>5. BroadcastLeft(c)' /\ ProfileLeft(c)'
      BY <1>0, <1>1, <1>2, <1>10, <2>2, <2>3 DEF BroadcastLeft, ProfileLeft
    <2> QED BY <1>0, <1>1, <1>2, <1>10, <2>1, <2>2, <2>3, <2>4, <2>5, StillWrites DEF Writing
  <1>11. CASE ~Stales(c) /\ call[c].mode # "end"
    <2>1. Done(c)
      BY <1>11 DEF WriteListing
    <2> QED BY <1>8, <1>11, <2>1, Rests
  <1> QED BY <1>9, <1>10, <1>11

LEMMA EndSessionsPlace ==
  ASSUME TypeOK, NEW c \in Calls, Place(c), EndSessions(c)
  PROVE  Place(c)'
  <1> DEFINE closes(s) == session[s].of = call[c].b /\ session[s].status \in {"connected", "stale"}
  <1>0. /\ call[c].pc = "sessions" /\ Done(c) /\ UNCHANGED <<broadcast, profile, flag, listed>>
        /\ session' = [s \in Sessions |->
             IF closes(s) THEN [status |-> "ended", of |-> call[c].b, silent |-> FALSE,
                                key |-> session[s].key]
             ELSE session[s]]
    BY DEF EndSessions
  <1>1. /\ SessionsLeft(c) /\ BroadcastLeft(c) /\ ProfileLeft(c) /\ call[c].mode = "end"
        /\ flag <=> call[c].mode = "live"
        /\ ~listed
    BY <1>0, Written DEF Writing
  <1>2. Connected = {} /\ SessionsTell /\ Open = {} /\ profile.current = NoBroadcast
        /\ \A r \in Sessions : Newest(r) /\ session[r].status = "stale"
                               => session[r].of = call[c].b
    BY <1>1 DEF SessionsLeft, BroadcastLeft, ProfileLeft, Stales
  <1>3. \A s \in Sessions : /\ session'[s].of = session[s].of
                            /\ session'[s].status = IF closes(s) THEN "ended" ELSE session[s].status
    BY <1>0
  <1>4. Open' = {} /\ Connected' = {}
    BY <1>0, <1>2, <1>3 DEF Open, Connected
  <1>5. \A s \in Sessions : Newest(s)' = Newest(s)
    BY <1>3 DEF Newest
  <1>6. SessionsTell'
    BY <1>2, <1>3, <1>4 DEF SessionsTell
  <1>7. \A s \in Sessions : Newest(s)' => session'[s].status # "stale"
    BY <1>2, <1>3, <1>5
  <1>8. Story'
    BY <1>0, <1>1, <1>2, <1>4, <1>6, <1>7 DEF Story
  <1> QED BY <1>0, <1>8, Rests

LEMMA ContinuePlace ==
  ASSUME IInv, NEW c \in Calls, Place(c), Continue(c), ~crossed'
  PROVE  Place(c)'
  <1>0. TypeOK
    BY DEF IInv
  <1>1. CASE \/ ListSilent(c) \/ AllMarked(c) \/ \E s \in Sessions : MarkNext(c, s) \/ TakeOver(c, s)
             \/ ConnectDecides(c) \/ StartLooks(c) \/ StartDecides(c) \/ RotateDecides(c) \/ Rekey(c)
    <2>1. UNCHANGED <<session, broadcast, profile, flag, listed>>
      BY <1>1 DEF ListSilent, List, AllMarked, MarkNext, TakeOver, ConnectDecides, StartLooks,
                  StartDecides, RotateDecides, Rekey, Tables
    <2> QED BY <1>0, <1>1, <2>1, DecisionsPlace
  <1>2. CASE EndDecides(c) \/ Create(c) \/ Point(c) \/ Insert(c) \/ Beat(c) \/ EndSessions(c)
    BY <1>0, <1>2, EndDecidesPlace, CreatePlace, PointPlace, InsertPlace, BeatPlace,
       EndSessionsPlace
  <1>3. CASE WriteSession(c) \/ WriteBroadcast(c) \/ WriteProfile(c) \/ WriteFlag(c)
             \/ WriteListing(c)
    BY <1>0, <1>3, WriteSessionPlace, WritesPlace, WriteListingPlace
  <1> QED BY <1>1, <1>2, <1>3 DEF Continue

\* A request that begins with a story.
LEMMA ArrivePlace ==
  ASSUME TypeOK, NEW c \in Calls, Arrive(c), Story
  PROVE  Place(c)'
  <1>1. /\ Kinds = {"none", "connect", "start", "end", "rotate", "beat", "disconnect",
                    "terminate", "reconcile"}
        /\ {"none", "ended", "terminated"} \subseteq Modes
        /\ profile.current \in Broadcasts \cup {NoBroadcast} /\ Open \subseteq Broadcasts
    BY DEF Kinds, Modes, TypeOK, ProfileRow, Open
  <1>2. ASSUME NEW kind, NEW pc \in {"active", "beat", "session"}, NEW mode, NEW s, NEW b,
               Begin(c, Request(kind, pc, mode, s, b)),
               kind \in {"connect", "end"} => b \in Open,
               pc = "beat" => s \in Connected,
               pc = "session" => /\ s \in Sessions
                                 /\ \/ session[s].status = "connected"
                                    \/ mode \in Terminal /\ session[s].status = "stale"
        PROVE  Place(c)'
    <2>1. /\ call'[c] = Request(kind, pc, mode, s, b)
          /\ UNCHANGED <<session, broadcast, profile, flag, listed>>
      BY <1>2 DEF Begin, TypeOK
    <2>2. /\ call'[c].kind = kind /\ call'[c].pc = pc /\ call'[c].mode = mode
          /\ call'[c].s = s /\ call'[c].b = b /\ call'[c].todo = {}
      BY <2>1 DEF Request
    <2>3. Story' /\ Connected' = Connected /\ Open' = Open
      BY <2>1, SameStory
    <2>4. Chosen(c)'
      BY <1>2, <2>1, <2>2, <2>3 DEF Chosen, Closing
    <2> QED BY <1>2, <2>2, <2>3, <2>4, StillReads DEF Writing
  <1>3. CASE Start(c) \/ Rotate(c) \/ Reconcile(c)
    BY <1>2, <1>3 DEF Start, Rotate, Reconcile
  <1>4. CASE End(c)
    <2>1. profile.current \in Open
      BY <1>4 DEF End, Story
    <2> QED BY <1>2, <1>4, <2>1 DEF End
  <1>5. ASSUME NEW b \in Broadcasts, Connect(c, b) PROVE Place(c)'
    BY <1>2, <1>5 DEF Connect
  <1>6. ASSUME NEW s \in Sessions, Heartbeat(c, s) \/ Disconnect(c, s) \/ Terminate(c, s)
        PROVE  Place(c)'
    BY <1>2, <1>6 DEF Heartbeat, Disconnect, Terminate, Connected, Terminal
  <1> QED BY <1>3, <1>4, <1>5, <1>6 DEF Arrive

\* A session that falls silent is where it was for every request.
LEMMA SilentPlace ==
  ASSUME TypeOK, NEW s \in Sessions, FallSilent(s), NEW c \in Calls, Place(c)
  PROVE  Place(c)'
  <1>1. /\ UNCHANGED <<broadcast, profile, flag, listed, call>>
        /\ session' = [session EXCEPT ![s].silent = TRUE]
    BY DEF FallSilent
  <1>2. \A r \in Sessions : session'[r].status = session[r].status
                            /\ session'[r].of = session[r].of
    BY <1>1 DEF TypeOK
  <1>3. /\ Connected' = Connected /\ Open' = Open /\ Story' = Story
        /\ SessionsTell' = SessionsTell /\ NoneWaits' = NoneWaits
        /\ \A r \in Sessions : Newest(r)' = Newest(r)
        /\ \A status : Having(status)' = Having(status)
    BY <1>1, <1>2, SameStatuses
  <1>4. Target(c)' = Target(c) /\ Stales(c)' = Stales(c) /\ Closing(c)' = Closing(c)
    BY <1>1, <1>2 DEF TypeOK, CallState, Target, Stales, Closing
  <1>5. SessionsLeft(c)' = SessionsLeft(c)
    BY <1>1, <1>2, <1>3, <1>4 DEF SessionsLeft
  <1>6. /\ BroadcastDue(c)' = BroadcastDue(c) /\ BroadcastLeft(c)' = BroadcastLeft(c)
        /\ ProfileLeft(c)' = ProfileLeft(c)
    BY <1>1, <1>3, <1>4 DEF BroadcastDue, BroadcastLeft, ProfileLeft
  <1>7. Chosen(c)' = Chosen(c)
    BY <1>1, <1>2, <1>3, <1>4 DEF Chosen
  <1> QED BY <1>1, <1>3, <1>4, <1>5, <1>6, <1>7 DEF Place

LEMMA TidyKept ==
  ASSUME IInv, CInv, [Next]_vars
  PROVE  CInv'
  <1>0. TypeOK
    BY DEF IInv
  <1>1. ASSUME NEW c \in Calls, Place(c), \A d \in Calls \ {c} : call[d].pc = "idle", ~crossed,
               ~crossed', NEW d \in Calls, Continue(d)
        PROVE  Tidy'
    <2>1. call[d].pc # "idle"
      BY <1>1 DEF Continue, ConnectDecides, StartLooks, StartDecides, EndDecides, RotateDecides,
                  Rekey, Insert, Create, Point, Beat, WriteSession, WriteBroadcast, WriteProfile,
                  WriteFlag, WriteListing, EndSessions, ListSilent, List, AllMarked, MarkNext,
                  TakeOver, Fetched
    <2>2. d = c
      BY <1>1, <2>1
    <2>3. Place(c)'
      BY <1>1, <2>2, ContinuePlace
    <2>4. \A e \in Calls \ {c} : call'[e] = call[e]
      BY <1>0, <1>1, <2>2 DEF TypeOK, Continue, ConnectDecides, StartLooks, StartDecides,
             EndDecides, RotateDecides, Rekey, Insert, Create, Point, Beat, WriteSession,
             WriteBroadcast, WriteProfile, WriteFlag, WriteListing, EndSessions, ListSilent,
             List, AllMarked, MarkNext, TakeOver, Goto, Done, Writes
    <2> QED BY <1>1, <2>3, <2>4 DEF Tidy
  <1>2. ASSUME NEW c \in Calls, Place(c), \A d \in Calls \ {c} : call[d].pc = "idle", ~crossed,
               ~crossed', NEW d \in Calls, Arrive(d)
        PROVE  Tidy'
    <2>1. PICK request : Begin(d, request)
      BY <1>2 DEF Arrive, Start, End, Rotate, Reconcile, Connect, Heartbeat, Disconnect, Terminate
    <2>2. \A e \in Calls : call[e].pc = "idle"
      BY <1>2, <2>1 DEF Begin, Busy
    <2>3. Story
      BY <1>2, <2>2 DEF Place, Writing
    <2>4. Place(d)'
      BY <1>0, <1>2, <2>3, ArrivePlace
    <2>5. \A e \in Calls \ {d} : call'[e] = call[e]
      BY <1>0, <2>1 DEF Begin, TypeOK
    <2> QED BY <2>2, <2>4, <2>5 DEF Tidy
  <1>3. ASSUME NEW c \in Calls, Place(c), \A d \in Calls \ {c} : call[d].pc = "idle",
               NEW s \in Sessions, FallSilent(s)
        PROVE  Tidy'
    <2>1. Place(c)' /\ call' = call
      BY <1>0, <1>3, SilentPlace DEF FallSilent
    <2> QED BY <1>3, <2>1 DEF Tidy
  <1>4. CASE crossed'
    BY <1>4 DEF CInv
  <1>5. CASE ~crossed'
    <2>1. ~crossed
      BY <1>0, <1>5 DEF Next, Continue, ConnectDecides, StartLooks, StartDecides,
             EndDecides, RotateDecides, Rekey, Insert, Create, Point, Beat, WriteSession,
             WriteBroadcast, WriteProfile, WriteFlag, WriteListing, EndSessions, ListSilent,
             List, AllMarked, MarkNext, TakeOver, Arrive, Start, End, Rotate, Reconcile, Connect,
             Heartbeat, Disconnect, Terminate, Begin, FallSilent, CutShort, Tables, vars, TypeOK
    <2>2. PICK c \in Calls : Place(c) /\ \A d \in Calls \ {c} : call[d].pc = "idle"
      BY <2>1 DEF CInv, Tidy
    <2>3. ASSUME UNCHANGED vars PROVE Tidy'
      <3>1. UNCHANGED <<session, broadcast, profile, flag, listed, call>>
        BY <2>3 DEF vars
      <3>2. Place(c)'
        BY <2>2, <3>1 DEF Place, Chosen, Story, SessionsTell, SessionsLeft, BroadcastDue,
               BroadcastLeft, ProfileLeft, NoneWaits, Newest, Connected, Open, Having, Closing,
               Stales, Target
      <3> QED BY <2>2, <3>1, <3>2 DEF Tidy
    <2>4. ~\E C \in SUBSET Calls : CutShort(C)
      BY <1>5 DEF CutShort
    <2>5. Tidy'
      BY <1>1, <1>2, <1>3, <1>5, <2>1, <2>2, <2>3, <2>4 DEF Next
    <2> QED BY <2>5 DEF CInv
  <1> QED BY <1>4, <1>5

LEMMA InitTidy ==
  ASSUME Init
  PROVE  CInv
  <1>1. Connected = {} /\ Open = {}
    BY DEF Init, Connected, Open
  <1>2. SessionsTell /\ \A s \in Sessions : ~Newest(s)
    BY <1>1 DEF Init, SessionsTell, Newest
  <1>3. Story
    BY <1>1, <1>2 DEF Init, Story
  <1>4. Poller \in Calls /\ \A c \in Calls : call[c] = NoCall
    BY DEF Init, Calls
  <1>5. Place(Poller)
    BY <1>3, <1>4 DEF Place, Chosen, Writing, NoCall
  <1> QED BY <1>4, <1>5 DEF CInv, Tidy, NoCall

\* However long the creator's requests go on one after another, the tables
\* agree whenever none is running: each leaves a story to the next (the writes
\* of transition_broadcast_to_live, mark_live_ingest_session_stale_in_db,
\* close_live_ingest_session and end_broadcast).
THEOREM TablesAlwaysAgree == Spec => []TablesAgree
  <1>1. Init => IInv /\ CInv
    BY InitHolds, InitTidy
  <1>2. IInv /\ CInv /\ [Next]_vars => (IInv /\ CInv)'
    BY StepKeeps, TidyKept
  <1>3. IInv /\ CInv => TablesAgree
    <2>1. ASSUME TypeOK, CInv, Busy = {}, ~crossed PROVE Story
      BY <2>1 DEF CInv, Tidy, Busy, Place, Writing
    <2>2. ASSUME TypeOK, Story PROVE TablesAgree
      BY <2>2, StoryFacts DEF Story, TablesAgree
    <2> QED BY <2>1, <2>2 DEF IInv, TablesAgree
  <1> QED BY <1>1, <1>2, <1>3, PTL DEF Spec
=============================================================================
