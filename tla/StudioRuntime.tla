---------------------------- MODULE StudioRuntime ----------------------------
(***************************************************************************)
(* One broadcast of the studio on air: the profile, the runtime binding,   *)
(* the ingest session, the program outputs, the playback readiness and the *)
(* authoritative snapshot, as obs/store.rs writes them.                    *)
(*                                                                         *)
(* A command of the operator and a report of the runtime are each a        *)
(* sequence of statements, one table at a time and without a transaction   *)
(* (Script).  The operator's console sends one command at a time; reports  *)
(* arrive whenever the runtime has something to say, and a request may be  *)
(* cut short between any two statements.                                   *)
(*                                                                         *)
(* Scenes, targets, incidents, events and stream_state are written too but *)
(* no guard here reads them.  A snapshot is followed by whether a table    *)
(* was written since it was read; its reads are one step, because nothing  *)
(* is claimed of a snapshot taken while handlers overlap.                  *)
(***************************************************************************)
EXTENDS Integers, Sequences, FiniteSets

CONSTANTS
  Operators,    \* consoles: one command in progress at a time each
  Reporters,    \* reports in progress
  Counts,       \* the reconnect counts a report may carry
  MaxOutputs    \* bound: starts that get as far as an output

ASSUME RuntimeAssumption ==
  /\ Operators \cap Reporters = {}
  /\ Counts \subseteq Nat /\ 0 \in Counts
  /\ MaxOutputs \in Nat

VARIABLES
  profile,    \* obs_broadcast_profiles.status
  routable,   \* obs_runtime_bindings.runtime_state is one the preflight takes
  ingest,     \* vanta_live_ingest_sessions.status of the binding's session
  output,     \* vanta_live_runtime_outputs.status, in the order of creation
  readiness,  \* vanta_live_playback_readiness.status of the newest output
  authority,  \* last_snapshot_json is what the tables say
  task,       \* the requests in progress
  spared,     \* history: outputs that were reconnecting when the rest was closed
  torn,       \* history: a command was cut short and none has completed since
  synced      \* history: the last handler to finish syncs and ran alone

tables == <<profile, routable, ingest, output, readiness>>
history == <<torn, synced>>
vars == <<tables, authority, task, spared, history>>

-----------------------------------------------------------------------------
Tasks    == Operators \cup Reporters
Commands == {"start", "end", "emergency", "force_end", "safe_mode", "program"}
Reports  == {"error", "sample"}

\* The statements of each handler that touch the tables above, in order.
StartScript     == <<"ingest", "output", "readiness", "telemetry", "profile",
                     "binding", "read", "sync">>
EndScript       == <<"ingest", "output", "readiness", "telemetry", "profile",
                     "binding", "read", "sync">>
EmergencyScript == <<"binding", "profile", "ingest", "output">>
ForceEndScript  == <<"ingest", "output", "readiness", "binding", "profile">>
SafeModeScript  == <<"binding", "output">>
ProgramScript   == <<"binding">>
ErrorScript     == <<"telemetry", "binding", "output", "read", "sync">>
\* (A variant that takes the snapshot before the ingest session is written.)
SampleScriptEarly == <<"telemetry", "output", "binding", "read", "sync", "ingest">>
SampleScript    == <<"telemetry", "output", "binding", "ingest", "read", "sync">>
Script == [start |-> StartScript, end |-> EndScript, emergency |-> EmergencyScript,
           force_end |-> ForceEndScript, safe_mode |-> SafeModeScript,
           program |-> ProgramScript, error |-> ErrorScript,
           sample |-> SampleScript, none |-> << >>]

Profiles  == {"scheduled", "live", "ended", "interrupted", "force_ended"}
\* 'ended', 'emergency_disconnected' and 'force_ended' rows: the one statement
\* that tells them apart, force_end's, moves the second to the third.
Closed    == {"closed"}
Ingests   == {"absent", "active", "reconnecting"} \cup Closed
OnAir     == {"publishing", "degraded", "reconnecting", "held"}
OutputRow == {"absent"} \cup OnAir \cup Closed
Outputs   == 1 .. MaxOutputs
Colours   == {"green", "yellow", "red"}

Syncing   == {"start", "end", "error", "sample"}
Ending    == {"start", "end", "emergency", "force_end"}

\* `seen': what the handler read for its snapshot is what the tables say;
\* `alone': it syncs, and no other request was in progress since it began.
Idle == [kind |-> "none", at |-> 1, lost |-> FALSE, colour |-> "green",
         seen |-> FALSE, alone |-> FALSE]
TaskState == [kind : Commands \cup Reports \cup {"none"}, at : 1 .. 8,
              lost : BOOLEAN, colour : Colours, seen : BOOLEAN, alone : BOOLEAN]

AtRest == \A t \in Tasks : task[t].kind = "none"
ConsoleAtRest == \A t \in Operators : task[t].kind = "none"
Starting == \E t \in Operators : task[t].kind = "start"
At(t, statement) == /\ task[t].at \in DOMAIN Script[task[t].kind]
                    /\ Script[task[t].kind][task[t].at] = statement
Onwards(row) == IF row.at = Len(Script[row.kind]) THEN Idle
                ELSE [row EXCEPT !.at = @ + 1]

\* A handler goes on to its next statement, or it is done.
Goes(t) ==
  LET done == task[t].at = Len(Script[task[t].kind])
  IN /\ torn' = (torn /\ ~(done /\ task[t].kind \in Ending))
     /\ synced' = IF done THEN task[t].alone /\ task[t].kind \in Syncing ELSE synced

\* After a write to a table the snapshots read before it are old.
Writes(t) ==
  /\ Goes(t)
  /\ task' = [u \in Tasks |-> [(IF u = t THEN Onwards(task[u]) ELSE task[u])
                               EXCEPT !.seen = FALSE]]
  /\ authority' = FALSE

\* UPDATE ... SET status = set WHERE ... status IN from
Where(from, set) == [from |-> from, set |-> set]
Updated(status, move) == IF status \in move.from THEN move.set ELSE status

Newest == Cardinality({i \in Outputs : output[i] # "absent"})

Init ==
  /\ profile = "scheduled"
  /\ routable = TRUE
  /\ ingest = "absent"
  /\ output = [i \in Outputs |-> "absent"]
  /\ readiness = "absent"
  /\ authority = FALSE
  /\ task = [t \in Tasks |-> Idle]
  /\ spared = {} /\ torn = FALSE /\ synced = FALSE

-----------------------------------------------------------------------------
(* What a request reads before it writes.                                  *)

Begin(t, row) ==
  /\ task[t].kind = "none"
  /\ task' = [u \in Tasks |-> IF u = t THEN [row EXCEPT !.alone = AtRest /\ row.kind \in Syncing]
                              ELSE [task[u] EXCEPT !.alone = FALSE]]
  /\ UNCHANGED <<tables, authority, spared, history>>

\* Among the checks of the preflight only the runtime route is about this
\* state.  The output and its files are made before the first statement.
Start(t) ==
  /\ routable
  /\ Newest < MaxOutputs
  /\ Begin(t, [Idle EXCEPT !.kind = "start"])

\* The other commands look at the operator's role and words, not at the tables.
Command(t) ==
  \E kind \in Commands \ {"start"} : Begin(t, [Idle EXCEPT !.kind = kind])

Error(t) == Begin(t, [Idle EXCEPT !.kind = "error"])

\* stream_health_for: reconnects alone make a sample yellow, more than three
\* make it red; the other measures may only make it worse.
Healths(count) == IF count > 3 THEN {"red"}
                  ELSE IF count > 0 THEN {"yellow", "red"} ELSE Colours
\* A sample without a count of its own repeats the latest, which is another
\* count a sample may have.
Sample(t) ==
  \E count \in Counts : \E colour \in Healths(count) :
    Begin(t, [Idle EXCEPT !.kind = "sample", !.lost = count > 0, !.colour = colour])

-----------------------------------------------------------------------------
(* What it writes: a statement per table, whichever handler sends it.      *)

IngestMove(t) ==
  CASE task[t].kind = "start" -> Where(Ingests, "active")
    [] task[t].kind = "end" -> Where(Ingests \ {"absent"}, "closed")
    [] task[t].kind = "emergency" -> Where({"active"}, "closed")
    [] task[t].kind = "force_end" ->
         Where({"active"} \cup Closed, "closed")
    [] task[t].kind = "sample" /\ task[t].lost ->
         Where({"active"}, "reconnecting")
    [] task[t].kind = "sample" /\ task[t].colour = "green" ->
         Where({"reconnecting"}, "active")
    [] OTHER -> Where({}, "active")
WriteIngest(t) ==
  /\ At(t, "ingest")
  /\ ingest' = Updated(ingest, IngestMove(t))
  /\ Writes(t)
  /\ UNCHANGED <<profile, routable, output, readiness, spared>>

OutputOf(colour) == [green |-> "publishing", yellow |-> "degraded",
                     red |-> "reconnecting"][colour]
\* (A variant that forgets the degraded ones.)
EndOutputsFew    == Where({"publishing", "held"}, "closed")
EndOutputs       == Where({"publishing", "degraded", "held"}, "closed")
\* (A variant that takes only what is publishing.)
EmergencyOutputsFew == Where({"publishing"}, "closed")
EmergencyOutputs == Where({"publishing", "degraded", "held"}, "closed")
ForceEndOutputs  == Where({"publishing", "degraded", "held"} \cup Closed, "closed")
SafeModeOutputs  == Where({"publishing", "degraded"}, "held")
ErrorOutputs     == Where({"publishing", "degraded"}, "degraded")
SampleOutputs(colour) ==
  Where({"publishing", "degraded", "reconnecting"}, OutputOf(colour))
OutputMove(t) ==
  CASE task[t].kind = "end" -> EndOutputs
    [] task[t].kind = "emergency" -> EmergencyOutputs
    [] task[t].kind = "force_end" -> ForceEndOutputs
    [] task[t].kind = "safe_mode" -> SafeModeOutputs
    [] task[t].kind = "error" -> ErrorOutputs
    [] task[t].kind = "sample" -> SampleOutputs(task[t].colour)
    [] OTHER -> Where({}, "absent")
\* A start inserts an output; everything else updates the rows of the broadcast.
WriteOutput(t) ==
  /\ At(t, "output")
  /\ output' = IF task[t].kind = "start"
                 THEN [output EXCEPT ![Newest + 1] = "publishing"]
                 ELSE [i \in Outputs |-> Updated(output[i], OutputMove(t))]
  /\ spared' = IF task[t].kind \in {"end", "emergency", "force_end"}
                 THEN {i \in Outputs : output[i] = "reconnecting"} ELSE spared
  /\ Writes(t)
  /\ UNCHANGED <<profile, routable, ingest, readiness>>

WriteReadiness(t) ==
  /\ At(t, "readiness")
  /\ readiness' = IF task[t].kind = "start" THEN "ready"
                  ELSE Updated(readiness, Where({"ready"}, "ended"))
  /\ Writes(t)
  /\ UNCHANGED <<profile, routable, ingest, output, spared>>

\* The sample's row: read by the snapshot, and by no guard.
WriteTelemetry(t) ==
  /\ At(t, "telemetry")
  /\ Writes(t)
  /\ UNCHANGED <<tables, spared>>

WriteProfile(t) ==
  /\ At(t, "profile")
  /\ profile' = [start |-> "live", end |-> "ended", emergency |-> "interrupted",
                 force_end |-> "force_ended"][task[t].kind]
  /\ Writes(t)
  /\ UNCHANGED <<routable, ingest, output, readiness, spared>>

\* The states a handler can leave the binding in and the preflight takes:
\* 'healthy' of a start or a green sample, 'program_updated' of a program.
RoutableAfter(t) == \/ task[t].kind \in {"start", "program"}
                    \/ task[t].kind = "sample" /\ task[t].colour = "green"
WriteBinding(t) ==
  /\ At(t, "binding")
  /\ routable' = RoutableAfter(t)
  /\ Writes(t)
  /\ UNCHANGED <<profile, ingest, output, readiness, spared>>

\* sync_vanta_authoritative_runtime: what the tables say, then the upsert.
ReadTables(t) ==
  /\ At(t, "read")
  /\ Goes(t)
  /\ task' = [task EXCEPT ![t] = [Onwards(@) EXCEPT !.seen = TRUE,
                                     !.lost = FALSE, !.colour = "green"]]
  /\ UNCHANGED <<tables, authority, spared>>
SyncAuthority(t) ==
  /\ At(t, "sync")
  /\ authority' = task[t].seen
  /\ Goes(t)
  /\ task' = [task EXCEPT ![t] = Onwards(@)]
  /\ UNCHANGED <<tables, spared>>

\* The connection goes away or a statement fails: the rest is not written.
CutShort(t) ==
  /\ task[t].kind # "none"
  /\ task' = [task EXCEPT ![t] = Idle]
  /\ torn' = (torn \/ t \in Operators)
  /\ synced' = FALSE
  /\ UNCHANGED <<tables, authority, spared>>

Step(t) == \/ WriteIngest(t) \/ WriteOutput(t) \/ WriteReadiness(t)
           \/ WriteTelemetry(t) \/ WriteProfile(t) \/ WriteBinding(t)
           \/ ReadTables(t) \/ SyncAuthority(t)
Next == \/ \E t \in Operators : Start(t) \/ Command(t)
        \/ \E t \in Reporters : Error(t) \/ Sample(t)
        \/ \E t \in Tasks : Step(t) \/ CutShort(t)
Spec == Init /\ [][Next]_vars

-----------------------------------------------------------------------------
(* Properties *)

\* Rows, requests and history are of the right kind.
TypeOK ==
  /\ profile \in Profiles
  /\ routable \in BOOLEAN
  /\ ingest \in Ingests
  /\ output \in [Outputs -> OutputRow]
  /\ readiness \in {"absent", "ready", "ended"}
  /\ authority \in BOOLEAN
  /\ task \in [Tasks -> TaskState]
  /\ spared \subseteq Outputs
  /\ torn \in BOOLEAN /\ synced \in BOOLEAN

\* A broadcast whose profile says it has ended has no program output on air,
\* whatever reports arrive while it ends and after: except an output that was
\* reconnecting when the end closed the others (end_broadcast and force_end
\* leave 'reconnecting' out of their lists), and after a command cut short.
EndedIsDark ==
  profile \in {"ended", "force_ended"} /\ ~Starting /\ ~torn =>
    \A i \in Outputs : output[i] \in OnAir => i \in spared

\* When the console is at rest, a live broadcast has an output on air and an
\* ingest session that is open, and an interrupted one has nothing on air
\* that was not reconnecting when it was interrupted.
LiveIsOnAir ==
  ConsoleAtRest /\ ~torn =>
    /\ profile = "live" => /\ ingest \in {"active", "reconnecting"}
                           /\ \E i \in Outputs : output[i] \in OnAir
                           /\ readiness = "ready"
    /\ profile = "interrupted" =>
         \A i \in Outputs : output[i] \in OnAir => i \in spared

\* The snapshot that calls the vanta_live tables its source of truth says what
\* they say, whenever the handler that finished last takes one and ran alone.
AuthorityIsCurrent == AtRest /\ synced => authority

\* No report brings back what a command has closed: a closed output never
\* returns and a closed ingest session only by another start.
ClosedStaysClosed ==
  [][ /\ \A i \in Outputs : output[i] \in Closed => output'[i] \in Closed
      /\ ingest \in Closed /\ ingest' \notin Closed => Starting ]_vars
=============================================================================
