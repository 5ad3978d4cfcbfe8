---------------------------- MODULE NativeHelper ----------------------------
(***************************************************************************)
(* One session of a native helper that talks over its standard streams:    *)
(* the session's row, the helper processes launched for it, the            *)
(* supervisor's registry of them and the requests (native/ of vanta-obs's  *)
(* backend, and the helper's own loop, bin/vanta-native-helper.rs).        *)
(*                                                                         *)
(* The registry is one tokio Mutex, first come, first served, and a        *)
(* command holds it from the liveness check to the answer.  The helper     *)
(* answers lines in order and the answers carry no request, so a command   *)
(* that was given up leaves an answer in the pipe for the next one.        *)
(*                                                                         *)
(* A status says that the helper is ready (or degraded) or that it has     *)
(* ended (stopped or crashed), and a command is named by the status its    *)
(* answer gives.  A heartbeat is a command or, on a row that is degraded   *)
(* or crashed, a recovery.  A helper may be as slow as it likes.  A line   *)
(* is in the pipe or not: one cut off in a full pipe spoils the next, on   *)
(* which the helper exits, as it may at any time (Die).                    *)
(***************************************************************************)
EXTENDS Integers, Sequences

CONSTANTS
  Requests,   \* requests in progress
  Pids,       \* bound: helpers ever launched; no pid is given twice
  Room        \* bound: lines that fit into a helper's stdin or its stdout

ASSUME NativeAssumption ==
  Room \in Nat \ {0} /\ Pids \subseteq Nat \ {0} /\ "none" \notin Requests

VARIABLES
  row,        \* native_helper_sessions: status and process_id
  life,       \* the helper processes
  inbox,      \* the lines in a helper's stdin, each with the request that waits
  outbox,     \* the answers in its stdout
  registry,   \* the keys of stdio_helpers
  queue,      \* the requests that hold (the first) or want the Mutex
  task,       \* the requests in progress
  late,       \* history: helpers of which a command was given up
  left        \* history: registered helpers that a recovery has replaced, a
              \* request cut short has not stored, or the status of another
              \* helper was written over

pipes == <<inbox, outbox>>
helperVars == <<row, life, pipes, registry, queue, task, late, left>>

-----------------------------------------------------------------------------
Answers == {"ready", "ended"}
Lives   == {"none", "up", "gone"}
Places  == {"idle", "launch", "register", "store", "check", "write", "read", "apply"}
Lines   == [answer : Answers, of : Requests \cup {"none"}]
TaskState == [at : Places, pid : Pids \cup {0}, answer : Answers, mine : BOOLEAN]
Resting == [at |-> "idle", pid |-> 0, answer |-> "ready", mine |-> FALSE]

HelperInit ==
  /\ row = [status |-> "none", pid |-> 0]
  /\ life = [p \in Pids |-> "none"]
  /\ inbox = [p \in Pids |-> << >>] /\ outbox = [p \in Pids |-> << >>]
  /\ registry = {} /\ queue = << >>
  /\ task = [t \in Requests |-> Resting]
  /\ late = {} /\ left = {}

At(t, place) == task[t].at = place
Holds(t) == queue # << >> /\ Head(queue) = t
\* A request stands in the queue once.
Without(t) ==
  IF \E i \in DOMAIN queue : queue[i] = t
    THEN LET i == CHOOSE i \in DOMAIN queue : queue[i] = t
         IN SubSeq(queue, 1, i - 1) \o SubSeq(queue, i + 1, Len(queue))
    ELSE queue
Goes(t, place) == task' = [task EXCEPT ![t].at = place]
Ends(t) == task' = [task EXCEPT ![t] = Resting]
\* A helper that is not registered any more has lost its pipes.
Dropped(gone) ==
  /\ registry' = registry \ gone
  /\ left' = left \ gone
  /\ inbox' = [p \in Pids |-> IF p \in gone THEN << >> ELSE inbox[p]]
\* The lines of a request that no longer waits for them.
Forsaken(t, lines) ==
  [i \in DOMAIN lines |-> [lines[i] EXCEPT !.of = IF @ = t THEN "none" ELSE @]]
GivesUp(t, p) ==
  /\ inbox' = [inbox EXCEPT ![p] = Forsaken(t, @)]
  /\ outbox' = [outbox EXCEPT ![p] = Forsaken(t, @)]
  /\ late' = late \cup {p}

-----------------------------------------------------------------------------
(* Requests begin with what they read of the row.                          *)

Admit(t, request) ==
  /\ At(t, "idle")
  /\ task' = [task EXCEPT ![t] = request]

Create(t) ==
  /\ row.status = "none" /\ \A u \in Requests : At(u, "idle")
  /\ Admit(t, [Resting EXCEPT !.at = "launch"])
  /\ UNCHANGED <<row, life, pipes, registry, queue, late, left>>
\* The pid a recovery will replace is not looked at.
Recover(t) ==
  /\ row.status # "none"
  /\ Admit(t, [Resting EXCEPT !.at = "launch"])
  /\ UNCHANGED <<row, life, pipes, registry, queue, late, left>>
Command(t, answer) ==
  /\ row.status # "none"
  /\ Admit(t, [Resting EXCEPT !.at = "check", !.pid = row.pid, !.answer = answer])
  /\ queue' = Append(queue, t)
  /\ UNCHANGED <<row, life, pipes, registry, late, left>>

-----------------------------------------------------------------------------
(* A helper is launched, registered and written into the row.              *)

\* Without a handshake within 3 s the new helper's pipes are dropped.
Launch(t) ==
  /\ At(t, "launch")
  /\ UNCHANGED <<row, pipes, registry, late, left>>
  /\ \/ Ends(t) /\ UNCHANGED <<life, queue>>
     \/ \E p \in Pids :
          /\ life[p] = "none"
          /\ \A q \in Pids : q < p => life[q] # "none"
          /\ life' = [life EXCEPT ![p] = "up"]
          /\ task' = [task EXCEPT ![t].at = "register", ![t].pid = p]
          /\ queue' = Append(queue, t)
Register(t) ==
  /\ At(t, "register") /\ Holds(t)
  /\ registry' = registry \cup {task[t].pid}
  /\ queue' = Without(t)
  /\ UNCHANGED <<row, life, pipes, late, left>>
  /\ Goes(t, "store")
\* create_session's INSERT, or recover_session's UPDATE by id.
Store(t) ==
  /\ At(t, "store")
  /\ row' = [status |-> "ready", pid |-> task[t].pid]
  /\ left' = left \cup ({row.pid} \cap registry)
  /\ UNCHANGED <<life, pipes, registry, queue, late>>
  /\ Ends(t)

-----------------------------------------------------------------------------
(* command_stdio_helper, under the Mutex, and the UPDATE after it.         *)

Check(t) == LET p == task[t].pid IN
  /\ At(t, "check") /\ Holds(t)
  /\ IF p \in registry /\ life[p] # "gone"
       THEN Goes(t, "write") /\ UNCHANGED <<queue, registry, left, pipes>>
       ELSE /\ Ends(t) /\ queue' = Without(t)
            /\ Dropped({p}) /\ outbox' = [outbox EXCEPT ![p] = << >>]
  /\ UNCHANGED <<row, life, late>>

Written(t, p) ==
  inbox' = [inbox EXCEPT ![p] = Append(@, [answer |-> task[t].answer, of |-> t])]
Reads(t) == task' = [task EXCEPT ![t].at = "read", ![t].answer = "ready"]
\* (A variant that lets go of the Mutex once the command is written.)
WriteAndRelease(t) == LET p == task[t].pid IN
  /\ At(t, "write")
  /\ \/ /\ life[p] # "gone" /\ Len(inbox[p]) < Room
        /\ Written(t, p)
        /\ Reads(t) /\ queue' = Without(t)
     \/ /\ life[p] = "gone"
        /\ inbox' = inbox
        /\ Ends(t) /\ queue' = Without(t)
  /\ UNCHANGED <<row, life, outbox, registry, late, left>>
\* The write waits while the pipe is full, and no timeout is set on it.  To a
\* helper that has exited it fails.
Write(t) == LET p == task[t].pid IN
  /\ At(t, "write")
  /\ \/ /\ life[p] # "gone" /\ Len(inbox[p]) < Room
        /\ Written(t, p)
        /\ Reads(t) /\ queue' = queue
     \/ /\ life[p] = "gone"
        /\ inbox' = inbox
        /\ Ends(t) /\ queue' = Without(t)
  /\ UNCHANGED <<row, life, outbox, registry, late, left>>

\* (A variant that leaves it to the next liveness check.)
RemovedLater(p, answer) == {}
\* A helper that says that it has ended is removed and killed.
Removed(p, answer) == IF answer = "ended" THEN {p} ELSE {}
Read(t) == LET p == task[t].pid  line == Head(outbox[p])  gone == Removed(p, line.answer) IN
  /\ At(t, "read") /\ outbox[p] # << >>
  /\ Dropped(gone)
  /\ outbox' = [outbox EXCEPT ![p] = IF p \in gone THEN << >> ELSE Tail(@)]
  /\ life' = IF p \in gone THEN [life EXCEPT ![p] = "gone"] ELSE life
  /\ task' = [task EXCEPT ![t] = [at |-> "apply", pid |-> p, answer |-> line.answer,
                                  mine |-> line.of = t]]
  /\ queue' = Without(t)
  /\ UNCHANGED <<row, late>>
EndOfFile(t) == LET p == task[t].pid IN
  /\ At(t, "read") /\ outbox[p] = << >> /\ life[p] = "gone"
  /\ Dropped({p}) /\ outbox' = outbox
  /\ queue' = Without(t)
  /\ UNCHANGED <<row, life, late>>
  /\ Ends(t)
\* (A variant that waits for the answer as long as it takes.)
TimeoutNever(t) == At(t, "read") /\ FALSE /\ UNCHANGED helperVars
\* No answer within 3 s: the helper stays registered, its answer may come.
Timeout(t) == LET p == task[t].pid IN
  /\ At(t, "read") /\ outbox[p] = << >> /\ life[p] # "gone"
  /\ GivesUp(t, p)
  /\ queue' = Without(t)
  /\ UNCHANGED <<row, life, registry, left>>
  /\ Ends(t)
\* apply_heartbeat writes the status by the session's id.
Apply(t) ==
  /\ At(t, "apply")
  /\ row' = [row EXCEPT !.status = task[t].answer]
  /\ left' = IF task[t].answer = "ended" /\ task[t].pid # row.pid
             THEN left \cup ({row.pid} \cap registry) ELSE left
  /\ UNCHANGED <<life, pipes, registry, queue, late>>
  /\ Ends(t)

-----------------------------------------------------------------------------
(* The helper, the client and the server.                                  *)

\* One line of the helper's loop, which waits while its stdout is full; after a
\* shutdown or a crash it exits.
Reply(p) == LET line == Head(inbox[p]) IN
  /\ life[p] = "up" /\ inbox[p] # << >> /\ Len(outbox[p]) < Room
  /\ inbox' = [inbox EXCEPT ![p] = Tail(@)]
  /\ outbox' = [outbox EXCEPT ![p] = Append(@, line)]
  /\ life' = IF line.answer = "ended" THEN [life EXCEPT ![p] = "gone"] ELSE life
  /\ UNCHANGED <<row, registry, queue, task, late, left>>
Die(p) ==
  /\ life[p] = "up"
  /\ life' = [life EXCEPT ![p] = "gone"]
  /\ UNCHANGED <<row, pipes, registry, queue, task, late, left>>

\* The client hangs up: the handler is dropped where it waits, and with it its
\* place in the queue and the pipes of a helper not yet registered.
HangsUp(t) == LET p == task[t].pid IN
  /\ ~At(t, "idle")
  /\ queue' = Without(t)
  /\ life' = IF At(t, "register") THEN [life EXCEPT ![p] = "gone"] ELSE life
  /\ IF At(t, "read") THEN GivesUp(t, p) ELSE UNCHANGED <<pipes, late>>
  /\ left' = IF At(t, "store") THEN left \cup {p} ELSE left
  /\ UNCHANGED <<row, registry>>
  /\ Ends(t)
\* The server is started again.  Its helpers find their stdin closed.
Restart ==
  /\ life' = [p \in Pids |-> IF life[p] = "none" THEN "none" ELSE "gone"]
  /\ inbox' = [p \in Pids |-> << >>] /\ outbox' = [p \in Pids |-> << >>]
  /\ registry' = {} /\ queue' = << >>
  /\ task' = [t \in Requests |-> Resting]
  /\ late' = {} /\ left' = {}
  /\ UNCHANGED row

Arrives(t) == Create(t) \/ Recover(t) \/ \E answer \in Answers : Command(t, answer)
Continue(t) ==
  \/ Launch(t) \/ Register(t) \/ Store(t)
  \/ Check(t) \/ Write(t) \/ Read(t) \/ EndOfFile(t) \/ Timeout(t) \/ Apply(t)
HelperNext ==
  \/ \E t \in Requests : Arrives(t) \/ Continue(t) \/ HangsUp(t)
  \/ \E p \in Pids : Reply(p) \/ Die(p)
  \/ Restart
HelperSpec == HelperInit /\ [][HelperNext]_helperVars

\* A handler is polled until it is done, and its timeouts fire.  Nothing makes
\* a helper read.
FairSpec == HelperSpec /\ \A t \in Requests : WF_helperVars(Continue(t))

-----------------------------------------------------------------------------
(* Properties *)

\* The row, the processes, the pipes and the requests hold what they may.
HelperTypeOK ==
  /\ row \in [status : Answers \cup {"none"}, pid : Pids \cup {0}]
  /\ life \in [Pids -> Lives]
  /\ inbox \in [Pids -> Seq(Lines)] /\ outbox \in [Pids -> Seq(Lines)]
  /\ registry \subseteq Pids /\ queue \in Seq(Requests)
  /\ task \in [Requests -> TaskState]
  /\ late \subseteq Pids /\ left \subseteq Pids

\* The status written into the row is the answer to the command that writes it,
\* as long as no command of that helper was given up: then every later one gets
\* the answer of one before it (command_stdio_helper).
AnswersMatch ==
  \A t \in Requests : At(t, "apply") /\ task[t].pid \notin late => task[t].mine

\* A registered helper is the one the row says is running, or one about to be
\* stored; unless it was left over by a recovery, by a request cut short, or by
\* a late status (recover_session, apply_heartbeat).
RegistryIsTold ==
  \A p \in registry \ left :
    \/ row.pid = p /\ row.status # "ended"
    \/ \E t \in Requests : At(t, "store") /\ task[t].pid = p

\* Some command waits to write into a pipe that is full, with the Mutex of all
\* helpers in its hands.
Jammed == \E t \in Requests : At(t, "write") /\ Len(inbox[task[t].pid]) >= Room

\* Every request ends, however many of them want the Mutex and whether or not
\* the helper answers, unless one is jammed (the timeouts of the supervisor).
RequestsEnd == \A t \in Requests : ~At(t, "idle") ~> At(t, "idle") \/ Jammed
=============================================================================
