----------------------- MODULE NotificationDeliveries -----------------------
(***************************************************************************)
(* The notification bus (notifications/, reconciliation/scheduling.rs and  *)
(* the admin retry of admin_ops.rs).  A delivery is a row that any task of *)
(* the server may dispatch: the request that enqueued it, a request that   *)
(* reads an inbox, the background pass, an admin.  They agree only through *)
(* the compare-and-set that claims an attempt; everything before it is a   *)
(* read of a row that may have changed, everything after it is an UPDATE   *)
(* by id with no further condition.                                        *)
(*                                                                         *)
(* next_attempt_at is kept as one bit, due: the instant it names has been  *)
(* reached.  The back-off of 15 s per attempt is the step Elapse.          *)
(***************************************************************************)
EXTENDS Integers, FiniteSets

CONSTANTS
  Deliveries,    \* ids a delivery may be given
  Dispatchers,   \* tasks that can run a dispatch loop
  Poller,        \* the background pass, one of them
  MaxAttempts,   \* MAX_NOTIFICATION_DELIVERY_ATTEMPTS
  MaxFaults,     \* bound: database errors and crashes that interrupt a task
  MaxResets      \* bound: retries ordered by an admin

ASSUME BusAssumption ==
  /\ Poller \in Dispatchers
  /\ MaxAttempts \in Nat \ {0}
  /\ MaxFaults \in Nat
  /\ MaxResets \in Nat

VARIABLES
  delivery,   \* notification_deliveries
  task,       \* what each dispatcher is in the middle of
  attempts,   \* history: claims each delivery has seen
  reset,      \* history: deliveries an admin's UPDATE has put back
  dropped,    \* history: deliveries whose attempt was interrupted
  faults, resets

busVars == <<delivery, task, attempts, reset, dropped, faults, resets>>

-----------------------------------------------------------------------------
States == {"absent", "pending", "delivering", "retrying", "delivered",
           "dead_lettered"}
Steps  == {"idle", "insert", "loop", "claim", "recipient", "write", "mark",
           "reset"}

\* retry_count is bounded by the claims it counts.
DeliveryRow == [state : States, retries : Nat, due : BOOLEAN]
DispatchTask == [pc : Steps, todo : SUBSET Deliveries, at : Deliveries,
                 seen : Nat]

Claimable(r) == r.state \in {"pending", "retrying"} /\ r.due

Due == {d \in Deliveries : Claimable(delivery[d])}

\* An UPDATE that leaves retry_count alone.
Put(r, state, due) == [state |-> state, retries |-> r.retries, due |-> due]

\* A task that turns to another step with another list.
Turn(t, pc, todo) == [pc |-> pc, todo |-> todo, at |-> t.at, seen |-> t.seen]

\* A task at a delivery, with the count it has read there.
Arrive(t, pc, d, n) == [pc |-> pc, todo |-> t.todo \ {d}, at |-> d, seen |-> n]

\* The states of a task that owns the attempt on the delivery it is at.
Holds(w, d) == task[w].at = d /\ task[w].pc \in {"recipient", "write", "mark"}

BusInit ==
  /\ delivery = [d \in Deliveries |->
                   [state |-> "absent", retries |-> 0, due |-> FALSE]]
  /\ task \in [Dispatchers -> {[pc |-> "idle", todo |-> {}, at |-> d, seen |-> 0] :
                                  d \in Deliveries}]
  /\ attempts = [d \in Deliveries |-> 0]
  /\ reset = {} /\ dropped = {}
  /\ faults = 0 /\ resets = 0

History == <<attempts, reset, dropped, faults, resets>>

-----------------------------------------------------------------------------
(* Where the work of a loop comes from.                                    *)

\* One INSERT of enqueue_notification_event: next_attempt_at is sent_at, so
\* the row may be claimed by anyone at once, before the loop reaches it.
Enqueue(w, d) ==
  /\ task[w].pc \in {"idle", "insert"} /\ delivery[d].state = "absent"
  /\ delivery' = [delivery EXCEPT
                    ![d] = [state |-> "pending", retries |-> 0, due |-> TRUE]]
  /\ task' = [task EXCEPT ![w] = Turn(@, "insert", @.todo \cup {d})]
  /\ UNCHANGED History

InsertsDone(w) ==
  /\ task[w].pc = "insert"
  /\ task' = [task EXCEPT ![w].pc = "loop"]
  /\ UNCHANGED <<delivery, History>>

\* The background pass lists every due row, a reader those of its filter.
\* The list is read once; the rows are dispatched later, one by one.
Select(w, S) ==
  /\ task[w].pc = "idle" /\ S # {} /\ S \subseteq Due
  /\ w = Poller => S = Due
  /\ task' = [task EXCEPT ![w] = Turn(@, "loop", S)]
  /\ UNCHANGED <<delivery, History>>

LoopDone(w) ==
  /\ task[w].pc = "loop" /\ task[w].todo = {}
  /\ task' = [task EXCEPT ![w].pc = "idle"]
  /\ UNCHANGED <<delivery, History>>

-----------------------------------------------------------------------------
(* dispatch_notification_delivery, one await at a time.                    *)

\* The row is read before the claim, and its retry_count kept.  The clock is
\* read when the row has arrived, so a row that another task claims, fails and
\* that falls due again in between is still claimed, with the older count:
\* the answer of the read has then taken longer than the back-off.
ReadRow(w, d) ==
  /\ task[w].pc = "loop" /\ d \in task[w].todo
  /\ task' = [task EXCEPT ![w] =
       Arrive(@, IF delivery[d].state = "delivered" THEN "loop" ELSE "claim",
              d, delivery[d].retries)]
  /\ UNCHANGED <<delivery, History>>

\* A claim that trusts the state read before it.
ClaimUnguarded(w) == LET d == task[w].at IN
  /\ task[w].pc = "claim"
  /\ delivery' = [delivery EXCEPT ![d] = Put(@, "delivering", FALSE)]
  /\ attempts' = [attempts EXCEPT ![d] = @ + 1]
  /\ task' = [task EXCEPT ![w].pc = "recipient"]
  /\ UNCHANGED <<reset, dropped, faults, resets>>

\* The compare-and-set on the state and on next_attempt_at.
Claim(w) == LET d == task[w].at IN
  /\ task[w].pc = "claim" /\ Claimable(delivery[d])
  /\ delivery' = [delivery EXCEPT ![d] = Put(@, "delivering", FALSE)]
  /\ attempts' = [attempts EXCEPT ![d] = @ + 1]
  /\ task' = [task EXCEPT ![w].pc = "recipient"]
  /\ UNCHANGED <<reset, dropped, faults, resets>>

ClaimMisses(w) ==
  /\ task[w].pc = "claim" /\ ~Claimable(delivery[task[w].at])
  /\ task' = [task EXCEPT ![w].pc = "loop"]
  /\ UNCHANGED <<delivery, History>>

\* deliver_inbox_notification looks the recipient up, then writes.  An error
\* of either statement, or a recipient that is gone, is a failed attempt.
Recipient(w) ==
  /\ task[w].pc = "recipient"
  /\ \E next \in {"write", "mark"} : task' = [task EXCEPT ![w].pc = next]
  /\ UNCHANGED <<delivery, History>>

\* A delivery that leaves its row as the claim did.
DeliverForgets(w) ==
  /\ task[w].pc = "write"
  /\ task' = [task EXCEPT ![w].pc = "loop"]
  /\ UNCHANGED <<delivery, History>>

Deliver(w) ==
  /\ task[w].pc = "write"
  /\ delivery' = [delivery EXCEPT ![task[w].at] = Put(@, "delivered", FALSE)]
  /\ task' = [task EXCEPT ![w].pc = "loop"]
  /\ UNCHANGED History

DeliverFails(w) ==
  /\ task[w].pc = "write"
  /\ task' = [task EXCEPT ![w].pc = "mark"]
  /\ UNCHANGED <<delivery, History>>

\* Counts the attempt twice.
CeilingOffByOne(n) == IF n + 1 >= MaxAttempts THEN "dead_lettered" ELSE "retrying"

\* Where a failed attempt leaves the row, from the count it will carry.
Ceiling(n) == IF n >= MaxAttempts THEN "dead_lettered" ELSE "retrying"

\* mark_notification_delivery_failed counts from the retry_count that was
\* read before the claim.
MarkFailed(w) == LET n == task[w].seen + 1 IN
  /\ task[w].pc = "mark"
  /\ delivery' = [delivery EXCEPT ![task[w].at] =
                    [state |-> Ceiling(n), retries |-> n, due |-> FALSE]]
  /\ task' = [task EXCEPT ![w].pc = "loop"]
  /\ UNCHANGED History

\* The instant next_attempt_at of a row is reached.
Elapse(d) ==
  /\ delivery[d].state = "retrying" /\ ~delivery[d].due
  /\ delivery' = [delivery EXCEPT ![d] = Put(@, "retrying", TRUE)]
  /\ UNCHANGED <<task, History>>

-----------------------------------------------------------------------------
(* The admin's retry: a read, an UPDATE by id, and a dispatch.  (The read  *)
(* first dispatches the row if it is due: that is a Select of the task.)   *)

RetryRead(w, d) ==
  /\ task[w].pc = "idle" /\ resets < MaxResets
  /\ delivery[d].state \notin {"absent", "delivered"}
  /\ resets' = resets + 1
  /\ task' = [task EXCEPT ![w] = Arrive(@, "reset", d, @.seen)]
  /\ UNCHANGED <<delivery, attempts, reset, dropped, faults>>

RetryReset(w) == LET d == task[w].at IN
  /\ task[w].pc = "reset"
  /\ delivery' = [delivery EXCEPT ![d] = Put(@, "retrying", TRUE)]
  /\ reset' = reset \cup {d}
  /\ task' = [task EXCEPT ![w] = Turn(@, "loop", {d})]
  /\ UNCHANGED <<attempts, dropped, faults, resets>>

-----------------------------------------------------------------------------
(* A statement outside an attempt fails, or the one that records the       *)
(* failure does, or the process stops: the loop ends where it is.          *)

HeldBy(W) == {d \in Deliveries : \E w \in W : Holds(w, d)}

\* `?` in a loop, or in mark_notification_delivery_failed itself.
DbFails(w) ==
  /\ task[w].pc \in {"insert", "loop", "claim", "mark", "reset"}
  /\ faults < MaxFaults /\ faults' = faults + 1
  /\ dropped' = dropped \cup HeldBy({w})
  /\ task' = [task EXCEPT ![w] = Turn(@, "idle", {})]
  /\ UNCHANGED <<delivery, attempts, reset, resets>>

Crash ==
  /\ \E w \in Dispatchers : task[w].pc # "idle"
  /\ faults < MaxFaults /\ faults' = faults + 1
  /\ dropped' = dropped \cup HeldBy(Dispatchers)
  /\ task' = [w \in Dispatchers |-> Turn(task[w], "idle", {})]
  /\ UNCHANGED <<delivery, attempts, reset, resets>>

-----------------------------------------------------------------------------
\* What a task that is inside a loop does next when nothing interrupts it.
Continue(w) ==
  \/ InsertsDone(w) \/ LoopDone(w) \/ Claim(w) \/ ClaimMisses(w)
  \/ Recipient(w) \/ Deliver(w) \/ DeliverFails(w) \/ MarkFailed(w)
  \/ RetryReset(w)
  \/ \E d \in Deliveries : ReadRow(w, d)

BusNext ==
  \/ \E w \in Dispatchers :
       \/ Continue(w)
       \/ DbFails(w)
       \/ \E d \in Deliveries : Enqueue(w, d) \/ RetryRead(w, d)
       \/ \E S \in SUBSET Deliveries : Select(w, S)
  \/ \E d \in Deliveries : Elapse(d)
  \/ Crash

BusSpec == BusInit /\ [][BusNext]_busVars

\* A spawned task is polled until it returns, the interval of the background
\* pass ticks, time passes.  Nobody is obliged to read an inbox.
FairSpec ==
  /\ BusSpec
  /\ \A w \in Dispatchers : WF_busVars(Continue(w))
  /\ WF_busVars(\E S \in SUBSET Deliveries : Select(Poller, S))
  /\ \A d \in Deliveries : WF_busVars(Elapse(d))

-----------------------------------------------------------------------------
\* The shape of the rows and of what the tasks carry.
BusTypeOK ==
  /\ delivery \in [Deliveries -> DeliveryRow]
  /\ task \in [Dispatchers -> DispatchTask]
  /\ attempts \in [Deliveries -> Nat]
  /\ reset \subseteq Deliveries /\ dropped \subseteq Deliveries
  /\ faults \in Nat /\ resets \in Nat

\* As long as no admin has put a delivery back, one task at most owns the
\* attempt on it, and the row says so: the claim of dispatch.rs:116 protects
\* the two unconditional UPDATEs that follow it.
OneAttempt ==
  \A d \in Deliveries \ reset : \A w \in Dispatchers :
    Holds(w, d) => /\ delivery[d].state = "delivering"
                   /\ \A v \in Dispatchers : Holds(v, d) => v = w

\* A row marked 'delivering' has an owner, or lost it to an interruption:
\* nothing else strands it where no query selects it again.
StrandedByFault ==
  \A d \in Deliveries \ (reset \cup dropped) :
    delivery[d].state = "delivering" => \E w \in Dispatchers : Holds(w, d)

\* A delivery is dead-lettered only after MaxAttempts attempts were really
\* made, however old the retry_count was that the last one started from.
NoEarlyDeadLetter ==
  \A d \in Deliveries :
    delivery[d].state = "dead_lettered" => attempts[d] >= MaxAttempts

\* A delivered or dead-lettered row is left alone, until an admin resets it.
SettledStays ==
  [][\A d \in Deliveries \ reset' :
       delivery[d].state \in {"delivered", "dead_lettered"}
         => delivery'[d] = delivery[d]]_busVars

\* Every delivery is in the end delivered or dead-lettered, unless an
\* attempt on it was interrupted.
EveryDeliverySettles ==
  \A d \in Deliveries :
    delivery[d].state = "pending" ~>
      (delivery[d].state \in {"delivered", "dead_lettered"} \/ d \in dropped)
=============================================================================
