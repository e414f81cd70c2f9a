------------------------------- MODULE TaskStore -------------------------------
(***************************************************************************)
(* mcp::util::InMemoryTaskStore with the TaskReceiver that calls it.       *)
(*                                                                         *)
(* Every store operation runs under one mutex and first drops the expired  *)
(* tasks, so it is one step, whether it succeeds or not.  Two things happen*)
(* outside the mutex: the status observer is called after it is released,  *)
(* and waitForTaskTerminal sleeps on the condition variable.               *)
(***************************************************************************)
EXTENDS Integers, FiniteSets

CONSTANTS
  Tasks,        \* task ids the generator may draw
  Auths,        \* authorization contexts
  NoAuth,       \* a request without one
  Workers,      \* threads that create, update, complete and cancel tasks
  Waiters,      \* tasks/result requests
  Listers,      \* requestors that walk the pages of tasks/list
  Ttls,         \* ttl values requested
  NoTtl,
  MaxTtl,       \* options.maxTaskTtlMilliseconds
  MaxActive,    \* options.maxActiveTasksPerAuthContext
  PageSize,     \* listPageSize_
  MaxTime,      \* the clock stops here (bounds the model)
  NoTask

ASSUME TaskStoreAssumption ==
  /\ IsFiniteSet(Tasks)
  /\ NoAuth \notin Auths /\ NoTask \notin Tasks
  /\ Ttls \subseteq Int /\ NoTtl \notin Int
  /\ MaxTtl \in Nat /\ MaxActive \in Nat /\ MaxTime \in Nat
  /\ PageSize \in Nat

VARIABLES
  status,       \* task -> "absent" or its TaskStatus
  payload,      \* task -> what its StoredTask keeps: nothing, a result or an error
  owner,        \* task -> authorization context it is bound to
  expiresAt,    \* task -> Never or the time it is dropped
  sequence,     \* task -> position in the order of creation
  nextSequence,
  now,          \* system_clock
  worker,       \* what each worker has changed and not yet reported
  waiter,       \* where each tasks/result request is
  lister,       \* where each walk of the pages is
  announced     \* history: terminal notifications of each task

store == << status, payload, owner, expiresAt, sequence >>
vars == << store, nextSequence, now, worker, waiter, lister, announced >>

Contexts == Auths \cup {NoAuth}
Never == MaxTime + 1
Terminal == {"completed", "failed", "cancelled"}
Active == {"working", "input_required"}
Statuses == Terminal \cup Active

IdleWorker == [ at |-> "idle", task |-> NoTask, status |-> "absent" ]
Outcomes == {"none", "not_found", "result", "error", "internal_error"}
IdleWaiter ==
  [ at |-> "idle", task |-> NoTask, auth |-> NoAuth, deadline |-> Never, outcome |-> "none" ]
IdleLister ==
  [ at |-> "idle", auth |-> NoAuth, cursor |-> 0, present |-> {},
    seen |-> [t \in Tasks |-> 0] ]

Init ==
  /\ status = [t \in Tasks |-> "absent"]
  /\ payload = [t \in Tasks |-> "none"]
  /\ owner = [t \in Tasks |-> NoAuth]
  /\ expiresAt = [t \in Tasks |-> Never]
  /\ sequence = [t \in Tasks |-> 0]
  /\ nextSequence = 1
  /\ now = 0
  /\ worker = [w \in Workers |-> IdleWorker]
  /\ waiter = [v \in Waiters |-> IdleWaiter]
  /\ lister = [l \in Listers |-> IdleLister]
  /\ announced = [t \in Tasks |-> 0]

-----------------------------------------------------------------------------
(* Under the mutex.                                                        *)

\* purgeExpiredLocked, the first thing every operation does
Purged ==
  [t \in Tasks |-> IF now >= expiresAt[t] THEN "absent" ELSE status[t]]

Accessible(t, a) == owner[t] = NoAuth \/ owner[t] = a

\* isValidTaskStatusTransition
ValidTransition(from, to) ==
  \/ from = "working" /\ to \in Terminal \cup {"input_required"}
  \/ from = "input_required" /\ to \in Terminal \cup {"working"}

\* the three early returns that updateTaskStatus, setTaskResult and setTaskError share
Mutable(t, a) ==
  /\ Purged[t] # "absent"
  /\ Accessible(t, a)
  /\ Purged[t] \notin Terminal

ActiveTasks(statuses, a) == { t \in Tasks : owner[t] = a /\ statuses[t] \in Active }

\* condition.notify_all
NotifyAll ==
  waiter' = [v \in Waiters |->
               IF waiter[v].at = "asleep" THEN [waiter[v] EXCEPT !.at = "awake"]
                                          ELSE waiter[v]]

\* an operation that only reads, or is refused, still drops the expired tasks
OnlyPurges ==
  /\ status' = Purged
  /\ UNCHANGED << payload, owner, expiresAt, sequence, nextSequence, now, worker, waiter,
                  lister, announced >>

-----------------------------------------------------------------------------
(* Operations of the store.                                                *)

\* ids are random and long: one that was drawn is not drawn again
FreshIds == { t \in Tasks : sequence[t] = 0 }

AcceptableTtl(ttl) == ttl = NoTtl \/ (ttl >= 0 /\ ttl <= MaxTtl)

CreateRefused(a, ttl) ==
  \/ ~AcceptableTtl(ttl)
  \/ Cardinality(ActiveTasks(Purged, a)) >= MaxActive

CreateTask(t, a, ttl) ==
  /\ ~CreateRefused(a, ttl)
  /\ t \in FreshIds
  /\ ttl # NoTtl => now + ttl <= MaxTime
  /\ status' = [Purged EXCEPT ![t] = "working"]
  /\ owner' = [owner EXCEPT ![t] = a]
  /\ expiresAt' = [expiresAt EXCEPT ![t] = IF ttl = NoTtl THEN Never ELSE now + ttl]
  /\ sequence' = [sequence EXCEPT ![t] = nextSequence]
  /\ nextSequence' = nextSequence + 1
  /\ UNCHANGED << payload, now, worker, waiter, lister, announced >>

RefuseCreateTask(a, ttl) == CreateRefused(a, ttl) /\ OnlyPurges

\* getTask, and each of the mutations below when its early returns refuse it
GetTask == OnlyPurges

\* Mutant of Change: waiters are not woken.
ChangeWithoutNotify(w, t, s, p) ==
  /\ status' = [Purged EXCEPT ![t] = s]
  /\ payload' = [payload EXCEPT ![t] = p]
  /\ worker' = [worker EXCEPT ![w] = [at |-> "notify", task |-> t, status |-> s]]
  /\ UNCHANGED << owner, expiresAt, sequence, nextSequence, now, waiter, lister, announced >>

\* what the three mutations do once they accept: the receiver's thread goes on to report it
Change(w, t, s, p) ==
  /\ status' = [Purged EXCEPT ![t] = s]
  /\ payload' = [payload EXCEPT ![t] = p]
  /\ NotifyAll
  /\ worker' = [worker EXCEPT ![w] = [at |-> "notify", task |-> t, status |-> s]]
  /\ UNCHANGED << owner, expiresAt, sequence, nextSequence, now, lister, announced >>

\* updateTaskStatus keeps the payload, also when it makes the task terminal
UpdateTaskStatus(w, t, a, s) ==
  /\ worker[w].at = "idle"
  /\ Mutable(t, a) /\ ValidTransition(Purged[t], s)
  /\ Change(w, t, s, payload[t])

\* setTaskResult, from completeTaskWithResponse with a success response
SetTaskResult(w, t, a, s) ==
  /\ worker[w].at = "idle"
  /\ Mutable(t, a) /\ s \in Terminal /\ ValidTransition(Purged[t], s)
  /\ Change(w, t, s, "result")

\* setTaskError, from completeTaskWithResponse with an error and from cancelTask
SetTaskError(w, t, a, s) ==
  /\ worker[w].at = "idle"
  /\ Mutable(t, a) /\ s \in Terminal /\ ValidTransition(Purged[t], s)
  /\ Change(w, t, s, "error")

\* Mutant of NotifyStatusObserver: the status is looked up again when it is told.
NotifyRereads(w) ==
  LET t == worker[w].task IN
  /\ worker[w].at = "notify"
  /\ announced' = IF status[t] \in Terminal
                  THEN [announced EXCEPT ![t] = @ + 1] ELSE announced
  /\ worker' = [worker EXCEPT ![w] = IdleWorker]
  /\ UNCHANGED << store, nextSequence, now, waiter, lister >>

\* the observer is called after the mutex is released, with the copy made under it
NotifyStatusObserver(w) ==
  LET t == worker[w].task IN
  /\ worker[w].at = "notify"
  /\ announced' = IF worker[w].status \in Terminal
                  THEN [announced EXCEPT ![t] = @ + 1] ELSE announced
  /\ worker' = [worker EXCEPT ![w] = IdleWorker]
  /\ UNCHANGED << store, nextSequence, now, waiter, lister >>

-----------------------------------------------------------------------------
(* tasks/result: waitForTaskTerminal.                                      *)

HandleTasksResult(v, t, a) ==
  /\ waiter[v].at = "idle"
  /\ waiter' = [waiter EXCEPT ![v] = [IdleWaiter EXCEPT !.at = "awake", !.task = t, !.auth = a]]
  /\ UNCHANGED << store, nextSequence, now, worker, lister, announced >>

\* a terminal task without a payload is answered with an internal error
StoredOutcome(t) == IF payload[t] = "none" THEN "internal_error" ELSE payload[t]

Answer(v, outcome) ==
  waiter' = [waiter EXCEPT ![v] = [@ EXCEPT !.at = "done", !.outcome = outcome]]

\* Mutant of CheckTask: an expired task is waited for without a deadline.
CheckTaskForever(v) ==
  LET t == waiter[v].task
      a == waiter[v].auth
  IN
  /\ waiter[v].at = "awake"
  /\ status' = Purged
  /\ \/ Purged[t] = "absent" /\ Answer(v, "not_found")
     \/ Purged[t] # "absent" /\ ~Accessible(t, a) /\ Answer(v, "not_found")
     \/ Purged[t] \in Terminal /\ Accessible(t, a) /\ Answer(v, StoredOutcome(t))
     \/ /\ Purged[t] \in Active /\ Accessible(t, a)
        /\ waiter' = [waiter EXCEPT ![v] = [@ EXCEPT !.at = "asleep", !.deadline = Never]]
  /\ UNCHANGED << payload, owner, expiresAt, sequence, nextSequence, now, worker, lister, announced >>

\* Mutant of CheckTask: the answer does not wait for a terminal status.
CheckTaskAnyStatus(v) ==
  LET t == waiter[v].task
      a == waiter[v].auth
  IN
  /\ waiter[v].at = "awake"
  /\ status' = Purged
  /\ \/ Purged[t] = "absent" /\ Answer(v, "not_found")
     \/ Purged[t] # "absent" /\ ~Accessible(t, a) /\ Answer(v, "not_found")
     \/ Purged[t] # "absent" /\ Accessible(t, a) /\ Answer(v, StoredOutcome(t))
  /\ UNCHANGED << payload, owner, expiresAt, sequence, nextSequence, now, worker, lister, announced >>

\* one turn of the loop, up to the return or to the release of the mutex in the wait
CheckTask(v) ==
  LET t == waiter[v].task
      a == waiter[v].auth
  IN
  /\ waiter[v].at = "awake"
  /\ status' = Purged
  /\ \/ Purged[t] = "absent" /\ Answer(v, "not_found")
     \/ Purged[t] # "absent" /\ ~Accessible(t, a) /\ Answer(v, "not_found")
     \/ Purged[t] \in Terminal /\ Accessible(t, a) /\ Answer(v, StoredOutcome(t))
     \/ /\ Purged[t] \in Active /\ Accessible(t, a)
        /\ waiter' = [waiter EXCEPT ![v] = [@ EXCEPT !.at = "asleep", !.deadline = expiresAt[t]]]
  /\ UNCHANGED << payload, owner, expiresAt, sequence, nextSequence, now, worker, lister, announced >>

Wake(v) ==
  /\ waiter' = [waiter EXCEPT ![v] = [@ EXCEPT !.at = "awake"]]
  /\ UNCHANGED << store, nextSequence, now, worker, lister, announced >>

WaitTimesOut(v) == waiter[v].at = "asleep" /\ now >= waiter[v].deadline /\ Wake(v)
SpuriousWakeup(v) == waiter[v].at = "asleep" /\ Wake(v)

-----------------------------------------------------------------------------
(* tasks/list: one page a request, the cursor is an index.                 *)

\* listTasks: what the requestor may see, in the order of creation
Visible(a) == { t \in Tasks : Purged[t] # "absent" /\ Accessible(t, a) }

Index(t, a) == Cardinality({ u \in Visible(a) : sequence[u] < sequence[t] })

\* paginate: the page that starts at the cursor, up to EndIndex
EndIndex(cursor, a) ==
  IF cursor + PageSize <= Cardinality(Visible(a)) THEN cursor + PageSize ELSE Cardinality(Visible(a))

\* Mutant of Page: the last entry is cut off.
PageCutShort(cursor, a) ==
  { t \in Visible(a) : cursor <= Index(t, a) /\ Index(t, a) + 1 < EndIndex(cursor, a) }

Page(cursor, a) ==
  { t \in Visible(a) : cursor <= Index(t, a) /\ Index(t, a) < EndIndex(cursor, a) }

StartListing(l, a) ==
  /\ lister[l].at = "idle"
  /\ lister' = [lister EXCEPT ![l] = [IdleLister EXCEPT !.at = "page", !.auth = a,
                                                        !.present = Visible(a)]]
  /\ UNCHANGED << store, nextSequence, now, worker, waiter, announced >>

HandleTasksList(l) ==
  LET me == lister[l]
      page == Page(me.cursor, me.auth)
      end == EndIndex(me.cursor, me.auth)
      total == Cardinality(Visible(me.auth))
  IN
  /\ me.at = "page"
  /\ status' = Purged
  /\ lister' = [lister EXCEPT ![l] =
       IF PageSize = 0 \/ me.cursor > total
       THEN [me EXCEPT !.at = "invalid"]
       ELSE [me EXCEPT !.at = IF end < total THEN "page" ELSE "done",
                       !.cursor = end,
                       !.seen = [t \in Tasks |-> IF t \in page THEN me.seen[t] + 1
                                                              ELSE me.seen[t]]]]
  /\ UNCHANGED << payload, owner, expiresAt, sequence, nextSequence, now, worker, waiter, announced >>

-----------------------------------------------------------------------------
Tick ==
  /\ now < MaxTime
  /\ now' = now + 1
  /\ UNCHANGED << store, nextSequence, worker, waiter, lister, announced >>

WorkerStep(w) ==
  \/ \E t \in Tasks, a \in Contexts, s \in Statuses :
       \/ UpdateTaskStatus(w, t, a, s) \/ SetTaskResult(w, t, a, s) \/ SetTaskError(w, t, a, s)
  \/ NotifyStatusObserver(w)

WaiterStep(v) ==
  \/ \E t \in Tasks, a \in Contexts : HandleTasksResult(v, t, a)
  \/ CheckTask(v) \/ WaitTimesOut(v) \/ SpuriousWakeup(v)

ListerStep(l) == (\E a \in Contexts : StartListing(l, a)) \/ HandleTasksList(l)

RequestStep ==
  \/ \E a \in Contexts, ttl \in Ttls \cup {NoTtl} :
       RefuseCreateTask(a, ttl) \/ \E t \in Tasks : CreateTask(t, a, ttl)
  \/ GetTask

Next ==
  \/ RequestStep
  \/ \E w \in Workers : WorkerStep(w)
  \/ \E v \in Waiters : WaiterStep(v)
  \/ \E l \in Listers : ListerStep(l)
  \/ Tick

Spec == Init /\ [][Next]_vars

(***************************************************************************)
(* Fairness: a thread that is awake runs, a timed wait returns and time    *)
(* goes on.  Nobody has to complete a task, and no wait has to return      *)
(* without a cause.                                                        *)
(***************************************************************************)
Fairness ==
  /\ \A v \in Waiters : WF_vars(CheckTask(v)) /\ WF_vars(WaitTimesOut(v))
  /\ WF_vars(Tick)

FairSpec == Spec /\ Fairness

-----------------------------------------------------------------------------
(* Type invariant.                                                         *)

\* Every variable has its type; a busy worker, waiter or lister knows what it works on.
TypeOK ==
  /\ status \in [Tasks -> Statuses \cup {"absent"}]
  /\ payload \in [Tasks -> {"none", "result", "error"}]
  /\ owner \in [Tasks -> Contexts]
  /\ expiresAt \in [Tasks -> 0..Never]
  /\ sequence \in [Tasks -> Nat]
  /\ nextSequence \in Nat \ {0}
  /\ now \in 0..MaxTime
  /\ worker \in [Workers -> [ at : {"idle", "notify"}, task : Tasks \cup {NoTask},
                              status : Statuses \cup {"absent"} ]]
  /\ waiter \in [Waiters -> [ at : {"idle", "awake", "asleep", "done"}, task : Tasks \cup {NoTask},
                              auth : Contexts, deadline : 0..Never, outcome : Outcomes ]]
  /\ lister \in [Listers -> [ at : {"idle", "page", "done", "invalid"}, auth : Contexts,
                              cursor : Nat, present : SUBSET Tasks, seen : [Tasks -> Nat] ]]
  /\ announced \in [Tasks -> Nat]
  /\ \A w \in Workers : worker[w].at = "notify" => worker[w].task \in Tasks
  /\ \A v \in Waiters : waiter[v].at # "idle" => waiter[v].task \in Tasks

-----------------------------------------------------------------------------
(* Safety.                                                                 *)

\* Once a task is terminal neither a late result, nor a cancellation, nor a status update of
\* another thread changes it: it keeps its status and its payload until it expires
\* (TerminalImmutable, "it MUST remain in cancelled status even if execution continues").
TerminalIsFinal ==
  [][\A t \in Tasks : status[t] \in Terminal =>
       \/ status'[t] = "absent"
       \/ status'[t] = status[t] /\ payload'[t] = payload[t]]_vars

\* tasks/result answers with the outcome the task ended with: a waiter woken by one change and
\* overtaken by others never hands out an earlier or a later one.
ResultIsFinal ==
  \A v \in Waiters :
    waiter[v].at = "done" /\ waiter[v].outcome # "not_found" =>
      LET t == waiter[v].task IN
      status[t] = "absent" \/ (status[t] \in Terminal /\ waiter[v].outcome = StoredOutcome(t))

\* options.maxActiveTasksPerAuthContext bounds the active tasks of each authorization context.
ActiveWithinLimit ==
  \A a \in Contexts : Cardinality(ActiveTasks(status, a)) <= MaxActive

\* The observer is told once that a task ended, although the mutex is free when it is called:
\* several workers that changed the same task may be on their way to tell it, the one that ended
\* the task among them, and a cancellation and a completion may both have tried to end it.
EndAnnouncedOnce == \A t \in Tasks : announced[t] <= 1

\* A walk of the pages of tasks/list that ends while all the tasks it started with are still there
\* has returned each of them once, although others are created and expire between the pages.
ListingComplete ==
  \A l \in Listers :
    /\ lister[l].at = "done"
    /\ \A t \in lister[l].present : status[t] # "absent"
    => \A t \in lister[l].present : lister[l].seen[t] = 1

-----------------------------------------------------------------------------
(* Liveness.                                                               *)

Waiting(v) == waiter[v].at \in {"awake", "asleep"}

\* A tasks/result request is answered once its task has ended, whoever ended it and however the
\* wait and the notification interleave.
EndedTaskAnswersWaiters ==
  \A v \in Waiters :
    (Waiting(v) /\ waiter[v].task \in Tasks /\ status[waiter[v].task] \in Terminal)
      ~> (waiter[v].at = "done")

\* A tasks/result request for a task with a ttl is answered even if nobody completes the task
\* and another thread drops it while the waiter sleeps.
TtlEndsWait ==
  \A v \in Waiters :
    (Waiting(v) /\ waiter[v].task \in Tasks /\ expiresAt[waiter[v].task] # Never)
      ~> (waiter[v].at = "done")
=============================================================================
