--------------------------- MODULE TaskStoreProofs ---------------------------
(***************************************************************************)
(* Proofs about TaskStore, for any finite set of tasks, any contexts,      *)
(* workers, waiters and listers, any ttls, limit and page size.            *)
(***************************************************************************)
EXTENDS TaskStore, FiniteSetTheorems, TLAPS

-----------------------------------------------------------------------------
(* Type correctness.                                                       *)

WorkerRecords ==
  [ at : {"idle", "notify"}, task : Tasks \cup {NoTask}, status : Statuses \cup {"absent"} ]
WaiterRecords ==
  [ at : {"idle", "awake", "asleep", "done"}, task : Tasks \cup {NoTask},
    auth : Contexts, deadline : 0..Never, outcome : Outcomes ]
ListerRecords ==
  [ at : {"idle", "page", "done", "invalid"}, auth : Contexts,
    cursor : Nat, present : SUBSET Tasks, seen : [Tasks -> Nat] ]

\* Dropping the expired tasks only turns statuses into "absent".
LEMMA PurgedTypes ==
  ASSUME TypeOK
  PROVE  /\ Purged \in [Tasks -> Statuses \cup {"absent"}]
         /\ \A t \in Tasks : Purged[t] = status[t] \/ Purged[t] = "absent"
  BY DEF TypeOK, Purged

\* notify_all keeps the waiters well typed.
LEMMA NotifyTypes ==
  ASSUME TypeOK, NotifyAll
  PROVE  /\ waiter' \in [Waiters -> WaiterRecords]
         /\ \A v \in Waiters : waiter'[v].at # "idle" => waiter'[v].task \in Tasks
         /\ \A v \in Waiters : /\ waiter'[v].at = "done" <=> waiter[v].at = "done"
                               /\ waiter'[v].task = waiter[v].task
                               /\ waiter'[v].outcome = waiter[v].outcome
  <1> USE DEF TypeOK, NotifyAll, WaiterRecords
  <1>1. ASSUME NEW v \in Waiters
        PROVE  /\ waiter'[v] \in WaiterRecords
               /\ waiter'[v].at # "idle" => waiter'[v].task \in Tasks
               /\ waiter'[v].at = "done" <=> waiter[v].at = "done"
               /\ waiter'[v].task = waiter[v].task
               /\ waiter'[v].outcome = waiter[v].outcome
    <2>1. CASE waiter[v].at = "asleep"
      <3>1. waiter'[v] = [waiter[v] EXCEPT !.at = "awake"]
        BY <2>1
      <3>2. QED
        BY <2>1, <3>1
    <2>2. CASE waiter[v].at # "asleep"
      <3>1. waiter'[v] = waiter[v]
        BY <2>2
      <3>2. QED
        BY <2>2, <3>1
    <2>3. QED
      BY <2>1, <2>2
  <1>2. waiter' \in [Waiters -> WaiterRecords]
    BY <1>1
  <1>3. QED
    BY <1>1, <1>2

\* An accepted mutation keeps the types.
LEMMA ChangeTypes ==
  ASSUME TypeOK, NEW w \in Workers, NEW t \in Tasks, NEW s \in Statuses,
         NEW p \in {"none", "result", "error"}, Change(w, t, s, p)
  PROVE  TypeOK'
  <1>1. status' \in [Tasks -> Statuses \cup {"absent"}] /\ payload' \in [Tasks -> {"none", "result", "error"}]
    BY PurgedTypes DEF TypeOK, Change
  <1>2. /\ worker' \in [Workers -> WorkerRecords]
        /\ \A u \in Workers : worker'[u].at = "notify" => worker'[u].task \in Tasks
    BY DEF TypeOK, Change, WorkerRecords
  <1>3. /\ waiter' \in [Waiters -> WaiterRecords]
        /\ \A v \in Waiters : waiter'[v].at # "idle" => waiter'[v].task \in Tasks
    BY NotifyTypes DEF Change
  <1>4. QED
    BY <1>1, <1>2, <1>3 DEF TypeOK, Change, WorkerRecords, WaiterRecords

\* An answer keeps the waiters well typed.
LEMMA WaiterUpdate ==
  ASSUME TypeOK, NEW v \in Waiters, NEW new \in WaiterRecords, new.at # "idle" => new.task \in Tasks,
         waiter' = [waiter EXCEPT ![v] = new]
  PROVE  /\ waiter' \in [Waiters -> WaiterRecords]
         /\ \A u \in Waiters : waiter'[u].at # "idle" => waiter'[u].task \in Tasks
  BY DEF TypeOK, WaiterRecords

\* An empty store is well typed.
LEMMA InitTypeOK == Init => TypeOK
  <1> SUFFICES ASSUME Init PROVE TypeOK
    OBVIOUS
  <1> USE TaskStoreAssumption DEF Init
  <1>1. Never \in 0..Never /\ NoAuth \in Contexts
    BY DEF Never, Contexts
  <1>2. IdleWorker \in WorkerRecords /\ IdleWorker.at = "idle"
    BY DEF IdleWorker, WorkerRecords
  <1>3. IdleWaiter \in WaiterRecords /\ IdleWaiter.at = "idle"
    BY <1>1 DEF IdleWaiter, WaiterRecords, Outcomes
  <1>4. IdleLister \in ListerRecords
    BY <1>1 DEF IdleLister, ListerRecords
  <1> HIDE DEF Never
  <1>5. expiresAt \in [Tasks -> 0..Never] /\ owner \in [Tasks -> Contexts]
    BY <1>1
  <1>6. QED
    BY <1>1, <1>2, <1>3, <1>4, <1>5 DEF TypeOK, WorkerRecords, WaiterRecords, ListerRecords

\* Every operation keeps the types.
LEMMA NextTypeOK == TypeOK /\ [Next]_vars => TypeOK'
  <1> SUFFICES ASSUME TypeOK, [Next]_vars PROVE TypeOK'
    OBVIOUS
  <1> USE TaskStoreAssumption, PurgedTypes DEF TypeOK, store, OnlyPurges
  <1>1. ASSUME NEW a \in Contexts, NEW ttl \in Ttls \cup {NoTtl}, RefuseCreateTask(a, ttl) PROVE TypeOK'
    BY <1>1 DEF RefuseCreateTask
  <1>2. ASSUME NEW t \in Tasks, NEW a \in Contexts, NEW ttl \in Ttls \cup {NoTtl}, CreateTask(t, a, ttl) PROVE TypeOK'
    <2>1. expiresAt' \in [Tasks -> 0..Never]
      <3>1. ttl # NoTtl => ttl \in Int /\ ttl >= 0 /\ now + ttl <= MaxTime
        BY <1>2 DEF CreateTask, CreateRefused, AcceptableTtl
      <3>2. (IF ttl = NoTtl THEN Never ELSE now + ttl) \in 0..Never
        BY <3>1 DEF Never
      <3>3. QED
        BY <1>2, <3>2 DEF CreateTask
    <2>2. status' \in [Tasks -> Statuses \cup {"absent"}] /\ owner' \in [Tasks -> Contexts] /\ sequence' \in [Tasks -> Nat]
      BY <1>2 DEF CreateTask, Statuses, Active
    <2>3. QED
      BY <1>2, <2>1, <2>2 DEF CreateTask
  <1>3. ASSUME GetTask PROVE TypeOK'
    BY <1>3 DEF GetTask
  <1>4. ASSUME NEW w \in Workers, NEW t \in Tasks, NEW a \in Contexts, NEW s \in Statuses, UpdateTaskStatus(w, t, a, s) PROVE TypeOK'
    <2>1. payload[t] \in {"none", "result", "error"}
      OBVIOUS
    <2>2. Change(w, t, s, payload[t])
      BY <1>4 DEF UpdateTaskStatus
    <2> HIDE DEF TypeOK
    <2>3. QED
      BY <2>1, <2>2, ChangeTypes
  <1>5. ASSUME NEW w \in Workers, NEW t \in Tasks, NEW a \in Contexts, NEW s \in Statuses, SetTaskResult(w, t, a, s) PROVE TypeOK'
    <2>1. payload[t] \in {"none", "result", "error"}
      OBVIOUS
    <2>2. Change(w, t, s, "result")
      BY <1>5 DEF SetTaskResult
    <2> HIDE DEF TypeOK
    <2>3. QED
      BY <2>1, <2>2, ChangeTypes
  <1>6. ASSUME NEW w \in Workers, NEW t \in Tasks, NEW a \in Contexts, NEW s \in Statuses, SetTaskError(w, t, a, s) PROVE TypeOK'
    <2>1. payload[t] \in {"none", "result", "error"}
      OBVIOUS
    <2>2. Change(w, t, s, "error")
      BY <1>6 DEF SetTaskError
    <2> HIDE DEF TypeOK
    <2>3. QED
      BY <2>1, <2>2, ChangeTypes
  <1>7. ASSUME NEW w \in Workers, NotifyStatusObserver(w) PROVE TypeOK'
    <2>1. worker[w].task \in Tasks
      BY <1>7 DEF NotifyStatusObserver
    <2>2. announced' \in [Tasks -> Nat]
      BY <1>7, <2>1 DEF NotifyStatusObserver
    <2>3. QED
      BY <1>7, <2>2 DEF NotifyStatusObserver, IdleWorker
  <1>8. ASSUME NEW v \in Waiters, NEW t \in Tasks, NEW a \in Contexts, HandleTasksResult(v, t, a) PROVE TypeOK'
    <2> DEFINE new == [IdleWaiter EXCEPT !.at = "awake", !.task = t, !.auth = a]
    <2>1. new \in WaiterRecords /\ new.task = t
      <3>1. IdleWaiter \in WaiterRecords
        BY DEF WaiterRecords, IdleWaiter, Never, Outcomes, Contexts
      <3>2. QED
        BY <3>1 DEF WaiterRecords
    <2>2. waiter' = [waiter EXCEPT ![v] = new]
      BY <1>8 DEF HandleTasksResult
    <2>3. /\ waiter' \in [Waiters -> WaiterRecords]
          /\ \A u \in Waiters : waiter'[u].at # "idle" => waiter'[u].task \in Tasks
      BY <2>1, <2>2, WaiterUpdate
    <2>4. QED
      BY <1>8, <2>3 DEF HandleTasksResult, WaiterRecords
  <1>9. ASSUME NEW v \in Waiters, CheckTask(v) PROVE TypeOK'
    <2>1. waiter[v] \in WaiterRecords /\ waiter[v].task \in Tasks
      BY <1>9 DEF CheckTask, WaiterRecords
    <2>2. \E o \in Outcomes, d \in 0..Never :
             \/ waiter' = [waiter EXCEPT ![v] = [waiter[v] EXCEPT !.at = "done", !.outcome = o]]
             \/ waiter' = [waiter EXCEPT ![v] = [waiter[v] EXCEPT !.at = "asleep", !.deadline = d]]
      <3>1. expiresAt[waiter[v].task] \in 0..Never /\ StoredOutcome(waiter[v].task) \in Outcomes /\ "not_found" \in Outcomes
        BY <2>1 DEF StoredOutcome, Outcomes
      <3>2. \/ waiter' = [waiter EXCEPT ![v] = [waiter[v] EXCEPT !.at = "done", !.outcome = "not_found"]]
            \/ waiter' = [waiter EXCEPT ![v] = [waiter[v] EXCEPT !.at = "done", !.outcome = StoredOutcome(waiter[v].task)]]
            \/ waiter' = [waiter EXCEPT ![v] = [waiter[v] EXCEPT !.at = "asleep", !.deadline = expiresAt[waiter[v].task]]]
        BY <1>9 DEF CheckTask, Answer
      <3>3. QED
        BY <3>1, <3>2
    <2>3. /\ waiter' \in [Waiters -> WaiterRecords]
          /\ \A u \in Waiters : waiter'[u].at # "idle" => waiter'[u].task \in Tasks
      <3>1. PICK o \in Outcomes, d \in 0..Never :
               \/ waiter' = [waiter EXCEPT ![v] = [waiter[v] EXCEPT !.at = "done", !.outcome = o]]
               \/ waiter' = [waiter EXCEPT ![v] = [waiter[v] EXCEPT !.at = "asleep", !.deadline = d]]
        BY <2>2
      <3>2. /\ [waiter[v] EXCEPT !.at = "done", !.outcome = o] \in WaiterRecords
            /\ [waiter[v] EXCEPT !.at = "asleep", !.deadline = d] \in WaiterRecords
            /\ [waiter[v] EXCEPT !.at = "done", !.outcome = o].task \in Tasks
            /\ [waiter[v] EXCEPT !.at = "asleep", !.deadline = d].task \in Tasks
        BY <2>1 DEF WaiterRecords
      <3>3. QED
        BY <3>1, <3>2, WaiterUpdate
    <2>4. status' = Purged /\ UNCHANGED << payload, owner, expiresAt, sequence, nextSequence, now, worker, lister, announced >>
      BY <1>9 DEF CheckTask
    <2>5. QED
      BY <2>3, <2>4 DEF WaiterRecords
  <1>10. ASSUME NEW v \in Waiters, WaitTimesOut(v) PROVE TypeOK'
    <2> DEFINE new == [waiter[v] EXCEPT !.at = "awake"]
    <2>1. waiter[v] \in WaiterRecords /\ waiter[v].task \in Tasks
      BY <1>10 DEF WaitTimesOut, WaiterRecords
    <2>2. new \in WaiterRecords /\ new.task \in Tasks
      BY <2>1 DEF WaiterRecords
    <2>3. waiter' = [waiter EXCEPT ![v] = new]
      BY <1>10 DEF WaitTimesOut, Wake
    <2>4. /\ waiter' \in [Waiters -> WaiterRecords]
          /\ \A u \in Waiters : waiter'[u].at # "idle" => waiter'[u].task \in Tasks
      BY <2>2, <2>3, WaiterUpdate
    <2>5. QED
      BY <1>10, <2>4 DEF WaitTimesOut, Wake, WaiterRecords
  <1>11. ASSUME NEW v \in Waiters, SpuriousWakeup(v) PROVE TypeOK'
    <2> DEFINE new == [waiter[v] EXCEPT !.at = "awake"]
    <2>1. waiter[v] \in WaiterRecords /\ waiter[v].task \in Tasks
      BY <1>11 DEF SpuriousWakeup, WaiterRecords
    <2>2. new \in WaiterRecords /\ new.task \in Tasks
      BY <2>1 DEF WaiterRecords
    <2>3. waiter' = [waiter EXCEPT ![v] = new]
      BY <1>11 DEF SpuriousWakeup, Wake
    <2>4. /\ waiter' \in [Waiters -> WaiterRecords]
          /\ \A u \in Waiters : waiter'[u].at # "idle" => waiter'[u].task \in Tasks
      BY <2>2, <2>3, WaiterUpdate
    <2>5. QED
      BY <1>11, <2>4 DEF SpuriousWakeup, Wake, WaiterRecords
  <1>12. ASSUME NEW l \in Listers, NEW a \in Contexts, StartListing(l, a) PROVE TypeOK'
    <2>1. [IdleLister EXCEPT !.at = "page", !.auth = a, !.present = Visible(a)] \in ListerRecords
      BY DEF IdleLister, ListerRecords, Visible
    <2>2. lister' \in [Listers -> ListerRecords]
      BY <1>12, <2>1 DEF StartListing, ListerRecords
    <2>3. QED
      BY <1>12, <2>2 DEF StartListing, ListerRecords
  <1>13. ASSUME NEW l \in Listers, HandleTasksList(l) PROVE TypeOK'
    <2> DEFINE me == lister[l]
               end == EndIndex(me.cursor, me.auth)
               total == Cardinality(Visible(me.auth))
               page == Page(me.cursor, me.auth)
               more == [t \in Tasks |-> IF t \in page THEN me.seen[t] + 1 ELSE me.seen[t]]
    <2>1. me \in ListerRecords
      BY DEF ListerRecords
    <2>2. total \in Nat
      BY FS_Subset, FS_CardinalityType DEF Visible
    <2>3. end \in Nat
      BY <2>1, <2>2 DEF EndIndex, ListerRecords
    <2>4. more \in [Tasks -> Nat]
      BY <2>1 DEF ListerRecords
    <2>5. lister' = [lister EXCEPT ![l] =
             IF PageSize = 0 \/ me.cursor > total
             THEN [me EXCEPT !.at = "invalid"]
             ELSE [me EXCEPT !.at = IF end < total THEN "page" ELSE "done", !.cursor = end, !.seen = more]]
      BY <1>13 DEF HandleTasksList
    <2> HIDE DEF me, end, total, page, more
    <2>6. [me EXCEPT !.at = "invalid"] \in ListerRecords
          /\ [me EXCEPT !.at = IF end < total THEN "page" ELSE "done", !.cursor = end, !.seen = more] \in ListerRecords
      BY <2>1, <2>3, <2>4 DEF ListerRecords
    <2>7. lister' \in [Listers -> ListerRecords]
      BY <2>5, <2>6 DEF ListerRecords
    <2>8. QED
      BY <1>13, <2>7 DEF HandleTasksList, ListerRecords
  <1>14. ASSUME Tick PROVE TypeOK'
    BY <1>14 DEF Tick
  <1>15. CASE UNCHANGED vars
    BY <1>15 DEF vars
  <1>16. QED
    BY <1>1, <1>2, <1>3, <1>4, <1>5, <1>6, <1>7, <1>8, <1>9, <1>10, <1>11, <1>12, <1>13, <1>14, <1>15
       DEF Next, RequestStep, WorkerStep, WaiterStep, ListerStep

\* Type correctness of the task store.
THEOREM TypeCorrect == Spec => []TypeOK
  <1>1. QED
    BY InitTypeOK, NextTypeOK, PTL DEF Spec

-----------------------------------------------------------------------------
(* What the operations do to the tasks.                                    *)

\* An id that was never drawn has no task.
FreshInv == \A t \in Tasks : sequence[t] = 0 => status[t] = "absent"

Drops == /\ \A t \in Tasks : status'[t] = status[t] \/ status'[t] = "absent"
         /\ UNCHANGED << payload, owner, sequence, nextSequence >>

Mutation(w, t, s) ==
  /\ worker[w].at = "idle"
  /\ status[t] \in Active
  /\ \E p \in {"none", "result", "error"} : Change(w, t, s, p)

\* Every step drops tasks, creates one under a fresh id, or changes one that is active.
LEMMA StoreSteps ==
  ASSUME TypeOK, [Next]_vars
  PROVE  \/ Drops
         \/ \E t \in Tasks, a \in Contexts, ttl \in Ttls \cup {NoTtl} : CreateTask(t, a, ttl)
         \/ \E w \in Workers, t \in Tasks, s \in Statuses : Mutation(w, t, s)
  <1> DEFINE Goal == \/ Drops
                     \/ \E t \in Tasks, a \in Contexts, ttl \in Ttls \cup {NoTtl} : CreateTask(t, a, ttl)
                     \/ \E w \in Workers, t \in Tasks, s \in Statuses : Mutation(w, t, s)
  <1> SUFFICES Goal
    OBVIOUS
  <1>0. ASSUME status' = Purged \/ UNCHANGED status, UNCHANGED << payload, owner, sequence, nextSequence >> PROVE Goal
    BY <1>0, PurgedTypes DEF Drops
  <1> USE <1>0 DEF store, OnlyPurges
  <1>1. ASSUME NEW a \in Contexts, NEW ttl \in Ttls \cup {NoTtl}, RefuseCreateTask(a, ttl) PROVE Goal
    BY <1>1 DEF RefuseCreateTask
  <1>2. ASSUME NEW t \in Tasks, NEW a \in Contexts, NEW ttl \in Ttls \cup {NoTtl}, CreateTask(t, a, ttl) PROVE Goal
    BY <1>2
  <1>3. ASSUME GetTask PROVE Goal
    BY <1>3 DEF GetTask
  <1>4. ASSUME NEW w \in Workers, NEW t \in Tasks, NEW a \in Contexts, NEW s \in Statuses, UpdateTaskStatus(w, t, a, s) PROVE Goal
    <2>1. status[t] \in Active
      BY <1>4, PurgedTypes DEF UpdateTaskStatus, Mutable, Terminal, Active, Statuses, TypeOK
    <2>2. payload[t] \in {"none", "result", "error"}
      BY DEF TypeOK
    <2>3. Mutation(w, t, s)
      BY <1>4, <2>1, <2>2 DEF UpdateTaskStatus, Mutation
    <2>4. QED
      BY <2>3
  <1>5. ASSUME NEW w \in Workers, NEW t \in Tasks, NEW a \in Contexts, NEW s \in Statuses, SetTaskResult(w, t, a, s) PROVE Goal
    <2>1. status[t] \in Active
      BY <1>5, PurgedTypes DEF SetTaskResult, Mutable, Terminal, Active, Statuses, TypeOK
    <2>2. payload[t] \in {"none", "result", "error"}
      BY DEF TypeOK
    <2>3. Mutation(w, t, s)
      BY <1>5, <2>1, <2>2 DEF SetTaskResult, Mutation
    <2>4. QED
      BY <2>3
  <1>6. ASSUME NEW w \in Workers, NEW t \in Tasks, NEW a \in Contexts, NEW s \in Statuses, SetTaskError(w, t, a, s) PROVE Goal
    <2>1. status[t] \in Active
      BY <1>6, PurgedTypes DEF SetTaskError, Mutable, Terminal, Active, Statuses, TypeOK
    <2>2. payload[t] \in {"none", "result", "error"}
      BY DEF TypeOK
    <2>3. Mutation(w, t, s)
      BY <1>6, <2>1, <2>2 DEF SetTaskError, Mutation
    <2>4. QED
      BY <2>3
  <1>7. ASSUME NEW w \in Workers, NotifyStatusObserver(w) PROVE Goal
    BY <1>7 DEF NotifyStatusObserver
  <1>8. ASSUME NEW v \in Waiters, NEW t \in Tasks, NEW a \in Contexts, HandleTasksResult(v, t, a) PROVE Goal
    BY <1>8 DEF HandleTasksResult
  <1>9. ASSUME NEW v \in Waiters, CheckTask(v) PROVE Goal
    BY <1>9 DEF CheckTask
  <1>10. ASSUME NEW v \in Waiters, WaitTimesOut(v) PROVE Goal
    BY <1>10 DEF WaitTimesOut, Wake
  <1>11. ASSUME NEW v \in Waiters, SpuriousWakeup(v) PROVE Goal
    BY <1>11 DEF SpuriousWakeup, Wake
  <1>12. ASSUME NEW l \in Listers, NEW a \in Contexts, StartListing(l, a) PROVE Goal
    BY <1>12 DEF StartListing
  <1>13. ASSUME NEW l \in Listers, HandleTasksList(l) PROVE Goal
    BY <1>13 DEF HandleTasksList
  <1>14. ASSUME Tick PROVE Goal
    BY <1>14 DEF Tick
  <1>15. CASE UNCHANGED vars
    BY <1>15 DEF vars
  <1> HIDE DEF Goal
  <1>16. QED
    BY <1>1, <1>2, <1>3, <1>4, <1>5, <1>6, <1>7, <1>8, <1>9, <1>10, <1>11, <1>12, <1>13, <1>14, <1>15
       DEF Next, RequestStep, WorkerStep, WaiterStep, ListerStep

-----------------------------------------------------------------------------
(* The properties.                                                         *)

\* An id that was never drawn has no task, after every step.
LEMMA FreshIdsHaveNoTask == Spec => []FreshInv
  <1>1. Init => FreshInv
    BY DEF Init, FreshInv
  <1>2. TypeOK /\ FreshInv /\ [Next]_vars => FreshInv'
    <2> SUFFICES ASSUME TypeOK, FreshInv, [Next]_vars PROVE FreshInv'
      OBVIOUS
    <2>1. CASE Drops
      BY <2>1 DEF Drops, FreshInv
    <2>2. ASSUME NEW t \in Tasks, NEW a \in Contexts, NEW ttl \in Ttls \cup {NoTtl}, CreateTask(t, a, ttl) PROVE FreshInv'
      BY <2>2, PurgedTypes DEF CreateTask, FreshInv, TypeOK
    <2>3. ASSUME NEW w \in Workers, NEW t \in Tasks, NEW s \in Statuses, Mutation(w, t, s) PROVE FreshInv'
      BY <2>3, PurgedTypes DEF Mutation, Change, FreshInv, TypeOK, Active
    <2>4. QED
      BY <2>1, <2>2, <2>3, StoreSteps
  <1>3. QED
    BY TypeCorrect, <1>1, <1>2, PTL DEF Spec

\* A terminal task keeps its status and its payload until it is dropped, for any number of
\* workers that complete, cancel and update it at the same time.
THEOREM TerminalTasksAreFinal == Spec => TerminalIsFinal
  <1>1. TypeOK /\ FreshInv /\ [Next]_vars =>
          [\A t \in Tasks : status[t] \in Terminal =>
             \/ status'[t] = "absent"
             \/ status'[t] = status[t] /\ payload'[t] = payload[t]]_vars
    <2> SUFFICES ASSUME TypeOK, FreshInv, [Next]_vars, NEW t \in Tasks, status[t] \in Terminal
                 PROVE  status'[t] = "absent" \/ (status'[t] = status[t] /\ payload'[t] = payload[t])
      OBVIOUS
    <2>1. CASE Drops
      BY <2>1 DEF Drops
    <2>2. ASSUME NEW u \in Tasks, NEW a \in Contexts, NEW ttl \in Ttls \cup {NoTtl}, CreateTask(u, a, ttl)
          PROVE  status'[t] = "absent" \/ (status'[t] = status[t] /\ payload'[t] = payload[t])
      <3>1. u # t
        BY <2>2 DEF CreateTask, FreshIds, FreshInv, Terminal
      <3>2. QED
        BY <2>2, <3>1, PurgedTypes DEF CreateTask
    <2>3. ASSUME NEW w \in Workers, NEW u \in Tasks, NEW s \in Statuses, Mutation(w, u, s)
          PROVE  status'[t] = "absent" \/ (status'[t] = status[t] /\ payload'[t] = payload[t])
      <3>1. u # t
        BY <2>3 DEF Mutation, Terminal, Active
      <3>2. QED
        BY <2>3, <3>1, PurgedTypes DEF Mutation, Change, TypeOK
    <2>4. QED
      BY <2>1, <2>2, <2>3, StoreSteps
  <1>2. QED
    BY TypeCorrect, FreshIdsHaveNoTask, <1>1, PTL DEF Spec, TerminalIsFinal

\* Fewer active tasks of each context, or one more where the test found a place.
LEMMA ActiveStep ==
  ASSUME TypeOK, FreshInv, ActiveWithinLimit, [Next]_vars
  PROVE  ActiveWithinLimit'
  <1> SUFFICES ASSUME NEW b \in Contexts PROVE Cardinality(ActiveTasks(status, b))' <= MaxActive
    BY DEF ActiveWithinLimit
  <1> DEFINE S == ActiveTasks(status, b)
             P == ActiveTasks(Purged, b)
  <1>1. IsFiniteSet(S) /\ Cardinality(S) \in Nat /\ Cardinality(S) <= MaxActive
    BY TaskStoreAssumption, FS_Subset, FS_CardinalityType DEF ActiveTasks, ActiveWithinLimit
  <1>2. P \subseteq S
    BY PurgedTypes DEF ActiveTasks, Active
  <1>3. IsFiniteSet(P) /\ Cardinality(P) \in Nat
    BY <1>1, <1>2, FS_Subset, FS_CardinalityType
  <1>4. ASSUME S' \subseteq S PROVE Cardinality(S') <= MaxActive
    <2>1. IsFiniteSet(S') /\ Cardinality(S') <= Cardinality(S)
      BY <1>1, <1>4, FS_Subset
    <2>2. Cardinality(S') \in Nat
      BY <2>1, FS_CardinalityType
    <2>3. QED
      BY <1>1, <2>1, <2>2, TaskStoreAssumption
  <1>5. CASE Drops
    <2>1. S' \subseteq S
      BY <1>5 DEF Drops, ActiveTasks, Active
    <2>2. QED
      BY <1>4, <2>1
  <1>6. ASSUME NEW t \in Tasks, NEW a \in Contexts, NEW ttl \in Ttls \cup {NoTtl}, CreateTask(t, a, ttl)
        PROVE  Cardinality(S') <= MaxActive
    <2>1. CASE a # b
      <3>1. S' \subseteq S
        BY <1>6, <2>1, PurgedTypes DEF CreateTask, ActiveTasks, Active, TypeOK
      <3>2. QED
        BY <1>4, <3>1
    <2>2. CASE a = b
      <3>1. ~(Cardinality(P) >= MaxActive)
        BY <1>6, <2>2 DEF CreateTask, CreateRefused
      <3>2. S' \subseteq P \cup {t}
        BY <1>6, <2>2, PurgedTypes DEF CreateTask, ActiveTasks, TypeOK
      <3> HIDE DEF S, P
      <3>3. IsFiniteSet(P \cup {t}) /\ Cardinality(P \cup {t}) = IF t \in P THEN Cardinality(P) ELSE Cardinality(P) + 1
        BY <1>3, FS_AddElement
      <3>4. IsFiniteSet(S') /\ Cardinality(S') <= Cardinality(P \cup {t})
        BY <3>2, <3>3, FS_Subset
      <3>5. Cardinality(S') \in Nat
        BY <3>4, FS_CardinalityType
      <3>6. QED
        BY <1>3, <3>1, <3>3, <3>4, <3>5, TaskStoreAssumption
    <2>3. QED
      BY <2>1, <2>2
  <1>7. ASSUME NEW w \in Workers, NEW t \in Tasks, NEW s \in Statuses, Mutation(w, t, s)
        PROVE  Cardinality(S') <= MaxActive
    <2>1. S' \subseteq S
      BY <1>7, PurgedTypes DEF Mutation, Change, ActiveTasks, Active, TypeOK
    <2>2. QED
      BY <1>4, <2>1
  <1>8. QED
    BY <1>5, <1>6, <1>7, StoreSteps

\* options.maxActiveTasksPerAuthContext bounds the active tasks of each authorization context, for
\* any limit, any number of creators and however tasks end and expire in between.
THEOREM ActiveStaysWithinLimit == Spec => []ActiveWithinLimit
  <1>1. Init => ActiveWithinLimit
    <2> SUFFICES ASSUME Init, NEW a \in Contexts PROVE Cardinality(ActiveTasks(status, a)) <= MaxActive
      BY DEF ActiveWithinLimit
    <2>1. ActiveTasks(status, a) = {}
      BY DEF Init, ActiveTasks, Active
    <2>2. QED
      BY <2>1, FS_EmptySet, TaskStoreAssumption
  <1>2. QED
    BY TypeCorrect, FreshIdsHaveNoTask, ActiveStep, <1>1, PTL DEF Spec

-----------------------------------------------------------------------------
(* The end of a task is announced once.                                    *)

Ended(t) == sequence[t] # 0 /\ status[t] \notin Active
Announcing(w) == worker[w].at = "notify" /\ worker[w].status \in Terminal

\* Either nobody has announced the end of a task, or one worker is about to, or it was done: the
\* worker that made it terminal is the only one that may.
EndInv ==
  /\ EndAnnouncedOnce
  /\ \A t \in Tasks : announced[t] > 0 => Ended(t)
  /\ \A w \in Workers : Announcing(w) => Ended(worker[w].task) /\ announced[worker[w].task] = 0
  /\ \A w, x \in Workers :
       Announcing(w) /\ Announcing(x) /\ worker[w].task = worker[x].task => w = x

\* A task that has ended stays ended.
LEMMA EndedIsStable ==
  ASSUME TypeOK, FreshInv, [Next]_vars, NEW t \in Tasks, Ended(t)
  PROVE  Ended(t)'
  <1>1. CASE Drops
    BY <1>1 DEF Drops, Ended, Active
  <1>2. ASSUME NEW u \in Tasks, NEW a \in Contexts, NEW ttl \in Ttls \cup {NoTtl}, CreateTask(u, a, ttl) PROVE Ended(t)'
    BY <1>2, PurgedTypes DEF CreateTask, FreshIds, Ended, Active, TypeOK
  <1>3. ASSUME NEW w \in Workers, NEW u \in Tasks, NEW s \in Statuses, Mutation(w, u, s) PROVE Ended(t)'
    BY <1>3, PurgedTypes DEF Mutation, Change, Ended, Active, TypeOK
  <1>4. QED
    BY <1>1, <1>2, <1>3, StoreSteps

\* Who may change what a worker reports, and what was announced.
LEMMA WorkerSteps ==
  ASSUME TypeOK, [Next]_vars
  PROVE  \/ UNCHANGED << worker, announced >>
         \/ \E w \in Workers, t \in Tasks, s \in Statuses : Mutation(w, t, s)
         \/ \E w \in Workers : NotifyStatusObserver(w)
  <1> DEFINE Goal == \/ UNCHANGED << worker, announced >>
                     \/ \E w \in Workers, t \in Tasks, s \in Statuses : Mutation(w, t, s)
                     \/ \E w \in Workers : NotifyStatusObserver(w)
  <1> SUFFICES Goal
    OBVIOUS
  <1> USE DEF store, OnlyPurges, Wake
  <1>1. ASSUME NEW a \in Contexts, NEW ttl \in Ttls \cup {NoTtl}, RefuseCreateTask(a, ttl) PROVE Goal
    BY <1>1 DEF RefuseCreateTask
  <1>2. ASSUME NEW t \in Tasks, NEW a \in Contexts, NEW ttl \in Ttls \cup {NoTtl}, CreateTask(t, a, ttl) PROVE Goal
    BY <1>2 DEF CreateTask
  <1>3. ASSUME GetTask PROVE Goal
    BY <1>3 DEF GetTask
  <1>4. ASSUME NEW w \in Workers, NEW t \in Tasks, NEW a \in Contexts, NEW s \in Statuses, UpdateTaskStatus(w, t, a, s) PROVE Goal
    <2>1. status[t] \in Active
      BY <1>4, PurgedTypes DEF UpdateTaskStatus, Mutable, Terminal, Active, Statuses, TypeOK
    <2>2. payload[t] \in {"none", "result", "error"}
      BY DEF TypeOK
    <2>3. Mutation(w, t, s)
      BY <1>4, <2>1, <2>2 DEF UpdateTaskStatus, Mutation
    <2>4. QED
      BY <2>3
  <1>5. ASSUME NEW w \in Workers, NEW t \in Tasks, NEW a \in Contexts, NEW s \in Statuses, SetTaskResult(w, t, a, s) PROVE Goal
    <2>1. status[t] \in Active
      BY <1>5, PurgedTypes DEF SetTaskResult, Mutable, Terminal, Active, Statuses, TypeOK
    <2>2. payload[t] \in {"none", "result", "error"}
      BY DEF TypeOK
    <2>3. Mutation(w, t, s)
      BY <1>5, <2>1, <2>2 DEF SetTaskResult, Mutation
    <2>4. QED
      BY <2>3
  <1>6. ASSUME NEW w \in Workers, NEW t \in Tasks, NEW a \in Contexts, NEW s \in Statuses, SetTaskError(w, t, a, s) PROVE Goal
    <2>1. status[t] \in Active
      BY <1>6, PurgedTypes DEF SetTaskError, Mutable, Terminal, Active, Statuses, TypeOK
    <2>2. payload[t] \in {"none", "result", "error"}
      BY DEF TypeOK
    <2>3. Mutation(w, t, s)
      BY <1>6, <2>1, <2>2 DEF SetTaskError, Mutation
    <2>4. QED
      BY <2>3
  <1>7. ASSUME NEW w \in Workers, NotifyStatusObserver(w) PROVE Goal
    BY <1>7
  <1>8. ASSUME NEW v \in Waiters, NEW t \in Tasks, NEW a \in Contexts, HandleTasksResult(v, t, a) PROVE Goal
    BY <1>8 DEF HandleTasksResult
  <1>9. ASSUME NEW v \in Waiters, CheckTask(v) PROVE Goal
    BY <1>9 DEF CheckTask
  <1>10. ASSUME NEW v \in Waiters, WaitTimesOut(v) PROVE Goal
    BY <1>10 DEF WaitTimesOut
  <1>11. ASSUME NEW v \in Waiters, SpuriousWakeup(v) PROVE Goal
    BY <1>11 DEF SpuriousWakeup
  <1>12. ASSUME NEW l \in Listers, NEW a \in Contexts, StartListing(l, a) PROVE Goal
    BY <1>12 DEF StartListing
  <1>13. ASSUME NEW l \in Listers, HandleTasksList(l) PROVE Goal
    BY <1>13 DEF HandleTasksList
  <1>14. ASSUME Tick PROVE Goal
    BY <1>14 DEF Tick
  <1>15. CASE UNCHANGED vars
    BY <1>15 DEF vars
  <1> HIDE DEF Goal
  <1>16. QED
    BY <1>1, <1>2, <1>3, <1>4, <1>5, <1>6, <1>7, <1>8, <1>9, <1>10, <1>11, <1>12, <1>13, <1>14, <1>15
       DEF Next, RequestStep, WorkerStep, WaiterStep, ListerStep

\* The end of a task is announced once, after every step.
LEMMA NextEndInv == TypeOK /\ FreshInv /\ EndInv /\ [Next]_vars => EndInv'
  <1> SUFFICES ASSUME TypeOK, FreshInv, EndInv, [Next]_vars PROVE EndInv'
    OBVIOUS
  <1>0. \A t \in Tasks : Ended(t) => Ended(t)'
    BY EndedIsStable
  <1>t. /\ announced \in [Tasks -> Nat]
        /\ \A w \in Workers : worker[w].at = "notify" => worker[w].task \in Tasks
        /\ worker \in [Workers -> WorkerRecords]
    BY DEF TypeOK, WorkerRecords
  <1>1. CASE UNCHANGED << worker, announced >>
    BY <1>0, <1>t, <1>1 DEF EndInv, EndAnnouncedOnce, Announcing
  <1>2. ASSUME NEW w \in Workers, NEW t \in Tasks, NEW s \in Statuses, Mutation(w, t, s) PROVE EndInv'
    <2>1. /\ worker' = [worker EXCEPT ![w] = [at |-> "notify", task |-> t, status |-> s]]
          /\ announced' = announced /\ sequence' = sequence
          /\ status' = [Purged EXCEPT ![t] = s]
      BY <1>2 DEF Mutation, Change
    <2>2. ~Ended(t) /\ announced[t] = 0
      BY <1>2, <1>t DEF Mutation, Ended, EndInv
    <2>3. sequence[t] # 0
      BY <1>2 DEF Mutation, FreshInv, Active
    <2>4. s \in Terminal => Ended(t)'
      BY <2>1, <2>3, PurgedTypes DEF Ended, Active, Terminal
    <2>5. \A x \in Workers : Announcing(x) => worker[x].task # t
      BY <2>2 DEF EndInv
    <2>6. /\ worker'[w] = [at |-> "notify", task |-> t, status |-> s]
          /\ \A x \in Workers : x # w => worker'[x] = worker[x]
      BY <1>t, <2>1
    <2>7. EndAnnouncedOnce' /\ \A u \in Tasks : announced'[u] > 0 => Ended(u)'
      BY <1>0, <2>1 DEF EndInv, EndAnnouncedOnce
    <2>8. \A x \in Workers : Announcing(x)' => (Ended(worker[x].task) /\ announced[worker[x].task] = 0)'
      <3> SUFFICES ASSUME NEW x \in Workers, Announcing(x)' PROVE (Ended(worker[x].task) /\ announced[worker[x].task] = 0)'
        OBVIOUS
      <3>1. CASE x = w
        BY <2>1, <2>2, <2>4, <2>6, <3>1 DEF Announcing
      <3>2. CASE x # w
        <4>1. worker'[x] = worker[x] /\ Announcing(x) /\ worker[x].task \in Tasks
          BY <1>t, <2>6, <3>2 DEF Announcing
        <4>2. Ended(worker[x].task) /\ announced[worker[x].task] = 0
          BY <4>1 DEF EndInv
        <4>3. QED
          BY <1>0, <2>1, <4>1, <4>2 DEF Ended
      <3>3. QED
        BY <3>1, <3>2
    <2>9. \A x, y \in Workers : Announcing(x)' /\ Announcing(y)' /\ worker'[x].task = worker'[y].task => x = y
      BY <1>t, <2>5, <2>6 DEF EndInv, Announcing
    <2>10. QED
      BY <2>7, <2>8, <2>9 DEF EndInv
  <1>3. ASSUME NEW w \in Workers, NotifyStatusObserver(w) PROVE EndInv'
    <2> DEFINE t == worker[w].task
    <2>1. t \in Tasks /\ worker[w].at = "notify"
      BY <1>3, <1>t DEF NotifyStatusObserver
    <2>2. /\ worker'[w].at = "idle"
          /\ \A x \in Workers : x # w => worker'[x] = worker[x]
      BY <1>3, <1>t DEF NotifyStatusObserver, IdleWorker
    <2>3. CASE worker[w].status \notin Terminal
      <3>1. announced' = announced
        BY <1>3, <2>3 DEF NotifyStatusObserver
      <3>2. QED
        BY <1>0, <1>t, <2>2, <3>1 DEF EndInv, EndAnnouncedOnce, Announcing
    <2>4. CASE worker[w].status \in Terminal
      <3>1. Announcing(w) /\ Ended(t) /\ announced[t] = 0
        BY <2>1, <2>4 DEF Announcing, EndInv
      <3>2. announced'[t] = 1 /\ \A u \in Tasks : u # t => announced'[u] = announced[u]
        BY <1>3, <1>t, <2>1, <2>4, <3>1 DEF NotifyStatusObserver
      <3>3. \A x \in Workers : x # w /\ Announcing(x) => worker[x].task # t
        BY <3>1 DEF EndInv
      <3>4. EndAnnouncedOnce' /\ \A u \in Tasks : announced'[u] > 0 => Ended(u)'
        BY <1>0, <1>t, <3>1, <3>2 DEF EndInv, EndAnnouncedOnce
      <3>5. \A x \in Workers : Announcing(x)' => x # w /\ Announcing(x) /\ worker'[x] = worker[x]
        BY <2>2 DEF Announcing
      <3>6. \A x \in Workers : Announcing(x)' => (Ended(worker[x].task) /\ announced[worker[x].task] = 0)'
        <4> SUFFICES ASSUME NEW x \in Workers, Announcing(x)' PROVE (Ended(worker[x].task) /\ announced[worker[x].task] = 0)'
          OBVIOUS
        <4>1. worker'[x] = worker[x] /\ Announcing(x) /\ x # w /\ worker[x].task \in Tasks
          BY <1>t, <3>5 DEF Announcing
        <4>2. Ended(worker[x].task) /\ announced[worker[x].task] = 0 /\ worker[x].task # t
          BY <3>3, <4>1 DEF EndInv
        <4>3. Ended(worker[x].task)'
          BY <1>0, <4>1, <4>2
        <4>4. QED
          BY <3>2, <4>1, <4>2, <4>3 DEF Ended
      <3>7. \A x, y \in Workers : Announcing(x)' /\ Announcing(y)' /\ worker'[x].task = worker'[y].task => x = y
        BY <3>5 DEF EndInv
      <3>8. QED
        BY <3>4, <3>6, <3>7 DEF EndInv
    <2>5. QED
      BY <2>3, <2>4
  <1>4. QED
    BY <1>1, <1>2, <1>3, WorkerSteps

\* The status observer is told once that a task ended, for any number of workers.
THEOREM EndIsAnnouncedOnce == Spec => []EndAnnouncedOnce
  <1>1. Init => EndInv
    BY DEF Init, EndInv, EndAnnouncedOnce, Announcing, IdleWorker
  <1>2. EndInv => EndAnnouncedOnce
    BY DEF EndInv
  <1>3. QED
    BY TypeCorrect, FreshIdsHaveNoTask, NextEndInv, <1>1, <1>2, PTL DEF Spec

-----------------------------------------------------------------------------
(* tasks/result answers with the outcome the task ended with.              *)

ResultInv ==
  \A v \in Waiters :
    waiter[v].at = "done" /\ waiter[v].outcome # "not_found" =>
      LET t == waiter[v].task IN
      /\ sequence[t] # 0
      /\ \/ status[t] = "absent"
         \/ status[t] \in Terminal /\ waiter[v].outcome = StoredOutcome(t)

\* A waiter is answered in CheckTask only.
LEMMA WaiterSteps ==
  ASSUME TypeOK, [Next]_vars
  PROVE  \/ \A v \in Waiters : waiter'[v].at = "done" => waiter'[v] = waiter[v]
         \/ \E v \in Waiters : CheckTask(v)
  <1> DEFINE Goal == \/ \A v \in Waiters : waiter'[v].at = "done" => waiter'[v] = waiter[v]
                     \/ \E v \in Waiters : CheckTask(v)
  <1> SUFFICES Goal
    OBVIOUS
  <1> USE DEF store, OnlyPurges, Wake
  <1>1. ASSUME NEW a \in Contexts, NEW ttl \in Ttls \cup {NoTtl}, RefuseCreateTask(a, ttl) PROVE Goal
    BY <1>1 DEF RefuseCreateTask
  <1>2. ASSUME NEW t \in Tasks, NEW a \in Contexts, NEW ttl \in Ttls \cup {NoTtl}, CreateTask(t, a, ttl) PROVE Goal
    BY <1>2 DEF CreateTask
  <1>3. ASSUME GetTask PROVE Goal
    BY <1>3 DEF GetTask
  <1>4. ASSUME NEW w \in Workers, NEW t \in Tasks, NEW a \in Contexts, NEW s \in Statuses, UpdateTaskStatus(w, t, a, s) PROVE Goal
    <2>1. Change(w, t, s, payload[t])
      BY <1>4 DEF UpdateTaskStatus
    <2>2. \A v \in Waiters : waiter'[v].at = "done" => waiter'[v] = waiter[v]
      BY <2>1 DEF Change, NotifyAll, TypeOK
    <2>3. QED
      BY <2>2
  <1>5. ASSUME NEW w \in Workers, NEW t \in Tasks, NEW a \in Contexts, NEW s \in Statuses, SetTaskResult(w, t, a, s) PROVE Goal
    <2>1. Change(w, t, s, "result")
      BY <1>5 DEF SetTaskResult
    <2>2. \A v \in Waiters : waiter'[v].at = "done" => waiter'[v] = waiter[v]
      BY <2>1 DEF Change, NotifyAll, TypeOK
    <2>3. QED
      BY <2>2
  <1>6. ASSUME NEW w \in Workers, NEW t \in Tasks, NEW a \in Contexts, NEW s \in Statuses, SetTaskError(w, t, a, s) PROVE Goal
    <2>1. Change(w, t, s, "error")
      BY <1>6 DEF SetTaskError
    <2>2. \A v \in Waiters : waiter'[v].at = "done" => waiter'[v] = waiter[v]
      BY <2>1 DEF Change, NotifyAll, TypeOK
    <2>3. QED
      BY <2>2
  <1>7. ASSUME NEW w \in Workers, NotifyStatusObserver(w) PROVE Goal
    BY <1>7 DEF NotifyStatusObserver
  <1>8. ASSUME NEW v \in Waiters, NEW t \in Tasks, NEW a \in Contexts, HandleTasksResult(v, t, a) PROVE Goal
    <2>1. \A u \in Waiters : waiter'[u].at = "done" => waiter'[u] = waiter[u]
      BY <1>8 DEF HandleTasksResult, IdleWaiter, TypeOK
    <2>2. QED
      BY <2>1
  <1>9. ASSUME NEW v \in Waiters, CheckTask(v) PROVE Goal
    BY <1>9
  <1>10. ASSUME NEW v \in Waiters, WaitTimesOut(v) PROVE Goal
    <2>1. \A u \in Waiters : waiter'[u].at = "done" => waiter'[u] = waiter[u]
      BY <1>10 DEF WaitTimesOut, IdleWaiter, TypeOK
    <2>2. QED
      BY <2>1
  <1>11. ASSUME NEW v \in Waiters, SpuriousWakeup(v) PROVE Goal
    <2>1. \A u \in Waiters : waiter'[u].at = "done" => waiter'[u] = waiter[u]
      BY <1>11 DEF SpuriousWakeup, IdleWaiter, TypeOK
    <2>2. QED
      BY <2>1
  <1>12. ASSUME NEW l \in Listers, NEW a \in Contexts, StartListing(l, a) PROVE Goal
    BY <1>12 DEF StartListing
  <1>13. ASSUME NEW l \in Listers, HandleTasksList(l) PROVE Goal
    BY <1>13 DEF HandleTasksList
  <1>14. ASSUME Tick PROVE Goal
    BY <1>14 DEF Tick
  <1>15. CASE UNCHANGED vars
    BY <1>15 DEF vars
  <1> HIDE DEF Goal
  <1>16. QED
    BY <1>1, <1>2, <1>3, <1>4, <1>5, <1>6, <1>7, <1>8, <1>9, <1>10, <1>11, <1>12, <1>13, <1>14, <1>15
       DEF Next, RequestStep, WorkerStep, WaiterStep, ListerStep

\* An outcome that is final stays what the waiter was given.
LEMMA FinalOutcome ==
  ASSUME TypeOK, FreshInv, [Next]_vars, NEW t \in Tasks, NEW o,
         sequence[t] # 0, status[t] = "absent" \/ (status[t] \in Terminal /\ o = StoredOutcome(t))
  PROVE  sequence'[t] # 0 /\ (status'[t] = "absent" \/ (status'[t] \in Terminal /\ o = StoredOutcome(t)'))
  <1> DEFINE Goal == sequence'[t] # 0 /\ (status'[t] = "absent" \/ (status'[t] \in Terminal /\ o = StoredOutcome(t)'))
  <1> SUFFICES Goal
    OBVIOUS
  <1>1. CASE Drops
    BY <1>1 DEF Drops, StoredOutcome
  <1>2. ASSUME NEW u \in Tasks, NEW a \in Contexts, NEW ttl \in Ttls \cup {NoTtl}, CreateTask(u, a, ttl) PROVE Goal
    <2>1. u # t
      BY <1>2 DEF CreateTask, FreshIds
    <2>2. status'[t] = Purged[t] /\ sequence'[t] = sequence[t] /\ payload' = payload
      BY <1>2, <2>1, PurgedTypes DEF CreateTask, TypeOK
    <2>3. QED
      BY <2>2, PurgedTypes DEF StoredOutcome
  <1>3. ASSUME NEW w \in Workers, NEW u \in Tasks, NEW s \in Statuses, Mutation(w, u, s) PROVE Goal
    <2>1. u # t
      BY <1>3 DEF Mutation, Active, Terminal
    <2>2. status'[t] = Purged[t] /\ sequence' = sequence /\ payload'[t] = payload[t]
      BY <1>3, <2>1, PurgedTypes DEF Mutation, Change, TypeOK
    <2>3. QED
      BY <2>2, PurgedTypes DEF StoredOutcome
  <1>4. QED
    BY <1>1, <1>2, <1>3, StoreSteps

\* Every step keeps the answers of tasks/result final.
LEMMA NextResultInv == TypeOK /\ TypeOK' /\ FreshInv /\ ResultInv /\ [Next]_vars => ResultInv'
  <1> SUFFICES ASSUME TypeOK, TypeOK', FreshInv, ResultInv, [Next]_vars, NEW v \in Waiters, NEW t,
                      waiter'[v].at = "done", waiter'[v].outcome # "not_found", t = waiter'[v].task
               PROVE  /\ sequence'[t] # 0
                      /\ status'[t] = "absent" \/ (status'[t] \in Terminal /\ waiter'[v].outcome = StoredOutcome(t)')
    BY DEF ResultInv, StoredOutcome
  <1> DEFINE Goal == sequence'[t] # 0 /\ (status'[t] = "absent" \/ (status'[t] \in Terminal /\ waiter'[v].outcome = StoredOutcome(t)'))
  <1> SUFFICES Goal
    OBVIOUS
  <1>0. t \in Tasks
    BY DEF TypeOK
  <1>1. ASSUME waiter'[v] = waiter[v] PROVE Goal
    <2>1. waiter[v].at = "done" /\ waiter[v].outcome # "not_found" /\ t = waiter[v].task
      BY <1>1
    <2>2. sequence[t] # 0 /\ (status[t] = "absent" \/ (status[t] \in Terminal /\ waiter[v].outcome = StoredOutcome(t)))
      BY <2>1 DEF ResultInv
    <2>3. sequence'[t] # 0 /\ (status'[t] = "absent" \/ (status'[t] \in Terminal /\ waiter[v].outcome = StoredOutcome(t)'))
      BY <1>0, <2>2, FinalOutcome
    <2>4. QED
      BY <1>1, <2>3
  <1>2. ASSUME NEW u \in Waiters, CheckTask(u) PROVE Goal
    <2>1. CASE u # v
      <3>1. waiter'[v] = waiter[v]
        BY <1>2, <2>1 DEF CheckTask, Answer, TypeOK
      <3>2. QED
        BY <1>1, <3>1
    <2>2. CASE u = v
      <3> DEFINE u0 == waiter[v].task
      <3>1. \E o : /\ waiter' = [waiter EXCEPT ![v] = [waiter[v] EXCEPT !.at = "done", !.outcome = o]]
                   /\ o = "not_found" \/ (Purged[u0] \in Terminal /\ o = StoredOutcome(u0))
        <4>1. \/ waiter' = [waiter EXCEPT ![v] = [waiter[v] EXCEPT !.at = "done", !.outcome = "not_found"]]
              \/ /\ Purged[u0] \in Terminal
                 /\ waiter' = [waiter EXCEPT ![v] = [waiter[v] EXCEPT !.at = "done", !.outcome = StoredOutcome(u0)]]
              \/ waiter' = [waiter EXCEPT ![v] = [waiter[v] EXCEPT !.at = "asleep", !.deadline = expiresAt[u0]]]
          BY <1>2, <2>2 DEF CheckTask, Answer
        <4>2. waiter' # [waiter EXCEPT ![v] = [waiter[v] EXCEPT !.at = "asleep", !.deadline = expiresAt[u0]]]
          <5> SUFFICES ASSUME waiter' = [waiter EXCEPT ![v] = [waiter[v] EXCEPT !.at = "asleep", !.deadline = expiresAt[u0]]]
                       PROVE  FALSE
            OBVIOUS
          <5>1. waiter \in [Waiters -> WaiterRecords]
            BY DEF TypeOK, WaiterRecords
          <5>2. waiter'[v].at = "asleep"
            BY <5>1 DEF WaiterRecords
          <5>3. QED
            BY <5>2
        <4>3. QED
          BY <4>1, <4>2
      <3>2. t = u0 /\ Purged[t] \in Terminal /\ waiter'[v].outcome = StoredOutcome(t)
        BY <3>1 DEF TypeOK
      <3>3. status' = Purged /\ payload' = payload /\ sequence' = sequence
        BY <1>2 DEF CheckTask
      <3>4. sequence[t] # 0
        BY <1>0, <3>2, PurgedTypes DEF FreshInv, Terminal
      <3>5. StoredOutcome(t)' = StoredOutcome(t)
        BY <3>3 DEF StoredOutcome
      <3>6. QED
        BY <3>2, <3>3, <3>4, <3>5
    <2>3. QED
      BY <2>1, <2>2
  <1>3. QED
    BY <1>1, <1>2, WaiterSteps

\* tasks/result answers with the outcome its task ended with, for any number of waiters, workers
\* and wake-ups.
THEOREM ResultsAreFinal == Spec => []ResultIsFinal
  <1>1. Init => ResultInv
    BY DEF Init, ResultInv, IdleWaiter
  <1>2. ResultInv => ResultIsFinal
    BY DEF ResultInv, ResultIsFinal
  <1>3. QED
    BY TypeCorrect, FreshIdsHaveNoTask, NextResultInv, <1>1, <1>2, PTL DEF Spec

-----------------------------------------------------------------------------
(* Listing.                                                                *)

\* Positions in the order of creation are given out in order.
SequenceInv == \A t \in Tasks : sequence[t] < nextSequence

Earlier(t, present) == { u \in present : sequence[u] < sequence[t] }

Intact(l) == \A t \in lister[l].present : status[t] # "absent"

\* What the requestor may see beyond the tasks its walk started with was created after them, so
\* it stands behind them on the pages.
PrefixInv(l) ==
  lister[l].at \in {"page", "done"} =>
    /\ \A t \in lister[l].present : sequence[t] > 0 /\ Accessible(t, lister[l].auth)
    /\ \A t \in lister[l].present, u \in Visible(lister[l].auth) \ lister[l].present :
         sequence[t] < sequence[u]

\* As long as none of them is gone, the pages so far have shown those before the cursor.
SeenInv(l) ==
  Intact(l) =>
    /\ lister[l].at = "page" =>
         \A t \in lister[l].present :
           lister[l].seen[t] = IF Cardinality(Earlier(t, lister[l].present)) < lister[l].cursor
                               THEN 1 ELSE 0
    /\ lister[l].at = "done" => \A t \in lister[l].present : lister[l].seen[t] = 1

ListingInv == SequenceInv /\ \A l \in Listers : PrefixInv(l) /\ SeenInv(l)

\* A step creates a task, or what can be seen or is there afterwards was so before.
LEMMA VisibleSteps ==
  ASSUME TypeOK, [Next]_vars
  PROVE  \/ \E t \in Tasks, a \in Contexts, ttl \in Ttls \cup {NoTtl} : CreateTask(t, a, ttl)
         \/ /\ UNCHANGED << owner, sequence, nextSequence >>
            /\ \A u \in Tasks : /\ Purged'[u] # "absent" => Purged[u] # "absent"
                                /\ status'[u] # "absent" => status[u] # "absent"
  <1> DEFINE Stays == /\ UNCHANGED << owner, sequence, nextSequence >>
                      /\ \A u \in Tasks : /\ Purged'[u] # "absent" => Purged[u] # "absent"
                                          /\ status'[u] # "absent" => status[u] # "absent"
             Created == \E t \in Tasks, a \in Contexts, ttl \in Ttls \cup {NoTtl} : CreateTask(t, a, ttl)
  <1> SUFFICES Created \/ Stays
    OBVIOUS
  <1>a. now \in Int /\ \A u \in Tasks : expiresAt[u] \in Int
    BY TaskStoreAssumption DEF TypeOK, Never
  <1>0. ASSUME status' = Purged \/ UNCHANGED status, now' = now \/ now' = now + 1,
               UNCHANGED << expiresAt, owner, sequence, nextSequence >>
        PROVE  Stays
    BY <1>0, <1>a, PurgedTypes DEF Purged
  <1>c. ASSUME NEW w \in Workers, NEW t \in Tasks, NEW s, NEW p, Purged[t] # "absent", Change(w, t, s, p)
        PROVE  Stays
    <2>1. \A u \in Tasks : u # t => status'[u] = Purged[u]
      BY <1>c, PurgedTypes DEF Change
    <2>2. status[t] # "absent"
      BY <1>c, PurgedTypes
    <2>3. \A u \in Tasks : Purged'[u] # "absent" => Purged[u] # "absent"
      BY <2>1, <1>c DEF Purged, Change
    <2>4. \A u \in Tasks : status'[u] # "absent" => status[u] # "absent"
      BY <2>1, <2>2, PurgedTypes
    <2>5. QED
      BY <1>c, <2>3, <2>4 DEF Change
  <1> HIDE DEF Stays
  <1> USE <1>0 DEF store, OnlyPurges
  <1>1. ASSUME NEW a \in Contexts, NEW ttl \in Ttls \cup {NoTtl}, RefuseCreateTask(a, ttl) PROVE Stays
    BY <1>1 DEF RefuseCreateTask
  <1>2. ASSUME NEW t \in Tasks, NEW a \in Contexts, NEW ttl \in Ttls \cup {NoTtl}, CreateTask(t, a, ttl) PROVE Created
    BY <1>2
  <1>3. ASSUME GetTask PROVE Stays
    BY <1>3 DEF GetTask
  <1>4. ASSUME NEW w \in Workers, NEW t \in Tasks, NEW a \in Contexts, NEW s \in Statuses, UpdateTaskStatus(w, t, a, s) PROVE Stays
    BY <1>4, <1>c DEF UpdateTaskStatus, Mutable
  <1>5. ASSUME NEW w \in Workers, NEW t \in Tasks, NEW a \in Contexts, NEW s \in Statuses, SetTaskResult(w, t, a, s) PROVE Stays
    BY <1>5, <1>c DEF SetTaskResult, Mutable
  <1>6. ASSUME NEW w \in Workers, NEW t \in Tasks, NEW a \in Contexts, NEW s \in Statuses, SetTaskError(w, t, a, s) PROVE Stays
    BY <1>6, <1>c DEF SetTaskError, Mutable
  <1>7. ASSUME NEW w \in Workers, NotifyStatusObserver(w) PROVE Stays
    BY <1>7 DEF NotifyStatusObserver
  <1>8. ASSUME NEW v \in Waiters, NEW t \in Tasks, NEW a \in Contexts, HandleTasksResult(v, t, a) PROVE Stays
    BY <1>8 DEF HandleTasksResult
  <1>9. ASSUME NEW v \in Waiters, CheckTask(v) PROVE Stays
    BY <1>9 DEF CheckTask
  <1>10. ASSUME NEW v \in Waiters, WaitTimesOut(v) PROVE Stays
    BY <1>10 DEF WaitTimesOut, Wake
  <1>11. ASSUME NEW v \in Waiters, SpuriousWakeup(v) PROVE Stays
    BY <1>11 DEF SpuriousWakeup, Wake
  <1>12. ASSUME NEW l \in Listers, NEW a \in Contexts, StartListing(l, a) PROVE Stays
    BY <1>12 DEF StartListing
  <1>13. ASSUME NEW l \in Listers, HandleTasksList(l) PROVE Stays
    BY <1>13 DEF HandleTasksList
  <1>14. ASSUME Tick PROVE Stays
    BY <1>14 DEF Tick
  <1>15. CASE UNCHANGED vars
    BY <1>15 DEF vars
  <1> HIDE DEF Created
  <1>16. QED
    BY <1>1, <1>2, <1>3, <1>4, <1>5, <1>6, <1>7, <1>8, <1>9, <1>10, <1>11, <1>12, <1>13, <1>14, <1>15
       DEF Next, RequestStep, WorkerStep, WaiterStep, ListerStep

\* Who may change a walk of the pages.
LEMMA ListerSteps ==
  ASSUME [Next]_vars
  PROVE  \/ UNCHANGED lister
         \/ \E l \in Listers, a \in Contexts : StartListing(l, a)
         \/ \E l \in Listers : HandleTasksList(l)
  <1>1. RequestStep => UNCHANGED lister
    BY DEF RequestStep, RefuseCreateTask, CreateTask, GetTask, OnlyPurges
  <1>2. ASSUME NEW w \in Workers, WorkerStep(w) PROVE UNCHANGED lister
    BY <1>2 DEF WorkerStep, UpdateTaskStatus, SetTaskResult, SetTaskError, Change, NotifyStatusObserver
  <1>3. ASSUME NEW v \in Waiters, WaiterStep(v) PROVE UNCHANGED lister
    BY <1>3 DEF WaiterStep, HandleTasksResult, CheckTask, WaitTimesOut, SpuriousWakeup, Wake
  <1>4. Tick \/ UNCHANGED vars => UNCHANGED lister
    BY DEF Tick, vars
  <1>5. QED
    BY <1>1, <1>2, <1>3, <1>4 DEF Next, ListerStep

\* A step that leaves a walk alone keeps what is known of it.
LEMMA WalkStands ==
  ASSUME TypeOK, SequenceInv, [Next]_vars, NEW l \in Listers, lister'[l] = lister[l],
         PrefixInv(l), SeenInv(l)
  PROVE  PrefixInv(l)' /\ SeenInv(l)'
  <1> DEFINE P == lister[l].present
  <1>1. P \subseteq Tasks
    BY DEF TypeOK
  <1>2. CASE lister[l].at \notin {"page", "done"}
    BY <1>2 DEF PrefixInv, SeenInv
  <1>3. CASE lister[l].at \in {"page", "done"}
    <2>1. \A t \in P : sequence[t] > 0 /\ Accessible(t, lister[l].auth)
      BY <1>3 DEF PrefixInv
    <2>2. ASSUME NEW c \in Tasks, NEW a \in Contexts, NEW ttl \in Ttls \cup {NoTtl}, CreateTask(c, a, ttl)
          PROVE  /\ \A t \in P : sequence'[t] = sequence[t] /\ owner'[t] = owner[t]
                 /\ \A t \in P : status'[t] # "absent" => status[t] # "absent"
                 /\ \A t \in P, u \in Visible(lister[l].auth)' \ P :
                      u \in Visible(lister[l].auth) \ P \/ sequence[t] < sequence'[u]
      <3>1. sequence[c] = 0
        BY <2>2 DEF CreateTask, FreshIds
      <3>2. c \notin P
        BY <2>1, <3>1
      <3>3. /\ \A t \in Tasks : t # c => /\ sequence'[t] = sequence[t] /\ owner'[t] = owner[t]
                                         /\ status'[t] = Purged[t]
                                         /\ expiresAt'[t] = expiresAt[t]
            /\ sequence'[c] = nextSequence
            /\ now' = now
        BY <2>2, PurgedTypes DEF CreateTask, TypeOK
      <3>4. \A u \in Tasks : u # c /\ Purged'[u] # "absent" => Purged[u] # "absent"
        BY <3>3 DEF Purged
      <3>5. \A u \in Tasks : u # c /\ u \in Visible(lister[l].auth)' => u \in Visible(lister[l].auth)
        BY <3>3, <3>4 DEF Visible, Accessible
      <3>6. \A t \in P : sequence[t] < sequence'[c]
        BY <1>1, <3>3 DEF SequenceInv
      <3>7. Visible(lister[l].auth)' \subseteq Tasks
        BY DEF Visible
      <3>8. \A t \in P : status'[t] # "absent" => status[t] # "absent"
        BY <1>1, <3>2, <3>3, PurgedTypes
      <3>9. QED
        BY <1>1, <3>2, <3>3, <3>5, <3>6, <3>7, <3>8
    <2>3. ASSUME UNCHANGED << owner, sequence, nextSequence >>,
                 \A u \in Tasks : /\ Purged'[u] # "absent" => Purged[u] # "absent"
                                  /\ status'[u] # "absent" => status[u] # "absent"
          PROVE  /\ \A t \in P : sequence'[t] = sequence[t] /\ owner'[t] = owner[t]
                 /\ \A t \in P : status'[t] # "absent" => status[t] # "absent"
                 /\ \A t \in P, u \in Visible(lister[l].auth)' \ P :
                      u \in Visible(lister[l].auth) \ P \/ sequence[t] < sequence'[u]
      BY <1>1, <2>3 DEF Visible, Accessible
    <2>4. /\ \A t \in P : sequence'[t] = sequence[t] /\ owner'[t] = owner[t]
          /\ \A t \in P : status'[t] # "absent" => status[t] # "absent"
          /\ \A t \in P, u \in Visible(lister[l].auth)' \ P :
               u \in Visible(lister[l].auth) \ P \/ sequence[t] < sequence'[u]
      BY <2>2, <2>3, VisibleSteps
    <2>5. \A u \in Visible(lister[l].auth) \ P : \A t \in P : sequence[t] < sequence[u]
      BY <1>3 DEF PrefixInv
    <2>6. PrefixInv(l)'
      <3>1. \A t \in P : sequence'[t] > 0 /\ Accessible(t, lister[l].auth)'
        BY <2>1, <2>4 DEF Accessible
      <3>2. ASSUME NEW t \in P, NEW u \in Visible(lister[l].auth)' \ P PROVE sequence'[t] < sequence'[u]
        <4>1. CASE u \in Visible(lister[l].auth) \ P
          <5>1. u \in Tasks
            BY <4>1 DEF Visible
          <5>2. sequence'[u] = sequence[u]
            <6>1. sequence[u] > 0
              BY <2>1, <2>5, <4>1, <1>1, <5>1 DEF TypeOK
            <6>2. ASSUME NEW c \in Tasks, NEW a \in Contexts, NEW ttl \in Ttls \cup {NoTtl}, CreateTask(c, a, ttl)
                  PROVE  sequence'[u] = sequence[u]
              BY <5>1, <6>1, <6>2 DEF CreateTask, FreshIds, TypeOK
            <6>3. QED
              BY <6>2, VisibleSteps
          <5>3. QED
            BY <2>4, <2>5, <4>1, <5>2
        <4>2. QED
          BY <2>4, <4>1
      <3>3. QED
        BY <3>1, <3>2 DEF PrefixInv
    <2>7. SeenInv(l)'
      <3>1. Intact(l)' => Intact(l)
        BY <2>4 DEF Intact
      <3>2. \A t \in P : Earlier(t, P)' = Earlier(t, P)
        BY <2>4 DEF Earlier
      <3>3. \A t \in P : Cardinality(Earlier(t, P)') = Cardinality(Earlier(t, P))
        BY <3>2
      <3> HIDE DEF Earlier
      <3>4. QED
        BY <3>1, <3>3 DEF SeenInv
    <2>8. QED
      BY <2>6, <2>7
  <1>4. QED
    BY <1>2, <1>3

\* A walk starts with everything it may see.
LEMMA WalkStarts ==
  ASSUME TypeOK, NEW l \in Listers, NEW a \in Contexts, StartListing(l, a),
         \A t \in Visible(a) : sequence[t] > 0
  PROVE  PrefixInv(l)' /\ SeenInv(l)'
  <1>1. lister'[l] = [at |-> "page", auth |-> a, cursor |-> 0, present |-> Visible(a),
                      seen |-> [t \in Tasks |-> 0]]
    BY DEF StartListing, IdleLister, TypeOK
  <1>2. UNCHANGED << status, owner, expiresAt, sequence, now >>
    BY DEF StartListing, store
  <1>3. Visible(a)' = Visible(a)
    BY <1>2 DEF Visible, Purged, Accessible
  <1>4. \A t \in Visible(a) : Accessible(t, a)' /\ sequence'[t] > 0
    BY <1>2 DEF Visible, Accessible
  <1>5. PrefixInv(l)'
    BY <1>1, <1>3, <1>4 DEF PrefixInv
  <1>6. ASSUME NEW t \in Visible(a) PROVE ~(Cardinality(Earlier(t, Visible(a))') < 0)
    <2>1. IsFiniteSet(Earlier(t, Visible(a))')
      <3>1. Earlier(t, Visible(a))' \subseteq Tasks
        BY <1>3 DEF Earlier, Visible
      <3>2. QED
        BY <3>1, TaskStoreAssumption, FS_Subset
    <2>2. Cardinality(Earlier(t, Visible(a))') \in Nat
      BY <2>1, FS_CardinalityType
    <2>3. QED
      BY <2>2
  <1>7. Visible(a) \subseteq Tasks
    BY DEF Visible
  <1>8. \A t \in Visible(a) : Earlier(t, lister[l].present)' = Earlier(t, Visible(a))'
    BY <1>1, <1>3 DEF Earlier
  <1>9. QED
    BY <1>1, <1>5, <1>6, <1>7, <1>8 DEF SeenInv

\* A page shows, of the tasks the walk started with, those from the cursor to its end.
LEMMA WalkContinues ==
  ASSUME TypeOK, NEW l \in Listers, HandleTasksList(l), PrefixInv(l), SeenInv(l)
  PROVE  PrefixInv(l)' /\ SeenInv(l)'
  <1> DEFINE me == lister[l]
             P == me.present
             total == Cardinality(Visible(me.auth))
             end == EndIndex(me.cursor, me.auth)
             Rank(t) == Cardinality(Earlier(t, P))
  <1>1. /\ me \in ListerRecords /\ P \subseteq Tasks /\ me.at = "page"
        /\ status' = Purged /\ UNCHANGED << owner, expiresAt, sequence, now >>
    BY DEF TypeOK, ListerRecords, HandleTasksList
  <1>2. lister'[l] = IF PageSize = 0 \/ me.cursor > total
                     THEN [me EXCEPT !.at = "invalid"]
                     ELSE [me EXCEPT !.at = IF end < total THEN "page" ELSE "done",
                                     !.cursor = end,
                                     !.seen = [t \in Tasks |-> IF t \in Page(me.cursor, me.auth)
                                                               THEN me.seen[t] + 1 ELSE me.seen[t]]]
    BY DEF HandleTasksList, TypeOK
  <1>3. total \in Nat /\ IsFiniteSet(Visible(me.auth))
    BY TaskStoreAssumption, FS_Subset, FS_CardinalityType DEF Visible
  <1>4. \A u \in Tasks : (Purged')[u] = Purged[u]
    BY <1>1 DEF Purged
  <1>5. Visible(me.auth) =
          {t \in Tasks : Purged'[t] # "absent" /\ (owner'[t] = NoAuth \/ owner'[t] = me.auth)}
    BY <1>1, <1>4 DEF Visible, Accessible
  <1>6. lister'[l].auth = me.auth /\ lister'[l].present = P
    BY <1>1, <1>2 DEF ListerRecords
  <1>7. Visible(lister[l].auth)' = Visible(me.auth)
    BY <1>5, <1>6 DEF Visible, Accessible
  <1>8. PrefixInv(l)'
    BY <1>1, <1>6, <1>7 DEF PrefixInv, Accessible
  <1>9. CASE PageSize = 0 \/ me.cursor > total
    <2>1. lister'[l].at = "invalid"
      BY <1>1, <1>2, <1>9 DEF ListerRecords
    <2>2. QED
      BY <1>8, <2>1 DEF SeenInv
  <1>10. CASE ~(PageSize = 0 \/ me.cursor > total) /\ Intact(l)'
    <2>1. \A t \in P : Purged[t] # "absent" /\ status[t] # "absent"
      BY <1>1, <1>6, <1>10, PurgedTypes DEF Intact
    <2>2. P \subseteq Visible(me.auth)
      BY <1>1, <2>1 DEF PrefixInv, Visible
    <2>3. /\ \A t \in P : me.seen[t] = IF Rank(t) < me.cursor THEN 1 ELSE 0
      BY <1>1, <2>1 DEF SeenInv, Intact
    <2>4. ASSUME NEW t \in P
          PROVE  /\ Index(t, me.auth) = Rank(t)
                 /\ Rank(t) \in Nat /\ Rank(t) < total
      <3>1. {u \in Visible(me.auth) : sequence[u] < sequence[t]} = Earlier(t, P)
        <4>1. ASSUME NEW u \in Visible(me.auth), sequence[u] < sequence[t] PROVE u \in P
          <5>1. CASE u \notin P
            <6>1. sequence[t] < sequence[u]
              BY <1>1, <5>1 DEF PrefixInv
            <6>2. sequence[t] \in Nat /\ sequence[u] \in Nat
              BY <1>1 DEF TypeOK, Visible
            <6>3. QED
              BY <4>1, <6>1, <6>2
          <5>2. QED
            BY <5>1
        <4>2. QED
          BY <2>2, <4>1 DEF Earlier
      <3>2. Earlier(t, P) \subseteq Visible(me.auth) /\ t \notin Earlier(t, P) /\ t \in Visible(me.auth)
        <4>1. sequence[t] \in Nat
          BY <1>1 DEF TypeOK
        <4>2. QED
          BY <2>2, <4>1 DEF Earlier
      <3>3. Earlier(t, P) # Visible(me.auth)
        BY <3>2
      <3>4. Rank(t) \in Nat /\ Rank(t) < total
        BY <1>3, <3>2, <3>3, FS_Subset, FS_CardinalityType
      <3>5. QED
        BY <3>1, <3>4 DEF Index
    <2>5. /\ me.cursor \in Nat /\ me.cursor <= total /\ end \in Nat /\ me.cursor <= end
          /\ end <= total
      BY <1>1, <1>3, <1>10, TaskStoreAssumption DEF EndIndex, ListerRecords
    <2>6. \A t \in P : t \in Page(me.cursor, me.auth) <=> (me.cursor <= Rank(t) /\ Rank(t) < end)
      BY <2>2, <2>4 DEF Page
    <2>7. /\ lister'[l].at = (IF end < total THEN "page" ELSE "done")
          /\ lister'[l].cursor = end
          /\ \A t \in P : lister'[l].seen[t] = IF t \in Page(me.cursor, me.auth)
                                               THEN me.seen[t] + 1 ELSE me.seen[t]
      BY <1>1, <1>2, <1>10 DEF ListerRecords
    <2> HIDE DEF end, total
    <2>8. \A t \in P : lister'[l].seen[t] = IF Rank(t) < end THEN 1 ELSE 0
      <3> HIDE DEF Rank, P
      <3>1. QED
        BY <2>3, <2>4, <2>5, <2>6, <2>7
    <2>9. \A t \in P : Earlier(t, P) = Earlier(t, lister[l].present)'
      BY <1>1, <1>6 DEF Earlier
    <2>10. CASE end < total
      <3>1. lister'[l].at = "page"
        BY <2>7, <2>10
      <3>2. \A t \in lister'[l].present :
              lister'[l].seen[t] = IF Cardinality(Earlier(t, lister[l].present)') < lister'[l].cursor
                                   THEN 1 ELSE 0
        BY <1>6, <2>7, <2>8, <2>9
      <3>3. QED
        BY <1>8, <3>1, <3>2 DEF SeenInv
    <2>11. CASE ~(end < total)
      <3>1. lister'[l].at = "done"
        BY <2>7, <2>11
      <3>2. \A t \in P : lister'[l].seen[t] = 1
        <4> HIDE DEF Rank, P
        <4>1. end = total
          BY <1>3, <2>5, <2>11 DEF total
        <4>2. QED
          BY <2>4, <2>8, <4>1
      <3>3. QED
        BY <1>6, <1>8, <3>1, <3>2 DEF SeenInv
    <2>12. QED
      BY <2>10, <2>11
  <1>11. QED
    BY <1>8, <1>9, <1>10 DEF SeenInv

\* Positions are given out in order, after every step.
LEMMA NextSequenceInv == TypeOK /\ SequenceInv /\ [Next]_vars => SequenceInv'
  <1> SUFFICES ASSUME TypeOK, SequenceInv, [Next]_vars PROVE SequenceInv'
    OBVIOUS
  <1>1. ASSUME NEW c \in Tasks, NEW a \in Contexts, NEW ttl \in Ttls \cup {NoTtl}, CreateTask(c, a, ttl)
        PROVE  SequenceInv'
    BY <1>1 DEF CreateTask, SequenceInv, TypeOK
  <1>2. ASSUME UNCHANGED << owner, sequence, nextSequence >> PROVE SequenceInv'
    BY <1>2 DEF SequenceInv
  <1>3. QED
    BY <1>1, <1>2, VisibleSteps

\* Every step keeps what is known of the walks.
LEMMA NextListingInv == TypeOK /\ FreshInv /\ ListingInv /\ [Next]_vars => ListingInv'
  <1> SUFFICES ASSUME TypeOK, FreshInv, ListingInv, [Next]_vars PROVE ListingInv'
    OBVIOUS
  <1>1. SequenceInv'
    BY NextSequenceInv DEF ListingInv
  <1>2. ASSUME NEW l \in Listers PROVE PrefixInv(l)' /\ SeenInv(l)'
    <2>1. ASSUME lister'[l] = lister[l] PROVE PrefixInv(l)' /\ SeenInv(l)'
      BY <2>1, WalkStands DEF ListingInv
    <2>2. CASE UNCHANGED lister
      BY <2>1, <2>2
    <2>3. ASSUME NEW k \in Listers, NEW a \in Contexts, StartListing(k, a) PROVE PrefixInv(l)' /\ SeenInv(l)'
      <3>1. CASE k # l
        BY <2>1, <2>3, <3>1 DEF StartListing, TypeOK
      <3>2. CASE k = l
        <4>1. \A t \in Visible(a) : sequence[t] > 0
          BY PurgedTypes DEF Visible, FreshInv, TypeOK
        <4>2. QED
          BY <2>3, <3>2, <4>1, WalkStarts
      <3>3. QED
        BY <3>1, <3>2
    <2>4. ASSUME NEW k \in Listers, HandleTasksList(k) PROVE PrefixInv(l)' /\ SeenInv(l)'
      <3>1. CASE k # l
        BY <2>1, <2>4, <3>1 DEF HandleTasksList, TypeOK
      <3>2. CASE k = l
        BY <2>4, <3>2, WalkContinues DEF ListingInv
      <3>3. QED
        BY <3>1, <3>2
    <2>5. QED
      BY <2>2, <2>3, <2>4, ListerSteps
  <1>3. QED
    BY <1>1, <1>2 DEF ListingInv

\* A walk that ends while all the tasks it started with are there has returned each of them once,
\* for any page size and any number of walks, tasks created and tasks expired in between.
THEOREM ListingsAreComplete == Spec => []ListingComplete
  <1>1. Init => ListingInv
    BY DEF Init, ListingInv, SequenceInv, PrefixInv, SeenInv, IdleLister
  <1>2. ListingInv => ListingComplete
    BY DEF ListingInv, SeenInv, Intact, ListingComplete
  <1>3. QED
    BY TypeCorrect, FreshIdsHaveNoTask, NextListingInv, <1>1, <1>2, PTL DEF Spec
=============================================================================
