---------------------------- MODULE MetricCatalog ----------------------------
(***************************************************************************)
(* One ListMetrics call: the distinct metric names by a loose index scan,   *)
(* then per name a task of its own with two more statements, the newest     *)
(* descriptor and the services, all competing for the read pool with other  *)
(* queries, while points arrive and the sweep deletes them.  Every          *)
(* statement reads the table as it is when it runs, so the call sees up to  *)
(* 1 + 2n moments of it.  Any statement may fail.  When the call ends, its  *)
(* JoinSet aborts what still runs; a statement that was sent keeps its      *)
(* connection until the database is done with it.                           *)
(***************************************************************************)
EXTENDS Naturals, FiniteSets, Sequences, FiniteSetsExt

CONSTANTS Names,      \* metric names, as numbers: their order matters
          Services,
          PoolSize,   \* max_connections of the read pool
          Nothing     \* an empty slot of the answer

ASSUME CatalogAssumption ==
    /\ Names \subseteq Nat \ {0} /\ IsFiniteSet(Names)
    /\ Services \subseteq Nat \ {0} /\ IsFiniteSet(Services)
    /\ PoolSize \in Nat \ {0}
ASSUME NothingAssumption == Nothing \notin [name : Names, services : SUBSET Services]

VARIABLES table,      \* the <<name, service>> with a point in metric_points
          busy,       \* connections other queries hold
          handler,    \* "wait", "scan", "join"; "ok", "failed", "cancelled"
          scanning,   \* the scan's statement holds a connection
          names,      \* the names the scan found, in order
          task,       \* index -> state of the task for names[index]
          found,      \* index -> the services its task has read
          out,        \* index -> the answer's entry, or Nothing
          stable,     \* pairs in the table ever since the scan
          seen,       \* pairs in the table at some time since, until the call ended
          gone,       \* names that had no point at some time since, until then
          broken      \* no connection came in time, or a statement failed

env == <<table, busy>>
history == <<stable, seen, gone>>
vars == <<table, busy, handler, scanning, names, task, found, out, stable, seen, gone, broken>>

\* wait_info, wait_services   waiting for a connection
\* info, services             a statement running
\* ready                      finished with a result
\* error                      finished with an error
\* joined                     taken by the handler
\* left                       dropped, its statement still running
\* aborted                    dropped, and nothing runs
TaskStates == {"wait_info", "info", "wait_services", "services",
               "ready", "error", "joined", "left", "aborted"}
Ended == {"ok", "failed", "cancelled"}

Indices == DOMAIN names
Live == {i \in Indices : task[i] \in {"wait_info", "info", "wait_services", "services"}}
PointsOf(n) == {p \in table : p[1] = n}

\* Mutant of Walk: the NULL row that ends the recursion is kept.
Walk_KeepsNull(values) ==
    LET above(v) == {x \in values : x > v}
        step[v \in values \cup {0}] ==
            IF above(v) = {} THEN <<0>> ELSE <<Min(above(v))>> \o step[Min(above(v))]
    IN step[0]

\* WITH RECURSIVE walk: from each value to the next greater one in the index.
Walk(values) ==
    LET above(v) == {x \in values : x > v}
        step[v \in values \cup {0}] ==
            IF above(v) = {} THEN <<>> ELSE <<Min(above(v))>> \o step[Min(above(v))]
    IN step[0]

\* The tasks whose statements the database runs, each on a connection.
Running == {i \in Indices : task[i] \in {"info", "services", "left"}}

InUse == busy + (IF scanning THEN 1 ELSE 0) + Cardinality(Running)

\* Mutant of Free: one connection too many.
Free_OneMore == InUse <= PoolSize

Free == InUse < PoolSize

Init ==
    /\ table \in SUBSET (Names \X Services)
    /\ busy \in 0..PoolSize
    /\ handler = "wait"
    /\ scanning = FALSE
    /\ names = <<>>
    /\ task = <<>>
    /\ found = <<>>
    /\ out = <<>>
    /\ stable = {}
    /\ seen = {}
    /\ gone = {}
    /\ broken = FALSE

-----------------------------------------------------------------------------
\* Everybody else: exports add points, the sweep deletes some, other queries
\* come and go.

\* Bound: the table stands still once the call has ended.
Change(t) ==
    /\ handler \notin Ended
    /\ table' = t
    /\ stable' = stable \cap t
    /\ seen' = IF handler = "join" THEN seen \cup t ELSE seen
    /\ gone' = IF handler = "join"
               THEN gone \cup {n \in Names : \A s \in Services : <<n, s>> \notin t}
               ELSE gone
    /\ UNCHANGED <<busy, handler, scanning, names, task, found, out, broken>>

Export == \E p \in Names \X Services : p \notin table /\ Change(table \cup {p})

Sweep == \E p \in table : Change(table \ {p})

OtherQuery ==
    /\ Free
    /\ busy' = busy + 1
    /\ UNCHANGED <<table, handler, scanning, names, task, found, out, history, broken>>

OtherQueryEnds ==
    /\ busy > 0
    /\ busy' = busy - 1
    /\ UNCHANGED <<table, handler, scanning, names, task, found, out, history, broken>>

-----------------------------------------------------------------------------
\* The handler.

ScanStarts ==
    /\ handler = "wait"
    /\ Free
    /\ handler' = "scan"
    /\ scanning' = TRUE
    /\ UNCHANGED <<env, names, task, found, out, history, broken>>

\* An aborted task is dropped where it waits; what it sent stays sent.
Dropped(state) ==
    CASE state \in {"wait_info", "wait_services"} -> "aborted"
      [] state \in {"info", "services"} -> "left"
      [] OTHER -> state

\* The call ends, its JoinSet is dropped, and every task in it aborted: one
\* that a worker is polling just then goes on until the poll ends.
Return(result) ==
    /\ handler' = result
    /\ \E polled \in SUBSET Live :
          task' = [i \in Indices |-> IF i \in polled THEN task[i] ELSE Dropped(task[i])]

\* No connection in time or none at all, or the statement fails.
ScanFails ==
    /\ handler \in {"wait", "scan"}
    /\ Return("failed")
    /\ scanning' = FALSE
    /\ broken' = TRUE
    /\ UNCHANGED <<env, names, found, out, history>>

\* distinct_indexed, then a task per name.
ScanDone ==
    /\ handler = "scan"
    /\ names' = Walk({p[1] : p \in table})
    /\ task' = [i \in DOMAIN names' |-> "wait_info"]
    /\ found' = [i \in DOMAIN names' |-> {}]
    /\ out' = [i \in DOMAIN names' |-> Nothing]
    /\ stable' = table
    /\ seen' = table
    /\ handler' = "join"
    /\ scanning' = FALSE
    /\ UNCHANGED <<env, gone, broken>>

\* Mutant of Slot: results in the order the tasks finish.
Slot_Arrival(i) == Cardinality({j \in Indices : out[j] # Nothing}) + 1

\* Where the result of task i goes.
Slot(i) == i

\* join_next gives the tasks in the order they finish, which is any.
JoinReady(i) ==
    /\ handler = "join"
    /\ task[i] = "ready"
    /\ task' = [task EXCEPT ![i] = "joined"]
    /\ out' = [out EXCEPT ![Slot(i)] = [name |-> names[i], services |-> found[i]]]
    /\ UNCHANGED <<env, handler, scanning, names, found, history, broken>>

\* Mutant of JoinError: the error is dropped, the name left out.
JoinError_Skips(i) ==
    /\ handler = "join"
    /\ task[i] = "error"
    /\ task' = [task EXCEPT ![i] = "joined"]
    /\ UNCHANGED <<env, handler, scanning, names, found, out, history, broken>>

\* Mutant of JoinError: the error is logged, the entry waited for.
JoinError_Waits(i) ==
    /\ handler = "join"
    /\ task[i] = "error"
    /\ UNCHANGED vars

JoinError(i) ==
    /\ handler = "join"
    /\ task[i] = "error"
    /\ Return("failed")
    /\ UNCHANGED <<env, scanning, names, found, out, history, broken>>

AllJoined ==
    /\ handler = "join"
    /\ \A i \in Indices : task[i] = "joined"
    /\ Return("ok")
    /\ UNCHANGED <<env, scanning, names, found, out, history, broken>>

\* The client goes away: the handler is dropped.
Cancel ==
    /\ handler \notin Ended
    /\ Return("cancelled")
    /\ UNCHANGED <<env, scanning, names, found, out, history, broken>>

-----------------------------------------------------------------------------
\* metric_info, in a task.

Move(i, from, to) ==
    /\ task[i] = from
    /\ task' = [task EXCEPT ![i] = to]
    /\ UNCHANGED <<env, handler, scanning, names, out, history>>

InfoStarts(i) == Free /\ Move(i, "wait_info", "info") /\ UNCHANGED <<found, broken>>

ServicesStart(i) == Free /\ Move(i, "wait_services", "services") /\ UNCHANGED <<found, broken>>

\* fetch_one: the name the scan saw may have no point left.
InfoFound(i) == PointsOf(names[i]) # {} /\ Move(i, "info", "wait_services") /\ UNCHANGED <<found, broken>>

InfoMissing(i) == PointsOf(names[i]) = {} /\ Move(i, "info", "error") /\ UNCHANGED <<found, broken>>

\* Mutant of ServicesFound: the recursive half without its metric_name = $1.
ServicesFound_AnyMetric(i) ==
    /\ Move(i, "services", "ready")
    /\ found' = [found EXCEPT ![i] = IF PointsOf(names[i]) = {} THEN {} ELSE {p[2] : p \in table}]
    /\ UNCHANGED broken

ServicesFound(i) ==
    /\ Move(i, "services", "ready")
    /\ found' = [found EXCEPT ![i] = {p[2] : p \in PointsOf(names[i])}]
    /\ UNCHANGED broken

\* No connection in time or none at all, or a statement fails.
TaskFails(i) ==
    /\ \E from \in {"wait_info", "info", "wait_services", "services"} : Move(i, from, "error")
    /\ broken' = TRUE
    /\ UNCHANGED found

Task(i) ==
    \/ InfoStarts(i)
    \/ InfoFound(i)
    \/ InfoMissing(i)
    \/ ServicesStart(i)
    \/ ServicesFound(i)
    \/ TaskFails(i)

-----------------------------------------------------------------------------
\* What a call leaves behind when it ends.

\* The poll during which the task was aborted ends, and the task is dropped.
PollEnds(i) ==
    /\ handler \in Ended
    /\ i \in Live
    /\ Move(i, task[i], Dropped(task[i]))
    /\ UNCHANGED <<found, broken>>

\* The database is done with a statement nobody waits for: the connection goes
\* back to the pool.
LeftDone(i) == Move(i, "left", "aborted") /\ UNCHANGED <<found, broken>>

ScanLeftDone ==
    /\ handler \in Ended
    /\ scanning
    /\ scanning' = FALSE
    /\ UNCHANGED <<env, handler, names, task, found, out, history, broken>>

Handler ==
    \/ ScanStarts
    \/ ScanFails
    \/ ScanDone
    \/ \E i \in Indices : JoinReady(i) \/ JoinError(i)
    \/ AllJoined

Others == Export \/ Sweep \/ OtherQuery \/ OtherQueryEnds

Next ==
    \/ Handler
    \/ \E i \in Indices : Task(i) \/ PollEnds(i) \/ LeftDone(i)
    \/ ScanLeftDone
    \/ Cancel
    \/ Others

\* The runtime polls the handler and every task, and a poll ends; the database
\* answers.  A wait for a connection ends by getting one or by acquire_timeout.
Fairness ==
    /\ WF_vars(Handler)
    /\ WF_vars(ScanLeftDone)
    /\ \A k \in 1..Cardinality(Names) :
          /\ WF_vars(k \in Indices /\ Task(k))
          /\ WF_vars(k \in Indices /\ PollEnds(k))
          /\ WF_vars(k \in Indices /\ LeftDone(k))

Spec == Init /\ [][Next]_vars
FairSpec == Spec /\ Fairness

-----------------------------------------------------------------------------
\* Properties.

\* Every variable stays in its range, and the pool is never overdrawn.
TypeOK ==
    /\ table \subseteq Names \X Services
    /\ busy \in 0..PoolSize
    /\ InUse <= PoolSize
    /\ handler \in {"wait", "scan", "join"} \cup Ended
    /\ scanning \in BOOLEAN
    /\ names \in Seq(Names)
    /\ task \in [Indices -> TaskStates]
    /\ found \in [Indices -> SUBSET Services]
    /\ \A i \in DOMAIN out :
          out[i] = Nothing \/ out[i] \in [name : Names, services : SUBSET Services]
    /\ stable \subseteq Names \X Services
    /\ seen \subseteq Names \X Services
    /\ gone \subseteq Names
    /\ broken \in BOOLEAN

\* Every metric and service that was there during the whole call is in the
\* answer, though each was read at another moment and others come and go.
StableAreListed ==
    handler = "ok" => \A p \in stable : \E i \in DOMAIN out :
        out[i] # Nothing /\ out[i].name = p[1] /\ p[2] \in out[i].services

\* An answer lists its metrics once each, by name, whatever order the tasks
\* finished in.
AnswerInOrder ==
    handler = "ok" => \A i, j \in DOMAIN out :
        i < j => /\ out[i] # Nothing /\ out[j] # Nothing
                 /\ out[i].name < out[j].name

\* All or nothing: whatever fails while a listing reads, in whichever task and
\* order, fails the listing, which never leaves the metric out instead; and one
\* whose connections and statements all came through fails only when a metric
\* it saw lost all its points before its task came to read it.
AllOrNothing ==
    /\ handler = "ok" => ~ broken
    /\ handler = "failed" => broken \/ \E i \in Indices : names[i] \in gone

\* An answer invents nothing, though its parts were read at different moments:
\* each metric had each service listed with it at some time during the call,
\* and one listed without any lost all its points in between.
EntriesWereThere ==
    handler = "ok" => \A i \in DOMAIN out : out[i] # Nothing =>
        /\ \E p \in seen : p[1] = out[i].name
        /\ \A s \in out[i].services : <<out[i].name, s>> \in seen
        /\ out[i].services = {} => out[i].name \in gone

\* The call ends under any load on the pool, since the handler holds no
\* connection while it waits for tasks that need one; and every connection it
\* had comes back for good, though its tasks were dropped with statements
\* running.
ListingEnds == <>[](handler \in Ended /\ ~ scanning /\ Running = {})
=============================================================================
