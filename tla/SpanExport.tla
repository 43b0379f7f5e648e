----------------------------- MODULE SpanExport -----------------------------
(***************************************************************************)
(* TraceService/Export down to the table: the gRPC handler, Store::write   *)
(* with its connection pool and its transaction, and PostgreSQL's row      *)
(* locks.  An exporter sends one request; when it gets an error, or stops  *)
(* waiting, it may send the same request again.  Each sending is an        *)
(* attempt with a handler, and later a transaction, of its own: an         *)
(* abandoned attempt can still be running when its successor starts.       *)
(***************************************************************************)
EXTENDS SpanRows

CONSTANTS Exporters,
          Requests,      \* the requests an exporter may send
          NoRow,         \* an absent row
          NoRequest,     \* an exporter that has not exported yet
          ChunkRows,     \* INSERT_CHUNK_ROWS
          PoolSize,      \* max_connections of the primary pool
          MaxAttempts    \* bound: how often an exporter sends its request

ASSUME ChunkRowsAssumption == ChunkRows \in Nat \ {0}
ASSUME PoolSizeAssumption == PoolSize \in Nat \ {0}
ASSUME MaxAttemptsAssumption == MaxAttempts \in Nat \ {0}
ASSUME RequestsAssumption == /\ Requests \subseteq Seq(SpanItem)
                             /\ NoRequest \notin Requests

VARIABLES table,      \* key -> its committed row <<exporter, index>>, or NoRow
          request,    \* exporter -> the request it sends
          answer,     \* exporter -> "none", "open", "ok": what it knows
          tries,      \* exporter -> how many attempts it has made
          pc,         \* attempt -> where its handler and transaction are
          stmt,       \* attempt -> rows of the INSERT being executed
          done,       \* attempt -> rows its transaction has upserted
          abandoned   \* attempt -> nobody waits for it any more

clientVars == <<request, answer, tries>>
vars == <<table, request, answer, tries, pc, stmt, done, abandoned>>

Attempts == Exporters \X (1..MaxAttempts)

\* unused     not sent yet
\* acquire    rows built; waiting for a pooled connection
\* between    in a transaction, no statement running
\* statement  an INSERT is running, perhaps waiting for a row lock
\* committing COMMIT has been sent
\* committed  the database has committed
\* aborted    over without effect; an error was returned if anyone waits
PCs == {"unused", "acquire", "between", "statement",
        "committing", "committed", "aborted"}

Req(a) == request[a[1]]
Latest(e) == <<e, tries[e]>>
InTx(a) == pc[a] \in {"between", "statement", "committing"}
Remaining(a) == Kept(Req(a)) \ done[a]

\* Row locks last until the end of the transaction that took them; `done` is
\* emptied there.
Holds(a, k) == k \in KeysOf(Req(a), done[a])

\* Mutant of IsNextRow: the order of the hash map, whatever it is.
IsNextRow_Unsorted(a, i) == i \in stmt[a] \ done[a]

\* The row the running INSERT comes to next: VALUES are taken in order.
IsNextRow(a, i) ==
    /\ i \in stmt[a] \ done[a]
    /\ \A j \in stmt[a] \ done[a] : i <= j

\* a cannot go on before b's transaction ends.
WaitsFor(a, b) ==
    /\ a # b
    /\ pc[a] = "statement"
    /\ \E i \in stmt[a] : IsNextRow(a, i) /\ Holds(b, Req(a)[i].key)

\* Every member of S waits for another member: none can ever go on.
Deadlocked(S) ==
    /\ S # {}
    /\ \A a \in S : \E b \in S : WaitsFor(a, b)

Init ==
    /\ table = [k \in Keys |-> NoRow]
    /\ request = [e \in Exporters |-> NoRequest]
    /\ answer = [e \in Exporters |-> "none"]
    /\ tries = [e \in Exporters |-> 0]
    /\ pc = [a \in Attempts |-> "unused"]
    /\ stmt = [a \in Attempts |-> {}]
    /\ done = [a \in Attempts |-> {}]
    /\ abandoned = [a \in Attempts |-> FALSE]

\* a's transaction ends: its locks and its statement are gone.
End(a, outcome) ==
    /\ pc' = [pc EXCEPT ![a] = outcome]
    /\ stmt' = [stmt EXCEPT ![a] = {}]
    /\ done' = [done EXCEPT ![a] = {}]

-----------------------------------------------------------------------------
\* The exporter and the handler.

\* Store::write up to `begin`: the rows are collected, an unstorable span
\* gives up the request at once.
Arrive(a, r) ==
    pc' = [pc EXCEPT ![a] = IF Overflows(r) THEN "aborted" ELSE "acquire"]

Export(e, r) ==
    /\ answer[e] = "none"
    /\ request' = [request EXCEPT ![e] = r]
    /\ answer' = [answer EXCEPT ![e] = "open"]
    /\ tries' = [tries EXCEPT ![e] = 1]
    /\ Arrive(<<e, 1>>, r)
    /\ UNCHANGED <<table, stmt, done, abandoned>>

\* The same request again, once the last attempt failed or was given up.
Retry(e) ==
    /\ answer[e] = "open"
    /\ tries[e] < MaxAttempts
    /\ pc[Latest(e)] = "aborted" \/ abandoned[Latest(e)]
    /\ tries' = [tries EXCEPT ![e] = @ + 1]
    /\ Arrive(<<e, tries[e] + 1>>, request[e])
    /\ UNCHANGED <<table, request, answer, stmt, done, abandoned>>

\* The exporter hangs up or reaches its deadline, or the answer is lost on
\* its way.  The handler's future is dropped where it stands: it issues
\* nothing more, but what it already sent to the database runs on.
Abandon(e) ==
    LET a == Latest(e) IN
    /\ answer[e] = "open"
    /\ pc[a] # "aborted"
    /\ ~ abandoned[a]
    /\ abandoned' = [abandoned EXCEPT ![a] = TRUE]
    /\ pc' = [pc EXCEPT ![a] = IF @ = "acquire" THEN "aborted" ELSE @]
    /\ UNCHANGED <<table, clientVars, stmt, done>>

\* The answer, of which partial_success is left out.
Reply(e) ==
    LET a == Latest(e) IN
    /\ answer[e] = "open"
    /\ pc[a] = "committed"
    /\ ~ abandoned[a]
    /\ answer' = [answer EXCEPT ![e] = "ok"]
    /\ UNCHANGED <<table, request, tries, pc, stmt, done, abandoned>>

Connections == {a \in Attempts : InTx(a)}

Begin(a) ==
    /\ pc[a] = "acquire"
    /\ Cardinality(Connections) < PoolSize
    /\ pc' = [pc EXCEPT ![a] = "between"]
    /\ UNCHANGED <<table, clientVars, stmt, done, abandoned>>

\* No connection came free within acquire_timeout.
AcquireTimeout(a) ==
    /\ pc[a] = "acquire"
    /\ Cardinality(Connections) >= PoolSize
    /\ pc' = [pc EXCEPT ![a] = "aborted"]
    /\ UNCHANGED <<table, clientVars, stmt, done, abandoned>>

\* Mutant of NextStatement: every statement takes the first chunk again.
NextStatement_FirstChunk(a) ==
    /\ pc[a] = "between"
    /\ ~ abandoned[a]
    /\ Remaining(a) # {}
    /\ stmt' = [stmt EXCEPT ![a] = FirstRows(Kept(Req(a)), ChunkRows)]
    /\ pc' = [pc EXCEPT ![a] = "statement"]
    /\ UNCHANGED <<table, clientVars, done, abandoned>>

\* The next chunk's multi-row INSERT .. ON CONFLICT DO UPDATE is sent.
NextStatement(a) ==
    /\ pc[a] = "between"
    /\ ~ abandoned[a]
    /\ Remaining(a) # {}
    /\ stmt' = [stmt EXCEPT ![a] = FirstRows(Remaining(a), ChunkRows)]
    /\ pc' = [pc EXCEPT ![a] = "statement"]
    /\ UNCHANGED <<table, clientVars, done, abandoned>>

SendCommit(a) ==
    /\ pc[a] = "between"
    /\ ~ abandoned[a]
    /\ Remaining(a) = {}
    /\ pc' = [pc EXCEPT ![a] = "committing"]
    /\ UNCHANGED <<table, clientVars, stmt, done, abandoned>>

-----------------------------------------------------------------------------
\* The database.

\* Mutant of UpsertRow: the statement runs outside the transaction, so its
\* row is visible, and unlocked, at once.
UpsertRow_Autocommit(a) ==
    /\ pc[a] = "statement"
    /\ \E i \in stmt[a] :
        /\ IsNextRow(a, i)
        /\ table' = Overlay(table, a[1], Req(a), {i})
        /\ done' = [done EXCEPT ![a] = @ \cup {i}]
    /\ UNCHANGED <<clientVars, pc, stmt, abandoned>>

\* The running INSERT inserts or updates its next row, waiting while another
\* transaction has that row locked.  A row this very statement already wrote
\* is an error, which ends the transaction.
UpsertRow(a) ==
    /\ pc[a] = "statement"
    /\ \E i \in stmt[a] :
        LET k == Req(a)[i].key IN
        /\ IsNextRow(a, i)
        /\ \A b \in Attempts \ {a} : ~ Holds(b, k)
        /\ IF k \in KeysOf(Req(a), stmt[a] \cap done[a])
           THEN End(a, "aborted")
           ELSE /\ done' = [done EXCEPT ![a] = @ \cup {i}]
                /\ UNCHANGED <<pc, stmt>>
    /\ UNCHANGED <<table, clientVars, abandoned>>

StatementDone(a) ==
    /\ pc[a] = "statement"
    /\ stmt[a] \subseteq done[a]
    /\ stmt' = [stmt EXCEPT ![a] = {}]
    /\ pc' = [pc EXCEPT ![a] = "between"]
    /\ UNCHANGED <<table, clientVars, done, abandoned>>

\* COMMIT takes effect, whether or not anyone still waits for the answer.
Commit(a) ==
    /\ pc[a] = "committing"
    /\ table' = Overlay(table, a[1], Req(a), done[a])
    /\ End(a, "committed")
    /\ UNCHANGED <<clientVars, abandoned>>

\* A dropped transaction is rolled back once its connection is idle again.
Rollback(a) ==
    /\ pc[a] = "between"
    /\ abandoned[a]
    /\ End(a, "aborted")
    /\ UNCHANGED <<table, clientVars, abandoned>>

\* deadlock_timeout: one transaction of a cycle is aborted.
DeadlockVictim(a) ==
    /\ pc[a] = "statement"
    /\ \E b \in Attempts : WaitsFor(a, b)
    /\ \E S \in SUBSET Attempts : a \in S /\ Deadlocked(S)
    /\ End(a, "aborted")
    /\ UNCHANGED <<table, clientVars, abandoned>>

\* The session ends before its COMMIT took effect: server restart, failover,
\* broken connection.  (One lost after it took effect is Commit and Abandon.)
SessionLost(a) ==
    /\ InTx(a)
    /\ End(a, "aborted")
    /\ UNCHANGED <<table, clientVars, abandoned>>

-----------------------------------------------------------------------------
\* Nothing left to do: every attempt is over, every exporter has its answer
\* or has used up its attempts.
Quiet ==
    /\ \A e \in Exporters : answer[e] = "ok" \/ tries[e] = MaxAttempts
    /\ \A a \in Attempts : pc[a] \in {"unused", "committed", "aborted"}
    /\ UNCHANGED vars

Server(a) ==
    \/ Begin(a)
    \/ AcquireTimeout(a)
    \/ NextStatement(a)
    \/ SendCommit(a)
    \/ UpsertRow(a)
    \/ StatementDone(a)
    \/ Commit(a)
    \/ Rollback(a)
    \/ DeadlockVictim(a)

Client(e) ==
    \/ \E r \in Requests : Export(e, r)
    \/ Retry(e)
    \/ Abandon(e)
    \/ Reply(e)

Next ==
    \/ \E e \in Exporters : Client(e)
    \/ \E a \in Attempts : Server(a)
    \/ \E a \in Attempts : SessionLost(a)
    \/ Quiet

\* The runtime polls every handler, the pool serves its waiters, PostgreSQL
\* executes what it was sent and resolves deadlocks.  Nothing is assumed of
\* the exporters, nor of the failures.
Fairness == \A a \in Attempts : WF_vars(Server(a))

Spec == Init /\ [][Next]_vars
FairSpec == Spec /\ Fairness

-----------------------------------------------------------------------------
\* Properties.

\* Every variable stays in its range.
TypeOK ==
    /\ table \in [Keys -> (Exporters \X Nat) \cup {NoRow}]
    /\ request \in [Exporters -> Requests \cup {NoRequest}]
    /\ answer \in [Exporters -> {"none", "open", "ok"}]
    /\ tries \in [Exporters -> 0..MaxAttempts]
    /\ pc \in [Attempts -> PCs]
    /\ stmt \in [Attempts -> SUBSET Nat]
    /\ done \in [Attempts -> SUBSET Nat]
    /\ abandoned \in [Attempts -> BOOLEAN]

\* No INSERT names one row twice, whatever the request repeats and wherever
\* the chunk boundary falls: PostgreSQL would refuse the statement and the
\* whole export with it (dedupe_spans).
NoRowTwiceInStatement ==
    \A a \in Attempts : pc[a] = "statement" =>
        \A i, j \in stmt[a] : Req(a)[i].key = Req(a)[j].key => i = j

\* What a COMMIT is about to make visible is what writing the spans one at a
\* time, each overwriting the earlier ones, would have made of the table: the
\* claim in the comment of dedupe_spans.
BatchIsRowAtATime ==
    \A a \in Attempts : pc[a] = "committing" =>
        Overlay(table, a[1], Req(a), done[a]) = RowAtATime(table, a[1], Req(a))

\* An attempt and the retries of it never deadlock among themselves, though
\* an abandoned one can still be running: each upserts the same rows in the
\* same order, because dedupe_spans sorts what it took out of a hash map.
\* (Exports of different exporters can deadlock: they share no order.)
RetriesNeverDeadlock ==
    \A e \in Exporters : \A S \in SUBSET ({e} \X (1..MaxAttempts)) : ~ Deadlocked(S)

\* Each attempt, once sent, comes to an end and gives its connection and its
\* locks back, whatever the others do: no waiting for a connection or a row
\* lasts for ever.
Settles ==
    \A a \in Attempts :
        pc[a] # "unused" ~> pc[a] \in {"committed", "aborted"}

\* The export path keeps the promise of SpanStore: atomic, last span wins,
\* success only for what is stored, nothing written after success is reported.
Store == INSTANCE SpanStore WITH
            applied <- {e \in Exporters :
                          \E n \in 1..MaxAttempts : pc[<<e, n>>] = "committed"}
ImplementsStore == Store!Spec
=============================================================================
