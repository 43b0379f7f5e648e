---------------------------- MODULE AppendExport ----------------------------
(***************************************************************************)
(* LogsService/Export and MetricsService/Export: write_logs and             *)
(* write_metrics flatten a request into rows, and insert these in chunks in *)
(* one transaction.  The tables have no key of their own, so nothing locks  *)
(* and nothing is overwritten: every attempt that commits adds a copy.  The *)
(* connection pool and what a failing statement may be are in SpanExport;   *)
(* here an attempt fails for any reason, wherever it stands.                *)
(***************************************************************************)
EXTENDS Naturals, FiniteSets, Sequences

CONSTANTS Exporters,
          Records,      \* log records or data points; does every 64-bit field
                        \* of one fit its column (`fits`)?
          Requests,     \* the requests an exporter may send
          NoRequest,    \* an exporter that has not exported yet
          ChunkRows,    \* INSERT_CHUNK_ROWS
          MaxAttempts   \* bound: how often an exporter sends its request

ASSUME RequestsAssumption ==
    /\ \A r \in Records : r.fits \in BOOLEAN
    /\ Requests \subseteq Seq(Records)
ASSUME SizesAssumption == ChunkRows \in Nat \ {0} /\ MaxAttempts \in Nat \ {0}

VARIABLES table,      \* committed rows: <<attempt, index>>
          request,    \* exporter -> the request it sends
          answer,     \* exporter -> "none", "open", "ok": what it knows
          tries,      \* exporter -> how many attempts it has made
          pc,         \* attempt -> where its handler and transaction are
          inserted,   \* attempt -> rows its transaction has inserted
          abandoned   \* attempt -> its exporter will never learn how it ended

vars == <<table, request, answer, tries, pc, inserted, abandoned>>
clientVars == <<request, answer, tries>>

Attempts == Exporters \X (1..MaxAttempts)

\* unused      not sent yet
\* between     rows built, no statement running (before `begin` or after it)
\* inserting   an INSERT is running
\* committing  COMMIT has been sent
\* committed   the database has committed
\* empty       nothing to write: over without a transaction
\* aborted     over without effect
PCs == {"unused", "between", "inserting", "committing", "committed", "empty", "aborted"}

Req(a) == request[a[1]]
Latest(e) == <<e, tries[e]>>

Init ==
    /\ table = {}
    /\ request = [e \in Exporters |-> NoRequest]
    /\ answer = [e \in Exporters |-> "none"]
    /\ tries = [e \in Exporters |-> 0]
    /\ pc = [a \in Attempts |-> "unused"]
    /\ inserted = [a \in Attempts |-> 0]
    /\ abandoned = [a \in Attempts |-> FALSE]

-----------------------------------------------------------------------------
\* The exporter and the handler.

Overflows(r) == \E i \in DOMAIN r : ~ r[i].fits

\* Up to `begin`: one record that does not fit gives up the request; an empty
\* one is stored without asking the database.
Arrive(a, r) ==
    pc' = [pc EXCEPT ![a] = IF Overflows(r) THEN "aborted"
                            ELSE IF r = <<>> THEN "empty" ELSE "between"]

Export(e, r) ==
    /\ answer[e] = "none"
    /\ request' = [request EXCEPT ![e] = r]
    /\ answer' = [answer EXCEPT ![e] = "open"]
    /\ tries' = [tries EXCEPT ![e] = 1]
    /\ Arrive(<<e, 1>>, r)
    /\ UNCHANGED <<table, inserted, abandoned>>

\* The same request again, once the last attempt failed or was given up.
Retry(e) ==
    /\ answer[e] = "open"
    /\ tries[e] < MaxAttempts
    /\ pc[Latest(e)] = "aborted" \/ abandoned[Latest(e)]
    /\ tries' = [tries EXCEPT ![e] = @ + 1]
    /\ Arrive(<<e, tries[e] + 1>>, request[e])
    /\ UNCHANGED <<table, request, answer, inserted, abandoned>>

\* The exporter stops waiting, or the answer is lost.  Between statements the
\* dropped transaction is rolled back; what was sent runs on.
Abandon(e) ==
    LET a == Latest(e) IN
    /\ answer[e] = "open"
    /\ pc[a] # "aborted"
    /\ ~ abandoned[a]
    /\ abandoned' = [abandoned EXCEPT ![a] = TRUE]
    /\ pc' = [pc EXCEPT ![a] = IF @ = "between" THEN "aborted" ELSE @]
    /\ UNCHANGED <<table, clientVars, inserted>>

\* Mutant of Reply: the answer does not wait for the commit.
Reply_Early(e) ==
    LET a == Latest(e) IN
    /\ answer[e] = "open"
    /\ pc[a] \in {"committing", "committed", "empty"}
    /\ ~ abandoned[a]
    /\ answer' = [answer EXCEPT ![e] = "ok"]
    /\ UNCHANGED <<table, request, tries, pc, inserted, abandoned>>

Reply(e) ==
    LET a == Latest(e) IN
    /\ answer[e] = "open"
    /\ pc[a] \in {"committed", "empty"}
    /\ ~ abandoned[a]
    /\ answer' = [answer EXCEPT ![e] = "ok"]
    /\ UNCHANGED <<table, request, tries, pc, inserted, abandoned>>

\* The next chunk, or after the last one COMMIT.
SendInsert(a) ==
    /\ pc[a] = "between"
    /\ inserted[a] < Len(Req(a))
    /\ pc' = [pc EXCEPT ![a] = "inserting"]
    /\ UNCHANGED <<table, clientVars, inserted, abandoned>>

SendCommit(a) ==
    /\ pc[a] = "between"
    /\ inserted[a] = Len(Req(a))
    /\ pc' = [pc EXCEPT ![a] = "committing"]
    /\ UNCHANGED <<table, clientVars, inserted, abandoned>>

-----------------------------------------------------------------------------
\* The database.

\* Mutant of ChunkEnd: every chunk is taken for a full one.
ChunkEnd_Full(a) == inserted[a] + ChunkRows

ChunkEnd(a) == IF inserted[a] + ChunkRows <= Len(Req(a))
               THEN inserted[a] + ChunkRows ELSE Len(Req(a))

\* A statement that nobody waits for any more is the transaction's last.
InsertDone(a) ==
    /\ pc[a] = "inserting"
    /\ inserted' = [inserted EXCEPT ![a] = ChunkEnd(a)]
    /\ pc' = [pc EXCEPT ![a] = IF abandoned[a] THEN "aborted" ELSE "between"]
    /\ UNCHANGED <<table, clientVars, abandoned>>

\* Mutant of Commit: the handler returns an error after the commit.
Commit_ThenFails(a) ==
    /\ pc[a] = "committing"
    /\ table' = table \cup {<<a, i>> : i \in 1..inserted[a]}
    /\ pc' = [pc EXCEPT ![a] = "aborted"]
    /\ UNCHANGED <<clientVars, inserted, abandoned>>

Commit(a) ==
    /\ pc[a] = "committing"
    /\ table' = table \cup {<<a, i>> : i \in 1..inserted[a]}
    /\ pc' = [pc EXCEPT ![a] = "committed"]
    /\ UNCHANGED <<clientVars, inserted, abandoned>>

\* COMMIT takes effect, but its session breaks before saying so: the handler
\* reports an error for rows that are stored.
CommitUnseen(a) ==
    /\ pc[a] = "committing"
    /\ table' = table \cup {<<a, i>> : i \in 1..inserted[a]}
    /\ pc' = [pc EXCEPT ![a] = "committed"]
    /\ abandoned' = [abandoned EXCEPT ![a] = TRUE]
    /\ UNCHANGED <<clientVars, inserted>>

\* No connection, a failing statement, a lost session, before COMMIT took effect.
Fail(a) ==
    /\ pc[a] \in {"between", "inserting", "committing"}
    /\ pc' = [pc EXCEPT ![a] = "aborted"]
    /\ UNCHANGED <<table, clientVars, inserted, abandoned>>

-----------------------------------------------------------------------------
Quiet ==
    /\ \A e \in Exporters : answer[e] = "ok" \/ tries[e] = MaxAttempts
    /\ \A a \in Attempts : pc[a] \in {"unused", "committed", "empty", "aborted"}
    /\ UNCHANGED vars

Client(e) ==
    \/ \E r \in Requests : Export(e, r)
    \/ Retry(e)
    \/ Abandon(e)
    \/ Reply(e)

Server(a) == SendInsert(a) \/ SendCommit(a) \/ InsertDone(a) \/ Commit(a)
             \/ CommitUnseen(a) \/ Fail(a)

Next ==
    \/ \E e \in Exporters : Client(e)
    \/ \E a \in Attempts : Server(a)
    \/ Quiet

Spec == Init /\ [][Next]_vars

-----------------------------------------------------------------------------
\* Properties.

\* Every variable stays in its range, and no transaction inserts more rows
\* than its request has.
TypeOK ==
    /\ table \subseteq Attempts \X (Nat \ {0})
    /\ request \in [Exporters -> Requests \cup {NoRequest}]
    /\ answer \in [Exporters -> {"none", "open", "ok"}]
    /\ tries \in [Exporters -> 0..MaxAttempts]
    /\ pc \in [Attempts -> PCs]
    /\ inserted \in [Attempts -> Nat]
    /\ \A a \in Attempts : pc[a] # "unused" => inserted[a] <= Len(Req(a))
    /\ abandoned \in [Attempts -> BOOLEAN]

\* Does the table show records of the attempt?
Stored(a) == \E row \in table : row[1] = a

\* An exporter's records are stored twice only when it never learned how an
\* attempt ended whose COMMIT had been sent: of the attempts it was told of, at
\* most one is in the table (write_logs and write_metrics never write and then
\* fail, and nobody retries what was reported stored).
CopiesForCause ==
    \A a, b \in Attempts :
        (a # b /\ a[1] = b[1] /\ Stored(a) /\ Stored(b)) => (abandoned[a] \/ abandoned[b])

\* The export path keeps the promise of AppendStore: whole requests, and
\* success only for what is stored.
Store == INSTANCE AppendStore WITH Copies <- 1..MaxAttempts
ImplementsStore == Store!Spec
=============================================================================
