----------------------------- MODULE Lifecycle ------------------------------
(***************************************************************************)
(* The life of the service's processes: main and Store::migrate, for the    *)
(* instances that share one database, under a supervisor that starts them   *)
(* again when they fail (systemd/otelview-postgres.service).                *)
(*                                                                          *)
(* A migration file is one message and one implicit transaction.  Objects   *)
(* that exist are skipped, but a CREATE INDEX locks its table first, and so *)
(* waits for transactions that write it and keeps later ones waiting.       *)
(* CREATE .. IF NOT EXISTS of an object another transaction is creating     *)
(* waits for that one and then fails, if it committed.  A file whose        *)
(* process has died runs on in the database.                                *)
(***************************************************************************)
EXTENDS Naturals, FiniteSets, Sequences, SequencesExt

CONSTANTS Instances,
          Orphans,       \* names for the transactions of dead processes
          Idle,          \* a session without a transaction
          Unset,         \* RETENTION is not set
          Settings,      \* what RETENTION and RETENTION_SWEEP_INTERVAL may be
          Word,          \* 2^64
          WriteTables,   \* bound: the tables that are written
          MaxFaults      \* bound: crashes, lost sessions, stops

\* The table each migration file is about; the fourth indexes the first's.
TableOf == <<"spans", "logs", "metric_points", "spans">>
Files == DOMAIN TableOf
Tables == {TableOf[f] : f \in Files}

Raw == [n : Nat, unit : {"h", "d", "w", "m", "other"}]

ASSUME NamesAssumption == Orphans \cap Instances = {}
ASSUME SettingsAssumption ==
    \A c \in Settings : c.retention \in Raw \cup {Unset} /\ c.interval \in Raw
ASSUME BoundsAssumption ==
    /\ Word \in Nat \ {0}
    /\ WriteTables \subseteq Tables
    /\ MaxFaults \in Nat

VARIABLES config,    \* the environment file, the same for all instances
          applied,   \* the migration files whose objects exist
          contrib,   \* pg_trgm's files are installed on the database server
          pc,        \* instance -> where main is
          wanted,    \* instance -> the operator wants it to run
          file,      \* instance -> the migration file it runs or runs next
          task,      \* instance -> its retention task
          txn,       \* instance or orphan -> its transaction, or Idle
          queue,     \* table -> sessions that lock it or wait to, in order
          faults

processVars == <<pc, wanted, file, task>>
vars == <<config, applied, contrib, pc, wanted, file, task, txn, queue, faults>>

\* An instance has one transaction at a time here; sessions are named for it.
Sessions == Instances \cup Orphans

\* off         not running, by the operator's will or after a clean end
\* failed      ended with an error or a signal: started again if wanted
\* connecting  up to the pools' first connections
\* migrating   in Store::migrate
\* configuring between migrate and the retention task
\* binding     up to the listening socket
\* serving     accepting calls, or, no longer wanted, finishing the open ones
PCs == {"off", "failed", "connecting", "migrating", "configuring", "binding", "serving"}

\* lock  a file waits for its table or has just got it
\* make  it found an object missing and creates it
\* made  it has created its objects, uncommitted
\* skip  its objects exist
\* write an export or a DELETE of the sweep
Txn == [stage : {"lock", "make", "made", "skip"}, on : Files]
       \cup [stage : {"write"}, on : Tables]

ASSUME IdleAssumption == Idle \notin Txn

Busy == {s \in Sessions : txn[s] # Idle}
Migrates == {s \in Busy : txn[s].stage # "write"}
Writes == {s \in Busy : txn[s].stage = "write"}

Init ==
    /\ config \in Settings
    /\ \E n \in 0..Len(TableOf) : applied = 1..n    \* an older release's schema
    /\ contrib \in BOOLEAN
    /\ pc = [i \in Instances |-> "off"]
    /\ wanted = [i \in Instances |-> FALSE]
    /\ file = [i \in Instances |-> 1]
    /\ task = [i \in Instances |-> "none"]
    /\ txn = [s \in Sessions |-> Idle]
    /\ queue = [t \in Tables |-> <<>>]
    /\ faults = 0

-----------------------------------------------------------------------------
\* The database: table locks, first come first served.

\* Writers do not exclude one another, and neither do two CREATE INDEX.
Compatible(s, o) == s \in Writes <=> o \in Writes

Locked(s) == IF s \in Writes THEN txn[s].on ELSE TableOf[txn[s].on]

Granted(s) ==
    LET q == queue[Locked(s)] IN
    \E k \in DOMAIN q : q[k] = s /\ \A j \in 1..(k - 1) : Compatible(q[j], s)

\* Another transaction has created objects of the same file, uncommitted.
BeingMade(s) == \E o \in Migrates \ {s} : txn[o].stage = "made" /\ txn[o].on = txn[s].on

Waits(s) == \/ txn[s].stage \in {"lock", "write"} /\ ~ Granted(s)
            \/ txn[s].stage = "make" /\ BeingMade(s)

Begin(i, t) == txn' = [txn EXCEPT ![i] = t]
Line(i, t) == queue' = [queue EXCEPT ![t] = Append(@, i)]

End(s) ==
    /\ txn' = [txn EXCEPT ![s] = Idle]
    /\ queue' = [t \in Tables |-> RemoveFirst(queue[t], s)]   \* it is in one, once

\* The process dies.  What its session was sent runs on, as an orphan.
Die(i) ==
    /\ file' = [file EXCEPT ![i] = 1]
    /\ task' = [task EXCEPT ![i] = "none"]
    /\ IF txn[i] = Idle THEN UNCHANGED <<txn, queue>>
       ELSE \E o \in Orphans \ Busy :
                /\ txn' = [txn EXCEPT ![i] = Idle, ![o] = txn[i]]
                /\ queue' = [t \in Tables |-> ReplaceAll(queue[t], i, o)]

-----------------------------------------------------------------------------
\* parse_retention.

HoursPer == [h |-> 1, d |-> 24, w |-> 24 * 7, m |-> 24 * 30]

Refused(raw) == raw.n \notin 1..(Word - 1) \/ raw.unit \notin DOMAIN HoursPer

\* What was asked for, and what u64 makes of it.
Asked(raw) == raw.n * HoursPer[raw.unit] * 3600
Seconds(raw) == (((raw.n * HoursPer[raw.unit]) % Word) * 3600) % Word

-----------------------------------------------------------------------------
\* The supervisor and the operator.

Start(i) ==
    /\ ~ wanted[i]
    /\ pc[i] \in {"off", "failed"}
    /\ wanted' = [wanted EXCEPT ![i] = TRUE]
    /\ pc' = [pc EXCEPT ![i] = "connecting"]
    /\ UNCHANGED <<config, applied, contrib, file, task, txn, queue, faults>>

\* RestartSec after a failure; the spacing is not modelled.
Restart(i) ==
    /\ wanted[i]
    /\ pc[i] = "failed"
    /\ pc' = [pc EXCEPT ![i] = "connecting"]
    /\ UNCHANGED <<config, applied, contrib, wanted, file, task, txn, queue, faults>>

\* SIGTERM.  Until serve_with_shutdown waits for it, it ends the process; then
\* the server finishes its open calls (Drained).
Stop(i) ==
    /\ wanted[i]
    /\ faults < MaxFaults
    /\ faults' = faults + 1
    /\ wanted' = [wanted EXCEPT ![i] = FALSE]
    /\ IF pc[i] = "serving" THEN UNCHANGED <<pc, file, task, txn, queue>>
       ELSE pc' = [pc EXCEPT ![i] = "off"] /\ Die(i)
    /\ UNCHANGED <<config, applied, contrib>>

\* The last open call is answered, or TimeoutStopSec is over and SIGKILL ends
\* the process; the sweep's DELETE, if one runs, is left to the database.
Drained(i) ==
    /\ pc[i] = "serving"
    /\ ~ wanted[i]
    /\ pc' = [pc EXCEPT ![i] = "off"]
    /\ Die(i)
    /\ UNCHANGED <<config, applied, contrib, wanted, faults>>

\* A panic, a signal, the host.
Crash(i) ==
    /\ pc[i] \notin {"off", "failed"}
    /\ faults < MaxFaults
    /\ faults' = faults + 1
    /\ pc' = [pc EXCEPT ![i] = "failed"]
    /\ Die(i)
    /\ UNCHANGED <<config, applied, contrib, wanted>>

\* The operator installs PostgreSQL's contrib modules.
InstallContrib ==
    /\ ~ contrib
    /\ contrib' = TRUE
    /\ UNCHANGED <<config, applied, processVars, txn, queue, faults>>

-----------------------------------------------------------------------------
\* main and migrate.

\* The pools connect; without a connection main fails, as in a Crash.
Connect(i) ==
    /\ pc[i] = "connecting"
    /\ pc' = [pc EXCEPT ![i] = "migrating"]
    /\ file' = [file EXCEPT ![i] = 1]
    /\ UNCHANGED <<config, applied, contrib, wanted, task, txn, queue, faults>>

\* CREATE TABLE IF NOT EXISTS finds no table.
Missing(f) == f \in 1..3 \ applied

\* The file is sent.  It creates its table, or locks the one that exists.
SendFile(i) ==
    LET f == file[i] IN
    /\ pc[i] = "migrating"
    /\ txn[i] = Idle
    /\ IF Missing(f)
       THEN /\ Begin(i, [stage |-> "make", on |-> f])
            /\ UNCHANGED queue
       ELSE /\ Begin(i, [stage |-> "lock", on |-> f])
            /\ Line(i, TableOf[f])
    /\ UNCHANGED <<config, applied, contrib, processVars, faults>>

\* With the lock, CREATE INDEX IF NOT EXISTS looks for the index.
LockTable(s) ==
    /\ s \in Migrates
    /\ txn[s].stage = "lock"
    /\ ~ Waits(s)
    /\ txn' = [txn EXCEPT ![s].stage = IF txn[s].on \in applied THEN "skip" ELSE "make"]
    /\ UNCHANGED <<config, applied, contrib, processVars, queue, faults>>

Make(s) ==
    /\ s \in Migrates
    /\ txn[s].stage = "make"
    /\ ~ Waits(s)
    /\ txn[s].on \notin applied
    /\ txn' = [txn EXCEPT ![s].stage = "made"]
    /\ UNCHANGED <<config, applied, contrib, processVars, queue, faults>>

\* Mutant of After: off by one.
After_OffByOne(f) == IF f <= Len(TableOf) THEN <<"migrating", f + 1>> ELSE <<"configuring", f>>

\* Mutant of After: 0004 was not added to the list.
After_OldList(f) == IF f < 3 THEN <<"migrating", f + 1>> ELSE <<"configuring", f>>

\* Where main is after a file: at the next one, or done with migrate.
After(f) == IF f < Len(TableOf) THEN <<"migrating", f + 1>> ELSE <<"configuring", 1>>

Proceed(s) ==
    /\ pc' = [i \in Instances |-> IF i = s THEN After(txn[s].on)[1] ELSE pc[i]]
    /\ file' = [i \in Instances |-> IF i = s THEN After(txn[s].on)[2] ELSE file[i]]

\* Mutant of FileFails: the error is logged, and the next file is run.
FileFails_Ignored(s) == End(s) /\ Proceed(s)

\* Mutant of FileFails: main reports the error and ends without one.
FileFails_ExitsCleanly(s) ==
    /\ End(s)
    /\ pc' = [i \in Instances |-> IF i = s THEN "off" ELSE pc[i]]
    /\ file' = [i \in Instances |-> IF i = s THEN 1 ELSE file[i]]

\* The transaction is rolled back, and `?` ends main.
FileFails(s) ==
    /\ End(s)
    /\ pc' = [i \in Instances |-> IF i = s THEN "failed" ELSE pc[i]]
    /\ file' = [i \in Instances |-> IF i = s THEN 1 ELSE file[i]]

\* unique_violation: the object was missing, and now another has created it.
LoseRace(s) ==
    /\ s \in Migrates
    /\ txn[s].stage = "make"
    /\ ~ Waits(s)
    /\ txn[s].on \in applied
    /\ FileFails(s)
    /\ UNCHANGED <<config, applied, contrib, wanted, task, faults>>

\* CREATE EXTENSION pg_trgm; lack of privilege is the only error it may have.
ExtensionMissing(s) == txn[s].on = 2 /\ ~ contrib

ExtensionFails(s) ==
    /\ s \in Migrates
    /\ txn[s].stage \in {"made", "skip"}
    /\ ExtensionMissing(s)
    /\ FileFails(s)
    /\ UNCHANGED <<config, applied, contrib, wanted, task, faults>>

\* Mutant of FinishFile: a file whose objects exist leaves its transaction open.
FinishFile_LeftOpen(s) ==
    /\ s \in Migrates
    /\ txn[s].stage \in {"made", "skip"}
    /\ ~ ExtensionMissing(s)
    /\ applied' = applied \cup {txn[s].on}
    /\ IF txn[s].stage = "made" THEN End(s) ELSE UNCHANGED <<txn, queue>>
    /\ Proceed(s)
    /\ UNCHANGED <<config, contrib, wanted, task, faults>>

\* The implicit transaction commits, and main goes on.
FinishFile(s) ==
    /\ s \in Migrates
    /\ txn[s].stage \in {"made", "skip"}
    /\ ~ ExtensionMissing(s)
    /\ applied' = applied \cup {txn[s].on}
    /\ End(s)
    /\ Proceed(s)
    /\ UNCHANGED <<config, contrib, wanted, task, faults>>

\* Mutant of Configure: a RETENTION that is refused is reported and ignored.
Configure_Lenient(i) ==
    /\ pc[i] = "configuring"
    /\ task' = [task EXCEPT ![i] =
                    IF config.retention = Unset \/ Refused(config.retention) THEN "none"
                    ELSE "running"]
    /\ pc' = [pc EXCEPT ![i] = "binding"]
    /\ UNCHANGED <<config, applied, contrib, wanted, file, txn, queue, faults>>

\* RETENTION is parsed, and the interval only with it.  tokio's interval
\* refuses zero with a panic, which ends the task and nothing else.
Configure(i) ==
    /\ pc[i] = "configuring"
    /\ \/ /\ config.retention = Unset
          /\ pc' = [pc EXCEPT ![i] = "binding"]
          /\ UNCHANGED task
       \/ /\ config.retention # Unset
          /\ Refused(config.retention) \/ Refused(config.interval)
          /\ pc' = [pc EXCEPT ![i] = "failed"]
          /\ UNCHANGED task
       \/ /\ config.retention # Unset
          /\ ~ Refused(config.retention) /\ ~ Refused(config.interval)
          /\ task' = [task EXCEPT ![i] = IF Seconds(config.interval) = 0 THEN "dead"
                                         ELSE "running"]
          /\ pc' = [pc EXCEPT ![i] = "binding"]
    /\ UNCHANGED <<config, applied, contrib, wanted, file, txn, queue, faults>>

\* The socket; where that fails main fails, as in a Crash.
Bind(i) ==
    /\ pc[i] = "binding"
    /\ pc' = [pc EXCEPT ![i] = "serving"]
    /\ UNCHANGED <<config, applied, contrib, wanted, file, task, txn, queue, faults>>

\* An export while the server takes calls, a DELETE while the task runs.  An
\* instance has one transaction at a time here.
Write(i, t) ==
    /\ (pc[i] = "serving" /\ wanted[i]) \/ task[i] = "running"
    /\ txn[i] = Idle
    /\ Begin(i, [stage |-> "write", on |-> t])
    /\ Line(i, t)
    /\ UNCHANGED <<config, applied, contrib, processVars, faults>>

\* It commits or is rolled back.
EndWrite(s) ==
    /\ s \in Writes
    /\ ~ Waits(s)
    /\ End(s)
    /\ UNCHANGED <<config, applied, contrib, processVars, faults>>

\* A backend that sends its dead client a notice may learn that it is gone.
NoticeGone(s) ==
    /\ s \in Busy \cap Orphans
    /\ ~ Waits(s)
    /\ End(s)
    /\ UNCHANGED <<config, applied, contrib, processVars, faults>>

\* A full disk, a killed backend, a broken connection.
LoseSession(s) ==
    /\ s \in Busy
    /\ faults < MaxFaults
    /\ faults' = faults + 1
    /\ IF s \in Migrates THEN FileFails(s) ELSE End(s) /\ UNCHANGED <<pc, file>>
    /\ UNCHANGED <<config, applied, contrib, wanted, task>>

-----------------------------------------------------------------------------
Process(i) ==
    Restart(i) \/ Connect(i) \/ SendFile(i) \/ Configure(i) \/ Bind(i) \/ Drained(i)

Session(s) ==
    \/ LockTable(s) \/ Make(s) \/ LoseRace(s) \/ ExtensionFails(s) \/ FinishFile(s)
    \/ EndWrite(s)

Next ==
    \/ \E i \in Instances : Process(i) \/ Start(i) \/ Stop(i) \/ Crash(i)
    \/ \E i \in Instances, t \in WriteTables : Write(i, t)
    \/ \E s \in Sessions : Session(s) \/ NoticeGone(s) \/ LoseSession(s)
    \/ InstallContrib

\* Processes and the database's sessions make progress, and the supervisor
\* restarts what failed; nobody need ever start, stop, write or install.
Fairness ==
    /\ \A i \in Instances : WF_vars(Process(i))
    /\ \A s \in Sessions : WF_vars(Session(s))

Spec == Init /\ [][Next]_vars
FairSpec == Spec /\ Fairness

-----------------------------------------------------------------------------
\* Properties.

\* Every variable stays in its range.
TypeOK ==
    /\ config \in Settings
    /\ applied \subseteq Files
    /\ contrib \in BOOLEAN
    /\ pc \in [Instances -> PCs]
    /\ wanted \in [Instances -> BOOLEAN]
    /\ file \in [Instances -> Files]
    /\ task \in [Instances -> {"none", "running", "dead"}]
    /\ txn \in [Sessions -> Txn \cup {Idle}]
    /\ queue \in [Tables -> Seq(Sessions)]
    /\ faults \in 0..MaxFaults

\* No call is taken and no sweep begun before every migration is in the
\* database, whoever of the instances ran it, in whatever state earlier ones
\* that died left the schema.
ServesWholeSchema ==
    \A i \in Instances : pc[i] = "serving" \/ task[i] = "running" => applied = Files

\* Whoever dies or fails in the middle, and however late what it sent takes
\* effect: the schema is that of the first files, so a start, also one of an
\* older release, finds a state that some start has left.
SchemaIsPrefix == \E n \in 0..Len(TableOf) : applied = 1..n

\* "a typo silently keeping data forever is exactly the failure mode a
\* retention knob exists to prevent" (main): an instance that serves with
\* RETENTION set has a task that sweeps with the period asked for, unless that
\* or the interval is more seconds than u64 holds.
RetentionAsConfigured ==
    \A i \in Instances : pc[i] = "serving" /\ config.retention # Unset =>
        /\ ~ Refused(config.retention)
        /\ ~ Refused(config.interval)
        /\ (Asked(config.retention) < Word /\ Asked(config.interval) < Word) =>
              task[i] = "running" /\ Seconds(config.retention) = Asked(config.retention)

Accepted == config.retention # Unset =>
                ~ Refused(config.retention) /\ ~ Refused(config.interval)

\* An instance that is wanted serves in the end: lost races, crashes and lost
\* sessions are healed by restarts, and CREATE INDEX gets its lock although
\* other instances go on writing.  Only a RETENTION that is refused and
\* a database server without pg_trgm prevent it.
EventuallyServes ==
    \A i \in Instances :
        wanted[i] ~> pc[i] = "serving" \/ ~ wanted[i] \/ ~ contrib \/ ~ Accepted

\* Every export and DELETE ends, although the migrations of other instances,
\* dead ones among them, lock its table.
WritesEnd == \A s \in Sessions : s \in Writes ~> s \notin Writes
=============================================================================
