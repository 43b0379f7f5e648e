-------------------------- MODULE LifecycleProofs --------------------------
(***************************************************************************)
(* The schema grows in order and is whole before a call is taken, for any   *)
(* number of instances, faults and orphaned transactions.                   *)
(***************************************************************************)
EXTENDS Lifecycle, WellFoundedInduction, TLAPS

\* A live file is the one its process is at, and no file runs, alive or
\* orphaned, before all earlier ones have been committed.
Ready(f) == 1..(f - 1) \subseteq applied

Shape ==
    /\ pc \in [Instances -> PCs]
    /\ file \in [Instances -> Files]
    /\ task \in [Instances -> {"none", "running", "dead"}]
    /\ txn \in [Sessions -> Txn \cup {Idle}]

AtItsFile ==
    \A i \in Instances :
        i \in Migrates => pc[i] = "migrating" /\ txn[i].on = file[i]

FilesInOrder ==
    /\ \A i \in Instances : pc[i] = "migrating" => Ready(file[i])
    /\ \A s \in Migrates : Ready(txn[s].on)

WholeWhenReady ==
    \A i \in Instances :
        pc[i] \in {"configuring", "binding", "serving"} \/ task[i] # "none" => applied = Files

IInv == Shape /\ AtItsFile /\ SchemaIsPrefix /\ FilesInOrder /\ WholeWhenReady

LEMMA FourFiles == Files = 1..4 /\ Len(TableOf) = 4
BY DEF Files, TableOf

LEMMA TableNames == \A f \in Files : TableOf[f] \in Tables
BY DEF Tables

\* A transaction is idle, a write, or runs a file.
LEMMA Kinds ==
    ASSUME NEW t \in Txn \cup {Idle}
    PROVE  /\ t # Idle /\ t.stage # "write" => t.on \in Files
           /\ t # Idle => t.stage \in {"lock", "make", "made", "skip", "write"}
BY DEF Txn

LEMMA Start_IInv == Init => IInv
<1> SUFFICES ASSUME Init PROVE IInv
    OBVIOUS
<1>1. Shape
  BY FourFiles DEF Init, Shape, PCs
<1>2. Migrates = {}
  BY DEF Init, Migrates, Busy
<1>3. SchemaIsPrefix
  BY DEF Init, SchemaIsPrefix
<1> QED
  BY <1>1, <1>2, <1>3 DEF Init, IInv, AtItsFile, FilesInOrder, WholeWhenReady

-----------------------------------------------------------------------------
\* What the database's steps do to the transactions.

\* A transaction that ends is gone, and the others stay as they are.
LEMMA EndOfOne ==
    ASSUME Shape, NEW s \in Sessions, End(s)
    PROVE  /\ txn' \in [Sessions -> Txn \cup {Idle}]
           /\ Migrates' = Migrates \ {s}
           /\ \A o \in Migrates' : txn'[o] = txn[o]
<1>1. /\ txn' \in [Sessions -> Txn \cup {Idle}]
      /\ txn'[s] = Idle
      /\ \A o \in Sessions \ {s} : txn'[o] = txn[o]
  BY DEF End, Shape
<1> QED
  BY <1>1 DEF Migrates, Busy

\* The transaction of a process that dies goes on under an orphan's name.
LEMMA Orphaned ==
    ASSUME Shape, NEW i \in Instances, Die(i)
    PROVE  /\ txn' \in [Sessions -> Txn \cup {Idle}]
           /\ i \notin Migrates'
           /\ \A o \in Instances \ {i} : txn'[o] = txn[o]
           /\ \A o \in Migrates' : \E x \in Migrates : txn'[o] = txn[x]
<1>1. i \in Sessions
  BY DEF Sessions
<1>2. CASE txn[i] = Idle
  <2>1. txn' = txn
    BY <1>2 DEF Die
  <2> QED
    BY <1>2, <2>1 DEF Shape, Migrates, Busy
<1>3. CASE txn[i] # Idle
  <2>1. PICK o \in Orphans \ Busy : txn' = [txn EXCEPT ![i] = Idle, ![o] = txn[i]]
    BY <1>3 DEF Die
  <2>2. o \in Sessions /\ o # i /\ o \notin Instances
    BY <2>1, NamesAssumption DEF Sessions
  <2>3. /\ txn' \in [Sessions -> Txn \cup {Idle}]
        /\ txn'[i] = Idle /\ txn'[o] = txn[i]
        /\ \A x \in Sessions \ {i, o} : txn'[x] = txn[x]
    BY <1>1, <2>1, <2>2 DEF Shape
  <2>4. \A x \in Instances \ {i} : txn'[x] = txn[x]
    BY <2>2, <2>3 DEF Sessions
  <2>5. ASSUME NEW x \in Migrates' PROVE \E y \in Migrates : txn'[x] = txn[y]
    <3>1. x \in Sessions /\ txn'[x] # Idle /\ txn'[x].stage # "write"
      BY DEF Migrates, Busy
    <3>2. CASE x = o
      BY <1>1, <1>3, <2>3, <3>1, <3>2 DEF Migrates, Busy
    <3>3. CASE x # o
      BY <2>3, <3>1, <3>3 DEF Migrates, Busy
    <3> QED
      BY <3>2, <3>3
  <2> QED
    BY <1>3, <2>3, <2>4, <2>5 DEF Migrates, Busy
<1> QED
  BY <1>2, <1>3

-----------------------------------------------------------------------------
\* Each step keeps the invariant.

\* As long as the schema does not change, it is enough to look at the
\* processes that move and at the files that are begun.
LEMMA SchemaStays ==
    ASSUME IInv, Shape', applied' = applied, AtItsFile',
           \A i \in Instances : pc'[i] = "migrating" => Ready(file'[i]),
           \A s \in Migrates' : Ready(txn'[s].on),
           WholeWhenReady'
    PROVE  IInv'
BY DEF IInv, FilesInOrder, Ready, SchemaIsPrefix

\* One process moves between stages that run no file.
LEMMA ProcessMoves ==
    ASSUME IInv, NEW i \in Instances, NEW p \in PCs, NEW k \in {"none", "running", "dead"},
           NEW f \in Files,
           pc' = [pc EXCEPT ![i] = p], task' = [task EXCEPT ![i] = k],
           file' = [file EXCEPT ![i] = f],
           UNCHANGED <<applied, txn>>,
           i \notin Migrates,
           p = "migrating" => f = 1,
           p \in {"configuring", "binding", "serving"} \/ k # "none" => applied = Files
    PROVE  IInv'
<1>1. Shape'
  BY DEF IInv, Shape
<1>2. Migrates' = Migrates
  BY DEF Migrates, Busy
<1>3. AtItsFile'
  BY <1>2 DEF IInv, Shape, AtItsFile
<1>4. WholeWhenReady'
  BY DEF IInv, Shape, WholeWhenReady
<1>5. \A o \in Instances : pc'[o] = "migrating" => Ready(file'[o])
  BY FourFiles DEF IInv, Shape, FilesInOrder, Ready
<1>6. \A s \in Migrates' : Ready(txn'[s].on)
  BY <1>2 DEF IInv, FilesInOrder
<1> QED
  BY <1>1, <1>3, <1>4, <1>5, <1>6, SchemaStays

\* An instance begins a transaction.
LEMMA Begins ==
    ASSUME IInv, NEW i \in Instances, NEW t \in Txn, Begin(i, t),
           UNCHANGED <<applied, pc, file, task>>,
           t.stage # "write" => pc[i] = "migrating" /\ t.on = file[i]
    PROVE  IInv'
<1>1. txn' \in [Sessions -> Txn \cup {Idle}] /\ i \in Sessions
  BY DEF IInv, Shape, Begin, Sessions
<1>2. \A s \in Migrates' : \/ s \in Migrates /\ txn'[s] = txn[s]
                           \/ s = i /\ txn'[s] = t /\ t.stage # "write"
  BY <1>1 DEF IInv, Shape, Begin, Migrates, Busy
<1>3. Shape'
  BY <1>1 DEF IInv, Shape
<1>4. AtItsFile'
  BY <1>2 DEF IInv, AtItsFile
<1>5. \A s \in Migrates' : Ready(txn'[s].on)
  BY <1>2 DEF IInv, FilesInOrder
<1>6. WholeWhenReady'
  BY DEF IInv, WholeWhenReady
<1>7. \A o \in Instances : pc'[o] = "migrating" => Ready(file'[o])
  BY DEF IInv, FilesInOrder
<1> QED
  BY <1>3, <1>4, <1>5, <1>6, <1>7, SchemaStays

\* A transaction that runs a file comes to another stage of it.
LEMMA Advances ==
    ASSUME IInv, NEW s \in Migrates, NEW g \in {"make", "made", "skip"},
           txn' = [txn EXCEPT ![s].stage = g],
           UNCHANGED <<applied, pc, file, task>>
    PROVE  IInv'
<1>1. txn[s] \in Txn /\ txn[s].on \in Files /\ s \in Sessions
  BY Kinds DEF IInv, Shape, Migrates, Busy
<1>2. [txn[s] EXCEPT !.stage = g] \in Txn /\ [txn[s] EXCEPT !.stage = g].on = txn[s].on
  BY <1>1 DEF Txn, Migrates, Busy
<1>3. txn' \in [Sessions -> Txn \cup {Idle}]
  BY <1>1, <1>2 DEF IInv, Shape
<1>4. \A o \in Migrates' : o \in Migrates /\ txn'[o].on = txn[o].on
  BY <1>1, <1>2 DEF IInv, Shape, Migrates, Busy
<1>5. Shape'
  BY <1>3 DEF IInv, Shape
<1>6. AtItsFile'
  BY <1>4 DEF IInv, AtItsFile
<1>7. \A o \in Migrates' : Ready(txn'[o].on)
  BY <1>4 DEF IInv, FilesInOrder
<1>8. WholeWhenReady'
  BY DEF IInv, WholeWhenReady
<1>9. \A o \in Instances : pc'[o] = "migrating" => Ready(file'[o])
  BY DEF IInv, FilesInOrder
<1> QED
  BY <1>5, <1>6, <1>7, <1>8, <1>9, SchemaStays

\* A transaction ends without effect; where it ran a file, its process fails.
LEMMA Fails ==
    ASSUME IInv, NEW s \in Sessions, End(s), UNCHANGED <<applied, task>>,
           \/ UNCHANGED <<pc, file>>
           \/ /\ pc' = [i \in Instances |-> IF i = s THEN "failed" ELSE pc[i]]
              /\ file' = [i \in Instances |-> IF i = s THEN 1 ELSE file[i]]
    PROVE  IInv'
<1>1. /\ txn' \in [Sessions -> Txn \cup {Idle}]
      /\ Migrates' = Migrates \ {s}
      /\ \A o \in Migrates' : txn'[o] = txn[o]
  BY EndOfOne DEF IInv
<1>2. Shape'
  BY <1>1, FourFiles DEF IInv, Shape, PCs
<1>3. AtItsFile'
  BY <1>1 DEF IInv, AtItsFile
<1>4. \A o \in Migrates' : Ready(txn'[o].on)
  BY <1>1 DEF IInv, FilesInOrder
<1>5. WholeWhenReady'
  BY DEF IInv, WholeWhenReady
<1>6. \A o \in Instances : pc'[o] = "migrating" => Ready(file'[o])
  BY DEF IInv, FilesInOrder
<1> QED
  BY <1>2, <1>3, <1>4, <1>5, <1>6, SchemaStays

\* A process dies, wherever it is.
LEMMA Dies ==
    ASSUME IInv, NEW i \in Instances, NEW p \in {"off", "failed"}, Die(i),
           pc' = [pc EXCEPT ![i] = p], applied' = applied
    PROVE  IInv'
<1>1. /\ txn' \in [Sessions -> Txn \cup {Idle}]
      /\ i \notin Migrates'
      /\ \A o \in Instances \ {i} : txn'[o] = txn[o]
      /\ \A o \in Migrates' : \E x \in Migrates : txn'[o] = txn[x]
  BY Orphaned DEF IInv
<1>2. file' = [file EXCEPT ![i] = 1] /\ task' = [task EXCEPT ![i] = "none"]
  BY DEF Die
<1>3. Shape'
  BY <1>1, <1>2, FourFiles DEF IInv, Shape, PCs
<1>4. AtItsFile'
  BY <1>1, <1>2 DEF IInv, Shape, AtItsFile, Migrates, Busy
<1>5. \A o \in Migrates' : Ready(txn'[o].on)
  BY <1>1 DEF IInv, FilesInOrder
<1>6. WholeWhenReady'
  BY <1>2 DEF IInv, Shape, WholeWhenReady
<1>7. \A o \in Instances : pc'[o] = "migrating" => Ready(file'[o])
  BY <1>2 DEF IInv, Shape, FilesInOrder
<1> QED
  BY <1>3, <1>4, <1>5, <1>6, <1>7, SchemaStays

\* A file commits: the first files grow by one or stay, and its process is at
\* the next file or done with all four.
LEMMA Finishes ==
    ASSUME IInv, NEW s \in Sessions, FinishFile(s)
    PROVE  IInv'
<1>0. PICK f \in 1..4 : f = txn[s].on
  BY Kinds, FourFiles DEF FinishFile, IInv, Shape, Migrates, Busy
<1>1. s \in Migrates /\ 1..(f - 1) \subseteq applied
  BY <1>0 DEF FinishFile, IInv, FilesInOrder, Ready
<1>2. /\ txn' \in [Sessions -> Txn \cup {Idle}]
      /\ Migrates' = Migrates \ {s}
      /\ \A o \in Migrates' : txn'[o] = txn[o]
  BY EndOfOne DEF IInv, FinishFile
<1>3. applied' = applied \cup {f} /\ applied \subseteq Files /\ task' = task
  BY <1>0, FourFiles DEF FinishFile, IInv, SchemaIsPrefix
<1>4. SchemaIsPrefix'
  <2>1. PICK n \in 0..4 : applied = 1..n
    BY FourFiles DEF IInv, SchemaIsPrefix
  <2>2. f <= n + 1
    <3>1. f = 1 \/ f - 1 \in 1..(f - 1)
      OBVIOUS
    <3>2. f = 1 \/ f - 1 \in 1..n
      BY <1>1, <2>1, <3>1
    <3> QED
      BY <2>1, <3>2
  <2>3. CASE f <= n
    <3>1. applied' = 1..n
      BY <1>1, <1>3, <2>1, <2>3
    <3> QED
      BY <2>1, <3>1, FourFiles DEF SchemaIsPrefix
  <2>4. CASE f = n + 1
    <3>1. applied' = 1..(n + 1) /\ n + 1 \in 0..4
      BY <1>1, <1>3, <2>1, <2>4
    <3> QED
      BY <3>1, FourFiles DEF SchemaIsPrefix
  <2> QED
    BY <1>1, <2>1, <2>2, <2>3, <2>4
<1>5. /\ pc' = [i \in Instances |-> IF i = s THEN After(f)[1] ELSE pc[i]]
      /\ file' = [i \in Instances |-> IF i = s THEN After(f)[2] ELSE file[i]]
  BY <1>0 DEF FinishFile, Proceed
<1>6. /\ f < 4 => After(f) = <<"migrating", f + 1>>
      /\ f = 4 => After(f) = <<"configuring", 1>>
  BY <1>1, FourFiles DEF After
<1>7. Shape'
  <2>1. After(f)[1] \in PCs /\ After(f)[2] \in Files
    BY <1>1, <1>6, FourFiles DEF PCs
  <2> QED
    BY <1>2, <1>3, <1>5, <2>1 DEF IInv, Shape
<1>8. AtItsFile'
  BY <1>2, <1>5 DEF IInv, AtItsFile
<1>9. FilesInOrder'
  <2>1. 1..f \subseteq applied'
    <3>1. 1..f = (1..(f - 1)) \cup {f}
      OBVIOUS
    <3> QED
      BY <1>1, <1>3, <3>1
  <2>2. ASSUME NEW i \in Instances, pc'[i] = "migrating"
        PROVE  1..(file'[i] - 1) \subseteq applied'
    <3>1. CASE i = s
      <4>1. file'[i] = f + 1
        BY <1>5, <1>6, <2>2, <3>1
      <4>2. (f + 1) - 1 = f
        OBVIOUS
      <4> QED
        BY <2>1, <4>1, <4>2
    <3>2. CASE i # s
      <4>1. file'[i] = file[i] /\ 1..(file[i] - 1) \subseteq applied
        BY <1>5, <2>2, <3>2 DEF IInv, FilesInOrder, Ready
      <4> QED
        BY <1>3, <4>1
    <3> QED
      BY <3>1, <3>2
  <2>3. \A o \in Migrates' : 1..(txn'[o].on - 1) \subseteq applied'
    BY <1>2, <1>3 DEF IInv, FilesInOrder, Ready
  <2> QED
    BY <2>2, <2>3 DEF FilesInOrder, Ready
<1>10. WholeWhenReady'
  <2>1. applied = Files => applied' = Files
    BY <1>1, <1>3, FourFiles
  <2>2. f = 4 => applied' = Files
    <3>1. f = 4 => 1..4 = (1..(f - 1)) \cup {f}
      OBVIOUS
    <3> QED
      BY <1>3, <1>1, <3>1, FourFiles
  <2> QED
    BY <1>1, <1>3, <1>5, <1>6, <2>1, <2>2 DEF IInv, WholeWhenReady
<1> QED
  BY <1>4, <1>7, <1>8, <1>9, <1>10 DEF IInv

LEMMA Step_IInv == IInv /\ [Next]_vars => IInv'
<1> SUFFICES ASSUME IInv, [Next]_vars PROVE IInv'
    OBVIOUS
<1> USE FourFiles
<1>1. ASSUME NEW i \in Instances, Process(i) PROVE IInv'
  <2>1. pc[i] \in PCs /\ file[i] \in Files /\ task[i] \in {"none", "running", "dead"}
    BY DEF IInv, Shape
  <2>2. /\ pc = [pc EXCEPT ![i] = pc[i]] /\ file = [file EXCEPT ![i] = file[i]]
        /\ task = [task EXCEPT ![i] = task[i]]
    BY DEF IInv, Shape
  <2>3. /\ task[i] # "none" => applied = Files
        /\ pc[i] # "migrating" => i \notin Migrates
        /\ pc[i] \in {"configuring", "binding", "serving"} => applied = Files
    BY DEF IInv, WholeWhenReady, AtItsFile
  <2>4. CASE Restart(i)
    <3>1. "connecting" \in PCs /\ i \notin Migrates
      BY <2>3, <2>4 DEF Restart, PCs
    <3>2. /\ pc' = [pc EXCEPT ![i] = "connecting"] /\ file' = [file EXCEPT ![i] = file[i]]
          /\ task' = [task EXCEPT ![i] = task[i]] /\ UNCHANGED <<applied, txn>>
      BY <2>2, <2>4 DEF Restart
    <3> QED
      BY <2>1, <2>3, <3>1, <3>2, ProcessMoves
  <2>5. CASE Connect(i)
    <3>1. 1 \in Files /\ "migrating" \in PCs /\ i \notin Migrates
      BY <2>3, <2>5 DEF Connect, PCs
    <3>2. /\ pc' = [pc EXCEPT ![i] = "migrating"] /\ file' = [file EXCEPT ![i] = 1]
          /\ task' = [task EXCEPT ![i] = task[i]] /\ UNCHANGED <<applied, txn>>
      BY <2>2, <2>5 DEF Connect
    <3> QED
      BY <2>1, <2>3, <3>1, <3>2, ProcessMoves
  <2>6. CASE SendFile(i)
    <3>1. /\ [stage |-> "make", on |-> file[i]] \in Txn
          /\ [stage |-> "lock", on |-> file[i]] \in Txn
      BY <2>1 DEF Txn
    <3>2. /\ pc[i] = "migrating"
          /\ UNCHANGED <<applied, pc, file, task>>
          /\ \/ Begin(i, [stage |-> "make", on |-> file[i]])
             \/ Begin(i, [stage |-> "lock", on |-> file[i]])
      BY <2>6 DEF SendFile, processVars
    <3>3. CASE Begin(i, [stage |-> "make", on |-> file[i]])
      BY <3>1, <3>2, <3>3, Begins
    <3>4. CASE Begin(i, [stage |-> "lock", on |-> file[i]])
      BY <3>1, <3>2, <3>4, Begins
    <3> QED
      BY <3>2, <3>3, <3>4
  <2>7. CASE Configure(i)
    <3>1. \/ pc' = [pc EXCEPT ![i] = "binding"] /\ task' = task
          \/ pc' = [pc EXCEPT ![i] = "failed"] /\ task' = task
          \/ /\ pc' = [pc EXCEPT ![i] = "binding"]
             /\ \E k \in {"running", "dead"} : task' = [task EXCEPT ![i] = k]
      BY <2>7 DEF Configure
    <3>2. /\ UNCHANGED <<applied, txn>> /\ file' = [file EXCEPT ![i] = file[i]]
          /\ pc[i] = "configuring"
      BY <2>2, <2>7 DEF Configure
    <3>3. \E p \in {"binding", "failed"}, k \in {"none", "running", "dead"} :
             /\ pc' = [pc EXCEPT ![i] = p]
             /\ task' = [task EXCEPT ![i] = k]
      BY <2>1, <2>2, <3>1
    <3>4. {"binding", "failed"} \subseteq PCs /\ i \notin Migrates /\ applied = Files
      BY <2>3, <3>2 DEF PCs
    <3> QED
      BY <2>1, <3>2, <3>3, <3>4, ProcessMoves
  <2>8. CASE Bind(i)
    <3>1. "serving" \in PCs /\ i \notin Migrates /\ applied = Files
      BY <2>3, <2>8 DEF Bind, PCs
    <3>2. /\ pc' = [pc EXCEPT ![i] = "serving"] /\ file' = [file EXCEPT ![i] = file[i]]
          /\ task' = [task EXCEPT ![i] = task[i]] /\ UNCHANGED <<applied, txn>>
      BY <2>2, <2>8 DEF Bind
    <3> QED
      BY <2>1, <2>3, <3>1, <3>2, ProcessMoves
  <2>9. CASE Drained(i)
    BY <2>9, Dies DEF Drained
  <2> QED
    BY <1>1, <2>4, <2>5, <2>6, <2>7, <2>8, <2>9 DEF Process
<1>2. ASSUME NEW i \in Instances, Start(i) \/ Stop(i) \/ Crash(i) PROVE IInv'
  <2>1. CASE Start(i)
    <3>1. /\ file[i] \in Files /\ task[i] \in {"none", "running", "dead"}
          /\ file = [file EXCEPT ![i] = file[i]] /\ task = [task EXCEPT ![i] = task[i]]
          /\ task[i] # "none" => applied = Files
          /\ pc[i] # "migrating" => i \notin Migrates
      BY DEF IInv, Shape, WholeWhenReady, AtItsFile
    <3>2. /\ "connecting" \in PCs /\ pc[i] # "migrating"
          /\ pc' = [pc EXCEPT ![i] = "connecting"] /\ UNCHANGED <<applied, txn, file, task>>
      BY <2>1 DEF Start, PCs
    <3> QED
      BY <3>1, <3>2, ProcessMoves
  <2>2. CASE Stop(i)
    <3>1. CASE pc[i] = "serving"
      <4>1. UNCHANGED <<applied, pc, file, task, txn>>
        BY <2>2, <3>1 DEF Stop
      <4> QED
        BY <4>1 DEF IInv, Shape, AtItsFile, SchemaIsPrefix, FilesInOrder, Ready,
                    WholeWhenReady, Migrates, Busy
    <3>2. CASE pc[i] # "serving"
      BY <2>2, <3>2, Dies DEF Stop
    <3> QED
      BY <3>1, <3>2
  <2>3. CASE Crash(i)
    BY <2>3, Dies DEF Crash
  <2> QED
    BY <1>2, <2>1, <2>2, <2>3
<1>3. ASSUME NEW i \in Instances, NEW t \in WriteTables, Write(i, t) PROVE IInv'
  <2>1. [stage |-> "write", on |-> t] \in Txn
    BY BoundsAssumption DEF Txn
  <2> QED
    BY <1>3, <2>1, Begins DEF Write, processVars
<1>4. ASSUME NEW s \in Sessions, Session(s) PROVE IInv'
  <2>1. CASE LockTable(s)
    BY <2>1, Advances DEF LockTable, processVars
  <2>2. CASE Make(s)
    BY <2>2, Advances DEF Make, processVars
  <2>3. CASE LoseRace(s)
    BY <2>3, Fails DEF LoseRace, FileFails
  <2>4. CASE ExtensionFails(s)
    BY <2>4, Fails DEF ExtensionFails, FileFails
  <2>5. CASE FinishFile(s)
    BY <2>5, Finishes
  <2>6. CASE EndWrite(s)
    BY <2>6, Fails DEF EndWrite, processVars
  <2> QED
    BY <1>4, <2>1, <2>2, <2>3, <2>4, <2>5, <2>6 DEF Session
<1>5. ASSUME NEW s \in Sessions, NoticeGone(s) \/ LoseSession(s) PROVE IInv'
  <2>1. CASE NoticeGone(s)
    BY <2>1, Fails DEF NoticeGone, processVars
  <2>2. CASE LoseSession(s)
    BY <2>2, Fails DEF LoseSession, FileFails
  <2> QED
    BY <1>5, <2>1, <2>2
<1>6. CASE InstallContrib \/ UNCHANGED vars
  <2>1. UNCHANGED <<applied, pc, file, task, txn>>
    BY <1>6 DEF InstallContrib, vars, processVars
  <2> QED
    BY <2>1 DEF IInv, Shape, AtItsFile, SchemaIsPrefix, FilesInOrder, Ready,
                WholeWhenReady, Migrates, Busy
<1> QED
  BY <1>1, <1>2, <1>3, <1>4, <1>5, <1>6 DEF Next

LEMMA Always_IInv == Spec => []IInv
BY Start_IInv, Step_IInv, PTL DEF Spec

-----------------------------------------------------------------------------
\* However many instances start, die and leave orphans, the migrations in the
\* database are the first ones (Store::migrate).
THEOREM SchemaInOrder == Spec => []SchemaIsPrefix
<1>1. IInv => SchemaIsPrefix
  BY DEF IInv
<1> QED
  BY <1>1, Always_IInv, PTL

\* No instance takes a call or sweeps before all migrations are in the
\* database (main).
THEOREM SchemaWhole == Spec => []ServesWholeSchema
<1>1. IInv => ServesWholeSchema
  BY DEF IInv, WholeWhenReady, ServesWholeSchema
<1> QED
  BY <1>1, Always_IInv, PTL

-----------------------------------------------------------------------------
\* The lock queues stay sequences of sessions.

\* A set of naturals that is not empty has a least element.
LEMMA Least ==
    ASSUME NEW S \in SUBSET Nat, S # {}
    PROVE  \E x \in S : \A y \in S : x <= y
<1>1. PICK x \in S : \A y \in S : ~ (<<y, x>> \in OpToRel(<, Nat))
  BY NatLessThanWellFounded, WFMin, Zenon
<1>2. \A y \in S : y \in Nat /\ x \in Nat /\ ~ (y < x)
  BY <1>1 DEF OpToRel
<1> QED
  BY <1>2

\* Leaving a queue.
LEMMA QueueWithout ==
    ASSUME NEW T, NEW q \in Seq(T), NEW s
    PROVE  RemoveFirst(q, s) \in Seq(T)
<1> DEFINE I == {i \in 1..Len(q) : q[i] = s}
<1>1. CASE I = {}
  BY <1>1 DEF RemoveFirst
<1>2. CASE I # {}
  <2>1. \E x \in I : \A y \in I : x <= y
    <3>1. I \in SUBSET Nat
      OBVIOUS
    <3> HIDE DEF I
    <3> QED
      BY <1>2, <3>1, Least
  <2>2. PICK k \in 1..Len(q) : k = Min(I)
    BY <2>1 DEF Min
  <2>3. RemoveFirst(q, s) = RemoveAt(q, k)
    BY <1>2, <2>2 DEF RemoveFirst, SelectInSeq
  <2>4. SubSeq(q, 1, k - 1) \in Seq(T) /\ SubSeq(q, k + 1, Len(q)) \in Seq(T)
    OBVIOUS
  <2> QED
    BY <2>3, <2>4 DEF RemoveAt
<1> QED
  BY <1>1, <1>2

\* What the type invariant has beyond the inductive one.
EnvOK ==
    /\ config \in Settings
    /\ contrib \in BOOLEAN
    /\ wanted \in [Instances -> BOOLEAN]
    /\ queue \in [Tables -> Seq(Sessions)]
    /\ faults \in 0..MaxFaults

LEMMA EndKeepsQueues ==
    ASSUME EnvOK, NEW s, End(s)
    PROVE  queue' \in [Tables -> Seq(Sessions)]
BY QueueWithout DEF EnvOK, End

LEMMA DieKeepsQueues ==
    ASSUME EnvOK, NEW i, Die(i)
    PROVE  queue' \in [Tables -> Seq(Sessions)]
<1>1. CASE txn[i] = Idle
  BY <1>1 DEF Die, EnvOK
<1>2. CASE txn[i] # Idle
  <2>1. PICK o \in Orphans : queue' = [t \in Tables |-> ReplaceAll(queue[t], i, o)]
    BY <1>2 DEF Die
  <2>2. ASSUME NEW q \in Seq(Sessions) PROVE ReplaceAll(q, i, o) \in Seq(Sessions)
    <3>1. o \in Sessions
      BY DEF Sessions
    <3> QED
      BY <3>1 DEF ReplaceAll
  <2> QED
    BY <2>1, <2>2 DEF EnvOK
<1> QED
  BY <1>1, <1>2

LEMMA LineKeepsQueues ==
    ASSUME EnvOK, NEW i \in Instances, NEW t \in Tables, Line(i, t)
    PROVE  queue' \in [Tables -> Seq(Sessions)]
BY DEF EnvOK, Line, Sessions

LEMMA NextEnv == IInv /\ EnvOK /\ [Next]_vars => EnvOK'
<1> SUFFICES ASSUME IInv, EnvOK, [Next]_vars PROVE EnvOK'
  OBVIOUS
<1>1. config' = config
  BY DEF Next, Process, Restart, Connect, SendFile, Configure, Bind, Drained, Start,
    Stop, Crash, Write, Session, LockTable, Make, LoseRace, ExtensionFails, FinishFile,
    EndWrite, NoticeGone, LoseSession, InstallContrib, vars
<1>2. contrib' \in BOOLEAN
  BY DEF EnvOK, Next, Process, Restart, Connect, SendFile, Configure, Bind, Drained, Start,
    Stop, Crash, Write, Session, LockTable, Make, LoseRace, ExtensionFails, FinishFile,
    EndWrite, NoticeGone, LoseSession, InstallContrib, vars
<1>3. wanted' \in [Instances -> BOOLEAN]
  BY DEF EnvOK, Next, Process, Restart, Connect, SendFile, Configure, Bind, Drained, Start,
    Stop, Crash, Write, Session, LockTable, Make, LoseRace, ExtensionFails, FinishFile,
    EndWrite, NoticeGone, LoseSession, InstallContrib, processVars, vars
<1>4. faults' \in 0..MaxFaults
  <2>1. faults' = faults \/ (faults < MaxFaults /\ faults' = faults + 1)
    BY DEF Next, Process, Restart, Connect, SendFile, Configure, Bind, Drained, Start,
      Stop, Crash, Write, Session, LockTable, Make, LoseRace, ExtensionFails, FinishFile,
      EndWrite, NoticeGone, LoseSession, InstallContrib, vars
  <2> QED
    BY <2>1, BoundsAssumption DEF EnvOK
<1>5. queue' \in [Tables -> Seq(Sessions)]
  <2>1. ASSUME NEW i \in Instances, Stop(i) \/ Crash(i) \/ Drained(i)
        PROVE  queue' \in [Tables -> Seq(Sessions)]
    <3>1. Die(i) \/ queue' = queue
      BY <2>1 DEF Stop, Crash, Drained
    <3> QED
      BY <3>1, DieKeepsQueues DEF EnvOK
  <2>2. ASSUME NEW i \in Instances, SendFile(i)
        PROVE  queue' \in [Tables -> Seq(Sessions)]
    <3>1. queue' = queue \/ Line(i, TableOf[file[i]])
      BY <2>2 DEF SendFile
    <3>2. TableOf[file[i]] \in Tables
      BY TableNames DEF IInv, Shape
    <3> QED
      BY <3>1, <3>2, LineKeepsQueues DEF EnvOK
  <2>3. ASSUME NEW i \in Instances, NEW t \in WriteTables, Write(i, t)
        PROVE  queue' \in [Tables -> Seq(Sessions)]
    BY <2>3, BoundsAssumption, LineKeepsQueues DEF Write
  <2>4. ASSUME NEW s \in Sessions, LoseRace(s) \/ ExtensionFails(s) \/ FinishFile(s)
                 \/ EndWrite(s) \/ NoticeGone(s) \/ LoseSession(s)
        PROVE  queue' \in [Tables -> Seq(Sessions)]
    <3>1. End(s)
      BY <2>4 DEF LoseRace, ExtensionFails, FinishFile, EndWrite, NoticeGone, LoseSession,
        FileFails
    <3> QED
      BY <3>1, EndKeepsQueues
  <2>5. CASE UNCHANGED queue
    BY <2>5 DEF EnvOK
  <2> QED
    BY <2>1, <2>2, <2>3, <2>4, <2>5 DEF Next, Process, Restart, Connect, Configure, Bind,
      Start, Session, LockTable, Make, InstallContrib, vars
<1> QED
  BY <1>1, <1>2, <1>3, <1>4, <1>5 DEF EnvOK

\* Every variable keeps its type (TypeOK), the lock queues among them.
THEOREM TypeCorrect == Spec => []TypeOK
<1>1. Init => EnvOK
  BY BoundsAssumption DEF Init, EnvOK
<1>2. IInv /\ EnvOK => TypeOK
  BY FourFiles DEF IInv, EnvOK, Shape, SchemaIsPrefix, TypeOK
<1> QED
  BY <1>1, <1>2, NextEnv, Always_IInv, PTL DEF Spec

-----------------------------------------------------------------------------
\* RETENTION is in force wherever it was accepted.

\* Past Configure, the task is what Configure made of the settings.
ConfiguredInv ==
    \A i \in Instances : pc[i] \in {"binding", "serving"} /\ config.retention # Unset =>
        /\ ~ Refused(config.retention)
        /\ ~ Refused(config.interval)
        /\ task[i] = IF Seconds(config.interval) = 0 THEN "dead" ELSE "running"

\* No other step brings a process past Configure, or leaves it there with
\* another task.
LEMMA OnlyConfigure ==
    ASSUME IInv, [Next]_vars, NEW i \in Instances, pc'[i] \in {"binding", "serving"}
    PROVE  \/ Configure(i)
           \/ pc[i] \in {"binding", "serving"} /\ task'[i] = task[i]
<1> DEFINE Stays == pc[i] \in {"binding", "serving"} /\ task'[i] = task[i]
<1>t. pc \in [Instances -> PCs] /\ task \in [Instances -> {"none", "running", "dead"}]
  BY DEF IInv, Shape
<1>1. ASSUME NEW o \in Instances, Process(o) PROVE Configure(i) \/ Stays
  <2>1. CASE Restart(o) \/ Connect(o)
    BY <1>t, <2>1 DEF Restart, Connect
  <2>2. CASE SendFile(o)
    BY <2>2 DEF SendFile, processVars
  <2>3. CASE Configure(o)
    BY <1>t, <2>3 DEF Configure
  <2>4. CASE Bind(o)
    BY <1>t, <2>4 DEF Bind
  <2>5. CASE Drained(o)
    BY <1>t, <2>5 DEF Drained, Die
  <2> QED
    BY <1>1, <2>1, <2>2, <2>3, <2>4, <2>5 DEF Process
<1>2. ASSUME NEW o \in Instances, Start(o) \/ Stop(o) \/ Crash(o) PROVE Stays
  <2>1. CASE Start(o)
    BY <1>t, <2>1 DEF Start
  <2>2. CASE Stop(o)
    BY <1>t, <2>2 DEF Stop, Die
  <2>3. CASE Crash(o)
    BY <1>t, <2>3 DEF Crash, Die
  <2> QED
    BY <1>2, <2>1, <2>2, <2>3
<1>3. ASSUME NEW o \in Instances, NEW t \in WriteTables, Write(o, t) PROVE Stays
  BY <1>3 DEF Write, processVars
<1>4. ASSUME NEW s \in Sessions, Session(s) PROVE Stays
  <2>1. CASE LockTable(s) \/ Make(s) \/ EndWrite(s)
    BY <2>1 DEF LockTable, Make, EndWrite, processVars
  <2>2. CASE LoseRace(s) \/ ExtensionFails(s)
    BY <1>t, <2>2 DEF LoseRace, ExtensionFails, FileFails
  <2>3. CASE FinishFile(s)
    <3>1. After(txn[s].on)[1] \in {"migrating", "configuring"}
      BY DEF After
    <3> QED
      BY <1>t, <2>3, <3>1 DEF FinishFile, Proceed
  <2> QED
    BY <1>4, <2>1, <2>2, <2>3 DEF Session
<1>5. ASSUME NEW s \in Sessions, NoticeGone(s) \/ LoseSession(s) PROVE Stays
  BY <1>t, <1>5 DEF NoticeGone, LoseSession, FileFails, processVars
<1>6. CASE InstallContrib \/ UNCHANGED vars
  BY <1>6 DEF InstallContrib, vars, processVars
<1> QED
  BY <1>1, <1>2, <1>3, <1>4, <1>5, <1>6 DEF Next

\* Within the range of u64 neither multiplication wraps.
LEMMA NoWrap ==
    ASSUME NEW raw \in Raw, ~ Refused(raw), Asked(raw) < Word
    PROVE  Seconds(raw) = Asked(raw) /\ Seconds(raw) # 0
<1>1. Word \in Nat \ {0} /\ raw.n \in Nat /\ raw.n >= 1 /\ raw.unit \in {"h", "d", "w", "m"}
  BY BoundsAssumption DEF Refused, Raw, HoursPer
<1>2. HoursPer[raw.unit] \in {1, 24, 168, 720}
  BY <1>1 DEF HoursPer
<1>3. PICK hours \in Nat : hours = raw.n * HoursPer[raw.unit]
  BY <1>1, <1>2
<1>4. hours >= 1
  BY <1>1, <1>2, <1>3
<1>5. hours * 3600 < Word /\ hours < Word /\ hours * 3600 \in Nat
  BY <1>1, <1>3, <1>4 DEF Asked
<1>6. hours % Word = hours /\ (hours * 3600) % Word = hours * 3600
  BY <1>1, <1>5
<1> QED
  BY <1>3, <1>4, <1>6 DEF Seconds, Asked

\* An instance that serves with RETENTION set has accepted both settings and,
\* unless one is more seconds than u64 holds, sweeps with the period asked
\* for, whoever crashed, stopped or was started in between (main,
\* parse_retention).
THEOREM RetentionInForce == Spec => []RetentionAsConfigured
<1>1. Init => ConfiguredInv
  BY DEF Init, ConfiguredInv
<1>2. IInv /\ EnvOK /\ ConfiguredInv /\ [Next]_vars => ConfiguredInv'
  <2> SUFFICES ASSUME IInv, ConfiguredInv, [Next]_vars,
                      NEW i \in Instances, pc'[i] \in {"binding", "serving"},
                      config'.retention # Unset
               PROVE  /\ ~ Refused(config'.retention)
                      /\ ~ Refused(config'.interval)
                      /\ task'[i] = IF Seconds(config'.interval) = 0 THEN "dead" ELSE "running"
    BY DEF ConfiguredInv, Refused, Seconds
  <2>1. config' = config
    BY DEF Next, Process, Restart, Connect, SendFile, Configure, Bind, Drained, Start,
      Stop, Crash, Write, Session, LockTable, Make, LoseRace, ExtensionFails, FinishFile,
      EndWrite, NoticeGone, LoseSession, InstallContrib, vars
  <2>2. CASE Configure(i)
    <3>1. i \in Instances /\ task \in [Instances -> {"none", "running", "dead"}]
          /\ pc \in [Instances -> PCs]
      BY DEF IInv, Shape
    <3> QED
      BY <2>1, <2>2, <3>1 DEF Configure
  <2>3. CASE pc[i] \in {"binding", "serving"} /\ task'[i] = task[i]
    BY <2>1, <2>3 DEF ConfiguredInv
  <2> QED
    BY <2>2, <2>3, OnlyConfigure
<1>3. EnvOK /\ ConfiguredInv => RetentionAsConfigured
  <2> SUFFICES ASSUME EnvOK, ConfiguredInv, NEW i \in Instances,
                      pc[i] = "serving", config.retention # Unset
               PROVE  /\ ~ Refused(config.retention)
                      /\ ~ Refused(config.interval)
                      /\ (Asked(config.retention) < Word /\ Asked(config.interval) < Word) =>
                            /\ task[i] = "running"
                            /\ Seconds(config.retention) = Asked(config.retention)
    BY DEF RetentionAsConfigured
  <2>1. config.retention \in Raw /\ config.interval \in Raw
    BY SettingsAssumption DEF EnvOK
  <2> QED
    BY <2>1, NoWrap DEF ConfiguredInv
<1>4. Init => EnvOK
  BY BoundsAssumption DEF Init, EnvOK
<1> QED
  BY <1>1, <1>2, <1>3, <1>4, NextEnv, Always_IInv, PTL DEF Spec
=============================================================================
