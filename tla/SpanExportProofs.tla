-------------------------- MODULE SpanExportProofs --------------------------
(***************************************************************************)
(* Theorems about SpanExport, for any exporters, keys, requests, chunk and *)
(* pool sizes and numbers of attempts.                                     *)
(***************************************************************************)
EXTENDS SpanExport, FiniteSetTheorems, WellFoundedInduction, TLAPS

-----------------------------------------------------------------------------
\* The rows of a request.

\* Kept rows are indices of the request whose ids are well formed.
LEMMA KeptRows ==
    ASSUME NEW r \in Requests
    PROVE  /\ Kept(r) \subseteq Collected(r)
           /\ Kept(r) \subseteq Nat
           /\ \A i \in Collected(r) : r[i].key \in Keys
<1>1. r \in Seq(SpanItem)
  BY RequestsAssumption
<1>2. Len(r) \in Nat
  BY <1>1
<1>3. \A i \in 1..Len(r) : r[i] \in SpanItem
  BY <1>1
<1> QED
  BY <1>2, <1>3 DEF Kept, Collected, SpanItem

\* Deduplication leaves one row per key.
LEMMA KeptDistinct ==
    ASSUME NEW r \in Requests, NEW i \in Kept(r), NEW j \in Kept(r),
           r[i].key = r[j].key
    PROVE  i = j
<1>1. i \in Nat /\ j \in Nat /\ i \in Collected(r) /\ j \in Collected(r)
  BY KeptRows
<1>2. j <= i /\ i <= j
  BY <1>1 DEF Kept
<1> QED
  BY <1>1, <1>2

\* A chunk takes rows from the front: with a row it takes every earlier one.
LEMMA FirstRowsPrefix ==
    ASSUME NEW S \in SUBSET Nat, NEW n \in Nat,
           NEW i \in FirstRows(S, n), NEW j \in S, j < i
    PROVE  j \in FirstRows(S, n)
<1> DEFINE Below(m) == {l \in S : l < m}
<1>1. i \in Nat /\ j \in Nat /\ i \in S
  BY DEF FirstRows
<1>2. \A l \in Below(i) : l \in Nat /\ l <= i
  BY <1>1
<1>3. IsFiniteSet(Below(i))
  BY <1>1, <1>2, FS_BoundedSetOfNaturals
<1>4. Below(j) \subseteq Below(i)
  <2>1. \A l \in S : l \in Nat /\ (l < j => l < i)
    BY <1>1
  <2> QED
    BY <2>1
<1>5. /\ Cardinality(Below(j)) <= Cardinality(Below(i))
      /\ Cardinality(Below(j)) \in Nat /\ Cardinality(Below(i)) \in Nat
  BY <1>3, <1>4, FS_Subset, FS_CardinalityType
<1>6. Cardinality(Below(i)) < n
  BY DEF FirstRows
<1>7. Cardinality(Below(j)) < n
  BY <1>5, <1>6
<1> QED
  BY <1>7 DEF FirstRows

LEMMA FirstRowsSubset ==
    ASSUME NEW S, NEW n
    PROVE  FirstRows(S, n) \subseteq S
BY DEF FirstRows

-----------------------------------------------------------------------------
\* The inductive invariant.

Prefix(a, rowset) ==
    \A i \in rowset, j \in Kept(Req(a)) : j < i => j \in rowset

\* What a transaction has written, and what its statement is writing, are
\* rows of the request taken from the front; COMMIT comes after all of them.
RowsOf(a) ==
    /\ pc[a] # "statement" => stmt[a] = {}
    /\ ~ InTx(a) => done[a] = {}
    /\ pc[a] # "unused" =>
        /\ stmt[a] \cup done[a] \subseteq Kept(Req(a))
        /\ Prefix(a, done[a])
        /\ Prefix(a, stmt[a] \cup done[a])
    /\ pc[a] = "committing" => done[a] = Kept(Req(a))

RowsInv == \A a \in Attempts : RowsOf(a)

\* Row locks exclude.
LocksInv ==
    \A a, b \in Attempts : a # b =>
        \A i \in done[a], j \in done[b] : Req(a)[i].key # Req(b)[j].key

\* Attempts are made one after another, each when its predecessor is over for
\* the exporter; only a request that can be stored gets as far as the pool.
ClientInv ==
    \A e \in Exporters :
        /\ answer[e] = "none" => tries[e] = 0
        /\ answer[e] # "none" => request[e] \in Requests /\ tries[e] >= 1
        /\ answer[e] = "ok" => pc[Latest(e)] = "committed"
        /\ \A n \in 1..MaxAttempts :
            /\ n > tries[e] => pc[<<e, n>>] = "unused"
            /\ n < tries[e] => pc[<<e, n>>] = "aborted" \/ abandoned[<<e, n>>]
            /\ pc[<<e, n>>] \notin {"unused", "aborted"} => ~ Overflows(request[e])

\* No attempt overtakes an earlier one whose COMMIT is on its way, unless
\* there are no rows to lock.
CommitInv ==
    \A e \in Exporters : \A m, n \in 1..MaxAttempts :
        m < n /\ pc[<<e, m>>] = "committing" /\ pc[<<e, n>>] = "committed"
            => Kept(request[e]) = {}

IInv == TypeOK /\ RowsInv /\ LocksInv /\ ClientInv /\ CommitInv

-----------------------------------------------------------------------------
\* Attempts and their exporters.

LEMMA AttemptParts ==
    ASSUME NEW a \in Attempts
    PROVE  a[1] \in Exporters /\ a[2] \in 1..MaxAttempts /\ a = <<a[1], a[2]>>
BY DEF Attempts

LEMMA AttemptOf ==
    ASSUME NEW e \in Exporters, NEW n \in 1..MaxAttempts
    PROVE  /\ <<e, n>> \in Attempts
           /\ \A d \in Exporters, m \in 1..MaxAttempts :
                <<e, n>> = <<d, m>> => e = d /\ n = m
BY DEF Attempts

\* The request of an attempt that was made is one of Requests.
LEMMA SentRequest ==
    ASSUME TypeOK, ClientInv, NEW a \in Attempts, pc[a] # "unused"
    PROVE  /\ Req(a) \in Requests
           /\ Kept(Req(a)) \subseteq Nat
<1>1. a[1] \in Exporters /\ a[2] \in 1..MaxAttempts /\ a = <<a[1], a[2]>>
  BY AttemptParts
<1>2. tries[a[1]] \in Nat /\ a[2] \in Nat
  BY <1>1, MaxAttemptsAssumption DEF TypeOK
<1>3. ~ (a[2] > tries[a[1]])
  BY <1>1 DEF ClientInv
<1>4. tries[a[1]] # 0
  BY <1>1, <1>2, <1>3, MaxAttemptsAssumption
<1>5. Req(a) \in Requests
  BY <1>1, <1>4 DEF ClientInv, Req
<1> QED
  BY <1>5, KeptRows

-----------------------------------------------------------------------------
\* Types and the exporters' side.

LEMMA InitClient == Init => TypeOK /\ ClientInv
<1> SUFFICES ASSUME Init PROVE TypeOK /\ ClientInv
  OBVIOUS
<1>1. TypeOK
  BY MaxAttemptsAssumption DEF Init, TypeOK, PCs
<1>2. ClientInv
  BY AttemptOf, MaxAttemptsAssumption DEF Init, ClientInv
<1> QED
  BY <1>1, <1>2

LEMMA NextType == TypeOK /\ ClientInv /\ [Next]_vars => TypeOK'
<1> SUFFICES ASSUME TypeOK, ClientInv, [Next]_vars
             PROVE  TypeOK'
  OBVIOUS
<1> USE DEF TypeOK, PCs
<1>1. ASSUME NEW e \in Exporters, NEW r \in Requests, Export(e, r)
      PROVE  TypeOK'
  BY <1>1, AttemptOf, MaxAttemptsAssumption DEF Export, Arrive
<1>2. ASSUME NEW e \in Exporters, Retry(e)
      PROVE  TypeOK'
  <2>1. tries[e] + 1 \in 0..MaxAttempts
    BY <1>2, MaxAttemptsAssumption DEF Retry
  <2> QED
    BY <1>2, <2>1 DEF Retry, Arrive
<1>3. ASSUME NEW e \in Exporters, Abandon(e)
      PROVE  TypeOK'
  BY <1>3 DEF Abandon, Latest, clientVars
<1>4. ASSUME NEW e \in Exporters, Reply(e)
      PROVE  TypeOK'
  BY <1>4 DEF Reply
<1>5. ASSUME NEW a \in Attempts, Begin(a) \/ AcquireTimeout(a) \/ SendCommit(a)
      PROVE  TypeOK'
  BY <1>5 DEF Begin, AcquireTimeout, SendCommit, clientVars
<1>6. ASSUME NEW a \in Attempts, NextStatement(a)
      PROVE  TypeOK'
  <2>1. FirstRows(Remaining(a), ChunkRows) \subseteq Kept(Req(a))
    BY FirstRowsSubset DEF Remaining
  <2>2. Kept(Req(a)) \subseteq Nat
    BY <1>6, SentRequest DEF NextStatement
  <2> QED
    BY <1>6, <2>1, <2>2 DEF NextStatement, clientVars
<1>7. ASSUME NEW a \in Attempts, NEW s, pc' = [pc EXCEPT ![a] = s], s \in PCs,
             stmt' = [stmt EXCEPT ![a] = {}], done' = [done EXCEPT ![a] = {}],
             UNCHANGED <<clientVars, abandoned>>,
             table' \in [Keys -> (Exporters \X Nat) \cup {NoRow}]
      PROVE  TypeOK'
  BY <1>7 DEF clientVars
<1>8. ASSUME NEW a \in Attempts, UpsertRow(a)
      PROVE  TypeOK'
  <2>1. PICK i \in stmt[a] :
          IF Req(a)[i].key \in KeysOf(Req(a), stmt[a] \cap done[a])
          THEN End(a, "aborted")
          ELSE done' = [done EXCEPT ![a] = @ \cup {i}] /\ UNCHANGED <<pc, stmt>>
    BY <1>8 DEF UpsertRow
  <2>2. i \in Nat
    OBVIOUS
  <2>3. UNCHANGED <<table, clientVars, abandoned>>
    BY <1>8 DEF UpsertRow
  <2>4. CASE End(a, "aborted")
    BY <1>7, <2>3, <2>4 DEF End
  <2>5. CASE done' = [done EXCEPT ![a] = @ \cup {i}] /\ UNCHANGED <<pc, stmt>>
    BY <2>2, <2>3, <2>5 DEF clientVars
  <2> QED
    BY <2>1, <2>4, <2>5
<1>9. ASSUME NEW a \in Attempts, StatementDone(a)
      PROVE  TypeOK'
  BY <1>9 DEF StatementDone, clientVars
<1>10. ASSUME NEW a \in Attempts, Commit(a)
       PROVE  TypeOK'
  <2>1. /\ Overlay(table, a[1], Req(a), done[a])
             \in [Keys -> (Exporters \X Nat) \cup {NoRow}]
    <3>1. ASSUME NEW k \in Keys, k \in KeysOf(Req(a), done[a])
          PROVE  <<a[1], CHOOSE i \in done[a] : Req(a)[i].key = k>>
                   \in Exporters \X Nat
      <4> DEFINE c == CHOOSE i \in done[a] : Req(a)[i].key = k
      <4>1. \E i \in done[a] : Req(a)[i].key = k
        BY <3>1 DEF KeysOf
      <4>2. c \in Nat
        BY <4>1
      <4>3. a[1] \in Exporters
        BY AttemptParts
      <4> HIDE DEF c
      <4>4. <<a[1], c>> \in Exporters \X Nat
        BY <4>2, <4>3
      <4> QED
        BY <4>4 DEF c
    <3> QED
      BY <3>1 DEF Overlay
  <2> QED
    BY <1>7, <1>10, <2>1 DEF Commit, End
<1>11. ASSUME NEW a \in Attempts,
              Rollback(a) \/ DeadlockVictim(a) \/ SessionLost(a)
       PROVE  TypeOK'
  BY <1>7, <1>11 DEF Rollback, DeadlockVictim, SessionLost, End
<1>12. CASE UNCHANGED vars
  BY <1>12 DEF vars
<1> QED
  BY <1>1, <1>2, <1>3, <1>4, <1>5, <1>6, <1>8, <1>9, <1>10, <1>11, <1>12
  DEF Next, Client, Server, Quiet

\* Whatever the server does to an attempt under way keeps ClientInv.
LEMMA ServerKeepsClient ==
    ASSUME TypeOK, ClientInv, UNCHANGED <<clientVars, abandoned>>,
           NEW a \in Attempts, NEW s \in PCs \ {"unused"},
           pc[a] \notin {"unused", "committed", "aborted"},
           pc' = [pc EXCEPT ![a] = s]
    PROVE  ClientInv'
<1> SUFFICES ASSUME NEW e \in Exporters
             PROVE  /\ answer[e] = "none" => tries[e] = 0
                    /\ answer[e] # "none" => request[e] \in Requests /\ tries[e] >= 1
                    /\ answer[e] = "ok" => pc'[Latest(e)] = "committed"
                    /\ \A n \in 1..MaxAttempts :
                        /\ n > tries[e] => pc'[<<e, n>>] = "unused"
                        /\ n < tries[e] => pc'[<<e, n>>] = "aborted" \/ abandoned[<<e, n>>]
                        /\ pc'[<<e, n>>] \notin {"unused", "aborted"}
                             => ~ Overflows(request[e])
  BY DEF ClientInv, Latest, clientVars
<1>1. pc \in [Attempts -> PCs]
  BY DEF TypeOK
<1>2. answer[e] = "ok" => pc'[Latest(e)] = "committed"
  BY <1>1 DEF ClientInv
<1>3. ASSUME NEW n \in 1..MaxAttempts
      PROVE  /\ n > tries[e] => pc'[<<e, n>>] = "unused"
             /\ n < tries[e] => pc'[<<e, n>>] = "aborted" \/ abandoned[<<e, n>>]
             /\ pc'[<<e, n>>] \notin {"unused", "aborted"} => ~ Overflows(request[e])
  <2>1. <<e, n>> \in Attempts
    BY AttemptOf
  <2>2. pc'[<<e, n>>] = IF <<e, n>> = a THEN s ELSE pc[<<e, n>>]
    BY <1>1, <2>1
  <2> QED
    BY <2>2 DEF ClientInv
<1> QED
  BY <1>2, <1>3 DEF ClientInv

LEMMA NextClient == TypeOK /\ ClientInv /\ [Next]_vars => ClientInv'
<1> SUFFICES ASSUME TypeOK, ClientInv, [Next]_vars
             PROVE  ClientInv'
  OBVIOUS
<1>t. /\ pc \in [Attempts -> PCs] /\ tries \in [Exporters -> 0..MaxAttempts]
      /\ answer \in [Exporters -> {"none", "open", "ok"}]
      /\ abandoned \in [Attempts -> BOOLEAN]
      /\ request \in [Exporters -> Requests \cup {NoRequest}]
      /\ MaxAttempts \in Nat \ {0}
  BY MaxAttemptsAssumption DEF TypeOK
<1>1. ASSUME NEW e \in Exporters, NEW r \in Requests, Export(e, r)
      PROVE  ClientInv'
  <2>1. tries[e] = 0
    BY <1>1 DEF Export, ClientInv
  <2>2. \A n \in 1..MaxAttempts : pc[<<e, n>>] = "unused"
    BY <1>t, <2>1 DEF ClientInv
  <2>3. ASSUME NEW d \in Exporters, NEW n \in 1..MaxAttempts
        PROVE  /\ pc'[<<d, n>>] = IF d = e /\ n = 1
                                  THEN IF Overflows(r) THEN "aborted" ELSE "acquire"
                                  ELSE pc[<<d, n>>]
    BY <1>t, <1>1, AttemptOf DEF Export, Arrive
  <2>4. /\ \A d \in Exporters : answer'[d] = IF d = e THEN "open" ELSE answer[d]
        /\ \A d \in Exporters : tries'[d] = IF d = e THEN 1 ELSE tries[d]
        /\ \A d \in Exporters : request'[d] = IF d = e THEN r ELSE request[d]
        /\ abandoned' = abandoned
    BY <1>t, <1>1 DEF Export
  <2>5. ASSUME NEW d \in Exporters, d # e, answer[d] = "ok"
        PROVE  pc'[<<d, tries[d]>>] = "committed"
    BY <1>t, <2>5, <1>1 DEF ClientInv, Latest, Export, Arrive
  <2> QED
    BY <1>t, <2>2, <2>3, <2>4, <2>5 DEF ClientInv, Latest
<1>2. ASSUME NEW e \in Exporters, Retry(e)
      PROVE  ClientInv'
  <2>1. /\ tries[e] + 1 \in 1..MaxAttempts /\ tries[e] >= 1
        /\ tries[e] \in 1..MaxAttempts
    BY <1>t, <1>2 DEF Retry, ClientInv
  <2>2. pc[<<e, tries[e]>>] = "aborted" \/ abandoned[<<e, tries[e]>>]
    BY <1>2 DEF Retry, Latest
  <2>3. ASSUME NEW d \in Exporters, NEW n \in 1..MaxAttempts
        PROVE  /\ pc'[<<d, n>>] = IF d = e /\ n = tries[e] + 1
                                  THEN IF Overflows(request[e]) THEN "aborted" ELSE "acquire"
                                  ELSE pc[<<d, n>>]
    BY <1>t, <1>2, <2>1, AttemptOf DEF Retry, Arrive
  <2>4. /\ \A d \in Exporters : tries'[d] = IF d = e THEN tries[e] + 1 ELSE tries[d]
        /\ answer' = answer /\ request' = request /\ abandoned' = abandoned
        /\ answer[e] = "open"
    BY <1>t, <1>2 DEF Retry
  <2>5. ASSUME NEW d \in Exporters, answer[d] = "ok"
        PROVE  pc'[<<d, tries'[d]>>] = "committed"
    <3>1. d # e /\ tries'[d] = tries[d]
      BY <2>4, <2>5
    <3> QED
      BY <1>t, <2>5, <3>1, <1>2 DEF ClientInv, Latest, Retry, Arrive
  <2>6. ASSUME NEW d \in Exporters, NEW n \in 1..MaxAttempts
        PROVE  /\ n > tries'[d] => pc'[<<d, n>>] = "unused"
               /\ n < tries'[d] => pc'[<<d, n>>] = "aborted" \/ abandoned[<<d, n>>]
               /\ pc'[<<d, n>>] \notin {"unused", "aborted"} => ~ Overflows(request[d])
    <3>1. CASE d = e
      BY <1>t, <2>1, <2>2, <2>3, <2>4, <3>1 DEF ClientInv
    <3>2. CASE d # e
      BY <1>t, <2>3, <2>4, <3>2 DEF ClientInv
    <3> QED
      BY <3>1, <3>2
  <2>7. \A d \in Exporters :
          /\ answer[d] = "none" => tries'[d] = 0
          /\ answer[d] # "none" => request[d] \in Requests /\ tries'[d] >= 1
    BY <1>t, <2>1, <2>4 DEF ClientInv
  <2> QED
    BY <2>4, <2>5, <2>6, <2>7 DEF ClientInv, Latest
<1>3. ASSUME NEW e \in Exporters, Abandon(e)
      PROVE  ClientInv'
  <2>1. ASSUME NEW d \in Exporters, NEW n \in 1..MaxAttempts
        PROVE  /\ \/ pc'[<<d, n>>] = pc[<<d, n>>]
                  \/ pc[<<d, n>>] = "acquire" /\ pc'[<<d, n>>] = "aborted"
               /\ abandoned[<<d, n>>] => abandoned'[<<d, n>>]
    BY <1>t, <1>3, AttemptOf DEF Abandon
  <2>2. answer' = answer /\ request' = request /\ tries' = tries
    BY <1>3 DEF Abandon, clientVars
  <2>3. ASSUME NEW d \in Exporters, answer[d] = "ok"
        PROVE  pc'[Latest(d)] = "committed"
    BY <1>t, <1>3, <2>3 DEF Abandon, ClientInv
  <2>4. ASSUME NEW d \in Exporters, NEW n \in 1..MaxAttempts
        PROVE  /\ n > tries[d] => pc'[<<d, n>>] = "unused"
               /\ n < tries[d] => pc'[<<d, n>>] = "aborted" \/ abandoned'[<<d, n>>]
               /\ pc'[<<d, n>>] \notin {"unused", "aborted"} => ~ Overflows(request[d])
    BY <2>1 DEF ClientInv
  <2>5. \A d \in Exporters : Latest(d)' = Latest(d)
    BY <2>2 DEF Latest
  <2> QED
    BY <2>2, <2>3, <2>4, <2>5 DEF ClientInv
<1>4. ASSUME NEW e \in Exporters, Reply(e)
      PROVE  ClientInv'
  <2>1. /\ pc' = pc /\ tries' = tries /\ request' = request /\ abandoned' = abandoned
        /\ pc[Latest(e)] = "committed" /\ answer[e] = "open"
        /\ \A d \in Exporters : answer'[d] = IF d = e THEN "ok" ELSE answer[d]
    BY <1>t, <1>4 DEF Reply
  <2> QED
    BY <2>1 DEF ClientInv, Latest
<1>5. ASSUME NEW a \in Attempts, Server(a) \/ SessionLost(a)
      PROVE  ClientInv'
  <2>1. UNCHANGED <<clientVars, abandoned>>
    BY <1>5 DEF Server, Begin, AcquireTimeout, NextStatement, SendCommit,
                UpsertRow, StatementDone, Commit, Rollback, DeadlockVictim, SessionLost
  <2>2. pc[a] \notin {"unused", "committed", "aborted"}
    BY <1>5 DEF Server, Begin, AcquireTimeout, NextStatement, SendCommit,
                UpsertRow, StatementDone, Commit, Rollback, DeadlockVictim,
                SessionLost, InTx
  <2>3. \E s \in PCs \ {"unused"} : pc' = [pc EXCEPT ![a] = s]
    <3>1. CASE UpsertRow(a)
      <4>1. pc = [pc EXCEPT ![a] = pc[a]] /\ pc[a] \in PCs \ {"unused"}
        BY <1>t, <2>2
      <4>2. pc' = pc \/ pc' = [pc EXCEPT ![a] = "aborted"]
        BY <3>1 DEF UpsertRow, End
      <4> QED
        BY <4>1, <4>2 DEF PCs
    <3>2. CASE ~ UpsertRow(a)
      BY <1>5, <3>2 DEF Server, Begin, AcquireTimeout, NextStatement, SendCommit,
                StatementDone, Commit, Rollback, DeadlockVictim, SessionLost, End, PCs
    <3> QED
      BY <3>1, <3>2
  <2> QED
    BY <2>1, <2>2, <2>3, ServerKeepsClient
<1>6. CASE UNCHANGED vars
  BY <1>6 DEF vars, ClientInv, Latest
<1> QED
  BY <1>1, <1>2, <1>3, <1>4, <1>5, <1>6 DEF Next, Client, Quiet

-----------------------------------------------------------------------------
\* Rows.

\* An attempt that a step leaves alone keeps its part of RowsInv; so does one
\* not made yet, whose request may still be chosen.
LEMMA RowsFrame ==
    ASSUME NEW b \in Attempts, RowsOf(b),
           pc'[b] = pc[b], stmt'[b] = stmt[b], done'[b] = done[b],
           pc[b] = "unused" \/ request'[b[1]] = request[b[1]]
    PROVE  RowsOf(b)'
BY DEF RowsOf, InTx, Prefix, Req

\* An attempt outside any transaction has neither statement nor locks.
LEMMA RowsOutside ==
    ASSUME NEW b \in Attempts,
           pc'[b] # "committing", stmt'[b] = {}, done'[b] = {}
    PROVE  RowsOf(b)'
BY DEF RowsOf, Prefix

LEMMA NextRows ==
    TypeOK /\ ClientInv /\ RowsInv /\ [Next]_vars => RowsInv'
<1> SUFFICES ASSUME TypeOK, ClientInv, RowsInv, [Next]_vars,
                    NEW b \in Attempts
             PROVE  RowsOf(b)'
  BY DEF RowsInv
<1>t. /\ pc \in [Attempts -> PCs]
      /\ stmt \in [Attempts -> SUBSET Nat] /\ done \in [Attempts -> SUBSET Nat]
      /\ request \in [Exporters -> Requests \cup {NoRequest}]
  BY DEF TypeOK
<1>b. RowsOf(b)
  BY DEF RowsInv
<1>e. b[1] \in Exporters /\ b[2] \in 1..MaxAttempts /\ b = <<b[1], b[2]>>
  BY AttemptParts
<1>1. ASSUME NEW e \in Exporters, NEW r \in Requests, Export(e, r)
      PROVE  RowsOf(b)'
  <2>1. CASE b[1] = e
    <3>1. pc[b] = "unused"
      <4>1. tries[e] = 0 /\ b[2] > tries[e]
        BY <1>1, <1>e, MaxAttemptsAssumption DEF Export, ClientInv
      <4> QED
        BY <1>e, <2>1, <4>1 DEF ClientInv
    <3>2. stmt'[b] = {} /\ done'[b] = {}
      BY <1>1, <1>b, <3>1 DEF Export, RowsOf, InTx
    <3>3. pc'[b] # "committing"
      BY <1>t, <1>1, <3>1 DEF Export, Arrive
    <3> QED
      BY <3>2, <3>3, RowsOutside
  <2>2. CASE b[1] # e
    <3>1. b # <<e, 1>>
      BY <2>2
    <3>2. /\ pc'[b] = pc[b] /\ stmt'[b] = stmt[b] /\ done'[b] = done[b]
          /\ request'[b[1]] = request[b[1]]
      BY <1>t, <1>1, <1>e, <2>2, <3>1 DEF Export, Arrive
    <3> QED
      BY <1>b, <3>2, RowsFrame
  <2> QED
    BY <2>1, <2>2
<1>2. ASSUME NEW e \in Exporters, Retry(e)
      PROVE  RowsOf(b)'
  <2>1. UNCHANGED <<request, stmt, done>>
    BY <1>2 DEF Retry
  <2>2. CASE b = <<e, tries[e] + 1>>
    <3>1. pc[b] = "unused"
      <4>1. tries[e] \in Nat /\ b[1] = e /\ b[2] > tries[e]
        BY <2>2, MaxAttemptsAssumption DEF TypeOK
      <4> QED
        BY <1>e, <4>1 DEF ClientInv
    <3>2. stmt'[b] = {} /\ done'[b] = {}
      BY <1>b, <2>1, <3>1 DEF RowsOf, InTx
    <3>3. pc'[b] # "committing"
      BY <1>t, <1>2, <3>1 DEF Retry, Arrive
    <3> QED
      BY <3>2, <3>3, RowsOutside
  <2>3. CASE b # <<e, tries[e] + 1>>
    <3>1. pc'[b] = pc[b]
      BY <1>t, <1>2, <2>3 DEF Retry, Arrive
    <3> QED
      BY <1>b, <2>1, <3>1, RowsFrame
  <2> QED
    BY <2>2, <2>3
<1>3. ASSUME NEW e \in Exporters, Abandon(e)
      PROVE  RowsOf(b)'
  <2>1. UNCHANGED <<request, stmt, done>>
    BY <1>3 DEF Abandon, clientVars
  <2>2. pc'[b] = pc[b] \/ (pc[b] = "acquire" /\ pc'[b] = "aborted")
    BY <1>t, <1>3 DEF Abandon
  <2>3. CASE pc'[b] = pc[b]
    BY <1>b, <2>1, <2>3, RowsFrame
  <2>4. CASE pc[b] = "acquire" /\ pc'[b] = "aborted"
    <3>1. stmt'[b] = {} /\ done'[b] = {}
      BY <1>b, <2>1, <2>4 DEF RowsOf, InTx
    <3> QED
      BY <2>4, <3>1, RowsOutside
  <2> QED
    BY <2>2, <2>3, <2>4
<1>4. ASSUME NEW e \in Exporters, Reply(e)
      PROVE  RowsOf(b)'
  BY <1>4, <1>b, RowsFrame DEF Reply
<1>5. ASSUME NEW a \in Attempts, Server(a) \/ SessionLost(a), a # b
      PROVE  RowsOf(b)'
  <2>1. request' = request
    BY <1>5 DEF Server, Begin, AcquireTimeout, NextStatement, SendCommit, UpsertRow,
                StatementDone, Commit, Rollback, DeadlockVictim, SessionLost, clientVars
  <2>2. /\ pc'[b] = pc[b] /\ stmt'[b] = stmt[b] /\ done'[b] = done[b]
    BY <1>t, <1>5 DEF Server, Begin, AcquireTimeout, NextStatement, SendCommit, UpsertRow,
                StatementDone, Commit, Rollback, DeadlockVictim, SessionLost, End
  <2> QED
    BY <1>b, <2>1, <2>2, RowsFrame
<1>6. ASSUME Begin(b) \/ AcquireTimeout(b)
      PROVE  RowsOf(b)'
  <2>1. stmt'[b] = {} /\ done'[b] = {} /\ pc'[b] # "committing"
    BY <1>t, <1>b, <1>6 DEF Begin, AcquireTimeout, RowsOf, InTx
  <2> QED
    BY <2>1, RowsOutside
<1>7. ASSUME NextStatement(b)
      PROVE  RowsOf(b)'
  <2> DEFINE chunk == FirstRows(Remaining(b), ChunkRows)
  <2>1. /\ pc'[b] = "statement" /\ stmt'[b] = chunk /\ done'[b] = done[b]
        /\ Req(b)' = Req(b)
    BY <1>t, <1>7 DEF NextStatement, clientVars, Req
  <2>2. /\ pc[b] = "between" /\ Kept(Req(b)) \subseteq Nat
        /\ done[b] \subseteq Kept(Req(b)) /\ Prefix(b, done[b])
    BY <1>b, <1>7, SentRequest DEF NextStatement, RowsOf
  <2>3. chunk \subseteq Kept(Req(b)) /\ Remaining(b) \subseteq Nat
    BY <2>2, FirstRowsSubset DEF Remaining
  <2>4. ASSUME NEW i \in chunk, NEW j \in Kept(Req(b)), j < i
        PROVE  j \in chunk \cup done[b]
    <3>1. CASE j \in done[b]
      BY <3>1
    <3>2. CASE j \in Remaining(b)
      BY <2>3, <2>4, <3>2, FirstRowsPrefix, ChunkRowsAssumption
    <3> QED
      BY <3>1, <3>2 DEF Remaining
  <2>5. Prefix(b, done[b])' /\ Prefix(b, stmt[b] \cup done[b])'
    BY <2>1, <2>2, <2>4 DEF Prefix
  <2> QED
    BY <2>1, <2>2, <2>3, <2>5 DEF RowsOf, InTx
<1>8. ASSUME SendCommit(b)
      PROVE  RowsOf(b)'
  <2>1. /\ pc[b] = "between" /\ pc'[b] = "committing" /\ UNCHANGED <<stmt, done>>
        /\ Req(b)' = Req(b) /\ Remaining(b) = {}
    BY <1>t, <1>8 DEF SendCommit, clientVars, Req
  <2>2. done[b] = Kept(Req(b)) /\ stmt[b] = {}
    BY <1>b, <2>1 DEF Remaining, RowsOf
  <2> QED
    BY <1>b, <2>1, <2>2 DEF RowsOf, Prefix, InTx
<1>9. ASSUME UpsertRow(b)
      PROVE  RowsOf(b)'
  <2>1. PICK i \in stmt[b] :
          /\ IsNextRow(b, i)
          /\ \/ End(b, "aborted")
             \/ done' = [done EXCEPT ![b] = @ \cup {i}] /\ UNCHANGED <<pc, stmt>>
    BY <1>9 DEF UpsertRow
  <2>2. CASE End(b, "aborted")
    <3>1. stmt'[b] = {} /\ done'[b] = {} /\ pc'[b] # "committing"
      BY <1>t, <2>2 DEF End
    <3> QED
      BY <3>1, RowsOutside
  <2>3. CASE done' = [done EXCEPT ![b] = @ \cup {i}] /\ UNCHANGED <<pc, stmt>>
    <3>1. /\ done'[b] = done[b] \cup {i} /\ stmt'[b] = stmt[b] /\ pc'[b] = "statement"
          /\ pc[b] = "statement" /\ Req(b)' = Req(b)
      BY <1>t, <1>9, <2>3 DEF UpsertRow, clientVars, Req
    <3>2. /\ stmt[b] \cup done[b] \subseteq Kept(Req(b)) /\ Kept(Req(b)) \subseteq Nat
          /\ Prefix(b, done[b]) /\ Prefix(b, stmt[b] \cup done[b])
      BY <1>b, <3>1, SentRequest DEF RowsOf
    <3>3. stmt[b] \cup (done[b] \cup {i}) = stmt[b] \cup done[b]
      OBVIOUS
    <3>4. ASSUME NEW j \in Kept(Req(b)), j < i
          PROVE  j \in done[b]
      <4>1. j \in stmt[b] \cup done[b]
        BY <3>2, <3>4 DEF Prefix
      <4>2. i \in Nat /\ j \in Nat
        BY <3>2
      <4>3. j \notin stmt[b] \ done[b]
        BY <2>1, <3>4, <4>2 DEF IsNextRow
      <4> QED
        BY <4>1, <4>3
    <3>5. Prefix(b, done[b])'
      BY <3>1, <3>2, <3>4 DEF Prefix
    <3>6. Prefix(b, stmt[b] \cup done[b])'
      BY <3>1, <3>2, <3>3 DEF Prefix
    <3> QED
      BY <3>1, <3>2, <3>5, <3>6 DEF RowsOf, InTx
  <2> QED
    BY <2>1, <2>2, <2>3
<1>10. ASSUME StatementDone(b)
       PROVE  RowsOf(b)'
  <2>1. /\ pc[b] = "statement" /\ pc'[b] = "between" /\ stmt'[b] = {}
        /\ done'[b] = done[b] /\ Req(b)' = Req(b)
    BY <1>t, <1>10 DEF StatementDone, clientVars, Req
  <2> QED
    BY <1>b, <2>1 DEF RowsOf, InTx, Prefix
<1>11. ASSUME Commit(b) \/ Rollback(b) \/ DeadlockVictim(b) \/ SessionLost(b)
       PROVE  RowsOf(b)'
  <2>1. stmt'[b] = {} /\ done'[b] = {} /\ pc'[b] # "committing"
    BY <1>t, <1>11 DEF Commit, Rollback, DeadlockVictim, SessionLost, End
  <2> QED
    BY <2>1, RowsOutside
<1>12. CASE UNCHANGED vars
  BY <1>b, <1>12, RowsFrame DEF vars
<1>13. ASSUME NEW a \in Attempts, Server(a) \/ SessionLost(a)
       PROVE  RowsOf(b)'
  BY <1>5, <1>6, <1>7, <1>8, <1>9, <1>10, <1>11, <1>13 DEF Server
<1> QED
  BY <1>1, <1>2, <1>3, <1>4, <1>12, <1>13 DEF Next, Client, Quiet

-----------------------------------------------------------------------------
\* Locks.

\* A step that takes no lock and leaves the requests of lock holders alone.
LEMMA LocksFrame ==
    ASSUME LocksInv,
           \A a \in Attempts : done'[a] \subseteq done[a],
           \A a \in Attempts : done'[a] = {} \/ request'[a[1]] = request[a[1]]
    PROVE  LocksInv'
<1> SUFFICES ASSUME NEW a \in Attempts, NEW b \in Attempts, a # b,
                    NEW i \in done'[a], NEW j \in done'[b]
             PROVE  Req(a)'[i].key # Req(b)'[j].key
  BY DEF LocksInv
<1>1. Req(a)' = Req(a) /\ Req(b)' = Req(b)
  BY DEF Req
<1> QED
  BY <1>1 DEF LocksInv

LEMMA NextLocks ==
    TypeOK /\ ClientInv /\ RowsInv /\ LocksInv /\ [Next]_vars => LocksInv'
<1> SUFFICES ASSUME TypeOK, ClientInv, RowsInv, LocksInv, [Next]_vars
             PROVE  LocksInv'
  OBVIOUS
<1>t. /\ pc \in [Attempts -> PCs] /\ done \in [Attempts -> SUBSET Nat]
      /\ request \in [Exporters -> Requests \cup {NoRequest}]
  BY DEF TypeOK
<1>1. ASSUME NEW e \in Exporters, NEW r \in Requests, Export(e, r)
      PROVE  LocksInv'
  <2>1. done' = done /\ tries[e] = 0
    BY <1>1 DEF Export, ClientInv
  <2>2. ASSUME NEW a \in Attempts
        PROVE  done'[a] = {} \/ request'[a[1]] = request[a[1]]
    <3>1. a[1] \in Exporters /\ a[2] \in 1..MaxAttempts /\ a = <<a[1], a[2]>>
      BY AttemptParts
    <3>2. CASE a[1] = e
      <4>1. pc[a] = "unused"
        BY <2>1, <3>1, <3>2, MaxAttemptsAssumption DEF ClientInv
      <4> QED
        BY <2>1, <4>1 DEF RowsInv, RowsOf, InTx
    <3>3. CASE a[1] # e
      BY <1>t, <1>1, <3>1, <3>3 DEF Export
    <3> QED
      BY <3>2, <3>3
  <2> QED
    BY <2>1, <2>2, LocksFrame
<1>2. ASSUME NEW a \in Attempts, UpsertRow(a)
      PROVE  LocksInv'
  <2>1. PICK i \in stmt[a] :
          /\ \A b \in Attempts \ {a} : ~ Holds(b, Req(a)[i].key)
          /\ \/ End(a, "aborted")
             \/ done' = [done EXCEPT ![a] = @ \cup {i}] /\ UNCHANGED <<pc, stmt>>
    BY <1>2 DEF UpsertRow
  <2>2. request' = request
    BY <1>2 DEF UpsertRow, clientVars
  <2>3. CASE End(a, "aborted")
    BY <1>t, <2>2, <2>3, LocksFrame DEF End
  <2>4. CASE done' = [done EXCEPT ![a] = @ \cup {i}] /\ UNCHANGED <<pc, stmt>>
    <3>1. ASSUME NEW b \in Attempts \ {a}, NEW j \in done[b]
          PROVE  Req(b)[j].key # Req(a)[i].key
      BY <2>1 DEF Holds, KeysOf
    <3>2. /\ done'[a] = done[a] \cup {i}
          /\ \A b \in Attempts \ {a} : done'[b] = done[b]
      BY <1>t, <2>4
    <3>3. \A b \in Attempts : Req(b)' = Req(b)
      BY <2>2 DEF Req
    <3> SUFFICES ASSUME NEW b \in Attempts, NEW c \in Attempts, b # c,
                        NEW l \in done'[b], NEW m \in done'[c]
                 PROVE  Req(b)[l].key # Req(c)[m].key
      BY <3>3 DEF LocksInv
    <3>4. CASE b = a
      BY <3>1, <3>2, <3>4 DEF LocksInv
    <3>5. CASE c = a
      BY <3>1, <3>2, <3>5 DEF LocksInv
    <3>6. CASE b # a /\ c # a
      BY <3>2, <3>6 DEF LocksInv
    <3> QED
      BY <3>4, <3>5, <3>6
  <2> QED
    BY <2>1, <2>3, <2>4
<1>3. ASSUME NEW a \in Attempts, Server(a) \/ SessionLost(a), ~ UpsertRow(a)
      PROVE  LocksInv'
  <2>1. request' = request
    BY <1>3 DEF Server, Begin, AcquireTimeout, NextStatement, SendCommit,
                StatementDone, Commit, Rollback, DeadlockVictim, SessionLost, clientVars
  <2>2. done' = done \/ done' = [done EXCEPT ![a] = {}]
    BY <1>3 DEF Server, Begin, AcquireTimeout, NextStatement, SendCommit,
                StatementDone, Commit, Rollback, DeadlockVictim, SessionLost, End
  <2>3. \A b \in Attempts : done'[b] \subseteq done[b]
    BY <1>t, <2>2
  <2> QED
    BY <2>1, <2>3, LocksFrame
<1>4. ASSUME UNCHANGED <<request, done>>
      PROVE  LocksInv'
  BY <1>4, LocksFrame
<1>5. ASSUME NEW e \in Exporters, Retry(e) \/ Abandon(e) \/ Reply(e)
      PROVE  LocksInv'
  BY <1>4, <1>5 DEF Retry, Abandon, Reply, clientVars
<1>6. CASE UNCHANGED vars
  BY <1>4, <1>6 DEF vars
<1> QED
  BY <1>1, <1>2, <1>3, <1>5, <1>6 DEF Next, Client, Quiet

\* Two transactions whose done rows are the same rows of the same request
\* would hold the same locks.
LEMMA SameRowsNoLocks ==
    ASSUME LocksInv, NEW a \in Attempts, NEW b \in Attempts, a # b,
           Req(a) = Req(b), done[a] \cap done[b] # {}
    PROVE  FALSE
BY DEF LocksInv

-----------------------------------------------------------------------------
\* Commits.

LEMMA NextCommit ==
    TypeOK /\ ClientInv /\ RowsInv /\ LocksInv /\ CommitInv /\ [Next]_vars
        => CommitInv'
<1> SUFFICES ASSUME TypeOK, ClientInv, RowsInv, LocksInv, CommitInv, [Next]_vars,
                    NEW e \in Exporters, NEW m \in 1..MaxAttempts,
                    NEW n \in 1..MaxAttempts, m < n,
                    pc'[<<e, m>>] = "committing", pc'[<<e, n>>] = "committed"
             PROVE  Kept(request'[e]) = {}
  BY DEF CommitInv
<1>t. /\ pc \in [Attempts -> PCs] /\ request \in [Exporters -> Requests \cup {NoRequest}]
      /\ tries \in [Exporters -> 0..MaxAttempts] /\ MaxAttempts \in Nat
  BY MaxAttemptsAssumption DEF TypeOK
<1>a. <<e, m>> \in Attempts /\ <<e, n>> \in Attempts /\ <<e, m>> # <<e, n>>
  BY AttemptOf
<1>1. CASE pc[<<e, m>>] = "committing" /\ pc[<<e, n>>] = "committed"
  <2>1. tries[e] # 0
    BY <1>1, <1>t DEF ClientInv
  <2>2. request'[e] = request[e]
    BY <1>t, <2>1 DEF Next, Client, Server, Quiet, vars, clientVars, Export, Retry,
        Abandon, Reply, Begin, AcquireTimeout, NextStatement, SendCommit, UpsertRow,
        StatementDone, Commit, Rollback, DeadlockVictim, SessionLost, ClientInv
  <2> QED
    BY <1>1, <2>2 DEF CommitInv
<1>2. ASSUME NEW a \in Attempts, SendCommit(a)
      PROVE  Kept(request'[e]) = {}
  <2>1. CASE a = <<e, m>>
    <3>1. pc[<<e, n>>] = "committed"
      BY <1>t, <1>a, <1>2, <2>1 DEF SendCommit
    <3>2. ~ (n > tries[e])
      BY <3>1 DEF ClientInv
    <3>3. m < tries[e]
      BY <1>t, <3>2
    <3>4. pc[<<e, m>>] = "between" /\ ~ abandoned[<<e, m>>]
      BY <1>2, <2>1 DEF SendCommit
    <3> QED
      BY <3>3, <3>4 DEF ClientInv
  <2>2. CASE a # <<e, m>>
    BY <1>t, <1>a, <1>1, <1>2, <2>2 DEF SendCommit
  <2> QED
    BY <2>1, <2>2
<1>3. ASSUME NEW a \in Attempts, Commit(a)
      PROVE  Kept(request'[e]) = {}
  <2>1. request' = request /\ pc[a] = "committing"
    BY <1>3 DEF Commit, clientVars
  <2>2. pc' = [pc EXCEPT ![a] = "committed"]
    BY <1>3 DEF Commit, End
  <2>3. CASE a = <<e, n>>
    <3>1. pc[<<e, m>>] = "committing" /\ pc[<<e, n>>] = "committing"
      BY <1>t, <1>a, <2>1, <2>2, <2>3
    <3>2. /\ done[<<e, m>>] = Kept(request[e]) /\ done[<<e, n>>] = Kept(request[e])
          /\ Req(<<e, m>>) = Req(<<e, n>>)
      BY <1>a, <3>1 DEF RowsInv, RowsOf, Req
    <3>3. done[<<e, m>>] \cap done[<<e, n>>] = {}
      BY <1>a, <3>2, SameRowsNoLocks
    <3> QED
      BY <2>1, <3>2, <3>3
  <2>4. CASE a # <<e, n>>
    <3>1. pc[<<e, n>>] = "committed" /\ pc[<<e, m>>] = "committing"
      BY <1>t, <1>a, <2>1, <2>2, <2>4
    <3> QED
      BY <1>1, <3>1
  <2> QED
    BY <2>3, <2>4
<1>4. ASSUME /\ pc[<<e, m>>] = "committing" \/ pc'[<<e, m>>] # "committing"
             /\ pc[<<e, n>>] = "committed" \/ pc'[<<e, n>>] # "committed"
      PROVE  Kept(request'[e]) = {}
  BY <1>1, <1>4
<1>5. ASSUME NEW d \in Exporters, NEW r \in Requests, Export(d, r)
      PROVE  Kept(request'[e]) = {}
  BY <1>t, <1>a, <1>4, <1>5 DEF Export, Arrive
<1>6. ASSUME NEW d \in Exporters, Retry(d) \/ Abandon(d) \/ Reply(d)
      PROVE  Kept(request'[e]) = {}
  BY <1>t, <1>a, <1>4, <1>6 DEF Retry, Abandon, Reply, Arrive
<1>7. ASSUME NEW a \in Attempts, Server(a) \/ SessionLost(a),
             ~ SendCommit(a), ~ Commit(a)
      PROVE  Kept(request'[e]) = {}
  BY <1>t, <1>a, <1>4, <1>7 DEF Server, Begin, AcquireTimeout, NextStatement, UpsertRow,
        StatementDone, Rollback, DeadlockVictim, SessionLost, End
<1>8. CASE UNCHANGED vars
  BY <1>4, <1>8 DEF vars
<1> QED
  BY <1>2, <1>3, <1>5, <1>6, <1>7, <1>8 DEF Next, Client, Quiet

-----------------------------------------------------------------------------
\* The theorems.

\* The inductive invariant holds in every reachable state.
THEOREM Invariance == Spec => []IInv
<1>1. Init => IInv
  <2> SUFFICES ASSUME Init PROVE IInv
    OBVIOUS
  <2>1. TypeOK /\ ClientInv
    BY InitClient
  <2>2. RowsInv /\ LocksInv /\ CommitInv
    BY AttemptOf DEF Init, RowsInv, RowsOf, LocksInv, CommitInv, Prefix, InTx
  <2> QED
    BY <2>1, <2>2 DEF IInv
<1>2. IInv /\ [Next]_vars => IInv'
  BY NextType, NextClient, NextRows, NextLocks, NextCommit DEF IInv
<1> QED
  BY <1>1, <1>2, PTL DEF Spec

\* Every variable keeps its type (TypeOK), whatever the sizes and requests.
THEOREM TypeCorrect == Spec => []TypeOK
<1>1. IInv => TypeOK
  BY DEF IInv
<1> QED
  BY <1>1, Invariance, PTL

\* No INSERT of an export names the same row twice, for every request and
\* every chunk size (dedupe_spans).
THEOREM NoRowTwice == Spec => []NoRowTwiceInStatement
<1>1. IInv => NoRowTwiceInStatement
  <2> SUFFICES ASSUME IInv, NEW a \in Attempts, pc[a] = "statement",
                      NEW i \in stmt[a], NEW j \in stmt[a],
                      Req(a)[i].key = Req(a)[j].key
               PROVE  i = j
    BY DEF NoRowTwiceInStatement
  <2>1. stmt[a] \subseteq Kept(Req(a))
    BY DEF IInv, RowsInv, RowsOf
  <2>2. Req(a) \in Requests
    BY SentRequest DEF IInv
  <2> QED
    BY <2>1, <2>2, KeptDistinct
<1> QED
  BY <1>1, Invariance, PTL

\* However many attempts of an export are alive, they never wait for one
\* another in a circle: at most one of them holds any lock, since each locks
\* the first row before any other.
THEOREM RetriesDoNotDeadlock == Spec => []RetriesNeverDeadlock
<1>1. IInv => RetriesNeverDeadlock
  <2> SUFFICES ASSUME IInv, NEW e \in Exporters,
                      NEW S \in SUBSET ({e} \X (1..MaxAttempts)), Deadlocked(S)
               PROVE  FALSE
    BY DEF RetriesNeverDeadlock
  <2>1. \A a \in S : a \in Attempts /\ Req(a) = request[e]
    BY DEF Attempts, Req
  <2>2. PICK a \in S : TRUE
    BY DEF Deadlocked
  <2>3. PICK b \in S : WaitsFor(a, b)
    BY DEF Deadlocked
  <2>4. PICK c \in S : WaitsFor(b, c)
    BY DEF Deadlocked
  <2>5. b # c /\ done[b] # {} /\ done[c] # {}
    BY <2>3, <2>4 DEF WaitsFor, Holds, KeysOf
  <2>6. pc[b] # "unused" /\ pc[c] # "unused"
    BY <2>1, <2>5 DEF IInv, RowsInv, RowsOf, InTx
  <2>7. /\ Kept(request[e]) \subseteq Nat
        /\ done[b] \subseteq Kept(request[e]) /\ done[c] \subseteq Kept(request[e])
        /\ Prefix(b, done[b]) /\ Prefix(c, done[c])
    BY <2>1, <2>6, SentRequest DEF IInv, RowsInv, RowsOf
  <2>8. PICK i \in done[b], j \in done[c] : TRUE
    BY <2>5
  <2>9. i \in Nat /\ j \in Nat /\ i \in Kept(request[e]) /\ j \in Kept(request[e])
    BY <2>7
  <2>10. CASE i < j
    <3>1. i \in done[c]
      BY <2>1, <2>7, <2>9, <2>10 DEF Prefix
    <3> QED
      BY <2>1, <2>5, <3>1, SameRowsNoLocks DEF IInv
  <2>11. CASE j < i
    <3>1. j \in done[b]
      BY <2>1, <2>7, <2>9, <2>11 DEF Prefix
    <3> QED
      BY <2>1, <2>5, <3>1, SameRowsNoLocks DEF IInv
  <2>12. CASE i = j
    BY <2>1, <2>5, <2>12, SameRowsNoLocks DEF IInv
  <2> QED
    BY <2>9, <2>10, <2>11, <2>12
<1> QED
  BY <1>1, Invariance, PTL

-----------------------------------------------------------------------------
\* Writing one span at a time.

\* A set of naturals that is not empty has a least element.
LEMMA Least ==
    ASSUME NEW S \in SUBSET Nat, S # {}
    PROVE  \E x \in S : \A y \in S : x <= y
<1>1. PICK x \in S : \A y \in S : ~ (<<y, x>> \in OpToRel(<, Nat))
  BY NatLessThanWellFounded, WFMin, Zenon
<1>2. \A y \in S : y \in Nat /\ x \in Nat /\ ~ (y < x)
  BY <1>1 DEF OpToRel
<1> QED
  BY <1>2

\* A set that has zero and every successor of a member has all naturals.
LEMMA Inductive ==
    ASSUME NEW S \in SUBSET Nat, 0 \in S, \A n \in S : n + 1 \in S
    PROVE  S = Nat
<1> SUFFICES ASSUME Nat \ S # {} PROVE FALSE
  OBVIOUS
<1>1. PICK x \in Nat \ S : \A y \in Nat \ S : x <= y
  BY Least
<1>2. x # 0 /\ x - 1 \in Nat /\ ~ (x <= x - 1)
  BY <1>1
<1>3. x - 1 \in S /\ (x - 1) + 1 = x
  BY <1>1, <1>2
<1> QED
  BY <1>1, <1>3

\* Of indices up to n there is a last, if any.
LEMMA LastIndex ==
    ASSUME NEW n \in Nat, NEW S \in SUBSET (1..n), S # {}
    PROVE  Max(S) \in S /\ \A x \in S : x <= Max(S)
<1> DEFINE left == {n - x : x \in S}
<1>1. \A x \in S : x \in Nat /\ n - x \in Nat
  OBVIOUS
<1>2. left \in SUBSET Nat /\ left # {}
  BY <1>1
<1>3. PICK y \in left : \A z \in left : y <= z
  <2> HIDE DEF left
  <2> QED
    BY <1>2, Least
<1>4. PICK m \in S : y = n - m
  OBVIOUS
<1>5. ASSUME NEW x \in S PROVE m >= x
  <2>1. n - x \in left
    OBVIOUS
  <2>2. n - m <= n - x
    <3> HIDE DEF left
    <3> QED
      BY <1>3, <1>4, <2>1
  <2>3. m \in Nat /\ x \in Nat
    BY <1>1
  <2> HIDE DEF left
  <2> QED
    BY <2>2, <2>3
<1>6. PICK x \in S : x = Max(S) /\ \A z \in S : x >= z
  BY <1>5 DEF Max
<1> QED
  BY <1>1, <1>6

\* One span written over a table, and the fold over the spans as a property of
\* a function on sets of their indices.
Upserted(t, e, r, i) ==
    IF r[i].key = Malformed THEN t ELSE [t EXCEPT ![r[i].key] = <<e, i>>]

WriteFrom(t, e, r, f, S) ==
    IF S = {} THEN t ELSE Upserted(f[S \ {Max(S)}], e, r, [i \in 1..Len(r) |-> i][Max(S)])

Writes(t, e, r, f) ==
    f = [S \in SUBSET DOMAIN [i \in 1..Len(r) |-> i] |-> WriteFrom(t, e, r, f, S)]

\* Without the last index of a set, it has one less.
LEMMA WithoutLast ==
    ASSUME NEW n \in Nat, NEW S \in SUBSET (1..n), S # {}
    PROVE  /\ Max(S) \in 1..n /\ S \ {Max(S)} \in SUBSET (1..n)
           /\ Cardinality(S) \in Nat /\ Cardinality(S \ {Max(S)}) \in Nat
           /\ Cardinality(S \ {Max(S)}) < Cardinality(S)
<1>1. Max(S) \in S
  BY LastIndex
<1>2. IsFiniteSet(1..n)
  BY FS_Interval
<1>3. IsFiniteSet(S) /\ Cardinality(S) \in Nat
  BY <1>2, FS_Subset, FS_CardinalityType
<1>4. IsFiniteSet(S \ {Max(S)}) /\ Cardinality(S \ {Max(S)}) = Cardinality(S) - 1
  BY <1>1, <1>3, FS_RemoveElement
<1>5. Cardinality(S \ {Max(S)}) \in Nat
  BY <1>4, FS_CardinalityType
<1>6. Max(S) \in 1..n /\ S \ {Max(S)} \in SUBSET (1..n)
  <2> HIDE DEF Max
  <2> QED
    BY <1>1
<1>7. Cardinality(S \ {Max(S)}) < Cardinality(S)
  BY <1>3, <1>4, <1>5
<1> QED
  BY <1>3, <1>5, <1>6, <1>7

\* The fold has a value: it can be built up from the empty set.
LEMMA WritesExist ==
    ASSUME NEW t, NEW e, NEW r, Len(r) \in Nat
    PROVE  \E f : Writes(t, e, r, f)
<1> DEFINE n == Len(r)
           upTo(k) == {S \in SUBSET (1..n) : Cardinality(S) < k}
           N == {k \in Nat : \E f : f = [S \in upTo(k) |-> WriteFrom(t, e, r, f, S)]}
<1>1. ASSUME NEW S \in SUBSET (1..n) PROVE Cardinality(S) \in Nat /\ Cardinality(S) <= n
  <2>1. IsFiniteSet(1..n) /\ Cardinality(1..n) = n
    BY FS_Interval
  <2> QED
    BY <2>1, FS_Subset, FS_CardinalityType
<1>2. 0 \in N
  <2> DEFINE f == [S \in {} |-> t]
  <2>1. upTo(0) = {}
    BY <1>1
  <2>2. f = [S \in upTo(0) |-> WriteFrom(t, e, r, f, S)]
    BY <2>1
  <2> QED
    BY <2>2
<1>3. ASSUME NEW k \in N PROVE k + 1 \in N
  <2>1. PICK f : f = [S \in upTo(k) |-> WriteFrom(t, e, r, f, S)]
    OBVIOUS
  <2> k \in Nat
    OBVIOUS
  <2> DEFINE g == [S \in upTo(k + 1) |-> IF S \in upTo(k) THEN f[S] ELSE WriteFrom(t, e, r, f, S)]
  <2>2. upTo(k) \subseteq upTo(k + 1)
    BY <1>1
  <2>3. ASSUME NEW S \in upTo(k + 1) PROVE g[S] = WriteFrom(t, e, r, g, S)
    <3>1. g[S] = WriteFrom(t, e, r, f, S)
      BY <2>1
    <3>2. CASE S = {}
      BY <3>1, <3>2 DEF WriteFrom
    <3>3. CASE S # {}
      <4> DEFINE R == S \ {Max(S)}
      <4>1. /\ R \in SUBSET (1..n) /\ Cardinality(R) \in Nat /\ Cardinality(S) \in Nat
            /\ Cardinality(R) < Cardinality(S) /\ Cardinality(S) < k + 1
        BY <3>3, WithoutLast
      <4>2. R \in upTo(k)
        <5> HIDE DEF R
        <5> QED
          BY <4>1
      <4>3. g[R] = f[R]
        BY <2>2, <4>2
      <4> HIDE DEF g
      <4> QED
        BY <3>1, <4>3 DEF WriteFrom
    <3> QED
      BY <3>2, <3>3
  <2>4. g = [S \in upTo(k + 1) |-> WriteFrom(t, e, r, g, S)]
    BY <2>3
  <2>5. \E h : h = [S \in upTo(k + 1) |-> WriteFrom(t, e, r, h, S)]
    <3> HIDE DEF g
    <3> QED
      BY <2>4
  <2>6. k + 1 \in Nat
    OBVIOUS
  <2> QED
    BY <2>5, <2>6
<1>4. N = Nat
  <2> HIDE DEF N
  <2> QED
    BY <1>2, <1>3, Inductive DEF N
<1>5. n + 1 \in N
  <2>1. n + 1 \in Nat
    OBVIOUS
  <2> HIDE DEF N
  <2> QED
    BY <1>4, <2>1
<1>6. upTo(n + 1) = SUBSET (1..n)
  BY <1>1
<1>7. PICK f : f = [S \in upTo(n + 1) |-> WriteFrom(t, e, r, f, S)]
  BY <1>5
<1>8. DOMAIN [i \in 1..Len(r) |-> i] = 1..n
  OBVIOUS
<1>9. Writes(t, e, r, f)
  BY <1>6, <1>7, <1>8 DEF Writes
<1> QED
  BY <1>9

\* What the fold of the library computes.
LEMMA RowAtATimeIs ==
    ASSUME NEW t, NEW e, NEW r, Len(r) \in Nat
    PROVE  \E f : Writes(t, e, r, f) /\ RowAtATime(t, e, r) = f[1..Len(r)]
<1> DEFINE f == CHOOSE f : Writes(t, e, r, f)
<1>1. Writes(t, e, r, f)
  BY WritesExist, Zenon
<1>2. RowAtATime(t, e, r) = f[DOMAIN [i \in 1..Len(r) |-> i]]
  BY Zenon DEF RowAtATime, FoldLeft, MapThenFoldSet, Writes, WriteFrom, Upserted
<1>3. DOMAIN [i \in 1..Len(r) |-> i] = 1..Len(r)
  OBVIOUS
<1> HIDE DEF f
<1> QED
  BY <1>1, <1>2, <1>3

\* The table after the first spans of a request: of each key the last one.
Written(T, t, e, r, n) ==
    /\ T = [k \in Keys |-> T[k]]
    /\ \A k \in Keys : (\A i \in 1..n : r[i].key # k) => T[k] = t[k]
    /\ \A i \in 1..n : r[i].key \in Keys /\ (\A j \in 1..n : r[j].key = r[i].key => j <= i) =>
          T[r[i].key] = <<e, i>>

LEMMA OneMoreWritten ==
    ASSUME NEW r \in Seq(SpanItem), NEW n \in Nat, n + 1 \in 1..Len(r),
           NEW T, NEW t, NEW e, Written(T, t, e, r, n)
    PROVE  Written(Upserted(T, e, r, n + 1), t, e, r, n + 1)
<1> DEFINE U == Upserted(T, e, r, n + 1)
           key == r[n + 1].key
<1>1. key \in Keys \cup {Malformed}
  <2>1. r[n + 1] \in SpanItem
    OBVIOUS
  <2> QED
    BY <2>1 DEF SpanItem
<1>2. \A i \in 1..(n + 1) : i = n + 1 \/ i \in 1..n
  OBVIOUS
<1>3. CASE key = Malformed
  <2>1. U = T /\ key \notin Keys
    BY <1>3, MalformedAssumption DEF Upserted
  <2>2. \A k \in Keys : (\A i \in 1..(n + 1) : r[i].key # k) => T[k] = t[k]
    BY <1>2 DEF Written
  <2>3. ASSUME NEW i \in 1..(n + 1), r[i].key \in Keys,
               \A j \in 1..(n + 1) : r[j].key = r[i].key => j <= i
        PROVE  T[r[i].key] = <<e, i>>
    <3>1. i \in 1..n
      BY <1>2, <2>1, <2>3
    <3> QED
      BY <2>3, <3>1 DEF Written
  <2> HIDE DEF U, key
  <2> QED
    BY <2>1, <2>2, <2>3 DEF Written, U
<1>4. CASE key \in Keys
  <2>1. U = [T EXCEPT ![key] = <<e, n + 1>>]
    BY <1>4, MalformedAssumption DEF Upserted
  <2>2. T = [k \in Keys |-> T[k]]
    BY DEF Written
  <2>3. /\ U = [k \in Keys |-> U[k]]
        /\ U[key] = <<e, n + 1>>
        /\ \A k \in Keys : k # key => U[k] = T[k]
    <3> HIDE DEF U, key
    <3> QED
      BY <1>4, <2>1, <2>2
  <2>4. ASSUME NEW k \in Keys, \A i \in 1..(n + 1) : r[i].key # k PROVE U[k] = t[k]
    <3>1. k # key /\ \A i \in 1..n : r[i].key # k
      BY <2>4
    <3> QED
      BY <2>3, <3>1 DEF Written
  <2>5. ASSUME NEW i \in 1..(n + 1), r[i].key \in Keys,
               \A j \in 1..(n + 1) : r[j].key = r[i].key => j <= i
        PROVE  U[r[i].key] = <<e, i>>
    <3>1. CASE i = n + 1
      BY <2>3, <3>1
    <3>2. CASE i \in 1..n
      <4>1. r[i].key # key
        <5> SUFFICES ASSUME key = r[i].key PROVE FALSE
          OBVIOUS
        <5>1. n + 1 <= i
          BY <2>5
        <5> QED
          BY <3>2, <5>1
      <4>2. T[r[i].key] = <<e, i>>
        BY <2>5, <3>2 DEF Written
      <4> QED
        BY <2>3, <2>5, <4>1, <4>2
    <3> QED
      BY <1>2, <3>1, <3>2
  <2> HIDE DEF U, key
  <2> QED
    BY <2>3, <2>4, <2>5 DEF Written, U
<1> QED
  BY <1>1, <1>3, <1>4

\* Upserting what deduplication keeps is writing all spans one at a time.
LEMMA KeptIsRowAtATime ==
    ASSUME NEW r \in Requests, NEW e, NEW t, t = [k \in Keys |-> t[k]]
    PROVE  Overlay(t, e, r, Kept(r)) = RowAtATime(t, e, r)
<1>1. r \in Seq(SpanItem) /\ Len(r) \in Nat
  BY RequestsAssumption
<1>2. PICK f : Writes(t, e, r, f) /\ RowAtATime(t, e, r) = f[1..Len(r)]
  BY <1>1, RowAtATimeIs
<1> DEFINE N == {n \in Nat : n <= Len(r) => Written(f[1..n], t, e, r, n)}
<1>3. ASSUME NEW S \in SUBSET (1..Len(r)) PROVE f[S] = WriteFrom(t, e, r, f, S)
  <2>1. DOMAIN [i \in 1..Len(r) |-> i] = 1..Len(r)
    OBVIOUS
  <2> QED
    BY <1>2, <2>1 DEF Writes
<1>4. 0 \in N
  <2>1. 1..0 = {} /\ {} \in SUBSET (1..Len(r))
    OBVIOUS
  <2>2. f[1..0] = t
    BY <1>3, <2>1 DEF WriteFrom
  <2>3. Written(t, t, e, r, 0)
    BY <2>1 DEF Written
  <2> QED
    BY <2>2, <2>3
<1>5. ASSUME NEW n \in N PROVE n + 1 \in N
  <2>1. ASSUME n + 1 <= Len(r) PROVE Written(f[1..(n + 1)], t, e, r, n + 1)
    <3>1. /\ n \in Nat /\ n <= Len(r) /\ n + 1 \in 1..Len(r)
          /\ 1..(n + 1) \in SUBSET (1..Len(r)) /\ 1..(n + 1) # {}
      BY <1>1, <2>1
    <3>2. Max(1..(n + 1)) = n + 1
      <4>1. Max(1..(n + 1)) \in 1..(n + 1) /\ n + 1 <= Max(1..(n + 1))
        <5>1. n + 1 \in Nat /\ n + 1 \in 1..(n + 1) /\ 1..(n + 1) \in SUBSET (1..(n + 1))
          BY <3>1
        <5> DEFINE S == 1..(n + 1)
        <5>2. Max(S) \in S /\ \A x \in S : x <= Max(S)
          <6> HIDE DEF S
          <6>1. S \in SUBSET (1..(n + 1)) /\ S # {}
            BY <5>1 DEF S
          <6> QED
            BY <5>1, <6>1, LastIndex
        <5> QED
          BY <5>1, <5>2
      <4> QED
        BY <3>1, <4>1
    <3>3. (1..(n + 1)) \ {n + 1} = 1..n
      BY <3>1
    <3>4. f[1..(n + 1)] = Upserted(f[1..n], e, r, n + 1)
      BY <1>3, <3>1, <3>2, <3>3 DEF WriteFrom
    <3>5. Written(f[1..n], t, e, r, n)
      BY <3>1
    <3> QED
      BY <1>1, <3>1, <3>4, <3>5, OneMoreWritten
  <2>2. n + 1 \in Nat
    OBVIOUS
  <2> QED
    BY <2>1, <2>2
<1>6. N = Nat
  <2> HIDE DEF N
  <2> QED
    BY <1>4, <1>5, Inductive DEF N
<1>7. Written(RowAtATime(t, e, r), t, e, r, Len(r))
  <2>1. Len(r) \in N
    <3> HIDE DEF N
    <3> QED
      BY <1>1, <1>6
  <2>2. Len(r) <= Len(r)
    BY <1>1
  <2> QED
    BY <1>2, <2>1, <2>2
<1>8. ASSUME NEW k \in Keys PROVE Overlay(t, e, r, Kept(r))[k] = RowAtATime(t, e, r)[k]
  <2>1. CASE k \in KeysOf(r, Kept(r))
    <3>1. PICK i \in Kept(r) : i = (CHOOSE j \in Kept(r) : r[j].key = k) /\ r[i].key = k
      BY <2>1 DEF KeysOf
    <3>2. i \in 1..Len(r) /\ \A j \in 1..Len(r) : r[j].key = r[i].key => j <= i
      BY <3>1, MalformedAssumption DEF Kept, Collected
    <3> QED
      BY <1>7, <2>1, <3>1, <3>2 DEF Overlay, Written
  <2>2. CASE k \notin KeysOf(r, Kept(r))
    <3> DEFINE same == {i \in 1..Len(r) : r[i].key = k}
    <3>1. ASSUME same # {} PROVE FALSE
      <4>1. Max(same) \in same /\ \A j \in same : j <= Max(same)
        <5>1. same \in SUBSET (1..Len(r))
          OBVIOUS
        <5> HIDE DEF same
        <5> QED
          BY <1>1, <3>1, <5>1, LastIndex
      <4>2. Max(same) \in Kept(r) /\ r[Max(same)].key = k
        BY <4>1, MalformedAssumption DEF Kept, Collected
      <4> QED
        BY <2>2, <4>2 DEF KeysOf
    <3> QED
      BY <1>7, <2>2, <3>1 DEF Overlay, Written
  <2> QED
    BY <2>1, <2>2
<1> QED
  BY <1>7, <1>8 DEF Overlay, Written

\* What a COMMIT is about to make visible is what one statement per span would
\* have made of the table, for every request and chunk size (dedupe_spans).
THEOREM BatchEqualsRows == Spec => []BatchIsRowAtATime
<1>1. IInv => BatchIsRowAtATime
  <2> SUFFICES ASSUME IInv, NEW a \in Attempts, pc[a] = "committing"
               PROVE  Overlay(table, a[1], Req(a), done[a]) = RowAtATime(table, a[1], Req(a))
    BY DEF BatchIsRowAtATime
  <2>1. done[a] = Kept(Req(a))
    BY DEF IInv, RowsInv, RowsOf
  <2>2. Req(a) \in Requests
    BY SentRequest DEF IInv
  <2>3. table = [k \in Keys |-> table[k]]
    BY DEF IInv, TypeOK
  <2> QED
    BY <2>1, <2>2, <2>3, KeptIsRowAtATime
<1> QED
  BY <1>1, Invariance, PTL

-----------------------------------------------------------------------------
\* SpanExport implements SpanStore.

\* The two modules read a request alike.
LEMMA SameRows ==
    ASSUME NEW r
    PROVE  /\ Store!Collected(r) = Collected(r)
           /\ Store!Kept(r) = Kept(r)
           /\ Store!Overflows(r) <=> Overflows(r)
           /\ \A rowset : Store!KeysOf(r, rowset) = KeysOf(r, rowset)
BY DEF Collected, Store!Collected, Kept, Store!Kept, Overflows, Store!Overflows,
       KeysOf, Store!KeysOf

Applied == {e \in Exporters : \E n \in 1..MaxAttempts : pc[<<e, n>>] = "committed"}

\* A commit is the abstract Apply, or changes nothing: after success was
\* reported only an attempt without rows can still commit.
LEMMA CommitApplies ==
    ASSUME IInv, TypeOK', NEW a \in Attempts, Commit(a)
    PROVE  [Store!Next]_Store!vars
<1> DEFINE e == a[1]
<1> DEFINE r == Req(a)
<1>t. /\ pc \in [Attempts -> PCs] /\ tries \in [Exporters -> 0..MaxAttempts]
      /\ answer \in [Exporters -> {"none", "open", "ok"}]
      /\ table \in [Keys -> (Exporters \X Nat) \cup {NoRow}] /\ MaxAttempts \in Nat
  BY MaxAttemptsAssumption DEF IInv, TypeOK
<1>a. e \in Exporters /\ a[2] \in 1..MaxAttempts /\ a = <<e, a[2]>>
  BY AttemptParts
<1>1. /\ pc[a] = "committing" /\ done[a] = Kept(r) /\ r \in Requests
      /\ Kept(r) \subseteq Nat
  BY SentRequest DEF Commit, IInv, RowsInv, RowsOf
<1>2. /\ pc' = [pc EXCEPT ![a] = "committed"]
      /\ table' = Overlay(table, e, r, Kept(r))
      /\ UNCHANGED <<request, answer>> /\ r = request[e]
  BY <1>1 DEF Commit, End, clientVars, Req
<1>3. Applied' = Applied \cup {e}
  <2>1. ASSUME NEW d \in Exporters
        PROVE  (\E n \in 1..MaxAttempts : pc'[<<d, n>>] = "committed")
                 <=> (\/ \E n \in 1..MaxAttempts : pc[<<d, n>>] = "committed"
                      \/ d = e)
    <3>1. ASSUME NEW n \in 1..MaxAttempts
          PROVE  pc'[<<d, n>>] = IF d = e /\ n = a[2] THEN "committed" ELSE pc[<<d, n>>]
      BY <1>t, <1>a, <1>2, AttemptOf
    <3> QED
      BY <1>a, <1>1, <3>1
  <2> QED
    BY <1>a, <2>1 DEF Applied
<1>4. ~ Overflows(r) /\ answer[e] # "none"
  <2>1. ~ Overflows(r)
    BY <1>a, <1>1, <1>2 DEF IInv, ClientInv
  <2>2. answer[e] # "none"
    BY <1>a, <1>1, <1>t DEF IInv, ClientInv
  <2> QED
    BY <2>1, <2>2
<1>5. CASE answer[e] = "open"
  <2>1. \A k \in Keys : k \notin KeysOf(r, Collected(r)) => table'[k] = table[k]
    BY <1>1, <1>2, KeptRows DEF Overlay, KeysOf
  <2>2. ASSUME NEW i \in Kept(r)
        PROVE  table'[r[i].key] = <<e, i>>
    <3>1. r[i].key \in Keys /\ r[i].key \in KeysOf(r, Kept(r))
      BY <1>1, KeptRows DEF KeysOf
    <3>2. \A j \in Kept(r) : r[j].key = r[i].key => j = i
      BY <1>1, KeptDistinct
    <3>3. (CHOOSE j \in Kept(r) : r[j].key = r[i].key) = i
      BY <3>2
    <3> QED
      BY <1>2, <3>1, <3>3 DEF Overlay
  <2>3. table' \in [Keys -> (Exporters \X Nat) \cup {NoRow}]
    BY DEF TypeOK
  <2>4. Store!Apply(e)
    <3>1. ~ Store!Overflows(request[e])
      BY <1>2, <1>4, SameRows
    <3>2. \A k \in Keys :
            k \notin Store!KeysOf(request[e], Store!Collected(request[e]))
              => table'[k] = table[k]
      BY <1>2, <2>1, SameRows
    <3>3. \A i \in Store!Kept(request[e]) : table'[request[e][i].key] = <<e, i>>
      BY <1>2, <2>2, SameRows
    <3> HIDE DEF e, r
    <3> QED
      BY <1>2, <1>3, <1>5, <2>3, <3>1, <3>2, <3>3 DEF Store!Apply, Applied
  <2> QED
    BY <1>a, <2>4 DEF Store!Next
<1>6. CASE answer[e] = "ok"
  <2>1. pc[Latest(e)] = "committed" /\ tries[e] # 0
    BY <1>a, <1>6, <1>t DEF IInv, ClientInv
  <2>2. tries[e] \in 1..MaxAttempts
    BY <1>a, <1>t, <2>1
  <2>3. a[2] < tries[e]
    <3>1. ~ (a[2] > tries[e])
      BY <1>a, <1>1 DEF IInv, ClientInv
    <3>2. a[2] # tries[e]
      BY <1>a, <1>1, <2>1 DEF Latest
    <3> QED
      BY <1>a, <1>t, <3>1, <3>2
  <2>4. Kept(r) = {}
    BY <1>a, <1>1, <1>2, <2>1, <2>2, <2>3 DEF IInv, CommitInv, Latest
  <2>5. table' = table
    BY <1>t, <1>2, <2>4 DEF Overlay, KeysOf
  <2>6. e \in Applied
    BY <1>a, <2>1, <2>2 DEF Applied, Latest
  <2>7. Applied' = Applied
    BY <1>3, <2>6
  <2> QED
    BY <1>2, <2>5, <2>7 DEF Store!vars, Applied
<1> QED
  BY <1>t, <1>a, <1>4, <1>5, <1>6

\* The export path keeps the store's promise (SpanStore) for any number of
\* exporters, keys, attempts and connections and any requests: all rows or
\* none, the last span of a key wins, success only for what was stored, and
\* nothing of an export is written once its success was reported.
THEOREM Implementation == Spec => ImplementsStore
<1>1. Init => Store!Init
  <2> SUFFICES ASSUME Init PROVE Store!Init
    OBVIOUS
  <2>1. Applied = {}
    BY AttemptOf DEF Init, Applied
  <2> QED
    BY <2>1 DEF Init, Store!Init, Applied
<1>2. IInv /\ IInv' /\ [Next]_vars => [Store!Next]_Store!vars
  <2> SUFFICES ASSUME IInv, IInv', [Next]_vars
               PROVE  [Store!Next]_Store!vars
    OBVIOUS
  <2>t. /\ pc \in [Attempts -> PCs] /\ tries \in [Exporters -> 0..MaxAttempts]
        /\ MaxAttempts \in Nat
    BY MaxAttemptsAssumption DEF IInv, TypeOK
  <2>0. ASSUME UNCHANGED <<table, request, answer>>,
               NEW a \in Attempts, NEW s, s # "committed", pc[a] # "committed",
               pc' = [pc EXCEPT ![a] = s]
        PROVE  [Store!Next]_Store!vars
    <3>1. \A d \in Exporters, n \in 1..MaxAttempts :
            pc'[<<d, n>>] = "committed" <=> pc[<<d, n>>] = "committed"
      BY <2>t, <2>0, AttemptOf
    <3>2. Applied' = Applied
      BY <3>1 DEF Applied
    <3> QED
      BY <2>0, <3>2 DEF Store!vars, Applied
  <2>1. ASSUME NEW e \in Exporters, NEW r \in Requests, Export(e, r)
        PROVE  [Store!Next]_Store!vars
    <3>1. tries[e] = 0 /\ <<e, 1>> \in Attempts
      BY <2>t, <2>1, AttemptOf, MaxAttemptsAssumption DEF Export, IInv, ClientInv
    <3>2. pc[<<e, 1>>] = "unused"
      BY <2>t, <3>1, MaxAttemptsAssumption DEF IInv, ClientInv
    <3>3. \A d \in Exporters, n \in 1..MaxAttempts :
            pc'[<<d, n>>] = "committed" <=> pc[<<d, n>>] = "committed"
      BY <2>t, <2>1, <3>1, <3>2, AttemptOf DEF Export, Arrive
    <3>4. Applied' = Applied
      BY <3>3 DEF Applied
    <3>5. Store!Submit(e, r)
      BY <2>1, <3>4 DEF Export, Store!Submit, Applied
    <3> QED
      BY <3>5 DEF Store!Next
  <2>2. ASSUME NEW e \in Exporters, Retry(e)
        PROVE  [Store!Next]_Store!vars
    <3>1. /\ tries[e] + 1 \in 1..MaxAttempts /\ tries[e] + 1 > tries[e]
      BY <2>t, <2>2 DEF Retry
    <3>2. pc[<<e, tries[e] + 1>>] = "unused" /\ <<e, tries[e] + 1>> \in Attempts
      BY <3>1, AttemptOf DEF IInv, ClientInv
    <3> QED
      BY <2>0, <2>2, <3>2 DEF Retry, Arrive
  <2>3. ASSUME NEW e \in Exporters, Abandon(e)
        PROVE  [Store!Next]_Store!vars
    <3>1. \A a \in Attempts : pc'[a] = "committed" <=> pc[a] = "committed"
      BY <2>t, <2>3 DEF Abandon
    <3>2. Applied' = Applied
      BY <3>1, AttemptOf DEF Applied
    <3> QED
      BY <2>3, <3>2 DEF Abandon, clientVars, Store!vars, Applied
  <2>4. ASSUME NEW e \in Exporters, Reply(e)
        PROVE  [Store!Next]_Store!vars
    <3>1. pc' = pc /\ answer[e] # "none" /\ pc[Latest(e)] = "committed"
      BY <2>4 DEF Reply
    <3>2. tries[e] # 0
      BY <2>t, <3>1 DEF IInv, ClientInv
    <3>3. tries[e] \in 1..MaxAttempts
      BY <2>t, <3>2
    <3>4. e \in Applied /\ Applied' = Applied
      BY <3>1, <3>3 DEF Applied, Latest
    <3>5. Store!Report(e)
      BY <2>4, <3>4 DEF Reply, Store!Report, Applied
    <3> QED
      BY <3>5 DEF Store!Next
  <2>5. ASSUME NEW a \in Attempts, Server(a) \/ SessionLost(a), ~ Commit(a)
        PROVE  [Store!Next]_Store!vars
    <3>1. UNCHANGED <<table, request, answer>>
      BY <2>5 DEF Server, Begin, AcquireTimeout, NextStatement, SendCommit, UpsertRow,
          StatementDone, Rollback, DeadlockVictim, SessionLost, clientVars
    <3>2. pc[a] # "committed"
      BY <2>5 DEF Server, Begin, AcquireTimeout, NextStatement, SendCommit, UpsertRow,
          StatementDone, Rollback, DeadlockVictim, SessionLost, InTx
    <3>3. \E s \in PCs \ {"committed"} : pc' = [pc EXCEPT ![a] = s]
      <4>1. CASE UpsertRow(a)
        <5>1. pc = [pc EXCEPT ![a] = pc[a]] /\ pc[a] \in PCs \ {"committed"}
          BY <2>t, <3>2
        <5>2. pc' = pc \/ pc' = [pc EXCEPT ![a] = "aborted"]
          BY <4>1 DEF UpsertRow, End
        <5> QED
          BY <5>1, <5>2 DEF PCs
      <4>2. CASE ~ UpsertRow(a)
        BY <2>5, <4>2 DEF Server, Begin, AcquireTimeout, NextStatement, SendCommit,
            StatementDone, Rollback, DeadlockVictim, SessionLost, End, PCs
      <4> QED
        BY <4>1, <4>2
    <3> QED
      BY <2>0, <3>1, <3>2, <3>3
  <2>6. ASSUME NEW a \in Attempts, Commit(a)
        PROVE  [Store!Next]_Store!vars
    BY <2>6, CommitApplies DEF IInv
  <2>7. CASE UNCHANGED vars
    BY <2>7 DEF vars, Store!vars
  <2> QED
    BY <2>1, <2>2, <2>3, <2>4, <2>5, <2>6, <2>7 DEF Next, Client, Quiet, Server
<1> QED
  BY <1>1, <1>2, Invariance, PTL DEF Spec, ImplementsStore, Store!Spec
=============================================================================
