-------------------------- MODULE LogSearchProofs --------------------------
(***************************************************************************)
(* For any exporters, requests, chunk size and number of attempts: records  *)
(* are stored twice only for a cause, and the export path implements        *)
(* AppendStore.  For any records, texts and queries: a search answers with  *)
(* what was meant, and finds what an exporter was told is stored.           *)
(***************************************************************************)
EXTENDS LogSearch, FiniteSetTheorems, WellFoundedInduction, TLAPS

\* Attempts that were not refused on arrival, and are not over without effect.
Alive == {"between", "inserting", "committing", "committed", "empty"}

\* An exporter that has sent its request knows which, and vice versa.
ClientInv ==
    /\ request \in [Exporters -> Requests \cup {NoRequest}]
    /\ answer \in [Exporters -> {"none", "open", "ok"}]
    /\ tries \in [Exporters -> 0..MaxAttempts]
    /\ \A e \in Exporters : answer[e] = "none" <=> tries[e] = 0
    /\ \A e \in Exporters : answer[e] # "none" => request[e] \in Requests

\* An attempt's number tells whether it was sent, and of those before the
\* latest the exporter knows that they failed, or nothing.
AttemptInv ==
    /\ pc \in [Attempts -> PCs]
    /\ abandoned \in [Attempts -> BOOLEAN]
    /\ \A a \in Attempts : pc[a] # "unused" <=> a[2] <= tries[a[1]]
    /\ \A a \in Attempts : a[2] < tries[a[1]] => pc[a] = "aborted" \/ abandoned[a]

\* What an attempt has inserted, and what that says of its request.
InsertedInv ==
    /\ inserted \in [Attempts -> Nat]
    /\ \A a \in Attempts : pc[a] = "unused" => inserted[a] = 0
    /\ \A a \in Attempts : pc[a] # "unused" => inserted[a] <= Len(Req(a))
    /\ \A a \in Attempts : pc[a] \in Alive => ~ Overflows(Req(a))
    /\ \A a \in Attempts : pc[a] = "empty" => Req(a) = <<>>
    /\ \A a \in Attempts : pc[a] = "committing" => inserted[a] = Len(Req(a))

\* The table holds the requests of the committed attempts, and nothing else.
TableInv ==
    /\ table \subseteq Attempts \X (Nat \ {0})
    /\ \A a \in Attempts : \A i \in Nat \ {0} :
            <<a, i>> \in table <=> pc[a] = "committed" /\ i \in DOMAIN Req(a)

IInv == ClientInv /\ AttemptInv /\ InsertedInv /\ TableInv

-----------------------------------------------------------------------------
LEMMA Pairs ==
    ASSUME NEW a \in Attempts
    PROVE  a[1] \in Exporters /\ a[2] \in 1..MaxAttempts /\ a = <<a[1], a[2]>>
BY DEF Attempts

LEMMA RequestsAreSequences ==
    ASSUME NEW r \in Requests
    PROVE  r \in Seq(Records) /\ Len(r) \in Nat /\ DOMAIN r = 1..Len(r)
BY RequestsAssumption

\* A sent attempt's request is one of Requests.
LEMMA SentRequest ==
    ASSUME IInv, NEW a \in Attempts, pc[a] # "unused"
    PROVE  Req(a) \in Requests /\ answer[a[1]] # "none"
<1>1. a[1] \in Exporters /\ a[2] \in 1..MaxAttempts
  BY Pairs
<1>2. a[2] <= tries[a[1]]
  BY DEF IInv, AttemptInv
<1>3. tries[a[1]] # 0
  BY <1>1, <1>2, SizesAssumption DEF IInv, ClientInv
<1> QED
  BY <1>1, <1>3 DEF IInv, ClientInv, Req

LEMMA InitIInv == Init => IInv
<1> SUFFICES ASSUME Init PROVE IInv
  OBVIOUS
<1>1. ClientInv
  BY SizesAssumption DEF Init, ClientInv
<1>2. AttemptInv
  <2>1. \A a \in Attempts : tries[a[1]] = 0 /\ a[2] \in 1..MaxAttempts
    BY Pairs DEF Init
  <2> QED
    BY <2>1, SizesAssumption DEF Init, AttemptInv, PCs
<1>3. InsertedInv
  BY DEF Init, InsertedInv, Alive
<1>4. TableInv
  BY DEF Init, TableInv
<1> QED
  BY <1>1, <1>2, <1>3, <1>4 DEF IInv

-----------------------------------------------------------------------------
\* A new attempt, the first one or another one.
LEMMA AttemptArrives ==
    ASSUME IInv, NEW e \in Exporters, NEW r \in Requests,
           tries[e] < MaxAttempts,
           tries' = [tries EXCEPT ![e] = @ + 1],
           answer' = [answer EXCEPT ![e] = "open"],
           request' = [request EXCEPT ![e] = r],
           \A f \in Exporters : answer[f] # "none" => request'[f] = request[f],
           request'[e] = r,
           tries[e] = 0 \/ pc[<<e, tries[e]>>] = "aborted" \/ abandoned[<<e, tries[e]>>],
           Arrive(<<e, tries[e] + 1>>, r),
           UNCHANGED <<table, inserted, abandoned>>
    PROVE  IInv'
<1> DEFINE new == <<e, tries[e] + 1>>
<1>1. tries[e] \in Nat /\ tries \in [Exporters -> 0..MaxAttempts]
  BY SizesAssumption DEF IInv, ClientInv
<1>2. new \in Attempts /\ pc[new] = "unused" /\ new[1] = e /\ new[2] = tries[e] + 1
  <2>1. new \in Attempts
    BY <1>1, SizesAssumption DEF Attempts
  <2> QED
    BY <2>1, <1>1 DEF IInv, AttemptInv
<1>3. /\ pc'[new] \in {"aborted", "empty", "between"}
      /\ pc'[new] \in Alive => ~ Overflows(r)
      /\ pc'[new] = "empty" => r = <<>>
  BY <1>2 DEF Arrive, IInv, AttemptInv, Alive
<1>4. \A a \in Attempts : a # new => pc'[a] = pc[a]
  BY <1>2 DEF Arrive, IInv, AttemptInv
<1>5. \A a \in Attempts : a[1] # e => tries'[a[1]] = tries[a[1]]
  BY Pairs, <1>1
<1>6. tries'[e] = tries[e] + 1
  BY <1>1
<1>7. \A a \in Attempts : a # new /\ a[1] = e => a[2] # tries[e] + 1
  BY Pairs
<1>8. \A a \in Attempts : pc[a] # "unused" => Req(a)' = Req(a)
  BY SentRequest, Pairs DEF Req
<1>9. Req(new)' = r
  BY <1>2 DEF Req
<1>10. ClientInv'
  <2>1. tries' \in [Exporters -> 0..MaxAttempts]
    BY <1>1, SizesAssumption
  <2>2. answer' \in [Exporters -> {"none", "open", "ok"}]
    BY DEF IInv, ClientInv
  <2>4. request' \in [Exporters -> Requests \cup {NoRequest}]
    BY DEF IInv, ClientInv
  <2>3. ASSUME NEW f \in Exporters
        PROVE  (answer'[f] = "none" <=> tries'[f] = 0) /\ (answer'[f] # "none" => request'[f] \in Requests)
    <3>1. CASE f = e
      BY <3>1, <1>1, <1>6 DEF IInv, ClientInv
    <3>2. CASE f # e
      BY <3>2 DEF IInv, ClientInv
    <3> QED
      BY <3>1, <3>2
  <2> QED
    BY <2>1, <2>2, <2>3, <2>4 DEF ClientInv
<1>11. AttemptInv'
  <2>1. pc' \in [Attempts -> PCs] /\ abandoned' \in [Attempts -> BOOLEAN]
    BY <1>2 DEF Arrive, IInv, AttemptInv, PCs
  <2>2. ASSUME NEW a \in Attempts
        PROVE  (pc'[a] # "unused" <=> a[2] <= tries'[a[1]])
               /\ (a[2] < tries'[a[1]] => pc'[a] = "aborted" \/ abandoned'[a])
    <3>1. a[1] \in Exporters /\ a[2] \in Nat /\ a = <<a[1], a[2]>>
      BY Pairs, SizesAssumption
    <3>2. CASE a = new
      BY <3>2, <1>1, <1>2, <1>3, <1>6
    <3>3. CASE a # new /\ a[1] = e
      <4>1. a[2] # tries[e] + 1
        BY <3>3, <1>7
      <4>2. a[2] <= tries[e] + 1 <=> a[2] <= tries[e]
        BY <4>1, <3>1, <1>1
      <4>3. pc'[a] # "unused" <=> a[2] <= tries'[a[1]]
        BY <4>2, <3>3, <1>4, <1>6 DEF IInv, AttemptInv
      <4>4. ASSUME a[2] < tries[e] + 1 PROVE pc'[a] = "aborted" \/ abandoned'[a]
        <5>1. a[2] = tries[e] \/ a[2] < tries[e]
          BY <4>4, <3>1, <1>1
        <5>2. CASE a[2] = tries[e]
          <6>1. a = <<e, tries[e]>> /\ tries[e] # 0
            BY <5>2, <3>1, <3>3, Pairs, SizesAssumption
          <6> QED
            BY <6>1, <3>3, <1>4
        <5>3. CASE a[2] < tries[e]
          BY <5>3, <3>3, <1>4 DEF IInv, AttemptInv
        <5> QED
          BY <5>1, <5>2, <5>3
      <4> QED
        BY <4>3, <4>4, <3>3, <1>6
    <3>4. CASE a[1] # e
      BY <3>4, <1>2, <1>4, <1>5 DEF IInv, AttemptInv
    <3> QED
      BY <3>2, <3>3, <3>4
  <2> QED
    BY <2>1, <2>2 DEF AttemptInv
<1>12. InsertedInv'
  <2> DEFINE Good(a) ==
        /\ pc'[a] = "unused" => inserted'[a] = 0
        /\ pc'[a] # "unused" => inserted'[a] <= Len(Req(a)')
        /\ pc'[a] \in Alive => ~ Overflows(Req(a)')
        /\ pc'[a] = "empty" => Req(a)' = <<>>
        /\ pc'[a] = "committing" => inserted'[a] = Len(Req(a)')
  <2>1. Good(new)
    <3>1. inserted'[new] = 0 /\ Len(r) \in Nat
      BY <1>2, RequestsAreSequences DEF IInv, InsertedInv
    <3> QED
      BY <3>1, <1>3, <1>9 DEF Alive
  <2>2. ASSUME NEW a \in Attempts, a # new PROVE Good(a)
    <3>1. CASE pc[a] = "unused"
      BY <3>1, <2>2, <1>4 DEF IInv, InsertedInv, Alive
    <3>2. CASE pc[a] # "unused"
      BY <3>2, <2>2, <1>4, <1>8 DEF IInv, InsertedInv
    <3> QED
      BY <3>1, <3>2
  <2>3. \A a \in Attempts : Good(a)
    <3> HIDE DEF Good
    <3> QED
      BY <2>1, <2>2
  <2>4. inserted' \in [Attempts -> Nat]
    BY DEF IInv, InsertedInv
  <2> QED
    BY <2>3, <2>4 DEF InsertedInv
<1>13. TableInv'
  <2>1. \A a \in Attempts : pc'[a] = "committed" <=> pc[a] = "committed"
    BY <1>2, <1>3, <1>4
  <2>2. \A a \in Attempts : pc[a] = "committed" => Req(a)' = Req(a)
    BY <1>8
  <2> QED
    BY <2>1, <2>2 DEF IInv, TableInv
<1> QED
  BY <1>10, <1>11, <1>12, <1>13 DEF IInv

\* A step that leaves the client's knowledge and the table alone, and moves one
\* attempt between places that are neither before its start nor after its commit.
LEMMA AttemptMoves ==
    ASSUME IInv, NEW a \in Attempts, NEW p \in PCs \ {"unused", "committed", "empty"},
           NEW n \in Nat,
           pc[a] \in {"between", "inserting", "committing"},
           pc' = [pc EXCEPT ![a] = p],
           inserted' = [inserted EXCEPT ![a] = n],
           n <= Len(Req(a)),
           p = "committing" => n = Len(Req(a)),
           UNCHANGED <<table, clientVars, abandoned>>
    PROVE  IInv'
<1>1. ClientInv'
  BY DEF IInv, ClientInv, clientVars
<1>2. AttemptInv'
  <2>1. pc' \in [Attempts -> PCs]
    BY DEF IInv, AttemptInv
  <2>2. tries' = tries /\ abandoned' = abandoned
    BY DEF clientVars
  <2>3. ~ abandoned[a] => ~ (a[2] < tries[a[1]])
    BY DEF IInv, AttemptInv
  <2> QED
    BY <2>1, <2>2, <2>3 DEF IInv, AttemptInv
<1>3. InsertedInv'
  <2>1. \A b \in Attempts : Req(b)' = Req(b)
    BY DEF Req, clientVars
  <2> QED
    BY <2>1 DEF IInv, InsertedInv, AttemptInv, Alive
<1>4. TableInv'
  <2>1. \A b \in Attempts : Req(b)' = Req(b)
    BY DEF Req, clientVars
  <2> QED
    BY <2>1 DEF IInv, TableInv, AttemptInv
<1> QED
  BY <1>1, <1>2, <1>3, <1>4 DEF IInv

\* The transaction becomes visible; the exporter may or may not hear of it.
LEMMA AttemptCommits ==
    ASSUME IInv, NEW a \in Attempts,
           pc[a] = "committing",
           table' = table \cup {<<a, i>> : i \in 1..inserted[a]},
           pc' = [pc EXCEPT ![a] = "committed"],
           abandoned' \in [Attempts -> BOOLEAN],
           \A b \in Attempts : abandoned[b] => abandoned'[b],
           UNCHANGED <<clientVars, inserted>>
    PROVE  IInv'
<1>1. Req(a) \in Requests /\ DOMAIN Req(a) = 1..inserted[a] /\ inserted[a] \in Nat
  BY SentRequest, RequestsAreSequences DEF IInv, InsertedInv
<1>2. \A b \in Attempts : Req(b)' = Req(b)
  BY DEF Req, clientVars
<1>3. ClientInv'
  BY DEF IInv, ClientInv, clientVars
<1>4. AttemptInv'
  <2>1. pc' \in [Attempts -> PCs]
    BY DEF IInv, AttemptInv, PCs
  <2>2. tries' = tries
    BY DEF clientVars
  <2>3. ~ abandoned[a] => ~ (a[2] < tries[a[1]])
    BY DEF IInv, AttemptInv
  <2> QED
    BY <2>1, <2>2, <2>3 DEF IInv, AttemptInv
<1>5. InsertedInv'
  BY <1>2 DEF IInv, InsertedInv, AttemptInv, Alive
<1>6. TableInv'
  <2>1. table' \subseteq Attempts \X (Nat \ {0})
    BY <1>1 DEF IInv, TableInv
  <2>2. ASSUME NEW b \in Attempts, NEW i \in Nat \ {0}
        PROVE  <<b, i>> \in table' <=> pc'[b] = "committed" /\ i \in DOMAIN Req(b)'
    <3>1. <<b, i>> \in table' <=> <<b, i>> \in table \/ (b = a /\ i \in 1..inserted[a])
      OBVIOUS
    <3>2. CASE b = a
      BY <3>1, <3>2, <1>1, <1>2 DEF IInv, TableInv, AttemptInv
    <3>3. CASE b # a
      BY <3>1, <3>3, <1>2 DEF IInv, TableInv, AttemptInv
    <3> QED
      BY <3>2, <3>3
  <2> QED
    BY <2>1, <2>2 DEF TableInv
<1> QED
  BY <1>3, <1>4, <1>5, <1>6 DEF IInv

LEMMA NextIInv == IInv /\ [Next]_vars => IInv'
<1> SUFFICES ASSUME IInv, [Next]_vars PROVE IInv'
  OBVIOUS
<1>1. ASSUME NEW e \in Exporters, NEW r \in Requests, Export(e, r)
      PROVE  IInv'
  <2>1. tries[e] = 0 /\ tries \in [Exporters -> 0..MaxAttempts]
    BY <1>1 DEF Export, IInv, ClientInv
  <2>2. tries[e] < MaxAttempts /\ tries[e] + 1 = 1
    BY <2>1, SizesAssumption
  <2>3. tries' = [tries EXCEPT ![e] = @ + 1]
    BY <1>1, <2>1, <2>2 DEF Export
  <2>4. request'[e] = r /\ \A f \in Exporters : answer[f] # "none" => request'[f] = request[f]
    BY <1>1 DEF Export, IInv, ClientInv
  <2> QED
    BY <1>1, <2>1, <2>2, <2>3, <2>4, AttemptArrives DEF Export
<1>2. ASSUME NEW e \in Exporters, Retry(e)
      PROVE  IInv'
  <2>1. request[e] \in Requests
    BY <1>2 DEF Retry, IInv, ClientInv
  <2>2. answer' = [answer EXCEPT ![e] = "open"] /\ request' = [request EXCEPT ![e] = request[e]]
    BY <1>2 DEF Retry, IInv, ClientInv
  <2> QED
    BY <1>2, <2>1, <2>2, AttemptArrives DEF Retry, Latest
<1>3. ASSUME NEW e \in Exporters, Abandon(e)
      PROVE  IInv'
  <2> DEFINE a == <<e, tries[e]>>
  <2>1. tries[e] \in 1..MaxAttempts
    BY <1>3, SizesAssumption DEF Abandon, IInv, ClientInv
  <2>2. a \in Attempts /\ a[1] = e
    BY <2>1 DEF Attempts
  <2>3. /\ abandoned' = [abandoned EXCEPT ![a] = TRUE]
        /\ pc' = [pc EXCEPT ![a] = IF pc[a] = "between" THEN "aborted" ELSE pc[a]]
        /\ UNCHANGED <<table, clientVars, inserted>>
    BY <1>3 DEF Abandon, Latest
  <2>4. pc[a] # "unused"
    BY <2>1, <2>2 DEF IInv, AttemptInv
  <2>5. ClientInv'
    BY <2>3 DEF IInv, ClientInv, clientVars
  <2>6. AttemptInv'
    <3>1. pc' \in [Attempts -> PCs] /\ abandoned' \in [Attempts -> BOOLEAN]
      BY <2>2, <2>3 DEF IInv, AttemptInv, PCs
    <3>2. tries' = tries
      BY <2>3 DEF clientVars
    <3>3. \A b \in Attempts : b # a => pc'[b] = pc[b] /\ abandoned'[b] = abandoned[b]
      BY <2>2, <2>3 DEF IInv, AttemptInv
    <3>4. pc'[a] # "unused" /\ abandoned'[a]
      BY <2>2, <2>3, <2>4 DEF IInv, AttemptInv
    <3> QED
      BY <3>1, <3>2, <3>3, <3>4, <2>2, <2>4 DEF IInv, AttemptInv
  <2>7. \A b \in Attempts : Req(b)' = Req(b)
    BY <2>3 DEF Req, clientVars
  <2>8. InsertedInv'
    BY <2>2, <2>3, <2>4, <2>7 DEF IInv, InsertedInv, AttemptInv, Alive
  <2>9. TableInv'
    BY <2>2, <2>3, <2>7 DEF IInv, TableInv, AttemptInv
  <2> QED
    BY <2>5, <2>6, <2>8, <2>9 DEF IInv
<1>4. ASSUME NEW e \in Exporters, Reply(e)
      PROVE  IInv'
  <2>1. \A b \in Attempts : Req(b)' = Req(b)
    BY <1>4 DEF Reply, Req
  <2>2. ClientInv'
    BY <1>4 DEF Reply, IInv, ClientInv
  <2>3. AttemptInv'
    BY <1>4 DEF Reply, IInv, AttemptInv
  <2>4. InsertedInv' /\ TableInv'
    BY <1>4, <2>1 DEF Reply, IInv, InsertedInv, TableInv
  <2> QED
    BY <2>2, <2>3, <2>4 DEF IInv
<1>5. ASSUME NEW a \in Attempts, Server(a)
      PROVE  IInv'
  <2>1. CASE SendInsert(a)
    <3>1. inserted' = [inserted EXCEPT ![a] = inserted[a]] /\ inserted[a] \in Nat
      BY <2>1 DEF SendInsert, IInv, InsertedInv
    <3>2. inserted[a] <= Len(Req(a))
      BY <2>1 DEF SendInsert, IInv, InsertedInv
    <3> QED
      BY <2>1, <3>1, <3>2, AttemptMoves DEF SendInsert, PCs
  <2>2. CASE SendCommit(a)
    <3>1. inserted' = [inserted EXCEPT ![a] = inserted[a]] /\ inserted[a] \in Nat
      BY <2>2 DEF SendCommit, IInv, InsertedInv
    <3>2. inserted[a] <= Len(Req(a))
      BY <2>2 DEF SendCommit, IInv, InsertedInv
    <3> QED
      BY <2>2, <3>1, <3>2, AttemptMoves DEF SendCommit, PCs
  <2>3. CASE InsertDone(a)
    <3>1. Len(Req(a)) \in Nat
      BY <2>3, SentRequest, RequestsAreSequences DEF InsertDone
    <3>2. ChunkEnd(a) \in Nat /\ ChunkEnd(a) <= Len(Req(a))
      BY <3>1, SizesAssumption DEF ChunkEnd, IInv, InsertedInv
    <3> DEFINE p == IF abandoned[a] THEN "aborted" ELSE "between"
    <3>3. p \in PCs \ {"unused", "committed", "empty"} /\ p # "committing"
      BY DEF PCs
    <3>4. pc[a] \in {"between", "inserting", "committing"} /\ pc' = [pc EXCEPT ![a] = p]
      BY <2>3 DEF InsertDone
    <3> HIDE DEF p
    <3> QED
      BY <2>3, <3>2, <3>3, <3>4, AttemptMoves DEF InsertDone
  <2>4. CASE Commit(a)
    BY <2>4, AttemptCommits DEF Commit, IInv, AttemptInv
  <2>5. CASE CommitUnseen(a)
    BY <2>5, AttemptCommits DEF CommitUnseen, IInv, AttemptInv
  <2>6. CASE Fail(a)
    <3>1. inserted' = [inserted EXCEPT ![a] = inserted[a]] /\ inserted[a] \in Nat
      BY <2>6 DEF Fail, IInv, InsertedInv
    <3>2. inserted[a] <= Len(Req(a))
      BY <2>6 DEF Fail, IInv, InsertedInv
    <3> QED
      BY <2>6, <3>1, <3>2, AttemptMoves DEF Fail, PCs
  <2> QED
    BY <1>5, <2>1, <2>2, <2>3, <2>4, <2>5, <2>6 DEF Server
<1>6. CASE UNCHANGED vars
  <2>1. UNCHANGED <<table, request, answer, tries, pc, inserted, abandoned>>
    BY <1>6 DEF vars
  <2>2. \A b \in Attempts : Req(b)' = Req(b)
    BY <2>1 DEF Req
  <2>3. ClientInv' /\ AttemptInv'
    BY <2>1 DEF IInv, ClientInv, AttemptInv
  <2>4. InsertedInv' /\ TableInv'
    BY <2>1, <2>2 DEF IInv, InsertedInv, TableInv
  <2> QED
    BY <2>3, <2>4 DEF IInv
<1> QED
  BY <1>1, <1>2, <1>3, <1>4, <1>5, <1>6 DEF Next, Client, Quiet

\* The inductive invariant holds throughout.
THEOREM Invariance == Spec => []IInv
BY InitIInv, NextIInv, PTL DEF Spec

\* Every variable stays in its range, and no transaction inserts more rows than
\* its request has (write_logs, write_metrics).
THEOREM TypeCorrect == Spec => []TypeOK
<1>1. IInv => TypeOK
  BY DEF IInv, ClientInv, AttemptInv, InsertedInv, TableInv, TypeOK
<1> QED
  BY <1>1, Invariance, PTL

-----------------------------------------------------------------------------
\* Two copies of an exporter's records have an attempt behind them that the
\* exporter was never told the end of (write_logs, write_metrics).
THEOREM DuplicatesForCause == Spec => []CopiesForCause
<1>1. IInv => CopiesForCause
  <2> SUFFICES ASSUME IInv, NEW a \in Attempts, NEW b \in Attempts,
                      a # b, a[1] = b[1], Stored(a), Stored(b)
               PROVE  abandoned[a] \/ abandoned[b]
    BY DEF CopiesForCause
  <2>1. ASSUME NEW c \in Attempts, Stored(c)
        PROVE  pc[c] = "committed"
    <3>1. PICK row \in table : row[1] = c
      BY <2>1 DEF Stored
    <3>2. \E i \in Nat \ {0} : row = <<c, i>>
      BY <3>1 DEF IInv, TableInv
    <3> QED
      BY <3>1, <3>2 DEF IInv, TableInv
  <2>2. pc[a] = "committed" /\ pc[b] = "committed"
    BY <2>1
  <2>3. a[2] <= tries[a[1]] /\ b[2] <= tries[a[1]] /\ a[2] # b[2]
    BY <2>2, Pairs DEF IInv, AttemptInv
  <2>4. tries[a[1]] \in Nat /\ a[2] \in Nat /\ b[2] \in Nat
    BY Pairs, SizesAssumption DEF IInv, ClientInv
  <2>5. a[2] < tries[a[1]] \/ b[2] < tries[a[1]]
    BY <2>3, <2>4
  <2> QED
    BY <2>2, <2>5 DEF IInv, AttemptInv
<1> QED
  BY <1>1, Invariance, PTL

-----------------------------------------------------------------------------
\* A commit adds one copy, whole.
LEMMA CommitApplies ==
    ASSUME IInv, NEW a \in Attempts,
           pc[a] = "committing",
           table' = table \cup {<<a, i>> : i \in 1..inserted[a]},
           UNCHANGED <<request, answer>>
    PROVE  Store!Apply(a[1], a[2])
<1>1. /\ Req(a) \in Requests
      /\ DOMAIN Req(a) = 1..inserted[a]
      /\ answer[a[1]] # "none"
      /\ inserted[a] \in Nat
  BY SentRequest, RequestsAreSequences DEF IInv, InsertedInv
<1>2. a = <<a[1], a[2]>>
  BY Pairs
<1>3. Store!Copy(a[1], a[2]) = {<<a, i>> : i \in 1..inserted[a]}
  BY <1>1, <1>2 DEF Store!Copy, Req
<1>4. \A i \in DOMAIN request[a[1]] : request[a[1]][i].fits
  BY DEF IInv, InsertedInv, Alive, Overflows, Req
<1>5. {<<a, i>> : i \in 1..inserted[a]} \cap table = {}
  BY <1>1 DEF IInv, TableInv
<1> QED
  BY <1>1, <1>3, <1>4, <1>5 DEF Store!Apply

\* Every step is one of AppendStore's, or changes nothing it knows of.
LEMMA StepImplements == IInv /\ [Next]_vars => [Store!Next]_(Store!vars)
<1> SUFFICES ASSUME IInv, [Next]_vars PROVE [Store!Next]_(Store!vars)
  OBVIOUS
<1>1. ASSUME NEW e \in Exporters, NEW r \in Requests, Export(e, r)
      PROVE  Store!Next
  BY <1>1 DEF Export, Store!Submit, Store!Next
<1>2. ASSUME NEW e \in Exporters, Retry(e) \/ Abandon(e)
      PROVE  UNCHANGED Store!vars
  BY <1>2 DEF Retry, Abandon, clientVars, Store!vars
<1>3. ASSUME NEW e \in Exporters, Reply(e)
      PROVE  Store!Next
  <2> DEFINE a == <<e, tries[e]>>
  <2>1. answer[e] = "open" /\ pc[a] \in {"committed", "empty"}
    BY <1>3 DEF Reply, Latest
  <2>2. tries[e] \in 1..MaxAttempts
    <3>1. answer[e] # "none"
      BY <2>1
    <3>2. tries[e] # 0 /\ tries[e] \in 0..MaxAttempts
      BY <3>1 DEF IInv, ClientInv
    <3> QED
      BY <3>2, SizesAssumption
  <2>3. a \in Attempts /\ Req(a) = request[e]
    BY <2>2 DEF Attempts, Req
  <2>4. Store!Copy(e, tries[e]) \subseteq table
    <3>1. CASE pc[a] = "committed"
      <4>1. DOMAIN request[e] \subseteq Nat \ {0}
        BY <3>1, <2>3, SentRequest, RequestsAreSequences
      <4>2. \A i \in DOMAIN request[e] : <<a, i>> \in table
        BY <3>1, <4>1, <2>3 DEF IInv, TableInv
      <4> QED
        BY <4>2 DEF Store!Copy
    <3>2. CASE pc[a] = "empty"
      <4>1. request[e] = <<>>
        BY <3>2, <2>3 DEF IInv, InsertedInv
      <4>2. DOMAIN request[e] = {}
        BY <4>1
      <4> QED
        BY <4>2 DEF Store!Copy
    <3> QED
      BY <2>1, <3>1, <3>2
  <2>5. Store!Report(e)
    BY <1>3, <2>1, <2>2, <2>4 DEF Reply, Store!Report
  <2> QED
    BY <2>5 DEF Store!Next
<1>4. ASSUME NEW a \in Attempts, Commit(a) \/ CommitUnseen(a)
      PROVE  Store!Next
  <2>1. Store!Apply(a[1], a[2])
    BY <1>4, CommitApplies DEF Commit, CommitUnseen, clientVars
  <2> QED
    BY <2>1, Pairs DEF Store!Next
<1>5. ASSUME NEW a \in Attempts,
             SendInsert(a) \/ SendCommit(a) \/ InsertDone(a) \/ Fail(a)
      PROVE  UNCHANGED Store!vars
  BY <1>5 DEF SendInsert, SendCommit, InsertDone, Fail, clientVars, Store!vars
<1>6. CASE UNCHANGED vars
  BY <1>6 DEF vars, Store!vars
<1> QED
  BY <1>1, <1>2, <1>3, <1>4, <1>5, <1>6 DEF Next, Client, Server, Quiet

\* The export path keeps the promise of AppendStore.
THEOREM ExportImplementsStore == Spec => ImplementsStore
<1>1. Init => Store!Init
  BY DEF Init, Store!Init
<1> QED
  BY <1>1, StepImplements, Invariance, PTL DEF Spec, ImplementsStore, Store!Spec

-----------------------------------------------------------------------------
\* Induction, on sets of naturals.

\* A set of naturals that is not empty has a least element.
LEMMA Least ==
    ASSUME NEW S \in SUBSET Nat, S # {}
    PROVE  \E x \in S : \A y \in S : x <= y
<1>1. PICK x \in S : \A y \in S : ~ (<<y, x>> \in OpToRel(<, Nat))
  BY NatLessThanWellFounded, WFMin, Zenon
<1>2. \A y \in S : y \in Nat /\ x \in Nat /\ ~ (y < x)
  BY <1>1 DEF OpToRel
<1> QED
  BY <1>2

\* A set that has zero and every successor of a member has all naturals.
LEMMA Inductive ==
    ASSUME NEW S \in SUBSET Nat, 0 \in S, \A n \in S : n + 1 \in S
    PROVE  S = Nat
<1> SUFFICES ASSUME Nat \ S # {} PROVE FALSE
  OBVIOUS
<1>1. PICK x \in Nat \ S : \A y \in Nat \ S : x <= y
  BY Least
<1>2. x # 0 /\ x - 1 \in Nat /\ ~ (x <= x - 1)
  BY <1>1
<1>3. x - 1 \in S /\ (x - 1) + 1 = x
  BY <1>1, <1>2
<1> QED
  BY <1>1, <1>3

-----------------------------------------------------------------------------
\* The escaped form of a search, character by character.

\* What FlattenSeq of the library computes, as a property of a function.
FlattenFrom(s, f, i) == IF i = 1 THEN s[i] ELSE f[i - 1] \o s[i]

Flattens(s, f, n) == f = [i \in 1..n |-> FlattenFrom(s, f, i)]

LEMMA FlattenExists ==
    ASSUME NEW s, NEW n \in Nat
    PROVE  \E f : Flattens(s, f, n)
<1> DEFINE N == {k \in Nat : \E f : Flattens(s, f, k)}
<1>1. 0 \in N
  <2> DEFINE f == [i \in 1..0 |-> 0]
  <2>1. 1..0 = {}
    OBVIOUS
  <2>2. f = [i \in 1..0 |-> FlattenFrom(s, f, i)]
    BY <2>1
  <2> HIDE DEF f
  <2> QED
    BY <2>2 DEF Flattens
<1>2. ASSUME NEW k \in N PROVE k + 1 \in N
  <2>1. PICK f : Flattens(s, f, k)
    OBVIOUS
  <2>2. k \in Nat /\ k + 1 \in Nat
    OBVIOUS
  <2> DEFINE g == [i \in 1..(k + 1) |-> IF i \in 1..k THEN f[i] ELSE FlattenFrom(s, f, i)]
  <2>3. ASSUME NEW i \in 1..(k + 1) PROVE g[i] = FlattenFrom(s, g, i)
    <3>1. g[i] = FlattenFrom(s, f, i)
      BY <2>1 DEF Flattens
    <3>2. i # 1 => i - 1 \in 1..k /\ i - 1 \in 1..(k + 1)
      BY <2>2
    <3>3. i # 1 => g[i - 1] = f[i - 1]
      BY <3>2
    <3> HIDE DEF g
    <3> QED
      BY <3>1, <3>3 DEF FlattenFrom
  <2>4. g = [i \in 1..(k + 1) |-> FlattenFrom(s, g, i)]
    BY <2>3
  <2> HIDE DEF g
  <2>5. Flattens(s, g, k + 1)
    BY <2>4 DEF Flattens
  <2> QED
    BY <2>2, <2>5
<1> HIDE DEF N
<1>3. N = Nat
  BY <1>1, <1>2, Inductive DEF N
<1> QED
  BY <1>3 DEF N

LEMMA FlattensAt ==
    ASSUME NEW s, NEW f, NEW n \in Nat, Flattens(s, f, n), NEW i \in 1..n
    PROVE  f[i] = FlattenFrom(s, f, i)
<1> f = [k \in 1..n |-> FlattenFrom(s, f, k)]
  BY DEF Flattens
<1> QED
  OBVIOUS

LEMMA FlattenIs ==
    ASSUME NEW s, Len(s) \in Nat \ {0}
    PROVE  \E f : Flattens(s, f, Len(s)) /\ FlattenSeq(s) = f[Len(s)]
<1> DEFINE f == CHOOSE f : Flattens(s, f, Len(s))
<1>1. Flattens(s, f, Len(s))
  BY FlattenExists, Zenon
<1>2. Len(s) # 0
  OBVIOUS
<1>3. FlattenSeq(s) = f[Len(s)]
  BY <1>2, Zenon DEF FlattenSeq, Flattens, FlattenFrom
<1> HIDE DEF f
<1> QED
  BY <1>1, <1>3

LEMMA FlattenAppend ==
    ASSUME NEW T, NEW s \in Seq(Seq(T)), NEW t \in Seq(T)
    PROVE  FlattenSeq(Append(s, t)) = FlattenSeq(s) \o t /\ FlattenSeq(s) \in Seq(T)
<1> DEFINE n == Len(s)
           st == Append(s, t)
<1>1. n \in Nat /\ st \in Seq(Seq(T)) /\ Len(st) = n + 1 /\ st[n + 1] = t
      /\ \A i \in 1..n : st[i] = s[i] /\ s[i] \in Seq(T)
  OBVIOUS
<1> HIDE DEF st
<1>2. PICK g : Flattens(st, g, n + 1) /\ FlattenSeq(st) = g[n + 1]
  <2>1. Len(st) \in Nat \ {0}
    BY <1>1
  <2> QED
    BY <1>1, <2>1, FlattenIs
<1>3. n + 1 \in 1..(n + 1) /\ g[n + 1] = FlattenFrom(st, g, n + 1)
  BY <1>1, <1>2, FlattensAt
<1>4. CASE n = 0
  <2>1. s = <<>> /\ FlattenSeq(s) = s
    BY <1>4 DEF FlattenSeq
  <2>2. FlattenSeq(st) = t
    BY <1>1, <1>2, <1>3, <1>4 DEF FlattenFrom
  <2>3. <<>> \o t = t /\ <<>> \in Seq(T)
    OBVIOUS
  <2>4. FlattenSeq(s) = <<>>
    BY <2>1
  <2> QED
    BY <2>2, <2>3, <2>4 DEF st
<1>5. CASE n # 0
  <2>1. PICK f : Flattens(s, f, n) /\ FlattenSeq(s) = f[n]
    BY <1>1, <1>5, FlattenIs
  <2> DEFINE N == {k \in Nat : k + 1 <= n => g[k + 1] = f[k + 1] /\ f[k + 1] \in Seq(T)}
  <2>2. \A i \in 1..n : f[i] = FlattenFrom(s, f, i) /\ g[i] = FlattenFrom(st, g, i)
    <3>1. n + 1 \in Nat /\ \A i \in 1..n : i \in 1..(n + 1)
      BY <1>1
    <3> QED
      BY <1>1, <1>2, <2>1, <3>1, FlattensAt
  <2>3. 0 \in N
    BY <1>1, <1>5, <2>2 DEF FlattenFrom
  <2>4. ASSUME NEW k \in N PROVE k + 1 \in N
    <3>1. k \in Nat /\ k + 1 \in Nat /\ (k + 1) + 1 # 1 /\ ((k + 1) + 1) - 1 = k + 1
      OBVIOUS
    <3>2. ASSUME (k + 1) + 1 <= n
          PROVE  g[(k + 1) + 1] = f[(k + 1) + 1] /\ f[(k + 1) + 1] \in Seq(T)
      <4>1. (k + 1) + 1 \in 1..n /\ k + 1 <= n
        BY <1>1, <3>1, <3>2
      <4>2. g[k + 1] = f[k + 1] /\ f[k + 1] \in Seq(T)
        BY <4>1
      <4>3. st[(k + 1) + 1] = s[(k + 1) + 1] /\ s[(k + 1) + 1] \in Seq(T)
        BY <1>1, <4>1
      <4>4. f[(k + 1) + 1] = f[k + 1] \o s[(k + 1) + 1] /\ g[(k + 1) + 1] = g[k + 1] \o st[(k + 1) + 1]
        BY <2>2, <3>1, <4>1 DEF FlattenFrom
      <4> QED
        BY <4>2, <4>3, <4>4
    <3> QED
      BY <3>1, <3>2
  <2> HIDE DEF N
  <2>5. N = Nat
    BY <2>3, <2>4, Inductive DEF N
  <2>6. g[n] = f[n] /\ f[n] \in Seq(T)
    <3>1. n - 1 \in Nat /\ (n - 1) + 1 <= n /\ (n - 1) + 1 = n
      BY <1>1, <1>5
    <3>2. n - 1 \in N
      BY <2>5, <3>1
    <3> QED
      BY <3>1, <3>2 DEF N
  <2>7. g[n + 1] = g[n] \o t
    <3>1. n + 1 # 1 /\ (n + 1) - 1 = n
      BY <1>1, <1>5
    <3> QED
      BY <1>1, <1>3, <3>1 DEF FlattenFrom
  <2> QED
    BY <1>2, <2>1, <2>6, <2>7 DEF st
<1> QED
  BY <1>1, <1>4, <1>5

\* What LIKE takes for something else, and the letters Lower yields.
Special == {"\\", "%", "_"}
Letters == {"a", "b", "c", "d", "e", "f"}

\* Characters.  The provers know no member of STRING by itself.
Chars == STRING \cup Special \cup Letters

LEMMA SpecialChars == "\\" \in Chars /\ "%" \in Chars /\ "_" \in Chars
<1>1. "\\" \in Special /\ "%" \in Special /\ "_" \in Special
  BY DEF Special
<1> QED
  BY <1>1, Zenon DEF Chars

LEMMA TwoChars ==
    ASSUME NEW x \in Chars, NEW y \in Chars
    PROVE  <<x, y>> \in Seq(Chars)
OBVIOUS

LEMMA ReplaceAppend ==
    ASSUME NEW text \in Seq(Chars), NEW x \in Chars, NEW c \in Chars, NEW by \in Seq(Chars)
    PROVE  /\ Replace(text, c, by) \in Seq(Chars)
           /\ Replace(Append(text, x), c, by) = Replace(text, c, by) \o (IF x = c THEN by ELSE <<x>>)
<1> DEFINE piece(y) == IF y = c THEN by ELSE <<y>>
           s == [k \in DOMAIN text |-> piece(text[k])]
           more == Append(text, x)
           sx == [k \in DOMAIN more |-> piece(more[k])]
<1>1. Len(text) \in Nat /\ DOMAIN text = 1..Len(text) /\ \A k \in 1..Len(text) : text[k] \in Chars
  OBVIOUS
<1>2. more \in Seq(Chars) /\ Len(more) = Len(text) + 1 /\ DOMAIN more = 1..(Len(text) + 1)
      /\ more[Len(text) + 1] = x /\ \A k \in 1..Len(text) : more[k] = text[k]
  OBVIOUS
<1>3. \A y \in Chars : piece(y) \in Seq(Chars)
  OBVIOUS
<1>4. s \in Seq(Seq(Chars)) /\ Len(s) = Len(text)
  <2> HIDE DEF piece
  <2> QED
    BY <1>1, <1>3
<1>5. Replace(text, c, by) = FlattenSeq(s) /\ Replace(more, c, by) = FlattenSeq(sx)
  BY DEF Replace
<1> HIDE DEF more, piece
<1>6. sx = Append(s, piece(x))
  <2>1. Append(s, piece(x)) \in Seq(Seq(Chars)) /\ Len(Append(s, piece(x))) = Len(text) + 1
    BY <1>3, <1>4
  <2>2. DOMAIN sx = 1..(Len(text) + 1) /\ sx = [k \in 1..(Len(text) + 1) |-> sx[k]]
    BY <1>2
  <2>3. Append(s, piece(x)) = [k \in 1..(Len(text) + 1) |-> Append(s, piece(x))[k]]
    BY <2>1
  <2>4. ASSUME NEW k \in 1..(Len(text) + 1) PROVE sx[k] = Append(s, piece(x))[k]
    <3>1. CASE k = Len(text) + 1
      BY <1>1, <1>2, <1>4, <3>1
    <3>2. CASE k \in 1..Len(text)
      <4>1. sx[k] = piece(text[k]) /\ s[k] = piece(text[k])
        BY <1>1, <1>2, <3>2
      <4>2. Append(s, piece(x))[k] = s[k]
        <5> HIDE DEF s
        <5> QED
          BY <1>4, <3>2
      <4> QED
        BY <4>1, <4>2
    <3> QED
      BY <1>1, <3>1, <3>2
  <2> HIDE DEF s, sx
  <2> QED
    BY <2>2, <2>3, <2>4
<1> HIDE DEF s, sx
<1>7. FlattenSeq(sx) = FlattenSeq(s) \o piece(x) /\ FlattenSeq(s) \in Seq(Chars)
  BY <1>3, <1>4, <1>6, FlattenAppend
<1> QED
  BY <1>5, <1>7 DEF piece, more

\* The same, one character at a time.
LEMMA ReplaceOther ==
    ASSUME NEW text \in Seq(Chars), NEW x \in Chars, NEW c \in Chars, NEW by \in Seq(Chars), x # c
    PROVE  Replace(Append(text, x), c, by) = Append(Replace(text, c, by), x)
<1> DEFINE R == Replace(text, c, by)
<1>1. Replace(Append(text, x), c, by) = R \o <<x>> /\ R \in Seq(Chars)
  BY ReplaceAppend
<1> HIDE DEF R
<1>2. R \o <<x>> = Append(R, x)
  BY <1>1
<1> QED
  BY <1>1, <1>2 DEF R

LEMMA ReplaceSame ==
    ASSUME NEW text \in Seq(Chars), NEW c \in Chars
    PROVE  Replace(Append(text, c), c, <<"\\", c>>)
             = Append(Append(Replace(text, c, <<"\\", c>>), "\\"), c)
<1> DEFINE R == Replace(text, c, <<"\\", c>>)
<1>1. <<"\\", c>> \in Seq(Chars)
  BY SpecialChars, TwoChars
<1>2. Replace(Append(text, c), c, <<"\\", c>>) = R \o <<"\\", c>> /\ R \in Seq(Chars)
  BY <1>1, ReplaceAppend
<1> HIDE DEF R
<1>3. R \o <<"\\", c>> = Append(Append(R, "\\"), c)
  BY <1>2
<1> QED
  BY <1>2, <1>3 DEF R

\* One character comes with a backslash now.
Quoted(text, c) == Replace(text, c, <<"\\", c>>)

LEMMA QuotedAppend ==
    ASSUME NEW text \in Seq(Chars), NEW c \in Chars, NEW x \in Chars
    PROVE  /\ Quoted(text, c) \in Seq(Chars)
           /\ x # c => Quoted(Append(text, x), c) = Append(Quoted(text, c), x)
           /\ x = c => Quoted(Append(text, x), c) = Append(Append(Quoted(text, c), "\\"), x)
<1>1. <<"\\", c>> \in Seq(Chars)
  BY SpecialChars, TwoChars
<1>2. Replace(text, c, <<"\\", c>>) \in Seq(Chars)
  BY <1>1, ReplaceAppend
<1>3. ASSUME x # c
      PROVE  Replace(Append(text, x), c, <<"\\", c>>) = Append(Replace(text, c, <<"\\", c>>), x)
  BY <1>1, <1>3, ReplaceOther
<1>4. ASSUME x = c
      PROVE  Replace(Append(text, x), c, <<"\\", c>>)
               = Append(Append(Replace(text, c, <<"\\", c>>), "\\"), x)
  BY <1>4, ReplaceSame
<1> QED
  BY <1>2, <1>3, <1>4, Zenon DEF Quoted

\* A character that LIKE would take for something else comes with a backslash.
LEMMA EscapeAppend ==
    ASSUME NEW needle \in Seq(Chars), NEW x \in Chars
    PROVE  /\ EscapeLike(needle) \in Seq(Chars)
           /\ EscapeLike(Append(needle, x)) =
                IF x \in Special THEN Append(Append(EscapeLike(needle), "\\"), x)
                ELSE Append(EscapeLike(needle), x)
<1> DEFINE A(t) == Quoted(t, "\\")
           B(t) == Quoted(t, "%")
           C(t) == Quoted(t, "_")
<1>1. \A t : EscapeLike(t) = C(B(A(t)))
  BY DEF EscapeLike, Quoted
<1>2. ASSUME NEW t \in Seq(Chars), NEW y \in Chars
      PROVE  /\ A(t) \in Seq(Chars) /\ B(t) \in Seq(Chars) /\ C(t) \in Seq(Chars)
             /\ y # "\\" => A(Append(t, y)) = Append(A(t), y)
             /\ y # "%" => B(Append(t, y)) = Append(B(t), y)
             /\ y # "_" => C(Append(t, y)) = Append(C(t), y)
             /\ y = "\\" => A(Append(t, y)) = Append(Append(A(t), "\\"), y)
             /\ y = "%" => B(Append(t, y)) = Append(Append(B(t), "\\"), y)
             /\ y = "_" => C(Append(t, y)) = Append(Append(C(t), "\\"), y)
  BY QuotedAppend, SpecialChars
<1> HIDE DEF A, B, C
<1>3. \A t \in Seq(Chars) : \A y \in Chars : Append(t, y) \in Seq(Chars)
  OBVIOUS
<1> DEFINE a == A(needle)
           b == B(a)
           c == C(b)
           back == "\\"
<1>4. a \in Seq(Chars) /\ b \in Seq(Chars) /\ c \in Seq(Chars) /\ EscapeLike(needle) = c
  BY <1>1, <1>2
<1>5. EscapeLike(Append(needle, x)) = C(B(A(Append(needle, x))))
  BY <1>1
<1>6. back \in Chars /\ back # "%" /\ back # "_"
  BY SpecialChars
<1> HIDE DEF back
<1>7. \A t \in Seq(Chars) : /\ B(Append(t, back)) = Append(B(t), back)
                             /\ C(Append(t, back)) = Append(C(t), back)
                             /\ Append(t, back) \in Seq(Chars)
  BY <1>2, <1>3, <1>6
<1> HIDE DEF a, b, c
<1>8. a = A(needle) /\ b = B(a) /\ c = C(b)
  BY DEF a, b, c
<1>9. CASE x = "\\"
  <2>2. \A t \in Seq(Chars) : /\ A(Append(t, x)) = Append(Append(A(t), back), x)
                             /\ B(Append(t, x)) = Append(B(t), x)
                             /\ C(Append(t, x)) = Append(C(t), x)
    BY <1>2, <1>9 DEF back
  <2>3. A(Append(needle, x)) = Append(Append(a, back), x)
    BY <1>8, <2>2
  <2>4. B(Append(Append(a, back), x)) = Append(Append(b, back), x)
    <3>1. Append(a, back) \in Seq(Chars)
      BY <1>4, <1>7
    <3>2. B(Append(Append(a, back), x)) = Append(B(Append(a, back)), x)
      BY <2>2, <3>1, Zenon
    <3>3. B(Append(a, back)) = Append(b, back)
      BY <1>4, <1>7, <1>8, Zenon
    <3> QED
      BY <3>2, <3>3, Zenon
  <2>5. C(Append(Append(b, back), x)) = Append(Append(c, back), x)
    <3>1. Append(b, back) \in Seq(Chars)
      BY <1>4, <1>7
    <3>2. C(Append(Append(b, back), x)) = Append(C(Append(b, back)), x)
      BY <2>2, <3>1, Zenon
    <3>3. C(Append(b, back)) = Append(c, back)
      BY <1>4, <1>7, <1>8, Zenon
    <3> QED
      BY <3>2, <3>3, Zenon
  <2> QED
    BY <1>4, <1>5, <1>9, <2>3, <2>4, <2>5 DEF Special, back
<1>10. CASE x = "%"
  <2>2. \A t \in Seq(Chars) : /\ A(Append(t, x)) = Append(A(t), x)
                             /\ B(Append(t, x)) = Append(Append(B(t), back), x)
                             /\ C(Append(t, x)) = Append(C(t), x)
    BY <1>2, <1>10 DEF back
  <2>3. A(Append(needle, x)) = Append(a, x)
    BY <1>8, <2>2
  <2>4. B(Append(a, x)) = Append(Append(b, back), x)
    BY <1>4, <1>7, <1>8, <2>2
  <2>5. C(Append(Append(b, back), x)) = Append(Append(c, back), x)
    <3>1. Append(b, back) \in Seq(Chars)
      BY <1>4, <1>7
    <3>2. C(Append(Append(b, back), x)) = Append(C(Append(b, back)), x)
      BY <2>2, <3>1, Zenon
    <3>3. C(Append(b, back)) = Append(c, back)
      BY <1>4, <1>7, <1>8, Zenon
    <3> QED
      BY <3>2, <3>3, Zenon
  <2> QED
    BY <1>4, <1>5, <1>10, <2>3, <2>4, <2>5 DEF Special, back
<1>11. CASE x = "_"
  <2>2. \A t \in Seq(Chars) : /\ A(Append(t, x)) = Append(A(t), x)
                             /\ B(Append(t, x)) = Append(B(t), x)
                             /\ C(Append(t, x)) = Append(Append(C(t), back), x)
    BY <1>2, <1>11 DEF back
  <2>3. A(Append(needle, x)) = Append(a, x)
    BY <1>8, <2>2
  <2>4. B(Append(a, x)) = Append(b, x)
    BY <1>4, <1>7, <1>8, <2>2
  <2>5. C(Append(b, x)) = Append(Append(c, back), x)
    BY <1>4, <1>7, <1>8, <2>2
  <2> QED
    BY <1>4, <1>5, <1>11, <2>3, <2>4, <2>5 DEF Special, back
<1>12. CASE x \notin Special
  <2>1. x # "\\" /\ x # "%" /\ x # "_"
    BY <1>12 DEF Special
  <2>2. \A t \in Seq(Chars) : /\ A(Append(t, x)) = Append(A(t), x)
                             /\ B(Append(t, x)) = Append(B(t), x)
                             /\ C(Append(t, x)) = Append(C(t), x)
    BY <1>2, <2>1 DEF back
  <2>3. A(Append(needle, x)) = Append(a, x)
    BY <1>8, <2>2
  <2>4. B(Append(a, x)) = Append(b, x)
    BY <1>4, <1>7, <1>8, <2>2
  <2>5. C(Append(b, x)) = Append(c, x)
    BY <1>4, <1>7, <1>8, <2>2
  <2> QED
    BY <1>4, <1>5, <1>12, <2>3, <2>4, <2>5 DEF Special, back
<1> QED
  BY <1>4, <1>9, <1>10, <1>11, <1>12 DEF Special

-----------------------------------------------------------------------------
\* Reading a pattern, character by character.

Beginning == [at |-> {0}, quotes |-> FALSE]

ReadFrom(text, p, f, i) == IF i = 0 THEN [at |-> {0}, quotes |-> FALSE] ELSE Step(text, f[i - 1], p[i])

Reads(text, p, f, n) == f = [i \in 0..n |-> ReadFrom(text, p, f, i)]

LEMMA ReadsExists ==
    ASSUME NEW text, NEW p, NEW n \in Nat
    PROVE  \E f : Reads(text, p, f, n)
<1> DEFINE N == {k \in Nat : \E f : Reads(text, p, f, k)}
<1>1. 0 \in N
  <2> DEFINE f == [i \in 0..0 |-> Beginning]
  <2>1. \A i \in 0..0 : ReadFrom(text, p, f, i) = Beginning
    BY DEF ReadFrom, Beginning
  <2>2. f = [i \in 0..0 |-> ReadFrom(text, p, f, i)]
    BY <2>1
  <2> HIDE DEF f
  <2> QED
    BY <2>2 DEF Reads
<1>2. ASSUME NEW k \in N PROVE k + 1 \in N
  <2>1. PICK f : Reads(text, p, f, k)
    OBVIOUS
  <2>2. k \in Nat /\ k + 1 \in Nat
    OBVIOUS
  <2> DEFINE g == [i \in 0..(k + 1) |-> IF i \in 0..k THEN f[i] ELSE ReadFrom(text, p, f, i)]
  <2>3. ASSUME NEW i \in 0..(k + 1) PROVE g[i] = ReadFrom(text, p, g, i)
    <3>1. g[i] = ReadFrom(text, p, f, i)
      BY <2>1 DEF Reads
    <3>2. i # 0 => i - 1 \in 0..k /\ i - 1 \in 0..(k + 1)
      BY <2>2
    <3>3. i # 0 => g[i - 1] = f[i - 1]
      BY <3>2
    <3> HIDE DEF g
    <3> QED
      BY <3>1, <3>3 DEF ReadFrom
  <2>4. g = [i \in 0..(k + 1) |-> ReadFrom(text, p, g, i)]
    BY <2>3
  <2> HIDE DEF g
  <2>5. Reads(text, p, g, k + 1)
    BY <2>4 DEF Reads
  <2> QED
    BY <2>2, <2>5
<1> HIDE DEF N
<1>3. N = Nat
  BY <1>1, <1>2, Inductive DEF N
<1> QED
  BY <1>3 DEF N

LEMMA ReadsAt ==
    ASSUME NEW text, NEW p, NEW f, NEW n \in Nat, Reads(text, p, f, n), NEW i \in 0..n
    PROVE  f[i] = ReadFrom(text, p, f, i)
<1> f = [k \in 0..n |-> ReadFrom(text, p, f, k)]
  BY DEF Reads
<1> QED
  OBVIOUS

LEMMA ReadingIs ==
    ASSUME NEW text, NEW p, Len(p) \in Nat
    PROVE  \E f : Reads(text, p, f, Len(p)) /\ Reading(text, p) = f[Len(p)]
<1> DEFINE f == CHOOSE f : Reads(text, p, f, Len(p))
<1>1. Reads(text, p, f, Len(p))
  BY ReadsExists, Zenon
<1>2. Reading(text, p) = f[Len(p)]
  BY Zenon DEF Reading, Reads, ReadFrom
<1> HIDE DEF f
<1> QED
  BY <1>1, <1>2

LEMMA ReadingAppend ==
    ASSUME NEW text, NEW T, NEW p \in Seq(T), NEW c \in T
    PROVE  /\ Reading(text, <<>>) = Beginning
           /\ Reading(text, Append(p, c)) = Step(text, Reading(text, p), c)
<1> DEFINE n == Len(p)
           pc1 == Append(p, c)
<1>1. n \in Nat /\ Len(pc1) = n + 1 /\ pc1[n + 1] = c /\ \A i \in 1..n : pc1[i] = p[i]
  OBVIOUS
<1> HIDE DEF pc1
<1>2. PICK f : Reads(text, p, f, n) /\ Reading(text, p) = f[n]
  BY <1>1, ReadingIs
<1>3. PICK g : Reads(text, pc1, g, n + 1) /\ Reading(text, pc1) = g[n + 1]
  BY <1>1, ReadingIs
<1>4. \A i \in 0..n : f[i] = ReadFrom(text, p, f, i) /\ g[i] = ReadFrom(text, pc1, g, i)
  <2>1. n + 1 \in Nat /\ \A i \in 0..n : i \in 0..(n + 1)
    BY <1>1
  <2> QED
    BY <1>1, <1>2, <1>3, <2>1, ReadsAt
<1> DEFINE N == {k \in Nat : k <= n => g[k] = f[k]}
<1>5. 0 \in N
  BY <1>1, <1>4 DEF ReadFrom
<1>6. ASSUME NEW k \in N PROVE k + 1 \in N
  <2>1. k \in Nat /\ k + 1 \in Nat /\ k + 1 # 0 /\ (k + 1) - 1 = k
    OBVIOUS
  <2>2. ASSUME k + 1 <= n
        PROVE  g[k + 1] = f[k + 1]
    <3>1. k + 1 \in 0..n /\ k + 1 \in 1..n /\ k <= n
      BY <1>1, <2>1, <2>2
    <3>2. g[k] = f[k] /\ pc1[k + 1] = p[k + 1]
      BY <1>1, <3>1
    <3>3. f[k + 1] = Step(text, f[k], p[k + 1]) /\ g[k + 1] = Step(text, g[k], pc1[k + 1])
      BY <1>4, <2>1, <3>1 DEF ReadFrom
    <3> QED
      BY <3>2, <3>3
  <2> QED
    BY <2>1, <2>2
<1> HIDE DEF N
<1>7. N = Nat
  BY <1>5, <1>6, Inductive DEF N
<1>8. g[n] = f[n]
  BY <1>1, <1>7 DEF N
<1>9. g[n + 1] = Step(text, g[n], c)
  <2>1. n + 1 \in 0..(n + 1) /\ n + 1 # 0 /\ (n + 1) - 1 = n /\ n + 1 \in Nat
    BY <1>1
  <2>2. g[n + 1] = ReadFrom(text, pc1, g, n + 1)
    BY <1>3, <2>1, ReadsAt
  <2> QED
    BY <1>1, <2>1, <2>2 DEF ReadFrom
<1>10. Reading(text, <<>>) = Beginning
  <2>1. Len(<<>>) = 0
    OBVIOUS
  <2>2. PICK h : Reads(text, <<>>, h, 0) /\ Reading(text, <<>>) = h[0]
    BY <2>1, ReadingIs
  <2>3. h[0] = ReadFrom(text, <<>>, h, 0)
    BY <2>2, ReadsAt
  <2> QED
    BY <2>2, <2>3 DEF ReadFrom, Beginning
<1> QED
  BY <1>2, <1>3, <1>8, <1>9, <1>10 DEF pc1

LEMMA ReadingGrows ==
    /\ \A text : Reading(text, <<>>) = Beginning
    /\ \A text : \A p \in Seq(Chars) : \A c \in Chars :
            Reading(text, Append(p, c)) = Step(text, Reading(text, p), c)
<1>1. ASSUME NEW text, NEW p \in Seq(Chars), NEW c \in Chars
      PROVE  /\ Reading(text, <<>>) = Beginning
             /\ Reading(text, Append(p, c)) = Step(text, Reading(text, p), c)
  BY ReadingAppend
<1>2. <<>> \in Seq(Chars)
  OBVIOUS
<1> QED
  BY <1>1, <1>2, SpecialChars, Zenon

-----------------------------------------------------------------------------
\* Lower case.

LEMMA LowerKeeps ==
    ASSUME NEW c \in Chars
    PROVE  /\ Lower(c) \in Chars
           /\ c \in Special => Lower(c) = c
           /\ c \notin Special => Lower(c) \notin Special
<1>1. DOMAIN LowerOf = {"A", "B", "C", "D", "E", "F"}
  BY DEF LowerOf
<1>2. \A x \in DOMAIN LowerOf : LowerOf[x] \in Letters
  BY <1>1 DEF LowerOf, Letters
<1>3. Letters \cap Special = {} /\ DOMAIN LowerOf \cap Special = {} /\ Letters \subseteq Chars
  <2>1. Letters \cap Special = {}
    BY DEF Letters, Special
  <2>2. DOMAIN LowerOf \cap Special = {}
    BY <1>1 DEF Special
  <2>3. Letters \subseteq Chars
    BY DEF Chars
  <2> QED
    BY <2>1, <2>2, <2>3
<1>4. CASE c \in DOMAIN LowerOf
  <2>1. Lower(c) \in Letters /\ c \notin Special
    BY <1>2, <1>3, <1>4 DEF Lower
  <2> QED
    BY <1>3, <2>1
<1>5. CASE c \notin DOMAIN LowerOf
  BY <1>5 DEF Lower
<1> QED
  BY <1>4, <1>5

LEMMA FoldedType ==
    ASSUME NEW s \in Seq(Chars)
    PROVE  /\ Folded(s) \in Seq(Chars) /\ Len(Folded(s)) = Len(s)
           /\ \A k \in 1..Len(s) : Folded(s)[k] = Lower(s[k])
<1>1. Len(s) \in Nat /\ DOMAIN s = 1..Len(s) /\ \A k \in 1..Len(s) : Lower(s[k]) \in Chars
  BY LowerKeeps
<1> QED
  BY <1>1 DEF Folded

LEMMA FoldedAppend ==
    ASSUME NEW s \in Seq(Chars), NEW c \in Chars
    PROVE  Folded(Append(s, c)) = Append(Folded(s), Lower(c))
<1> DEFINE a == Append(s, c)
           l == Folded(a)
           r == Append(Folded(s), Lower(c))
<1>1. a \in Seq(Chars) /\ Len(a) = Len(s) + 1 /\ Len(s) \in Nat
      /\ a[Len(s) + 1] = c /\ \A k \in 1..Len(s) : a[k] = s[k]
  OBVIOUS
<1> HIDE DEF a
<1>2. l \in Seq(Chars) /\ Len(l) = Len(s) + 1 /\ \A k \in 1..(Len(s) + 1) : l[k] = Lower(a[k])
  BY <1>1, FoldedType
<1>3. r \in Seq(Chars) /\ Len(r) = Len(s) + 1 /\ r[Len(s) + 1] = Lower(c)
      /\ \A k \in 1..Len(s) : r[k] = Lower(s[k])
  BY <1>1, FoldedType, LowerKeeps
<1> HIDE DEF l, r
<1>4. \A k \in 1..(Len(s) + 1) : l[k] = r[k]
  <2>1. \A k \in 1..(Len(s) + 1) : k \in 1..Len(s) \/ k = Len(s) + 1
    BY <1>1
  <2> QED
    BY <1>1, <1>2, <1>3, <2>1
<1>5. l = r
  BY <1>1, <1>2, <1>3, <1>4
<1> QED
  BY <1>5 DEF a, l, r

-----------------------------------------------------------------------------
\* What an escaped search reads.

\* The pattern of a search but for the % at its end.
Opened(needle) == Folded(<<"%">> \o EscapeLike(needle))

LEMMA EscapeEmpty == EscapeLike(<<>>) = <<>>
<1>1. \A c, by : Replace(<<>>, c, by) = <<>>
  <2> TAKE c, by
  <2>1. [k \in DOMAIN <<>> |-> IF <<>>[k] = c THEN by ELSE <<<<>>[k]>>] = <<>>
    OBVIOUS
  <2>2. FlattenSeq(<<>>) = <<>>
    BY DEF FlattenSeq
  <2> QED
    BY <2>1, <2>2 DEF Replace
<1> QED
  BY <1>1 DEF EscapeLike

LEMMA OpenedAppend ==
    ASSUME NEW needle \in Seq(Chars), NEW x \in Chars
    PROVE  /\ Opened(needle) \in Seq(Chars)
           /\ Opened(Append(needle, x)) =
                IF x \in Special THEN Append(Append(Opened(needle), "\\"), x)
                ELSE Append(Opened(needle), Lower(x))
<1> DEFINE p == <<"%">> \o EscapeLike(needle)
           back == "\\"
<1>1. back \in Chars /\ Lower(back) = back /\ "%" \in Chars
  BY SpecialChars, LowerKeeps DEF Special
<1> HIDE DEF back
<1>2. EscapeLike(needle) \in Seq(Chars) /\ <<"%">> \in Seq(Chars)
  BY <1>1, EscapeAppend
<1>3. p \in Seq(Chars)
  BY <1>2
<1>4. ASSUME NEW s \in Seq(Chars), NEW y \in Chars
      PROVE  <<"%">> \o Append(s, y) = Append(<<"%">> \o s, y)
  BY <1>1
<1>5. CASE x \in Special
  <2>1. EscapeLike(Append(needle, x)) = Append(Append(EscapeLike(needle), back), x)
    BY <1>5, EscapeAppend DEF back
  <2>2. Append(EscapeLike(needle), back) \in Seq(Chars)
    BY <1>1, <1>2
  <2>3. <<"%">> \o EscapeLike(Append(needle, x)) = Append(Append(p, back), x)
    BY <1>1, <1>2, <1>4, <2>1, <2>2, Zenon
  <2> HIDE DEF p
  <2>4. Folded(Append(p, back)) = Append(Folded(p), back) /\ Append(p, back) \in Seq(Chars)
    BY <1>1, <1>3, FoldedAppend
  <2>5. Folded(Append(Append(p, back), x)) = Append(Folded(Append(p, back)), x)
    <3>1. Lower(x) = x
      BY <1>5, LowerKeeps
    <3> QED
      BY <2>4, <3>1, FoldedAppend
  <2> QED
    BY <1>3, <1>5, <2>3, <2>4, <2>5, FoldedType DEF Opened, p, back
<1>6. CASE x \notin Special
  <2>1. EscapeLike(Append(needle, x)) = Append(EscapeLike(needle), x)
    BY <1>6, EscapeAppend
  <2>2. <<"%">> \o EscapeLike(Append(needle, x)) = Append(p, x)
    BY <1>1, <1>2, <1>4, <2>1, Zenon
  <2> HIDE DEF p
  <2>3. Folded(Append(p, x)) = Append(Folded(p), Lower(x))
    BY <1>3, FoldedAppend
  <2> QED
    BY <1>3, <1>6, <2>2, <2>3, FoldedType DEF Opened, p
<1> QED
  BY <1>5, <1>6

\* Where in the text the needle ends.
Ends(text, needle) ==
    {x \in 0..Len(text) : /\ Len(needle) <= x
                          /\ \A j \in 1..Len(needle) : text[(x - Len(needle)) + j] = Lower(needle[j])}

LEMMA StepQuoted ==
    ASSUME NEW text, NEW A, NEW c
    PROVE  Step(text, [at |-> A, quotes |-> TRUE], c)
             = [at |-> {k \in 1..Len(text) : k - 1 \in A /\ text[k] = c}, quotes |-> FALSE]
BY DEF Step

LEMMA StepPlain ==
    ASSUME NEW text, NEW A, NEW c, c \notin Special
    PROVE  Step(text, [at |-> A, quotes |-> FALSE], c)
             = [at |-> {k \in 1..Len(text) : k - 1 \in A /\ text[k] = c}, quotes |-> FALSE]
<1>1. c # "\\" /\ c # "%" /\ c # "_"
  BY DEF Special
<1> QED
  BY <1>1 DEF Step

LEMMA StepAny ==
    ASSUME NEW text, NEW A
    PROVE  Step(text, [at |-> A, quotes |-> FALSE], "%")
             = [at |-> {k \in 0..Len(text) : \E j \in A : j <= k}, quotes |-> FALSE]
BY DEF Step

LEMMA StepBackslash ==
    ASSUME NEW text, NEW A
    PROVE  Step(text, [at |-> A, quotes |-> FALSE], "\\") = [at |-> A, quotes |-> TRUE]
BY DEF Step

LEMMA EndsAppend ==
    ASSUME NEW text, Len(text) \in Nat, NEW needle \in Seq(Chars), NEW x \in Chars
    PROVE  Ends(text, Append(needle, x))
             = {k \in 1..Len(text) : k - 1 \in Ends(text, needle) /\ text[k] = Lower(x)}
<1> DEFINE more == Append(needle, x)
           n == Len(needle)
<1>1. n \in Nat /\ Len(more) = n + 1 /\ more[n + 1] = x /\ \A j \in 1..n : more[j] = needle[j]
  OBVIOUS
<1> HIDE DEF more
<1>2. ASSUME NEW k \in Ends(text, more)
      PROVE  k \in 1..Len(text) /\ k - 1 \in Ends(text, needle) /\ text[k] = Lower(x)
  <2>1. k \in 0..Len(text) /\ n + 1 <= k /\ \A j \in 1..(n + 1) : text[(k - (n + 1)) + j] = Lower(more[j])
    BY <1>1, <1>2 DEF Ends
  <2>2. k \in 1..Len(text) /\ k - 1 \in 0..Len(text) /\ n <= k - 1
        /\ (k - (n + 1)) + (n + 1) = k /\ n + 1 \in 1..(n + 1)
    BY <1>1, <2>1
  <2>3. \A j \in 1..n : j \in 1..(n + 1) /\ ((k - 1) - n) + j = (k - (n + 1)) + j
    BY <1>1, <2>1
  <2>4. \A j \in 1..n : text[((k - 1) - n) + j] = Lower(needle[j])
    BY <1>1, <2>1, <2>3
  <2>5. text[k] = Lower(x)
    BY <1>1, <2>1, <2>2
  <2> QED
    BY <2>2, <2>4, <2>5 DEF Ends
<1>3. ASSUME NEW k \in 1..Len(text), k - 1 \in Ends(text, needle), text[k] = Lower(x)
      PROVE  k \in Ends(text, more)
  <2>1. n <= k - 1 /\ \A j \in 1..n : text[((k - 1) - n) + j] = Lower(needle[j])
    BY <1>1, <1>3 DEF Ends
  <2>2. k \in 0..Len(text) /\ n + 1 <= k
    BY <1>1, <2>1
  <2>3. ASSUME NEW j \in 1..(n + 1) PROVE text[(k - (n + 1)) + j] = Lower(more[j])
    <3>1. CASE j = n + 1
      <4>1. (k - (n + 1)) + j = k
        BY <1>1, <3>1
      <4> QED
        BY <1>1, <1>3, <3>1, <4>1
    <3>2. CASE j \in 1..n
      <4>1. (k - (n + 1)) + j = ((k - 1) - n) + j
        BY <1>1, <3>2
      <4> QED
        BY <1>1, <2>1, <3>2, <4>1
    <3> QED
      BY <1>1, <3>1, <3>2
  <2> QED
    BY <1>1, <2>2, <2>3 DEF Ends
<1> QED
  BY <1>2, <1>3 DEF more

\* Every sequence that is not empty ends with an element.
LEMMA FrontAndLast ==
    ASSUME NEW T, NEW s \in Seq(T), Len(s) # 0
    PROVE  \E t \in Seq(T), x \in T : s = Append(t, x) /\ Len(t) + 1 = Len(s)
<1> DEFINE n == Len(s)
           t == [i \in 1..(n - 1) |-> s[i]]
<1>1. n \in Nat /\ n - 1 \in Nat /\ s[n] \in T
  OBVIOUS
<1>2. t \in Seq(T) /\ Len(t) = n - 1
  BY <1>1
<1>3. s = Append(t, s[n])
  BY <1>1, <1>2
<1>4. Len(t) + 1 = Len(s)
  BY <1>1, <1>2
<1> HIDE DEF t
<1> QED
  BY <1>1, <1>2, <1>3, <1>4

\* A search of the code, read so far: it got where its text ends.
LEMMA OpenedReads ==
    ASSUME NEW text, Len(text) \in Nat, NEW needle \in Seq(Chars)
    PROVE  Reading(text, Opened(needle)) = [at |-> Ends(text, needle), quotes |-> FALSE]
<1> DEFINE IsLiteral(s) == Reading(text, Opened(s)) = [at |-> Ends(text, s), quotes |-> FALSE]
           N == {k \in Nat : \A s \in Seq(Chars) : Len(s) = k => IsLiteral(s)}
<1>1. 0 \in N
  <2>1. Opened(<<>>) = Append(<<>>, "%")
    <3>1. <<"%">> \o EscapeLike(<<>>) = Append(<<>>, "%") /\ "%" \in Chars /\ <<>> \in Seq(Chars)
      <4>1. <<"%">> \o <<>> = Append(<<>>, "%")
        OBVIOUS
      <4>2. <<>> \in Seq(Chars)
        OBVIOUS
      <4> QED
        BY <4>1, <4>2, EscapeEmpty, SpecialChars
    <3>2. Lower("%") = "%"
      BY SpecialChars, LowerKeeps DEF Special
    <3>3. Folded(Append(<<>>, "%")) = Append(Folded(<<>>), "%")
      BY <3>1, <3>2, FoldedAppend
    <3>4. Folded(<<>>) = <<>>
      BY DEF Folded
    <3> QED
      BY <3>1, <3>3, <3>4 DEF Opened
  <2>2. Reading(text, Append(<<>>, "%")) = Step(text, Beginning, "%")
    <3>1. <<>> \in Seq(Chars)
      OBVIOUS
    <3>2. Reading(text, Append(<<>>, "%")) = Step(text, Reading(text, <<>>), "%")
      BY <3>1, SpecialChars, ReadingGrows, Zenon
    <3>3. Reading(text, <<>>) = Beginning
      BY ReadingGrows, Zenon
    <3> QED
      BY <3>2, <3>3, Zenon
  <2>3. Step(text, Beginning, "%") = [at |-> {k \in 0..Len(text) : \E j \in {0} : j <= k}, quotes |-> FALSE]
    BY StepAny DEF Beginning
  <2>4. Ends(text, <<>>) = {k \in 0..Len(text) : \E j \in {0} : j <= k}
    BY DEF Ends
  <2>5. IsLiteral(<<>>)
    BY <2>1, <2>2, <2>3, <2>4
  <2>6. \A s \in Seq(Chars) : Len(s) = 0 => s = <<>>
    OBVIOUS
  <2> HIDE DEF IsLiteral
  <2> QED
    BY <2>5, <2>6
<1>2. ASSUME NEW k \in N PROVE k + 1 \in N
  <2>1. ASSUME NEW s \in Seq(Chars), Len(s) = k + 1
        PROVE  IsLiteral(s)
    <3>1. Len(s) # 0
      BY <2>1
    <3>2. PICK t \in Seq(Chars), x \in Chars : s = Append(t, x) /\ Len(t) + 1 = Len(s)
      BY <3>1, FrontAndLast
    <3>3. Len(t) = k
      BY <2>1, <3>2
    <3>4. Reading(text, Opened(t)) = [at |-> Ends(text, t), quotes |-> FALSE]
      BY <3>3
    <3>5. Opened(t) \in Seq(Chars) /\ "\\" \in Chars
      BY <3>2, OpenedAppend, SpecialChars
    <3> DEFINE A == Ends(text, t)
               On == {i \in 1..Len(text) : i - 1 \in A /\ text[i] = Lower(x)}
    <3>6. Ends(text, s) = On
      BY <3>2, EndsAppend
    <3> HIDE DEF A, On
    <3>7. CASE x \in Special
      <4>1. Opened(s) = Append(Append(Opened(t), "\\"), x) /\ Lower(x) = x
        BY <3>2, <3>7, OpenedAppend, LowerKeeps
      <4>2. Append(Opened(t), "\\") \in Seq(Chars)
        BY <3>5
      <4>3. Reading(text, Append(Opened(t), "\\")) = [at |-> A, quotes |-> TRUE]
        <5>1. Reading(text, Append(Opened(t), "\\")) = Step(text, Reading(text, Opened(t)), "\\")
          BY <3>5, ReadingGrows, Zenon
        <5>2. Reading(text, Opened(t)) = [at |-> A, quotes |-> FALSE]
          BY <3>4, Zenon DEF A
        <5> QED
          BY <5>1, <5>2, StepBackslash, Zenon
      <4>4. Reading(text, Opened(s)) = Step(text, [at |-> A, quotes |-> TRUE], x)
        <5>1. Reading(text, Append(Append(Opened(t), "\\"), x))
                = Step(text, Reading(text, Append(Opened(t), "\\")), x)
          BY <3>2, <4>2, ReadingGrows, Zenon
        <5> QED
          BY <4>1, <4>3, <5>1, Zenon
      <4>5. Step(text, [at |-> A, quotes |-> TRUE], x) = [at |-> On, quotes |-> FALSE]
        BY <4>1, StepQuoted DEF On
      <4> QED
        BY <3>6, <4>4, <4>5
    <3>8. CASE x \notin Special
      <4>1. Opened(s) = Append(Opened(t), Lower(x)) /\ Lower(x) \notin Special /\ Lower(x) \in Chars
        BY <3>2, <3>8, OpenedAppend, LowerKeeps
      <4>2. Reading(text, Opened(s)) = Step(text, [at |-> A, quotes |-> FALSE], Lower(x))
        <5>1. Reading(text, Append(Opened(t), Lower(x))) = Step(text, Reading(text, Opened(t)), Lower(x))
          BY <3>5, <4>1, ReadingGrows, Zenon
        <5>2. Reading(text, Opened(t)) = [at |-> A, quotes |-> FALSE]
          BY <3>4, Zenon DEF A
        <5> QED
          BY <4>1, <5>1, <5>2, Zenon
      <4>3. Step(text, [at |-> A, quotes |-> FALSE], Lower(x)) = [at |-> On, quotes |-> FALSE]
        BY <4>1, StepPlain DEF On
      <4> QED
        BY <3>6, <4>2, <4>3
    <3> QED
      BY <3>7, <3>8
  <2> HIDE DEF IsLiteral
  <2>2. k + 1 \in Nat
    OBVIOUS
  <2> QED
    BY <2>1, <2>2
<1> HIDE DEF N
<1>3. N = Nat
  BY <1>1, <1>2, Inductive DEF N
<1>4. Len(needle) \in Nat
  OBVIOUS
<1> QED
  BY <1>3, <1>4 DEF N

\* What ILIKE makes of a search of the code.
LEMMA PatternIsLiteral ==
    ASSUME NEW text \in Seq(Chars), NEW needle \in Seq(Chars)
    PROVE  Ilike(text, Pattern(needle)) <=> HasText(text, needle)
<1> DEFINE T == Folded(text)
           p == <<"%">> \o EscapeLike(needle)
<1>1. T \in Seq(Chars) /\ Len(T) = Len(text) /\ Len(text) \in Nat /\ \A k \in 1..Len(text) : T[k] = Lower(text[k])
  BY FoldedType
<1>2. p \in Seq(Chars) /\ "%" \in Chars /\ Lower("%") = "%"
  <2>1. EscapeLike(needle) \in Seq(Chars) /\ "%" \in Chars
    BY EscapeAppend, SpecialChars
  <2>2. Lower("%") = "%"
    BY <2>1, LowerKeeps DEF Special
  <2> QED
    BY <2>1, <2>2
<1>3. Pattern(needle) = p \o <<"%">>
  BY DEF Pattern
<1> HIDE DEF p, T
<1>4. Folded(Pattern(needle)) = Append(Opened(needle), "%")
  <2>1. p \o <<"%">> = Append(p, "%")
    BY <1>2
  <2>2. Folded(Append(p, "%")) = Append(Folded(p), "%")
    BY <1>2, FoldedAppend
  <2> QED
    BY <1>3, <2>1, <2>2 DEF Opened, p
<1>5. Reading(T, Opened(needle)) = [at |-> Ends(T, needle), quotes |-> FALSE]
  BY <1>1, OpenedReads
<1>6. Opened(needle) \in Seq(Chars)
  BY <1>2, FoldedType DEF Opened, p
<1>7. Reading(T, Append(Opened(needle), "%"))
        = [at |-> {k \in 0..Len(T) : \E j \in Ends(T, needle) : j <= k}, quotes |-> FALSE]
  <2>1. Reading(T, Append(Opened(needle), "%")) = Step(T, Reading(T, Opened(needle)), "%")
    BY <1>2, <1>6, ReadingGrows, Zenon
  <2> QED
    BY <1>5, <2>1, StepAny, Zenon
<1>8. Ilike(text, Pattern(needle)) <=> \E j \in Ends(T, needle) : j <= Len(T)
  <2>1. Ilike(text, Pattern(needle)) <=> Like(T, Append(Opened(needle), "%"))
    BY <1>4, Zenon DEF Ilike, T
  <2>2. Like(T, Append(Opened(needle), "%"))
          <=> Len(T) \in {k \in 0..Len(T) : \E j \in Ends(T, needle) : j <= k}
    BY <1>7 DEF Like
  <2>3. Len(T) \in 0..Len(T)
    BY <1>1
  <2> QED
    BY <2>1, <2>2, <2>3
<1> DEFINE n == Len(needle)
<1>9. n \in Nat /\ DOMAIN needle = 1..n
  OBVIOUS
<1>10. ASSUME NEW x \in Ends(T, needle)
       PROVE  HasText(text, needle)
  <2>1. x \in 0..Len(text) /\ n <= x /\ \A j \in 1..n : T[(x - n) + j] = Lower(needle[j])
    BY <1>1, <1>10 DEF Ends
  <2>2. x - n \in 0..(Len(text) - n) /\ \A j \in 1..n : (x - n) + j \in 1..Len(text)
    BY <1>1, <1>9, <2>1
  <2>3. \A j \in DOMAIN needle : Lower(text[(x - n) + j]) = Lower(needle[j])
    BY <1>1, <1>9, <2>1, <2>2
  <2> QED
    BY <2>2, <2>3 DEF HasText
<1>11. ASSUME HasText(text, needle)
       PROVE  \E j \in Ends(T, needle) : j <= Len(T)
  <2>1. PICK k \in 0..(Len(text) - n) : \A j \in DOMAIN needle : Lower(text[k + j]) = Lower(needle[j])
    BY <1>11 DEF HasText
  <2>2. k + n \in 0..Len(T) /\ n <= k + n /\ k + n <= Len(T) /\ (k + n) - n = k
        /\ \A j \in 1..n : k + j \in 1..Len(text)
    BY <1>1, <1>9, <2>1
  <2>3. \A j \in 1..n : T[((k + n) - n) + j] = Lower(needle[j])
    BY <1>1, <1>9, <2>1, <2>2
  <2>4. k + n \in Ends(T, needle)
    BY <2>2, <2>3 DEF Ends
  <2> QED
    BY <2>2, <2>4
<1> QED
  BY <1>8, <1>10, <1>11

-----------------------------------------------------------------------------
\* The model's texts and queries, in types.

LEMMA TextIsChars ==
    ASSUME NEW s \in Seq(STRING)
    PROVE  s \in Seq(Chars)
<1>1. ASSUME NEW S, NEW T, S \subseteq T, NEW t \in Seq(S)
      PROVE  t \in Seq(T)
  BY <1>1
<1>2. STRING \subseteq Chars
  BY DEF Chars
<1> QED
  BY <1>1, <1>2, Zenon

LEMMA RecordTexts ==
    ASSUME NEW r \in Records
    PROVE  Searched(r) \subseteq Seq(Chars) /\ r.trace_id \in Seq(0..255)
           /\ r.severity \in Nat /\ Time(r) \in Nat
<1>1. r.body \in Seq(STRING) /\ r.severity_text \in Seq(STRING) /\ r.attributes \in Seq(STRING)
      /\ r.trace_id \in Seq(0..255)
      /\ r.severity \in Nat /\ r.time \in Nat /\ r.observed \in Nat
  BY TextsAssumption, Zenon
<1>2. r.body \in Seq(Chars) /\ r.severity_text \in Seq(Chars) /\ r.attributes \in Seq(Chars)
  BY <1>1, TextIsChars, Zenon
<1>3. Searched(r) \subseteq Seq(Chars)
  BY <1>2 DEF Searched
<1>4. Time(r) \in Nat
  BY <1>1, Zenon DEF Time
<1> QED
  BY <1>1, <1>3, <1>4

LEMMA QueryTexts ==
    ASSUME NEW q \in Queries
    PROVE  q.search \in Seq(Chars) /\ q.trace_id \in Seq(Chars)
           /\ q.min_severity \in Int /\ q.search_depth \in Int
           /\ q.time_min \in Int \cup {NoTime} /\ q.time_max \in Int \cup {NoTime}
<1>1. q.search \in Seq(STRING) /\ q.trace_id \in Seq(STRING)
      /\ q.min_severity \in Int /\ q.search_depth \in Int
      /\ q.time_min \in Int \cup {NoTime} /\ q.time_max \in Int \cup {NoTime}
  BY TextsAssumption, Zenon
<1> QED
  BY <1>1, TextIsChars, Zenon

LEMMA Literal == SearchIsLiteral
<1> SUFFICES ASSUME NEW needle \in Needles, NEW text \in Texts
             PROVE  Ilike(text, Pattern(needle)) <=> HasText(text, needle)
  BY Zenon DEF SearchIsLiteral
<1>1. needle \in Seq(STRING) /\ text \in Seq(STRING)
  BY TextsAssumption, Zenon
<1>2. needle \in Seq(Chars) /\ text \in Seq(Chars)
  BY <1>1, TextIsChars, Zenon
<1> QED
  BY <1>2, PatternIsLiteral, Zenon

-----------------------------------------------------------------------------
\* Hexadecimal ids.

LEMMA DigitsDiffer ==
    /\ Len(Digits) = 16 /\ DOMAIN Digits = 1..16
    /\ \A m, n \in 0..15 : Digits[m + 1] = Digits[n + 1] => m = n
BY DEF Digits

LEMMA DigitOf ==
    ASSUME NEW c
    PROVE  /\ IsDigit(c) => Digit(c) \in 0..15 /\ Digits[Digit(c) + 1] = Lower(c)
           /\ \A n \in 0..15 : Digits[n + 1] = Lower(c) => IsDigit(c) /\ Digit(c) = n
<1>1. ASSUME IsDigit(c)
      PROVE  \E n \in 0..15 : Digits[n + 1] = Lower(c)
  <2>1. PICK k \in DOMAIN Digits : Digits[k] = Lower(c)
    BY <1>1, Zenon DEF IsDigit, Range
  <2>2. k - 1 \in 0..15 /\ (k - 1) + 1 = k
    BY DigitsDiffer
  <2> QED
    BY <2>1, <2>2
<1>2. ASSUME NEW n \in 0..15, Digits[n + 1] = Lower(c)
      PROVE  IsDigit(c) /\ Digit(c) = n
  <2>1. n + 1 \in DOMAIN Digits
    BY DigitsDiffer
  <2>2. IsDigit(c)
    BY <1>2, <2>1, Zenon DEF IsDigit, Range
  <2>3. Digit(c) \in 0..15 /\ Digits[Digit(c) + 1] = Lower(c)
    BY <1>2, Zenon DEF Digit
  <2> QED
    BY <1>2, <2>2, <2>3, DigitsDiffer
<1>3. ASSUME IsDigit(c)
      PROVE  Digit(c) \in 0..15 /\ Digits[Digit(c) + 1] = Lower(c)
  BY <1>1, <1>3, Zenon DEF Digit
<1> QED
  BY <1>2, <1>3

LEMMA SeqParts ==
    ASSUME NEW S, NEW s \in Seq(S)
    PROVE  Len(s) \in Nat /\ DOMAIN s = 1..Len(s) /\ \A k \in 1..Len(s) : s[k] \in S
OBVIOUS

LEMMA SameLength ==
    ASSUME NEW a \in Nat, NEW b \in Nat, 1..a = 1..b
    PROVE  a = b
<1>1. a # 0 => a \in 1..b
  OBVIOUS
<1>2. b # 0 => b \in 1..a
  OBVIOUS
<1> QED
  BY <1>1, <1>2

LEMMA HalfOf ==
    ASSUME NEW L \in Nat, NEW k \in 1..(2 * L)
    PROVE  /\ k % 2 = 1 => (k + 1) \div 2 \in 1..L /\ k = 2 * ((k + 1) \div 2) - 1
           /\ k % 2 # 1 => k \div 2 \in 1..L /\ k = 2 * (k \div 2)
OBVIOUS

LEMMA TwoDigits ==
    ASSUME NEW a \in 0..15, NEW b \in 0..15
    PROVE  (16 * a + b) \div 16 = a /\ (16 * a + b) % 16 = b
OBVIOUS

LEMMA ByteOf ==
    ASSUME NEW b \in 0..255
    PROVE  b \div 16 \in 0..15 /\ b % 16 \in 0..15 /\ b = 16 * (b \div 16) + (b % 16)
OBVIOUS

\* Comparing the decoded id with a record's is comparing the record's in
\* hexadecimal with the text, whatever the case of its letters.
LEMMA DecodedIsMeant ==
    ASSUME NEW id \in Seq(0..255), NEW t \in Seq(Chars), IsHex(t), "+" \notin Range(t), NEW N \in Nat
    PROVE  id = HexDecode(t) /\ Len(id) = N <=> Hex(id) = Folded(t) /\ Len(t) = 2 * N
<1> DEFINE m == Len(t) \div 2
           odd(k) == t[2 * k - 1]
           even(k) == t[2 * k]
<1>1. Len(t) \in Nat /\ DOMAIN t = 1..Len(t) /\ m \in Nat /\ Len(t) = 2 * m
  BY DEF IsHex
<1>2. \A k \in 1..Len(t) : IsDigit(t[k]) /\ t[k] # "+"
  <2>1. \A k \in DOMAIN t : t[k] # "+"
    BY Zenon DEF Range
  <2> QED
    BY <1>1, <2>1 DEF IsHex
<1> HIDE DEF m
<1>3. \A k \in 1..m : 2 * k - 1 \in 1..Len(t) /\ 2 * k \in 1..Len(t)
  BY <1>1
<1>4. HexDecode(t) = [k \in 1..m |-> 16 * Digit(odd(k)) + Digit(even(k))]
  <2>1. \A k \in 1..m : odd(k) # "+"
    BY <1>2, <1>3
  <2> QED
    BY <2>1 DEF HexDecode, m
<1>5. \A k \in 1..m : /\ Digit(odd(k)) \in 0..15 /\ Digits[Digit(odd(k)) + 1] = Lower(odd(k))
                      /\ Digit(even(k)) \in 0..15 /\ Digits[Digit(even(k)) + 1] = Lower(even(k))
  BY <1>2, <1>3, DigitOf
<1>6. Len(id) \in Nat /\ DOMAIN id = 1..Len(id) /\ \A k \in 1..Len(id) : id[k] \in 0..255
  BY SeqParts, Zenon
<1>7. Folded(t) = [k \in 1..Len(t) |-> Lower(t[k])]
  BY <1>1 DEF Folded
<1> DEFINE L == Len(id)
           hex(k) == IF k % 2 = 1 THEN Digits[(id[(k + 1) \div 2] \div 16) + 1]
                     ELSE Digits[(id[k \div 2] % 16) + 1]
<1>8. Hex(id) = [k \in 1..(2 * L) |-> hex(k)]
  BY DEF Hex
<1>9. \A k \in 1..L : /\ hex(2 * k - 1) = Digits[(id[k] \div 16) + 1] /\ 2 * k - 1 \in 1..(2 * L)
                      /\ hex(2 * k) = Digits[(id[k] % 16) + 1] /\ 2 * k \in 1..(2 * L)
  <2> TAKE k \in 1..L
  <2>1. (2 * k - 1) % 2 = 1 /\ ((2 * k - 1) + 1) \div 2 = k /\ (2 * k) % 2 # 1 /\ (2 * k) \div 2 = k
        /\ 2 * k - 1 \in 1..(2 * L) /\ 2 * k \in 1..(2 * L)
    BY <1>6
  <2> QED
    BY <2>1
<1>10. \A k \in 1..(2 * L) : \E i \in 1..L : k = 2 * i - 1 \/ k = 2 * i
  <2> TAKE k \in 1..(2 * L)
  <2>1. CASE k % 2 = 1
    BY <1>6, <2>1, HalfOf
  <2>2. CASE k % 2 # 1
    BY <1>6, <2>2, HalfOf
  <2> QED
    BY <2>1, <2>2
<1> HIDE DEF hex
<1>11. ASSUME id = HexDecode(t), L = N
       PROVE  Hex(id) = Folded(t) /\ Len(t) = 2 * N
  <2>1. L = m /\ \A k \in 1..m : id[k] = 16 * Digit(odd(k)) + Digit(even(k))
    <3> DEFINE d == [k \in 1..m |-> 16 * Digit(odd(k)) + Digit(even(k))]
    <3>1. id = d /\ DOMAIN d = 1..m
      BY <1>4, <1>11
    <3> HIDE DEF d
    <3>2. 1..L = 1..m
      BY <1>6, <3>1
    <3>3. L = m
      BY <1>1, <1>6, <3>2, SameLength, Zenon
    <3> QED
      BY <1>4, <1>11, <3>3
  <2>2. \A k \in 1..m : id[k] \div 16 = Digit(odd(k)) /\ id[k] % 16 = Digit(even(k))
    <3> TAKE k \in 1..m
    <3> DEFINE a == Digit(odd(k))
               b == Digit(even(k))
    <3>1. a \in 0..15 /\ b \in 0..15 /\ id[k] = 16 * a + b
      BY <1>5, <2>1
    <3> HIDE DEF a, b
    <3>2. id[k] \div 16 = a /\ id[k] % 16 = b
      BY <3>1, TwoDigits
    <3> QED
      BY <3>2 DEF a, b
  <2>3. \A k \in 1..L : hex(2 * k - 1) = Lower(t[2 * k - 1]) /\ hex(2 * k) = Lower(t[2 * k])
    BY <1>5, <1>9, <2>1, <2>2
  <2>4. \A k \in 1..(2 * L) : hex(k) = Lower(t[k])
    BY <1>10, <2>3
  <2>5. Hex(id) = Folded(t)
    BY <1>1, <1>7, <1>8, <2>1, <2>4
  <2> QED
    BY <1>1, <1>11, <2>1, <2>5
<1>12. ASSUME Hex(id) = Folded(t), Len(t) = 2 * N
       PROVE  id = HexDecode(t) /\ L = N
  <2>1. L = m /\ L = N
    <3>1. DOMAIN Hex(id) = 1..(2 * L) /\ DOMAIN Folded(t) = 1..Len(t)
      BY <1>7, <1>8
    <3>2. 2 * L \in Nat /\ 1..(2 * L) = 1..Len(t)
      BY <1>6, <1>12, <3>1
    <3>3. 2 * L = Len(t)
      BY <1>1, <3>2, SameLength, Zenon
    <3>4. \A a, b \in Nat : 2 * a = 2 * b => a = b
      OBVIOUS
    <3>5. L \in Nat /\ 2 * L = 2 * m /\ 2 * L = 2 * N
      BY <1>1, <1>6, <1>12, <3>3
    <3> HIDE DEF L
    <3> QED
      BY <1>1, <3>4, <3>5
  <2>2. \A k \in 1..(2 * L) : hex(k) = Lower(t[k])
    BY <1>1, <1>7, <1>8, <1>12, <2>1
  <2>3. \A k \in 1..L : Digits[(id[k] \div 16) + 1] = Lower(odd(k)) /\ Digits[(id[k] % 16) + 1] = Lower(even(k))
    BY <1>9, <2>2
  <2>4. \A k \in 1..L : id[k] \div 16 \in 0..15 /\ id[k] % 16 \in 0..15
                        /\ id[k] = 16 * (id[k] \div 16) + (id[k] % 16)
    BY <1>6, ByteOf
  <2>5. \A k \in 1..L : Digit(odd(k)) = id[k] \div 16 /\ Digit(even(k)) = id[k] % 16
    BY <2>3, <2>4, DigitOf
  <2>6. \A k \in 1..L : id[k] = 16 * Digit(odd(k)) + Digit(even(k))
    BY <2>4, <2>5
  <2>7. id = [k \in 1..L |-> id[k]]
    OBVIOUS
  <2> QED
    BY <1>4, <2>1, <2>6, <2>7
<1> QED
  BY <1>11, <1>12

-----------------------------------------------------------------------------
\* Matching is what was meant.

LEMMA MatchIsMeant ==
    ASSUME NEW q \in Proper, NEW r \in Records
    PROVE  Matches(q, r) <=> Meant(q, r)
<1>1. q \in Queries /\ ~ Malformed(q) /\ "+" \notin Range(q.trace_id)
  BY DEF Proper
<1>2. /\ q.search \in Seq(Chars) /\ q.trace_id \in Seq(Chars) /\ q.min_severity \in Int
      /\ q.time_min \in Int \cup {NoTime} /\ q.time_max \in Int \cup {NoTime}
  BY <1>1, QueryTexts
<1>3. Searched(r) \subseteq Seq(Chars) /\ r.trace_id \in Seq(0..255) /\ r.severity \in Nat /\ Time(r) \in Nat
  BY RecordTexts
<1> DEFINE m1 == q.service_name \in {AnyService, r.service}
           m2 == q.min_severity > 0 => r.severity >= q.min_severity
           m3 == q.trace_id # <<>> => r.trace_id = HexDecode(q.trace_id) /\ Len(r.trace_id) = TraceIdBytes
           m4 == q.time_min # NoTime => Time(r) >= q.time_min
           m5 == q.time_max # NoTime => Time(r) < q.time_max
           m6 == q.search # <<>> => \E text \in Searched(r) : Ilike(text, Pattern(q.search))
           n1 == q.service_name # AnyService => r.service = q.service_name
           n2 == r.severity >= q.min_severity
           n3 == q.trace_id # <<>> => /\ Hex(r.trace_id) = Folded(q.trace_id)
                                      /\ Len(q.trace_id) = 2 * TraceIdBytes
           n4 == q.time_min # NoTime => q.time_min <= Time(r)
           n6 == q.search # <<>> => \E text \in Searched(r) : HasText(text, q.search)
<1>4. m1 <=> n1
  OBVIOUS
<1>5. m2 <=> n2
  BY <1>2, <1>3
<1>6. m3 <=> n3
  <2>1. CASE q.trace_id # <<>>
    <3>1. IsHex(q.trace_id)
      BY <1>1, <2>1 DEF Malformed
    <3>2. TraceIdBytes \in Nat
      BY DepthAssumption
    <3> DEFINE id == r.trace_id
               t == q.trace_id
    <3>3. id \in Seq(0..255) /\ t \in Seq(Chars) /\ IsHex(t) /\ "+" \notin Range(t)
      BY <1>1, <1>2, <1>3, <3>1, Zenon
    <3>4. m3 <=> (id = HexDecode(t) /\ Len(id) = TraceIdBytes)
      BY <2>1, Zenon
    <3>5. n3 <=> (Hex(id) = Folded(t) /\ Len(t) = 2 * TraceIdBytes)
      BY <2>1, Zenon
    <3> HIDE DEF id, t, m3, n3
    <3>6. (id = HexDecode(t) /\ Len(id) = TraceIdBytes) <=> (Hex(id) = Folded(t) /\ Len(t) = 2 * TraceIdBytes)
      BY <3>2, <3>3, DecodedIsMeant, Zenon
    <3> QED
      BY <3>4, <3>5, <3>6, Zenon
  <2> QED
    BY <2>1
<1>7. m4 <=> n4
  <2>1. q.time_min # NoTime => q.time_min \in Int
    BY <1>2
  <2> QED
    BY <1>3, <2>1
<1>8. m6 <=> n6
  BY <1>2, <1>3, PatternIsLiteral, Zenon
<1>9. Matches(q, r) <=> m1 /\ m2 /\ m3 /\ m4 /\ m5 /\ m6
  BY Zenon DEF Matches
<1>10. Meant(q, r) <=> n1 /\ n2 /\ n3 /\ n4 /\ m5 /\ n6
  BY Zenon DEF Meant
<1> HIDE DEF m1, m2, m3, m4, m5, m6, n1, n2, n3, n4, n6
<1> QED
  BY <1>4, <1>5, <1>6, <1>7, <1>8, <1>9, <1>10

-----------------------------------------------------------------------------
\* The table is finite, and what an exporter knows is so.

AnswerInv ==
    \A e \in Exporters : answer[e] = "ok" => /\ Latest(e) \in Attempts
                                             /\ pc[Latest(e)] \in {"committed", "empty"}

SearchInv == IsFiniteSet(table) /\ AnswerInv

LEMMA CopyIsFinite ==
    ASSUME NEW a, NEW n \in Nat
    PROVE  IsFiniteSet({<<a, i>> : i \in 1..n})
<1> DEFINE T == {<<a, i>> : i \in 1..n}
           f == [i \in 1..n |-> <<a, i>>]
<1>1. f \in Surjection(1..n, T)
  BY DEF Surjection
<1>2. IsFiniteSet(1..n)
  BY FS_Interval
<1> HIDE DEF T, f
<1>3. IsFiniteSet(T)
  BY <1>1, <1>2, FS_Surjection
<1> QED
  BY <1>3 DEF T

LEMMA InitSearchInv == Init => SearchInv
BY FS_EmptySet DEF Init, SearchInv, AnswerInv

\* No step takes the commit from an exporter that was told of it.
LEMMA NextSearchInv == IInv /\ SearchInv /\ [Next]_vars => SearchInv'
<1> SUFFICES ASSUME IInv, SearchInv, [Next]_vars PROVE SearchInv'
  OBVIOUS
<1>1. IsFiniteSet(table) /\ AnswerInv
  BY DEF SearchInv
<1>2. ASSUME \A e \in Exporters : answer'[e] = "ok" => answer[e] = "ok" /\ tries'[e] = tries[e],
             \A e \in Exporters : answer[e] = "ok" /\ pc[Latest(e)] \in {"committed", "empty"}
                                    => pc'[Latest(e)] \in {"committed", "empty"}
      PROVE  AnswerInv'
  <2>1. \A e \in Exporters : tries'[e] = tries[e] => Latest(e)' = Latest(e)
    BY DEF Latest
  <2> QED
    BY <1>1, <1>2, <2>1 DEF AnswerInv
<1>3. ASSUME NEW e \in Exporters, NEW r \in Requests, Export(e, r)
      PROVE  SearchInv'
  <2>1. \A f \in Exporters : answer'[f] = "ok" => answer[f] = "ok" /\ tries'[f] = tries[f]
    BY <1>3 DEF Export, IInv, ClientInv
  <2>2. \A a \in Attempts : a # <<e, 1>> => pc'[a] = pc[a]
    BY <1>3 DEF Export, Arrive, IInv, AttemptInv
  <2>3. \A f \in Exporters : answer[f] = "ok" => Latest(f) # <<e, 1>>
    BY <1>3 DEF Export, Latest
  <2> QED
    BY <1>1, <1>2, <1>3, <2>1, <2>2, <2>3 DEF Export, SearchInv, AnswerInv
<1>4. ASSUME NEW e \in Exporters, Retry(e)
      PROVE  SearchInv'
  <2>1. \A f \in Exporters : answer'[f] = "ok" => answer[f] = "ok" /\ tries'[f] = tries[f]
    BY <1>4 DEF Retry, IInv, ClientInv
  <2>2. \A a \in Attempts : a # <<e, tries[e] + 1>> => pc'[a] = pc[a]
    BY <1>4 DEF Retry, Arrive, IInv, AttemptInv
  <2>3. \A f \in Exporters : answer[f] = "ok" => Latest(f) # <<e, tries[e] + 1>>
    BY <1>4 DEF Retry, Latest
  <2> QED
    BY <1>1, <1>2, <1>4, <2>1, <2>2, <2>3 DEF Retry, SearchInv, AnswerInv
<1>5. ASSUME NEW e \in Exporters, Abandon(e)
      PROVE  SearchInv'
  <2>1. /\ answer' = answer /\ tries' = tries /\ table' = table
        /\ pc' = [pc EXCEPT ![Latest(e)] = IF @ = "between" THEN "aborted" ELSE @]
    BY <1>5 DEF Abandon, clientVars
  <2>2. \A a \in Attempts : pc[a] \in {"committed", "empty"} => pc'[a] = pc[a]
    BY <2>1 DEF IInv, AttemptInv
  <2> QED
    BY <1>1, <1>2, <2>1, <2>2 DEF SearchInv, AnswerInv
<1>6. ASSUME NEW e \in Exporters, Reply(e)
      PROVE  SearchInv'
  <2>1. /\ answer' = [answer EXCEPT ![e] = "ok"] /\ tries' = tries /\ table' = table /\ pc' = pc
        /\ pc[Latest(e)] \in {"committed", "empty"} /\ answer[e] = "open"
    BY <1>6 DEF Reply
  <2>2. Latest(e) \in Attempts
    <3>1. tries[e] # 0 /\ tries[e] \in 0..MaxAttempts
      BY <2>1 DEF IInv, ClientInv
    <3> QED
      BY <3>1, SizesAssumption DEF Latest, Attempts
  <2>3. \A f \in Exporters : Latest(f)' = Latest(f) /\ (answer'[f] = "ok" => answer[f] = "ok" \/ f = e)
    BY <2>1 DEF Latest, IInv, ClientInv
  <2> QED
    BY <1>1, <2>1, <2>2, <2>3 DEF SearchInv, AnswerInv
<1>7. ASSUME NEW a \in Attempts, Server(a)
      PROVE  SearchInv'
  <2>1. answer' = answer /\ tries' = tries
    BY <1>7 DEF Server, SendInsert, SendCommit, InsertDone, Commit, CommitUnseen, Fail, clientVars
  <2>2. \A b \in Attempts : pc[b] \in {"committed", "empty"} => pc'[b] = pc[b]
    BY <1>7 DEF Server, SendInsert, SendCommit, InsertDone, Commit, CommitUnseen, Fail, IInv, AttemptInv
  <2>3. AnswerInv'
    BY <1>1, <1>2, <2>1, <2>2 DEF AnswerInv
  <2>4. IsFiniteSet(table')
    <3>1. table' = table \/ table' = table \cup {<<a, i>> : i \in 1..inserted[a]}
      BY <1>7 DEF Server, SendInsert, SendCommit, InsertDone, Commit, CommitUnseen, Fail
    <3>2. inserted[a] \in Nat
      BY DEF IInv, InsertedInv
    <3>3. IsFiniteSet({<<a, i>> : i \in 1..inserted[a]})
      BY <3>2, CopyIsFinite
    <3> QED
      BY <1>1, <3>1, <3>3, FS_Union, Zenon
  <2> QED
    BY <2>3, <2>4 DEF SearchInv
<1>8. CASE UNCHANGED vars
  BY <1>1, <1>8 DEF vars, SearchInv, AnswerInv, Latest
<1> QED
  BY <1>3, <1>4, <1>5, <1>6, <1>7, <1>8 DEF Next, Client, Quiet

LEMMA SearchInvariance == Spec => [](IInv /\ SearchInv)
<1>1. IInv /\ SearchInv /\ [Next]_vars => (IInv /\ SearchInv)'
  BY NextIInv, NextSearchInv
<1>2. Init => IInv /\ SearchInv
  BY InitIInv, InitSearchInv
<1> QED
  BY <1>1, <1>2, PTL DEF Spec

-----------------------------------------------------------------------------
\* What a search may answer.

LEMMA MinOfTwo ==
    ASSUME NEW a \in Int, NEW b \in Int
    PROVE  Min({a, b}) = (IF a <= b THEN a ELSE b)
BY DEF Min

LEMMA MaxOfTwo ==
    ASSUME NEW a \in Int, NEW b \in Int
    PROVE  Max({a, b}) = (IF a >= b THEN a ELSE b)
BY DEF Max

LEMMA DepthIsInt ==
    ASSUME NEW q \in Queries
    PROVE  SearchDepth(q.search_depth) \in Int
<1> DEFINE asked == IF q.search_depth <= 0 THEN DefaultDepth ELSE q.search_depth
           most == Max({MaxSearchDepth, 1})
<1>1. asked \in Int
  BY QueryTexts, DepthAssumption
<1>2. most \in Int
  <2>1. MaxSearchDepth \in Int /\ 1 \in Int
    BY DepthAssumption
  <2> QED
    BY <2>1, MaxOfTwo
<1>3. SearchDepth(q.search_depth) = Min({asked, most})
  BY Zenon DEF SearchDepth
<1> HIDE DEF asked, most
<1> QED
  BY <1>1, <1>2, <1>3, MinOfTwo

LEMMA RowsAreRecords ==
    ASSUME IInv, NEW row \in table
    PROVE  Rec(row) \in Records
<1>1. PICK a \in Attempts, i \in Nat \ {0} : row = <<a, i>>
  BY DEF IInv, TableInv
<1>2. pc[a] = "committed" /\ i \in DOMAIN Req(a)
  BY <1>1 DEF IInv, TableInv
<1>3. Req(a) \in Seq(Records) /\ DOMAIN Req(a) = 1..Len(Req(a))
  BY <1>2, SentRequest, RequestsAreSequences
<1>4. Req(a)[i] \in Records
  BY <1>2, <1>3
<1> QED
  BY <1>1, <1>4 DEF Rec

\* A set of the hits that is not all of them has as many rows as the depth.
LEMMA AnswerIsNewest ==
    ASSUME IInv, IsFiniteSet(table), NEW q \in Queries, NEW rows \in FindLogs(q)
    PROVE  /\ rows \subseteq Hits(q)
           /\ \A out \in Hits(q) \ rows : Crowded(q, rows, Rec(out))
<1> DEFINE hits == Hits(q)
           depth == SearchDepth(q.search_depth)
<1>1. IsFiniteSet(hits) /\ Cardinality(hits) \in Nat
  <2>1. hits \in SUBSET table
    BY DEF Hits
  <2>2. IsFiniteSet(hits)
    BY <2>1, FS_Subset, Zenon
  <2> QED
    BY <2>2, FS_CardinalityType, Zenon
<1>2. depth \in Int
  BY DepthIsInt
<1>3. /\ rows \in kSubset(Min({depth, Cardinality(hits)}), hits)
      /\ \A out \in hits \ rows, in \in rows : Time(Rec(out)) <= Time(Rec(in))
  BY Zenon DEF FindLogs
<1>4. rows \in SUBSET hits /\ Cardinality(rows) = Min({depth, Cardinality(hits)})
  BY <1>3 DEF kSubset
<1> HIDE DEF depth
<1>5. ASSUME NEW out \in hits \ rows
      PROVE  Crowded(q, rows, Rec(out))
  <2>1. Cardinality(hits) # Cardinality(rows)
    BY <1>1, <1>4, <1>5, FS_Subset, Zenon
  <2>2. Cardinality(rows) = depth
    <3> DEFINE size == Cardinality(hits)
    <3>1. size \in Int /\ Cardinality(rows) = Min({depth, size}) /\ Cardinality(rows) # size
      BY <1>1, <1>4, <2>1
    <3> HIDE DEF size
    <3> QED
      BY <1>2, <3>1, MinOfTwo
  <2>3. \A row \in rows : Time(Rec(row)) \in Nat /\ Time(Rec(out)) \in Nat
    <3>1. rows \subseteq table /\ out \in table
      BY <1>4, <1>5 DEF Hits
    <3> QED
      BY <3>1, RowsAreRecords, RecordTexts
  <2>4. \A row \in rows : Time(Rec(row)) >= Time(Rec(out))
    BY <1>3, <1>5, <2>3
  <2> QED
    BY <2>2, <2>4 DEF Crowded, depth
<1> QED
  BY <1>4, <1>5

LEMMA AnswerIsMeant ==
    ASSUME IInv, IsFiniteSet(table), NEW q \in Proper, NEW rows \in FindLogs(q)
    PROVE  /\ \A row \in rows : Meant(q, Rec(row))
           /\ \A row \in table \ rows : Meant(q, Rec(row)) => Crowded(q, rows, Rec(row))
<1>1. q \in Queries
  BY DEF Proper
<1>2. rows \subseteq Hits(q) /\ \A out \in Hits(q) \ rows : Crowded(q, rows, Rec(out))
  BY <1>1, AnswerIsNewest
<1>3. \A row \in table : row \in Hits(q) <=> Meant(q, Rec(row))
  BY RowsAreRecords, MatchIsMeant DEF Hits
<1>4. rows \subseteq table
  BY <1>2 DEF Hits
<1> QED
  BY <1>2, <1>3, <1>4

\* A search answers with the newest records the client meant and with no
\* other, whatever the texts and the wildcards in them: only the depth leaves
\* one out (find_logs).
THEOREM SearchFindsWhatIsMeant == Spec => []FindsWhatIsMeant
<1>1. IInv /\ SearchInv => FindsWhatIsMeant
  BY Literal, AnswerIsMeant DEF FindsWhatIsMeant, SearchInv
<1> QED
  BY <1>1, SearchInvariance, PTL

\* What an exporter was told is stored, every search for it finds, unless
\* records as new use up the depth (write_logs, find_logs).
THEOREM AcknowledgedIsFound == Spec => []AckedIsFound
<1>1. IInv /\ SearchInv => AckedIsFound
  <2> SUFFICES ASSUME IInv, SearchInv, NEW e \in Exporters, answer[e] = "ok",
                      NEW q \in Proper, NEW rows \in FindLogs(q), NEW i \in DOMAIN request[e],
                      Meant(q, request[e][i])
               PROVE  (\E row \in rows : row[1][1] = e /\ row[2] = i) \/ Crowded(q, rows, request[e][i])
    BY Zenon DEF AckedIsFound
  <2> DEFINE a == Latest(e)
  <2>1. a \in Attempts /\ pc[a] \in {"committed", "empty"} /\ a[1] = e
    BY DEF SearchInv, AnswerInv, Latest
  <2>2. Req(a) = request[e]
    BY <2>1 DEF Req
  <2>3. DOMAIN request[e] \subseteq Nat \ {0}
    BY <2>1, <2>2, SentRequest, RequestsAreSequences
  <2>4. pc[a] # "empty"
    BY <2>1, <2>2 DEF IInv, InsertedInv
  <2>5. <<a, i>> \in table
    BY <2>1, <2>2, <2>3, <2>4 DEF IInv, TableInv
  <2>6. Rec(<<a, i>>) = request[e][i]
    BY <2>2 DEF Rec
  <2>7. <<a, i>> \in rows \/ Crowded(q, rows, request[e][i])
    BY <2>5, <2>6, AnswerIsMeant DEF SearchInv
  <2> QED
    BY <2>1, <2>7
<1> QED
  BY <1>1, SearchInvariance, PTL
=============================================================================
