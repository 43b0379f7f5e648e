-------------------------- MODULE TraceSearchProofs --------------------------
(***************************************************************************)
(* What a search may miss, and what a summary may show, for any traces,     *)
(* export requests, queries and sweeps.                                     *)
(***************************************************************************)
EXTENDS TraceSearch, FiniteSetTheorems, SequenceTheorems, WellFoundedInduction, TLAPS

\* Between the two statements, what a found trace had is still there or swept.
OwedInv ==
    /\ phase = "found" => /\ owed \subseteq Keys(spans)
                          /\ \A k \in owed : k[1] \in Range(found)
    /\ phase = "found" /\ found = <<>> => owed = {}
    /\ phase = "answered" => owed \subseteq Keys(answer)

-----------------------------------------------------------------------------
LEMMA InitOwed == Init => OwedInv
BY DEF Init, OwedInv

LEMMA NextOwed == OwedInv /\ [Next]_vars => OwedInv'
<1> SUFFICES ASSUME OwedInv, [Next]_vars PROVE OwedInv'
  OBVIOUS
<1>1. CASE \E b \in Batches : Export(b)
  <2>1. PICK b \in Batches : Export(b)
    BY <1>1
  <2>2. /\ UNCHANGED <<phase, found, answer, owed>>
        /\ spans' = {r \in spans : Key(r) \notin Keys(b)} \cup b
    BY <2>1 DEF Export, Over, searchVars
  <2>3. Keys(spans) \subseteq Keys(spans')
    BY <2>2 DEF Keys
  <2> QED
    BY <2>2, <2>3 DEF OwedInv
<1>2. CASE Sweep
  <2>1. PICK gone \in SUBSET {r \in spans : r.start < cutoff} :
          /\ spans' = spans \ gone
          /\ owed' = IF phase = "found" THEN owed \ Keys(gone) ELSE owed
          /\ UNCHANGED <<phase, found, answer>>
    BY <1>2 DEF Sweep, searchVars
  <2>2. Keys(spans) \ Keys(gone) \subseteq Keys(spans')
    BY <2>1 DEF Keys
  <2>3. CASE phase = "found"
    BY <2>1, <2>2, <2>3 DEF OwedInv
  <2>4. CASE phase # "found"
    BY <2>1, <2>4 DEF OwedInv
  <2> QED
    BY <2>3, <2>4
<1>3. CASE \E q \in Queries : Search(q)
  BY <1>3 DEF OwedInv, Search
<1>4. CASE Find
  <2>1. /\ owed' = {Key(r) : r \in {x \in spans : x.trace \in Range(found')}}
        /\ phase' = "found" /\ spans' = spans
    BY <1>4 DEF Find, tableVars
  <2>2. owed' \subseteq Keys(spans')
    BY <2>1 DEF Keys
  <2>3. \A k \in owed' : k[1] \in Range(found')
    BY <2>1 DEF Key
  <2>4. found' = <<>> => owed' = {}
    BY <2>3 DEF Range
  <2> QED
    BY <2>1, <2>2, <2>3, <2>4 DEF OwedInv
<1>5. CASE NothingFound
  BY <1>5 DEF OwedInv, NothingFound, tableVars
<1>6. CASE Fetch
  <2>1. /\ answer' = {r \in spans : r.trace \in Range(found)}
        /\ phase = "found" /\ phase' = "answered" /\ owed' = owed
    BY <1>6 DEF Fetch, SpansForIds
  <2>2. \A k \in owed : k \in Keys(answer')
    <3> SUFFICES ASSUME NEW k \in owed PROVE k \in Keys(answer')
      OBVIOUS
    <3>1. k \in Keys(spans) /\ k[1] \in Range(found)
      BY <2>1 DEF OwedInv
    <3>2. PICK r \in spans : k = Key(r)
      BY <3>1 DEF Keys
    <3>3. r.trace \in Range(found)
      BY <3>1, <3>2 DEF Key
    <3> QED
      BY <2>1, <3>2, <3>3 DEF Keys
  <2> QED
    BY <2>1, <2>2 DEF OwedInv
<1>7. CASE StartPass \/ Fail \/ UNCHANGED vars
  BY <1>7 DEF OwedInv, StartPass, Fail, tableVars, searchVars, vars
<1> QED
  BY <1>1, <1>2, <1>3, <1>4, <1>5, <1>6, <1>7 DEF Next, Writers

-----------------------------------------------------------------------------
\* A span a found trace had is in the answer or was swept in between,
\* whatever exports rewrite between the two statements of a search.
THEOREM SearchLosesOnlyToSweep == Spec => []LostOnlyToSweep
<1>1. OwedInv => LostOnlyToSweep
  BY DEF OwedInv, LostOnlyToSweep
<1> QED
  BY InitOwed, NextOwed, <1>1, PTL DEF Spec

-----------------------------------------------------------------------------
\* Numbers.

\* A set of naturals that is not empty has a least element.
LEMMA Least ==
    ASSUME NEW S \in SUBSET Nat, S # {}
    PROVE  \E x \in S : \A y \in S : x <= y
<1>1. PICK x \in S : \A y \in S : ~ (<<y, x>> \in OpToRel(<, Nat))
  BY NatLessThanWellFounded, WFMin, Zenon
<1>2. \A y \in S : y \in Nat /\ x \in Nat /\ ~ (y < x)
  BY <1>1 DEF OpToRel
<1> QED
  BY <1>2

\* A set that has zero and every successor of a member has all naturals.
LEMMA Inductive ==
    ASSUME NEW S \in SUBSET Nat, 0 \in S, \A n \in S : n + 1 \in S
    PROVE  S = Nat
<1> SUFFICES ASSUME Nat \ S # {} PROVE FALSE
  OBVIOUS
<1>1. PICK x \in Nat \ S : \A y \in Nat \ S : x <= y
  BY Least
<1>2. x # 0 /\ x - 1 \in Nat /\ ~ (x <= x - 1)
  BY <1>1
<1>3. x - 1 \in S /\ (x - 1) + 1 = x
  BY <1>1, <1>2
<1> QED
  BY <1>1, <1>3

\* What Min and Max choose.
LEMMA MinIs ==
    ASSUME NEW S \in SUBSET Int, NEW m \in S, \A y \in S : m <= y
    PROVE  Min(S) = m
<1>1. PICK x \in S : x = Min(S) /\ \A y \in S : x <= y
  BY DEF Min
<1>2. x \in Int /\ m \in Int /\ x <= m /\ m <= x
  BY <1>1
<1> QED
  BY <1>1, <1>2

LEMMA MaxIs ==
    ASSUME NEW S \in SUBSET Int, NEW m \in S, \A y \in S : m >= y
    PROVE  Max(S) = m
<1>1. PICK x \in S : x = Max(S) /\ \A y \in S : x >= y
  BY DEF Max
<1>2. x \in Int /\ m \in Int /\ x >= m /\ m >= x
  BY <1>1
<1> QED
  BY <1>1, <1>2

LEMMA LesserOf ==
    ASSUME NEW a \in Nat, NEW b \in Nat
    PROVE  /\ Min({a, b}) \in Nat /\ Min({a, b}) <= a /\ Min({a, b}) <= b
           /\ Min({a, b}) \in {a, b}
<1>1. CASE a <= b
  <2>1. Min({a, b}) = a
    BY <1>1, MinIs
  <2> QED
    BY <2>1, <1>1
<1>2. CASE b <= a
  <2>1. Min({a, b}) = b
    BY <1>2, MinIs
  <2> QED
    BY <2>1, <1>2
<1> QED
  BY <1>1, <1>2

\* A set of times that is not empty has a latest.
LEMMA Latest ==
    ASSUME NEW S \in SUBSET (0..MaxTime), S # {}
    PROVE  Max(S) \in S /\ \A x \in S : x <= Max(S)
<1> DEFINE left == {MaxTime - x : x \in S}
<1>1. MaxTime \in Nat
  BY SearchAssumption
<1>2. left \in SUBSET Nat /\ left # {}
  <2>1. \A x \in S : x \in Int /\ x <= MaxTime
    BY <1>1
  <2>2. \A x \in S : MaxTime - x \in Nat
    BY <1>1, <2>1
  <2> QED
    BY <2>2
<1>3. PICK y \in left : \A z \in left : y <= z
  <2> HIDE DEF left
  <2> QED
    BY <1>2, Least
<1>4. PICK m \in S : y = MaxTime - m
  OBVIOUS
<1>5. ASSUME NEW x \in S PROVE m >= x
  <2>1. MaxTime - m <= MaxTime - x
    BY <1>3, <1>4
  <2>2. x \in Int /\ m \in Int
    OBVIOUS
  <2> QED
    BY <1>1, <2>1, <2>2
<1>6. Max(S) = m
  BY <1>5, MaxIs
<1> QED
  BY <1>5, <1>6

-----------------------------------------------------------------------------
\* What the first statement finds.

\* No depth a client asks for is zero or beyond the ceiling.
LEMMA Depth ==
    ASSUME NEW n \in Int
    PROVE  /\ SearchDepth(n) \in Nat \ {0}
           /\ Max({MaxSearchDepth, 1}) \in Nat
           /\ SearchDepth(n) <= Max({MaxSearchDepth, 1})
<1> DEFINE asked == IF n <= 0 THEN DefaultDepth ELSE n
           ceiling == Max({MaxSearchDepth, 1})
<1>1. asked \in Nat \ {0} /\ MaxSearchDepth \in Nat
  BY SearchAssumption
<1>2. ceiling \in Nat \ {0}
  <2>1. CASE MaxSearchDepth >= 1
    <3>1. ceiling = MaxSearchDepth
      BY <1>1, <2>1, MaxIs
    <3> QED
      BY <1>1, <2>1, <3>1
  <2>2. CASE 1 >= MaxSearchDepth
    <3>1. ceiling = 1
      BY <1>1, <2>2, MaxIs
    <3> QED
      BY <3>1
  <2> QED
    BY <1>1, <2>1, <2>2
<1>3. SearchDepth(n) = Min({asked, ceiling})
  BY DEF SearchDepth
<1> HIDE DEF asked, ceiling
<1>4. CASE asked <= ceiling
  <2>1. Min({asked, ceiling}) = asked
    BY <1>1, <1>2, <1>4, MinIs
  <2> QED
    BY <2>1, <1>1, <1>2, <1>3, <1>4 DEF ceiling
<1>5. CASE ceiling <= asked
  <2>1. Min({asked, ceiling}) = ceiling
    BY <1>1, <1>2, <1>5, MinIs
  <2> QED
    BY <2>1, <1>1, <1>2, <1>3, <1>5 DEF ceiling
<1> QED
  BY <1>1, <1>2, <1>4, <1>5

\* An enumeration of a finite set without repetition has every element.
LEMMA EnumerationHasAll ==
    ASSUME NEW S, IsFiniteSet(S), NEW o \in SetToSeqs(S)
    PROVE  /\ Len(o) = Cardinality(S) /\ Len(o) \in Nat
           /\ o \in Seq(S)
           /\ \A x \in S : \E i \in 1..Len(o) : o[i] = x
<1> DEFINE n == Cardinality(S)
<1>1. n \in Nat
  BY FS_CardinalityType
<1>2. o \in [1..n -> S] /\ \A i, j \in 1..n : i # j => o[i] # o[j]
  BY DEF SetToSeqs
<1>3. o \in Injection(1..n, S)
  BY <1>2 DEF Injection, IsInjective
<1>4. n = Cardinality(S)
  OBVIOUS
<1> HIDE DEF n
<1>5. IsFiniteSet(1..n) /\ Cardinality(1..n) = n
  BY <1>1, FS_Interval
<1>6. o \in Surjection(1..n, S)
  BY <1>3, <1>4, <1>5, FS_Injection
<1>7. Len(o) = n /\ o \in Seq(S)
  BY <1>1, <1>2
<1> QED
  BY <1>1, <1>4, <1>6, <1>7 DEF Surjection

\* The ids of the first statement: traces with a matching span, as many as the
\* depth allows, and before any that is left out.
LEMMA FindIdsIs ==
    ASSUME spans \subseteq Span, IsFiniteSet(spans), query \in Query, NEW s \in FindIds
    PROVE  /\ s \in Seq(Traces) /\ Len(s) <= SearchDepth(query.search_depth)
           /\ \A i \in DOMAIN s : Hits(s[i]) # {}
           /\ \A u \in Traces : Hits(u) # {} /\ u \notin Range(s) =>
                 /\ Len(s) = SearchDepth(query.search_depth)
                 /\ \A i \in DOMAIN s : Recency(s[i]) >= Recency(u)
<1> DEFINE H == {t \in Traces : Hits(t) # {}}
           depth == SearchDepth(query.search_depth)
<1>1. depth \in Nat \ {0}
  <2>1. query.search_depth \in Int
    BY DEF Query
  <2> QED
    BY <2>1, Depth
<1>2. IsFiniteSet(H)
  <2> DEFINE trace == [r \in spans |-> r.trace]
             T == {r.trace : r \in spans}
  <2>1. trace \in Surjection(spans, T)
    BY DEF Surjection
  <2>2. IsFiniteSet(T)
    <3> HIDE DEF trace, T
    <3> QED
      BY <2>1, FS_Surjection
  <2>3. H \subseteq T
    BY DEF Hits
  <2> QED
    BY <2>2, <2>3, FS_Subset
<1>3. PICK o \in SetToSeqs(H) :
        /\ \A i, j \in DOMAIN o : i < j => Recency(o[i]) >= Recency(o[j])
        /\ s = SubSeq(o, 1, Min({Len(o), depth}))
  BY Zenon DEF FindIds
<1>4. Len(o) \in Nat /\ o \in Seq(H) /\ \A x \in H : \E i \in 1..Len(o) : o[i] = x
  <2> HIDE DEF H
  <2> QED
    BY <1>2, <1>3, EnumerationHasAll
<1> HIDE DEF H, depth
<1>5. PICK m \in Nat : /\ m = Min({Len(o), depth})
                       /\ m <= Len(o) /\ m <= depth /\ (m = Len(o) \/ m = depth)
  BY <1>1, <1>4, LesserOf
<1>6. s \in Seq(H) /\ Len(s) = m /\ \A i \in 1..m : s[i] = o[i] /\ i \in 1..Len(o)
  <2>1. \A i \in 1..m : i \in 1..Len(o) /\ o[i] \in H
    BY <1>4, <1>5
  <2>2. s = SubSeq(o, 1, m)
    BY <1>3, <1>5
  <2>3. /\ s \in Seq(H) /\ Len(s) = IF 1 <= m THEN m - 1 + 1 ELSE 0
        /\ \A i \in 1..(m - 1 + 1) : s[i] = o[1 + i - 1]
    BY <2>1, <2>2, SubSeqProperties
  <2>4. m - 1 + 1 = m /\ \A i \in 1..m : 1 + i - 1 = i
    OBVIOUS
  <2> QED
    BY <2>1, <2>3, <2>4
<1>7. s \in Seq(Traces) /\ Len(s) <= depth /\ DOMAIN s = 1..m /\ \A i \in 1..m : Hits(s[i]) # {}
  <2>1. H \subseteq Traces /\ \A t \in H : Hits(t) # {}
    BY DEF H
  <2>2. s \in Seq(Traces) /\ DOMAIN s = 1..m /\ \A i \in 1..m : s[i] \in H
    BY <1>6, <2>1
  <2> QED
    BY <1>5, <1>6, <2>1, <2>2
<1>8. ASSUME NEW u \in Traces, Hits(u) # {}, u \notin Range(s)
      PROVE  Len(s) = depth /\ \A i \in 1..m : Recency(s[i]) >= Recency(u)
  <2>1. PICK k \in 1..Len(o) : o[k] = u
    BY <1>4, <1>8 DEF H
  <2>2. \A i \in 1..m : s[i] # u
    BY <1>7, <1>8 DEF Range
  <2>3. m < k
    <3> SUFFICES ASSUME k <= m PROVE FALSE
      BY <1>4
    <3>1. k \in 1..m
      BY <1>4
    <3> QED
      BY <3>1, <1>6, <2>1, <2>2
  <2>4. m # Len(o) /\ Len(s) = depth
    BY <1>4, <1>5, <1>6, <2>1, <2>3
  <2>5. ASSUME NEW i \in 1..m PROVE Recency(s[i]) >= Recency(u)
    <3>1. i \in DOMAIN o /\ k \in DOMAIN o /\ i < k
      <4>1. DOMAIN o = 1..Len(o)
        BY <1>4
      <4>2. i \in 1..Len(o) /\ i \in Nat /\ k \in Nat /\ i <= m
        BY <1>4, <1>6
      <4> QED
        BY <4>1, <4>2, <2>1, <2>3
    <3> QED
      BY <3>1, <1>3, <1>6, <2>1
  <2> QED
    BY <2>4, <2>5
<1> QED
  BY <1>7, <1>8 DEF depth

-----------------------------------------------------------------------------
\* The table.

\* The table is finite and a key names one row.
TableInv ==
    /\ spans \subseteq Span /\ IsFiniteSet(spans)
    /\ \A r, p \in spans : Key(r) = Key(p) => r = p

\* As many keys as rows.
LEMMA KeyPerRow ==
    ASSUME NEW rows, IsFiniteSet(rows), \A r, p \in rows : Key(r) = Key(p) => r = p
    PROVE  Cardinality(Keys(rows)) = Cardinality(rows)
<1> DEFINE key == [r \in rows |-> Key(r)]
<1>1. key \in Surjection(rows, Keys(rows)) /\ key \in Injection(rows, Keys(rows))
  BY DEF Keys, Surjection, Injection, IsInjective
<1> HIDE DEF key
<1> QED
  BY <1>1, FS_Surjection

TypeInv == TypeOK /\ TableInv

LEMMA InitType == Init => TypeInv
<1> SUFFICES ASSUME Init PROVE TypeInv
  OBVIOUS
<1>1. TableInv
  BY FS_EmptySet DEF Init, TableInv
<1>2. Len(found) <= Max({MaxSearchDepth, 1})
  <2>1. Max({MaxSearchDepth, 1}) \in Nat
    BY Depth
  <2> QED
    BY <2>1 DEF Init
<1> QED
  BY <1>1, <1>2, KeyPerRow, SearchAssumption DEF Init, TypeInv, TypeOK, TableInv

LEMMA NextType == TypeInv /\ [Next]_vars => TypeInv'
<1> SUFFICES ASSUME TypeInv, [Next]_vars PROVE TypeInv'
  OBVIOUS
<1>t. TypeOK /\ TableInv
  BY DEF TypeInv
<1>k. TableInv' => Cardinality(Keys(spans')) = Cardinality(spans')
  BY KeyPerRow DEF TableInv
<1>1. CASE \E b \in Batches : Export(b)
  <2>1. PICK b \in Batches : Export(b)
    BY <1>1
  <2>2. /\ spans' = {r \in spans : Key(r) \notin Keys(b)} \cup b
        /\ exports' \in 0..MaxExports
        /\ sent' \subseteq Span /\ swept' \subseteq swept
        /\ UNCHANGED <<cutoff, phase, query, found, answer, owed>>
    BY <2>1, <1>t, BatchesAssumption, SearchAssumption DEF Export, Over, searchVars, TypeOK
  <2>3. TableInv'
    <3>1. b \subseteq Span /\ IsFiniteSet(b) /\ \A r, p \in b : Key(r) = Key(p) => r = p
      BY BatchesAssumption DEF Key
    <3>2. IsFiniteSet({r \in spans : Key(r) \notin Keys(b)})
      BY <1>t, FS_Subset DEF TableInv
    <3>3. IsFiniteSet(spans')
      BY <2>2, <3>1, <3>2, FS_Union
    <3>4. \A r \in spans, p \in b : Key(r) \notin Keys(b) => Key(r) # Key(p)
      BY DEF Keys
    <3> QED
      BY <1>t, <2>2, <3>1, <3>3, <3>4 DEF TableInv
  <2> QED
    BY <1>t, <1>k, <2>2, <2>3 DEF TypeInv, TypeOK, TableInv
<1>2. CASE StartPass
  <2>1. /\ cutoff' \in 0..(MaxTime + 1)
        /\ UNCHANGED <<spans, exports, sent, swept, phase, query, found, answer, owed>>
    BY <1>2, <1>t, SearchAssumption DEF StartPass, searchVars, history, TypeOK
  <2>2. TableInv'
    BY <1>t, <2>1 DEF TableInv
  <2> QED
    BY <1>t, <1>k, <2>1, <2>2 DEF TypeInv, TypeOK
<1>3. CASE Sweep
  <2>1. PICK gone \in SUBSET spans :
          /\ spans' = spans \ gone
          /\ swept' = swept \cup Keys(gone)
          /\ owed' \subseteq owed
          /\ UNCHANGED <<exports, cutoff, sent, phase, query, found, answer>>
    BY <1>3 DEF Sweep, searchVars
  <2>2. TableInv'
    <3>1. IsFiniteSet(spans')
      BY <1>t, <2>1, FS_Subset DEF TableInv
    <3> QED
      BY <1>t, <2>1, <3>1 DEF TableInv
  <2>3. swept' \subseteq Traces \X SpanIds
    BY <1>t, <2>1 DEF TypeOK, Span, Key, Keys
  <2> QED
    BY <1>t, <1>k, <2>1, <2>2, <2>3 DEF TypeInv, TypeOK, TableInv
<1>4. CASE \E q \in Queries : Search(q)
  <2>1. /\ phase' = "query" /\ query' \in Queries /\ found' = <<>> /\ answer' = {} /\ owed' = {}
        /\ UNCHANGED <<spans, exports, cutoff, sent, swept>>
    BY <1>4 DEF Search, tableVars, history
  <2>2. TableInv'
    BY <1>t, <2>1 DEF TableInv
  <2>3. Len(found') <= Max({MaxSearchDepth, 1}) /\ found' \in Seq(Traces)
    <3>1. Max({MaxSearchDepth, 1}) \in Nat
      BY Depth
    <3> QED
      BY <2>1, <3>1
  <2> QED
    BY <1>t, <1>k, <2>1, <2>2, <2>3 DEF TypeInv, TypeOK
<1>5. CASE Find
  <2>1. /\ found' \in FindIds /\ phase' = "found"
        /\ owed' = {Key(r) : r \in {x \in spans : x.trace \in Range(found')}}
        /\ UNCHANGED <<spans, exports, cutoff, sent, swept, query, answer>>
    BY <1>5 DEF Find, tableVars, history
  <2>2. TableInv'
    BY <1>t, <2>1 DEF TableInv
  <2>3. found' \in Seq(Traces) /\ Len(found') <= Max({MaxSearchDepth, 1})
    <3>1. query \in Query /\ query.search_depth \in Int
      BY <1>t, SearchAssumption DEF TypeOK, Query
    <3>2. found' \in Seq(Traces) /\ Len(found') <= SearchDepth(query.search_depth)
      BY <1>t, <2>1, <3>1, FindIdsIs DEF TableInv
    <3>3. Len(found') \in Nat
      BY <3>2
    <3>4. /\ SearchDepth(query.search_depth) \in Nat
          /\ Max({MaxSearchDepth, 1}) \in Nat
          /\ SearchDepth(query.search_depth) <= Max({MaxSearchDepth, 1})
      BY <3>1, Depth
    <3> QED
      BY <3>2, <3>3, <3>4
  <2>4. owed' \subseteq Traces \X SpanIds
    BY <1>t, <2>1 DEF TypeOK, Span, Key
  <2> QED
    BY <1>t, <1>k, <2>1, <2>2, <2>3, <2>4 DEF TypeInv, TypeOK
<1>6. CASE NothingFound \/ Fetch \/ Fail \/ UNCHANGED vars
  <2>1. /\ phase' \in {"idle", "query", "found", "answered", "failed"}
        /\ answer' \subseteq Span
        /\ UNCHANGED <<spans, exports, cutoff, sent, swept, query, found, owed>>
    BY <1>6, <1>t DEF NothingFound, Fetch, Fail, vars, tableVars, history, TypeOK, SpansForIds
  <2>2. TableInv'
    BY <1>t, <2>1 DEF TableInv
  <2> QED
    BY <1>t, <1>k, <2>1, <2>2 DEF TypeInv, TypeOK
<1> QED
  BY <1>1, <1>2, <1>3, <1>4, <1>5, <1>6 DEF Next, Writers

LEMMA TypeInvariance == Spec => []TypeInv
<1> QED
  BY InitType, NextType, PTL DEF Spec

\* Every variable stays in its range, a key names one row, and no search finds
\* more traces than the ceiling, whatever depth it asks for.
THEOREM TypeCorrect == Spec => []TypeOK
<1>1. TypeInv => TypeOK
  BY DEF TypeInv
<1> QED
  BY <1>1, TypeInvariance, PTL

\* The table holds what was sent last of each span and not swept.
StandingInv == spans = Standing

LEMMA NextStanding == TypeInv /\ StandingInv /\ [Next]_vars => StandingInv'
<1> SUFFICES ASSUME TableInv, StandingInv, [Next]_vars PROVE StandingInv'
  BY DEF TypeInv
<1>1. CASE \E b \in Batches : Export(b)
  <2>1. PICK b \in Batches : Export(b)
    BY <1>1
  <2>2. /\ spans' = {r \in spans : Key(r) \notin Keys(b)} \cup b
        /\ sent' = {r \in sent : Key(r) \notin Keys(b)} \cup b
        /\ swept' = swept \ Keys(b)
    BY <2>1 DEF Export, Over
  <2>3. \A r \in b : Key(r) \in Keys(b)
    BY DEF Keys
  <2> QED
    BY <2>2, <2>3 DEF StandingInv, Standing
<1>2. CASE Sweep
  <2>1. PICK gone \in SUBSET spans :
          spans' = spans \ gone /\ swept' = swept \cup Keys(gone) /\ sent' = sent
    BY <1>2 DEF Sweep
  <2>2. \A r \in spans : Key(r) \in Keys(gone) <=> r \in gone
    BY DEF Keys, TableInv
  <2> QED
    BY <2>1, <2>2 DEF StandingInv, Standing
<1>3. CASE UNCHANGED <<spans, history>>
  BY <1>3 DEF StandingInv, Standing, history
<1> QED
  BY <1>1, <1>2, <1>3 DEF Next, Writers, StartPass, Search, Find, NothingFound, Fetch, Fail,
                          tableVars, vars, history

LEMMA StandingInvariance == Spec => []StandingInv
<1>1. Init => StandingInv
  BY DEF Init, StandingInv, Standing
<1> QED
  BY <1>1, TypeInvariance, NextStanding, PTL DEF Spec

\* A summary's spans, orphans and root are those of the trace as exporters and
\* the sweep had left it at one moment, whatever the requests brought.
THEOREM SummariesShowTraces == Spec => SummariesAreCurrent
<1> DEFINE mine(t) == {r \in Standing : r.trace = t}
           stray(t) == {r \in mine(t) : /\ r.parent # NoParent
                                        /\ <<t, r.parent>> \notin Keys(sent) \ swept}
<1>1. ASSUME StandingInv, [Next]_vars, phase = "found", phase' = "answered", NEW t \in Range(found)
      PROVE  /\ t \in DOMAIN Summaries' <=> mine(t) # {}
             /\ mine(t) # {} => Summaries'[t] =
                   [span_count |-> Cardinality(mine(t)),
                    orphan_span_count |-> Cardinality(stray(t)),
                    rooted |-> \E r \in mine(t) : r.parent = NoParent]
  <2>1. Fetch
    <3>1. found # <<>>
      BY <1>1 DEF Range
    <3> QED
      BY <1>1, <3>1 DEF Next, Writers, Export, StartPass, Sweep, Search, Find, NothingFound, Fail,
                        searchVars, vars
  <2>2. answer' = {r \in Standing : r.trace \in Range(found)}
    BY <1>1, <2>1 DEF Fetch, SpansForIds, StandingInv
  <2>3. {r \in answer' : r.trace = t} = mine(t)
    BY <1>1, <2>2
  <2>4. Orphans(mine(t)) = stray(t)
    <3> SUFFICES ASSUME NEW r \in mine(t)
                 PROVE  r.parent \notin {x.id : x \in mine(t)} <=> <<t, r.parent>> \notin Keys(sent) \ swept
      BY DEF Orphans
    <3>1. ASSUME NEW x \in mine(t), r.parent = x.id PROVE <<t, r.parent>> \in Keys(sent) \ swept
      <4>1. x \in sent /\ Key(x) \notin swept /\ Key(x) = <<t, r.parent>>
        BY <3>1 DEF Standing, Key
      <4> QED
        BY <4>1 DEF Keys
    <3>2. ASSUME <<t, r.parent>> \in Keys(sent) \ swept PROVE \E x \in mine(t) : r.parent = x.id
      <4>1. PICK x \in sent : Key(x) = <<t, r.parent>> /\ Key(x) \notin swept
        BY <3>2 DEF Keys
      <4> QED
        BY <4>1 DEF Standing, Key
    <3> QED
      BY <3>1, <3>2
  <2>5. t \in DOMAIN Summaries' <=> mine(t) # {}
    <3>1. DOMAIN Summaries' = {r.trace : r \in answer'}
      BY DEF Summaries
    <3> QED
      BY <2>3, <3>1
  <2>6. ASSUME mine(t) # {} PROVE Summaries'[t] = Summarize(mine(t))
    <3>1. t \in {r.trace : r \in answer'}
      BY <2>3, <2>6
    <3>2. Summaries'[t] = Summarize({r \in answer' : r.trace = t})
      BY <3>1 DEF Summaries, Summarize, Orphans, Rooted
    <3> QED
      BY <2>3, <3>2
  <2>7. Summarize(mine(t)) = [span_count |-> Cardinality(mine(t)),
                              orphan_span_count |-> Cardinality(stray(t)),
                              rooted |-> \E r \in mine(t) : r.parent = NoParent]
    BY <2>4 DEF Summarize, Rooted
  <2> QED
    BY <2>5, <2>6, <2>7
<1>2. StandingInv /\ [Next]_vars =>
        [phase = "found" /\ phase' = "answered" =>
         \A t \in Range(found) :
            /\ t \in DOMAIN Summaries' <=> mine(t) # {}
            /\ mine(t) # {} => Summaries'[t] =
                   [span_count |-> Cardinality(mine(t)),
                    orphan_span_count |-> Cardinality(stray(t)),
                    rooted |-> \E r \in mine(t) : r.parent = NoParent]]_vars
  BY <1>1, Zenon
<1> QED
  BY <1>2, StandingInvariance, PTL DEF Spec, SummariesAreCurrent

\* A search leaves out a trace with a match only for as many others as the depth
\* allows, each with a matching span as new as all of its.
THEOREM SearchFindsNewest == Spec => NewestAreFound
<1>1. ASSUME TypeInv, [Next]_vars, phase = "query", phase' = "found",
             NEW u \in Traces \ Range(found'), Hits(u) # {}
      PROVE  /\ Len(found') = SearchDepth(query.search_depth)
             /\ \A i \in DOMAIN found' : \E r \in Hits(found'[i]) :
                   \A x \in Hits(u) : x.start <= r.start
  <2>1. Find
    BY <1>1 DEF Next, Writers, Export, StartPass, Sweep, Search, NothingFound, Fetch, Fail,
                searchVars, vars
  <2>2. found' \in FindIds /\ query \in Query /\ spans \subseteq Span /\ IsFiniteSet(spans)
    BY <1>1, <2>1, SearchAssumption DEF Find, TypeInv, TypeOK, TableInv
  <2>3. /\ Len(found') = SearchDepth(query.search_depth)
        /\ \A i \in DOMAIN found' : Hits(found'[i]) # {} /\ Recency(found'[i]) >= Recency(u)
    BY <1>1, <2>2, FindIdsIs
  <2>4. ASSUME NEW t, Hits(t) # {}
        PROVE  (\E r \in Hits(t) : r.start = Recency(t)) /\ \A x \in Hits(t) : x.start <= Recency(t)
    <3> DEFINE times == {r.start : r \in Hits(t)}
    <3>1. times \in SUBSET (0..MaxTime) /\ times # {}
      BY <2>2, <2>4 DEF Hits, Span
    <3>2. Max(times) \in times /\ \A x \in times : x <= Max(times)
      <4> HIDE DEF times
      <4> QED
        BY <3>1, Latest
    <3> QED
      BY <3>2 DEF Recency
  <2>5. ASSUME NEW i \in DOMAIN found'
        PROVE  \E r \in Hits(found'[i]) : \A x \in Hits(u) : x.start <= r.start
    <3>1. PICK r \in Hits(found'[i]) : r.start = Recency(found'[i])
      BY <2>3, <2>4
    <3>2. PICK y \in Hits(u) : y.start = Recency(u)
      BY <1>1, <2>4
    <3>3. \A x \in Hits(u) : x.start <= y.start /\ x.start \in Int
      BY <1>1, <2>2, <2>4, <3>2 DEF Hits, Span
    <3>4. y.start <= r.start /\ r.start \in Int /\ y.start \in Int
      BY <2>2, <2>3, <3>1, <3>2 DEF Hits, Span
    <3> QED
      BY <3>3, <3>4
  <2> QED
    BY <2>3, <2>5
<1>2. TypeInv /\ [Next]_vars =>
        [phase = "query" /\ phase' = "found" =>
         \A u \in Traces \ Range(found') : Hits(u) # {} =>
            /\ Len(found') = SearchDepth(query.search_depth)
            /\ \A i \in DOMAIN found' : \E r \in Hits(found'[i]) :
                  \A x \in Hits(u) : x.start <= r.start]_vars
  BY <1>1, Zenon
<1> QED
  BY <1>2, TypeInvariance, PTL DEF Spec, NewestAreFound

-----------------------------------------------------------------------------
\* The listing of operations.

\* The recursion as a property of a function on some of the operations.
AnswersFrom(service, kind, f, v) ==
    IF Beyond(service, kind, v) = {} THEN {<<>>}
    ELSE UNION {{<<[name |-> r.operation, span_kind |-> r.kind]>> \o rest :
                    rest \in f[r.operation]} : r \in Probe(Beyond(service, kind, v))}

Places == {-1} \cup Operations

\* A probe comes upon the first operation beyond; past it are fewer spans.
LEMMA ProbeIsFirst ==
    ASSUME spans \subseteq Span, IsFiniteSet(spans), NEW service, NEW kind, NEW v \in Places
    PROVE  /\ IsFiniteSet(Beyond(service, kind, v)) /\ Cardinality(Beyond(service, kind, v)) \in Nat
           /\ \A r \in Probe(Beyond(service, kind, v)) :
                /\ r \in Beyond(service, kind, v) /\ r.operation \in Operations /\ r.operation > v
                /\ \A x \in Beyond(service, kind, v) :
                      x.operation = r.operation \/ x \in Beyond(service, kind, r.operation)
                /\ Beyond(service, kind, r.operation) \subseteq Beyond(service, kind, v)
                /\ Cardinality(Beyond(service, kind, r.operation)) \in Nat
                /\ Cardinality(Beyond(service, kind, r.operation)) < Cardinality(Beyond(service, kind, v))
<1> DEFINE B(w) == Beyond(service, kind, w)
<1>1. ASSUME NEW w PROVE IsFiniteSet(B(w)) /\ Cardinality(B(w)) \in Nat
  <2>1. B(w) \subseteq spans
    BY DEF Beyond, Listed
  <2> QED
    BY <2>1, FS_Subset, FS_CardinalityType
<1>2. \A x \in spans : x.operation \in Operations /\ x.operation \in Nat
  BY SearchAssumption DEF Span
<1>3. v \in Int
  BY SearchAssumption DEF Places
<1>4. ASSUME NEW r \in Probe(B(v))
      PROVE  /\ r \in B(v) /\ r.operation \in Operations /\ r.operation > v
             /\ \A x \in B(v) : x.operation = r.operation \/ x \in B(r.operation)
             /\ B(r.operation) \subseteq B(v)
             /\ Cardinality(B(r.operation)) < Cardinality(B(v))
  <2>1. /\ r \in B(v) /\ r \in spans /\ r.operation > v
        /\ \A x \in B(v) : r.operation <= x.operation
    BY DEF Probe, Beyond, Listed
  <2>2. \A x \in B(v) : x.operation = r.operation \/ x \in B(r.operation)
    BY <1>2, <2>1 DEF Beyond, Listed
  <2>3. B(r.operation) \subseteq B(v)
    BY <1>2, <1>3, <2>1 DEF Beyond, Listed
  <2>4. r \notin B(r.operation)
    BY <1>2, <2>1 DEF Beyond
  <2>5. Cardinality(B(r.operation)) <= Cardinality(B(v)) /\ Cardinality(B(r.operation)) # Cardinality(B(v))
    <3> HIDE DEF B
    <3> QED
      BY <1>1, <2>1, <2>3, <2>4, FS_Subset
  <2>6. Cardinality(B(r.operation)) < Cardinality(B(v))
    <3> HIDE DEF B
    <3> QED
      BY <1>1, <2>5
  <2> QED
    BY <1>2, <2>1, <2>2, <2>3, <2>6
<1> QED
  BY <1>1, <1>4

\* The recursion has a solution: it can be built up from the last operation.
LEMMA AnswersExist ==
    ASSUME spans \subseteq Span, IsFiniteSet(spans), NEW service, NEW kind
    PROVE  \E f : f = [v \in Places |-> AnswersFrom(service, kind, f, v)]
<1> DEFINE size(v) == Cardinality(Beyond(service, kind, v))
           upTo(n) == {v \in Places : size(v) < n}
           N == {n \in Nat : \E f : f = [v \in upTo(n) |-> AnswersFrom(service, kind, f, v)]}
<1>1. ASSUME NEW v \in Places PROVE size(v) \in Nat /\ size(v) <= Cardinality(spans)
  <2>1. Beyond(service, kind, v) \subseteq spans
    BY DEF Beyond, Listed
  <2> QED
    BY <2>1, FS_Subset, FS_CardinalityType
<1>2. 0 \in N
  <2> DEFINE f == [v \in {} |-> {}]
  <2>1. upTo(0) = {}
    <3> HIDE DEF size
    <3> QED
      BY <1>1
  <2>2. f = [v \in upTo(0) |-> AnswersFrom(service, kind, f, v)]
    BY <2>1
  <2> QED
    BY <2>2
<1>3. ASSUME NEW n \in N PROVE n + 1 \in N
  <2>1. PICK f : f = [v \in upTo(n) |-> AnswersFrom(service, kind, f, v)]
    OBVIOUS
  <2> n \in Nat
    OBVIOUS
  <2> DEFINE g == [v \in upTo(n + 1) |-> IF v \in upTo(n) THEN f[v] ELSE AnswersFrom(service, kind, f, v)]
  <2>2. upTo(n) \subseteq upTo(n + 1)
    <3> HIDE DEF size
    <3>1. ASSUME NEW v \in Places, size(v) < n PROVE size(v) < n + 1
      BY <1>1, <3>1
    <3> QED
      BY <3>1
  <2>3. ASSUME NEW v \in upTo(n + 1) PROVE g[v] = AnswersFrom(service, kind, g, v)
    <3>1. g[v] = AnswersFrom(service, kind, f, v)
      BY <2>1
    <3>2. ASSUME NEW r \in Probe(Beyond(service, kind, v)) PROVE g[r.operation] = f[r.operation]
      <4>1. r.operation \in Places /\ size(r.operation) < size(v)
        BY ProbeIsFirst DEF Places
      <4>2. size(r.operation) \in Nat /\ size(v) \in Nat /\ size(v) < n + 1
        BY <4>1, <1>1
      <4>3. r.operation \in upTo(n)
        <5> HIDE DEF size
        <5> QED
          BY <4>1, <4>2
      <4> QED
        BY <2>2, <4>3
    <3>3. AnswersFrom(service, kind, f, v) = AnswersFrom(service, kind, g, v)
      <4> HIDE DEF g
      <4> DEFINE P == Probe(Beyond(service, kind, v))
                 from(h, r) == {<<[name |-> r.operation, span_kind |-> r.kind]>> \o rest : rest \in h[r.operation]}
      <4>1. \A r \in P : from(f, r) = from(g, r)
        BY <3>2
      <4>2. AnswersFrom(service, kind, f, v) =
              IF Beyond(service, kind, v) = {} THEN {<<>>} ELSE UNION {from(f, r) : r \in P}
        BY Zenon DEF AnswersFrom
      <4>3. AnswersFrom(service, kind, g, v) =
              IF Beyond(service, kind, v) = {} THEN {<<>>} ELSE UNION {from(g, r) : r \in P}
        BY Zenon DEF AnswersFrom
      <4>4. {from(f, r) : r \in P} = {from(g, r) : r \in P}
        <5> HIDE DEF P, from
        <5> QED
          BY <4>1
      <4> HIDE DEF P, from
      <4> QED
        BY <4>2, <4>3, <4>4
    <3> QED
      BY <3>1, <3>3
  <2>4. g = [v \in upTo(n + 1) |-> AnswersFrom(service, kind, g, v)]
    BY <2>3
  <2>5. \E h : h = [v \in upTo(n + 1) |-> AnswersFrom(service, kind, h, v)]
    <3> HIDE DEF g
    <3> QED
      BY <2>4
  <2>6. n + 1 \in Nat
    OBVIOUS
  <2> QED
    BY <2>5, <2>6
<1>4. N = Nat
  <2> HIDE DEF N
  <2> QED
    BY <1>2, <1>3, Inductive DEF N
<1>5. Cardinality(spans) + 1 \in N
  <2>1. Cardinality(spans) \in Nat
    BY FS_CardinalityType
  <2> HIDE DEF N
  <2> QED
    BY <1>4, <2>1
<1>6. upTo(Cardinality(spans) + 1) = Places
  <2>1. Cardinality(spans) \in Nat
    BY FS_CardinalityType
  <2> HIDE DEF size
  <2> QED
    BY <1>1, <2>1
<1> QED
  BY <1>5, <1>6

\* What is listed is a sequence of such a solution's set for -1.
LEMMA ListOperationsIs ==
    ASSUME spans \subseteq Span, IsFiniteSet(spans), NEW service, NEW kind
    PROVE  \E f : /\ f = [v \in Places |-> AnswersFrom(service, kind, f, v)]
                  /\ ListOperations(service, kind) = f[-1]
<1> DEFINE f == CHOOSE f : f = [v \in Places |-> AnswersFrom(service, kind, f, v)]
<1>1. f = [v \in Places |-> AnswersFrom(service, kind, f, v)]
  <2> HIDE DEF f
  <2> QED
    BY AnswersExist, Zenon DEF f
<1>2. ListOperations(service, kind) = f[-1]
  BY Zenon DEF ListOperations, AnswersFrom, Places
<1> HIDE DEF f
<1> QED
  BY <1>1, <1>2

\* A list of all operations of some spans, in order.
ListsAll(listed, rows) ==
    /\ listed \in Seq([name : Operations, span_kind : Kinds])
    /\ \A i, j \in DOMAIN listed : i < j => listed[i].name < listed[j].name
    /\ \A r \in rows : \E i \in DOMAIN listed : listed[i].name = r.operation
    /\ \A i \in DOMAIN listed : \E r \in rows :
          listed[i] = [name |-> r.operation, span_kind |-> r.kind]

\* The first operation before a list of the ones past it.
LEMMA ListsMore ==
    ASSUME NEW rows \in SUBSET Span, NEW later \in SUBSET rows, NEW r \in rows,
           \A x \in rows : x.operation = r.operation \/ x \in later,
           \A x \in later : r.operation < x.operation,
           NEW rest, ListsAll(rest, later)
    PROVE  ListsAll(<<[name |-> r.operation, span_kind |-> r.kind]>> \o rest, rows)
<1> DEFINE first == [name |-> r.operation, span_kind |-> r.kind]
           all == <<first>> \o rest
           T == [name : Operations, span_kind : Kinds]
<1>1. first \in T
  BY DEF Span
<1>2. rest \in Seq(T) /\ Len(rest) \in Nat
  BY DEF ListsAll
<1>3. first.name = r.operation
  OBVIOUS
<1> HIDE DEF first, T
<1>4. /\ all \in Seq(T) /\ Len(all) = Len(rest) + 1
      /\ DOMAIN all = 1..Len(all) /\ DOMAIN rest = 1..Len(rest)
  BY <1>1, <1>2
<1>5. all[1] = first /\ \A i \in 1..Len(rest) : all[i + 1] = rest[i]
  BY <1>1, <1>2
<1>6. \A i \in 1..Len(all) : i # 1 => i - 1 \in 1..Len(rest) /\ all[i] = rest[i - 1]
  BY <1>2, <1>4, <1>5
<1>7. \A x \in rows : x.operation \in Nat
  BY SearchAssumption DEF Span
<1> HIDE DEF all
<1>8. \A i \in 1..Len(rest) : r.operation < rest[i].name /\ rest[i].name \in Nat
  <2> SUFFICES ASSUME NEW i \in 1..Len(rest)
               PROVE  r.operation < rest[i].name /\ rest[i].name \in Nat
    OBVIOUS
  <2>1. PICK x \in later : rest[i] = [name |-> x.operation, span_kind |-> x.kind]
    BY <1>4 DEF ListsAll
  <2> QED
    BY <2>1, <1>7
<1>9. ASSUME NEW i \in 1..Len(all), NEW j \in 1..Len(all), i < j PROVE all[i].name < all[j].name
  <2>1. j - 1 \in 1..Len(rest) /\ all[j] = rest[j - 1]
    BY <1>2, <1>4, <1>6, <1>9
  <2>2. CASE i = 1
    BY <2>1, <2>2, <1>3, <1>5, <1>8
  <2>3. CASE i # 1
    <3>1. i - 1 \in 1..Len(rest) /\ all[i] = rest[i - 1] /\ i - 1 < j - 1
      BY <2>1, <2>3, <1>2, <1>4, <1>6, <1>9
    <3> QED
      BY <2>1, <3>1, <1>2 DEF ListsAll
  <2> QED
    BY <2>2, <2>3
<1>10. ASSUME NEW x \in rows PROVE \E i \in 1..Len(all) : all[i].name = x.operation
  <2>1. CASE x.operation = r.operation
    BY <2>1, <1>2, <1>3, <1>4, <1>5
  <2>2. CASE x \in later
    <3>1. PICK i \in 1..Len(rest) : rest[i].name = x.operation
      BY <2>2, <1>2 DEF ListsAll
    <3>2. i + 1 \in 1..Len(all) /\ all[i + 1] = rest[i]
      BY <1>2, <1>4, <1>5
    <3> QED
      BY <3>1, <3>2
  <2> QED
    BY <2>1, <2>2
<1>11. ASSUME NEW i \in 1..Len(all)
       PROVE  \E x \in rows : all[i] = [name |-> x.operation, span_kind |-> x.kind]
  <2>1. CASE i = 1
    BY <2>1, <1>5 DEF first
  <2>2. CASE i # 1
    <3>1. i - 1 \in DOMAIN rest /\ all[i] = rest[i - 1]
      BY <2>2, <1>4, <1>6
    <3>2. PICK x \in later : rest[i - 1] = [name |-> x.operation, span_kind |-> x.kind]
      BY <3>1 DEF ListsAll
    <3> QED
      BY <3>1, <3>2
  <2> QED
    BY <2>1, <2>2
<1>12. ListsAll(all, rows)
  BY <1>4, <1>5, <1>9, <1>10, <1>11 DEF ListsAll, T
<1> QED
  BY <1>12 DEF all, first

\* Every answer of the walk lists all operations of the spans that count.
LEMMA OperationsInOrder ==
    ASSUME spans \subseteq Span, IsFiniteSet(spans), NEW service, NEW kind,
           NEW listed \in ListOperations(service, kind)
    PROVE  ListsAll(listed, Listed(service, kind))
<1>1. PICK f : /\ f = [v \in Places |-> AnswersFrom(service, kind, f, v)]
               /\ ListOperations(service, kind) = f[-1]
  BY ListOperationsIs
<1> DEFINE B(v) == Beyond(service, kind, v)
           size(v) == Cardinality(B(v))
           N == {n \in Nat : \A v \in Places : size(v) <= n => \A s \in f[v] : ListsAll(s, B(v))}
<1>2. ASSUME NEW v \in Places PROVE size(v) \in Nat /\ f[v] = AnswersFrom(service, kind, f, v)
  BY <1>1, ProbeIsFirst
<1>3. ASSUME NEW v \in Places, B(v) = {} PROVE \A s \in f[v] : ListsAll(s, B(v))
  <2>1. f[v] = {<<>>}
    BY <1>2, <1>3 DEF AnswersFrom
  <2>2. ListsAll(<<>>, {})
    <3>1. <<>> \in Seq([name : Operations, span_kind : Kinds]) /\ DOMAIN <<>> = {}
      OBVIOUS
    <3> QED
      BY <3>1 DEF ListsAll
  <2> QED
    BY <2>1, <2>2, <1>3
<1>4. ASSUME NEW v \in Places, B(v) # {}, NEW s \in f[v],
             \A r \in Probe(B(v)) : \A rest \in f[r.operation] : ListsAll(rest, B(r.operation))
      PROVE  ListsAll(s, B(v))
  <2>1. PICK r \in Probe(B(v)) : \E rest \in f[r.operation] :
          s = <<[name |-> r.operation, span_kind |-> r.kind]>> \o rest
    <3> DEFINE P == Probe(B(v))
               from(r) == {<<[name |-> r.operation, span_kind |-> r.kind]>> \o rest : rest \in f[r.operation]}
    <3>1. f[v] = UNION {from(r) : r \in P}
      BY <1>2, <1>4, Zenon DEF AnswersFrom
    <3>2. PICK r \in P : s \in from(r)
      <4> HIDE DEF P, from
      <4> QED
        BY <1>4, <3>1
    <3> QED
      BY <3>2
  <2> PICK rest \in f[r.operation] : s = <<[name |-> r.operation, span_kind |-> r.kind]>> \o rest
    BY <2>1
  <2>2. /\ r \in B(v) /\ B(r.operation) \subseteq B(v)
        /\ \A x \in B(v) : x.operation = r.operation \/ x \in B(r.operation)
    BY ProbeIsFirst
  <2>3. B(v) \subseteq Span
    BY DEF Beyond, Listed
  <2>4. \A x \in B(r.operation) : r.operation < x.operation
    <3>1. \A x \in B(r.operation) : x.operation > r.operation
      BY DEF Beyond
    <3> QED
      BY <3>1
  <2>5. ListsAll(rest, B(r.operation))
    BY <1>4
  <2> HIDE DEF B
  <2>6. ListsAll(<<[name |-> r.operation, span_kind |-> r.kind]>> \o rest, B(v))
    BY <2>2, <2>3, <2>4, <2>5, ListsMore
  <2> QED
    BY <2>1, <2>6
<1>5. 0 \in N
  <2>1. ASSUME NEW v \in Places, size(v) <= 0 PROVE B(v) = {}
    <3>1. size(v) = 0 /\ IsFiniteSet(B(v))
      BY <1>2, <2>1, ProbeIsFirst
    <3> QED
      BY <3>1, FS_EmptySet
  <2> HIDE DEF B
  <2> QED
    BY <2>1, <1>3
<1>6. ASSUME NEW n \in N PROVE n + 1 \in N
  <2> n \in Nat
    OBVIOUS
  <2>1. ASSUME NEW v \in Places, size(v) <= n + 1, NEW s \in f[v] PROVE ListsAll(s, B(v))
    <3>1. ASSUME NEW r \in Probe(B(v)) PROVE \A rest \in f[r.operation] : ListsAll(rest, B(r.operation))
      <4>1. r.operation \in Places /\ size(r.operation) < size(v)
        BY ProbeIsFirst DEF Places
      <4>2. size(r.operation) \in Nat /\ size(v) \in Nat
        BY <4>1, <1>2
      <4>3. size(r.operation) <= n
        <5> HIDE DEF size
        <5> QED
          BY <4>1, <4>2, <2>1
      <4> QED
        BY <4>1, <4>3
    <3> HIDE DEF B
    <3> QED
      BY <3>1, <1>3, <1>4
  <2> HIDE DEF B, size
  <2>2. n + 1 \in Nat
    OBVIOUS
  <2> QED
    BY <2>1, <2>2
<1>7. N = Nat
  <2> HIDE DEF N
  <2> QED
    BY <1>5, <1>6, Inductive DEF N
<1>8. -1 \in Places
  BY DEF Places
<1>9. ListsAll(listed, B(-1))
  <2>1. size(-1) \in Nat /\ size(-1) <= size(-1)
    BY <1>2, <1>8
  <2> HIDE DEF B, size
  <2> QED
    BY <2>1, <1>1, <1>7, <1>8
<1>10. B(-1) = Listed(service, kind)
  <2>1. \A x \in spans : x.operation \in Nat
    BY SearchAssumption DEF Span
  <2>2. \A n \in Nat : n > -1
    OBVIOUS
  <2> QED
    BY <2>1, <2>2 DEF Beyond, Listed
<1> QED
  BY <1>9, <1>10

\* A listing has every operation of the service and kind once, whatever else
\* the index has between them, each with the kind of one of its spans.
THEOREM OperationsListed == Spec => []OperationsAreListed
<1>1. ASSUME TableInv PROVE OperationsAreListed
  <2> SUFFICES ASSUME NEW service \in Services, NEW kind \in Kinds \cup {AnyKind},
                      NEW listed \in ListOperations(service, kind)
               PROVE  /\ \A i, j \in DOMAIN listed : i < j => listed[i].name < listed[j].name
                      /\ \A r \in spans : r.service = service /\ kind \in {r.kind, AnyKind} =>
                            \E i \in DOMAIN listed : listed[i].name = r.operation
                      /\ \A i \in DOMAIN listed : \E r \in spans :
                            /\ r.service = service
                            /\ listed[i] = [name |-> r.operation, span_kind |-> r.kind]
                            /\ kind \in {r.kind, AnyKind}
    BY DEF OperationsAreListed
  <2>1. ListsAll(listed, Listed(service, kind))
    BY <1>1, OperationsInOrder DEF TableInv
  <2>2. \A r : r \in Listed(service, kind) <=>
                r \in spans /\ r.service = service /\ kind \in {r.kind, AnyKind}
    BY DEF Listed
  <2> QED
    BY <2>1, <2>2 DEF ListsAll
<1> QED
  BY <1>1, TypeInvariance, PTL DEF TypeInv

-----------------------------------------------------------------------------
\* The counts of calls.

\* The sum over a set of pairs of services, one of them taken off at a time, as
\* a property of a function on sets of pairs.
Weight(service, counts, pair) == IF pair[2] = service THEN counts[pair] ELSE 0

Some(s) == CHOOSE x \in s : TRUE

SumFrom(service, counts, h, s) ==
    IF s = {} THEN 0 ELSE Weight(service, counts, Some(s)) + h[s \ {Some(s)}]

Sums(service, counts, S, h) == h = [s \in SUBSET S |-> SumFrom(service, counts, h, s)]

\* A set with one element taken off has one less.
LEMMA TakeOff ==
    ASSUME NEW S, IsFiniteSet(S), NEW s \in SUBSET S, s # {}
    PROVE  /\ Some(s) \in s /\ s \ {Some(s)} \in SUBSET S
           /\ Cardinality(s) \in Nat /\ Cardinality(s \ {Some(s)}) \in Nat
           /\ Cardinality(s \ {Some(s)}) < Cardinality(s)
<1>1. Some(s) \in s
  BY DEF Some
<1>2. IsFiniteSet(s) /\ Cardinality(s) \in Nat
  BY FS_Subset, FS_CardinalityType
<1>3. IsFiniteSet(s \ {Some(s)}) /\ Cardinality(s \ {Some(s)}) = Cardinality(s) - 1
  BY <1>1, <1>2, FS_RemoveElement
<1>4. Cardinality(s \ {Some(s)}) \in Nat
  BY <1>3, FS_CardinalityType
<1> QED
  BY <1>1, <1>2, <1>3, <1>4

\* The recursion has a solution: it can be built up from the empty set.
LEMMA SumExists ==
    ASSUME NEW service, NEW counts, NEW S, IsFiniteSet(S)
    PROVE  \E h : Sums(service, counts, S, h)
<1> DEFINE upTo(n) == {s \in SUBSET S : Cardinality(s) < n}
           N == {n \in Nat : \E h : h = [s \in upTo(n) |-> SumFrom(service, counts, h, s)]}
<1>1. ASSUME NEW s \in SUBSET S PROVE Cardinality(s) \in Nat /\ Cardinality(s) <= Cardinality(S)
  BY FS_Subset, FS_CardinalityType
<1>2. 0 \in N
  <2> DEFINE h == [s \in {} |-> 0]
  <2>1. upTo(0) = {}
    BY <1>1
  <2>2. h = [s \in upTo(0) |-> SumFrom(service, counts, h, s)]
    BY <2>1
  <2> QED
    BY <2>2
<1>3. ASSUME NEW n \in N PROVE n + 1 \in N
  <2>1. PICK h : h = [s \in upTo(n) |-> SumFrom(service, counts, h, s)]
    OBVIOUS
  <2> n \in Nat
    OBVIOUS
  <2> DEFINE g == [s \in upTo(n + 1) |-> IF s \in upTo(n) THEN h[s] ELSE SumFrom(service, counts, h, s)]
  <2>2. upTo(n) \subseteq upTo(n + 1)
    BY <1>1
  <2>3. ASSUME NEW s \in upTo(n + 1) PROVE g[s] = SumFrom(service, counts, g, s)
    <3>1. g[s] = SumFrom(service, counts, h, s)
      BY <2>1
    <3>2. CASE s = {}
      BY <3>1, <3>2 DEF SumFrom
    <3>3. CASE s # {}
      <4> DEFINE r == s \ {Some(s)}
      <4>1. r \in SUBSET S /\ Cardinality(r) \in Nat /\ Cardinality(s) \in Nat
            /\ Cardinality(r) < Cardinality(s) /\ Cardinality(s) < n + 1
        BY <3>3, TakeOff
      <4>2. r \in upTo(n)
        <5> HIDE DEF r
        <5> QED
          BY <4>1
      <4>3. g[r] = h[r]
        BY <2>2, <4>2
      <4> HIDE DEF g
      <4> QED
        BY <3>1, <4>3 DEF SumFrom
    <3> QED
      BY <3>2, <3>3
  <2>4. g = [s \in upTo(n + 1) |-> SumFrom(service, counts, g, s)]
    BY <2>3
  <2>5. \E f : f = [s \in upTo(n + 1) |-> SumFrom(service, counts, f, s)]
    <3> HIDE DEF g
    <3> QED
      BY <2>4
  <2>6. n + 1 \in Nat
    OBVIOUS
  <2> QED
    BY <2>5, <2>6
<1>4. N = Nat
  <2> HIDE DEF N
  <2> QED
    BY <1>2, <1>3, Inductive DEF N
<1>5. Cardinality(S) + 1 \in N
  <2>1. Cardinality(S) \in Nat
    BY FS_CardinalityType
  <2> HIDE DEF N
  <2> QED
    BY <1>4, <2>1
<1>6. upTo(Cardinality(S) + 1) = SUBSET S
  <2>1. Cardinality(S) \in Nat
    BY FS_CardinalityType
  <2> QED
    BY <1>1, <2>1
<1>7. PICK h : h = [s \in upTo(Cardinality(S) + 1) |-> SumFrom(service, counts, h, s)]
  BY <1>5
<1>8. Sums(service, counts, S, h)
  BY <1>6, <1>7 DEF Sums
<1> QED
  BY <1>8

\* The calls to a service, of some pairs.
CallsTo(service, counts, pairs) ==
    MapThenSumSet(LAMBDA pair : IF pair[2] = service THEN counts[pair] ELSE 0, pairs)

\* What the fold of the library sums up is such a solution's value.
LEMMA SumIs ==
    ASSUME NEW service, NEW counts, NEW D, IsFiniteSet(D)
    PROVE  \E h : Sums(service, counts, D, h) /\ CallsTo(service, counts, D) = h[D]
<1> DEFINE h == CHOOSE h : Sums(service, counts, D, h)
<1>1. Sums(service, counts, D, h)
  BY SumExists, Zenon
<1>2. CallsTo(service, counts, D) = h[D]
  BY Zenon DEF Sums, CallsTo, MapThenSumSet, MapThenFoldSet, SumFrom, Some, Weight
<1> HIDE DEF h
<1> QED
  BY <1>1, <1>2

\* The calls of a pair are counted once, and the pairs of a service add up to
\* the calls of the service.
LEMMA SumOfCalls ==
    ASSUME NEW service, NEW calls, IsFiniteSet(calls), NEW counts,
           counts = [pair \in {Between(call) : call \in calls} |->
                        Cardinality({call \in calls : Between(call) = pair})]
    PROVE  CallsTo(service, counts, DOMAIN counts) = Cardinality({call \in calls : Between(call)[2] = service})
<1> PICK D : D = {Between(call) : call \in calls}
  OBVIOUS
<1> DEFINE part(s) == {call \in calls : Between(call) \in s /\ Between(call)[2] = service}
<1>1. D = {Between(call) : call \in calls} /\ D = DOMAIN counts
  OBVIOUS
<1>2. IsFiniteSet(D)
  <2> DEFINE between == [call \in calls |-> Between(call)]
  <2>1. between \in Surjection(calls, D)
    BY <1>1 DEF Surjection
  <2> HIDE DEF between
  <2> QED
    BY <2>1, FS_Surjection
<1>3. PICK h : Sums(service, counts, D, h) /\ CallsTo(service, counts, D) = h[D]
  BY <1>2, SumIs
<1> DEFINE N == {n \in Nat : \A s \in SUBSET D : Cardinality(s) <= n => h[s] = Cardinality(part(s))}
<1>4. ASSUME NEW s PROVE IsFiniteSet(part(s)) /\ Cardinality(part(s)) \in Nat
  BY FS_Subset, FS_CardinalityType
<1>5. ASSUME NEW s \in SUBSET D, s # {}, NEW r, r = s \ {Some(s)}, h[r] = Cardinality(part(r))
      PROVE  h[s] = Cardinality(part(s))
  <2> DEFINE x == Some(s)
             ofx == {call \in calls : Between(call) = x}
  <2>1. x \in s /\ x \in D
    BY <1>5, <1>2, TakeOff
  <2>2. h[s] = Weight(service, counts, x) + Cardinality(part(r))
    BY <1>3, <1>5 DEF Sums, SumFrom
  <2>3. counts[x] = Cardinality(ofx)
    BY <1>1, <2>1
  <2>4. IsFiniteSet(ofx) /\ Cardinality(ofx) \in Nat
    BY FS_Subset, FS_CardinalityType
  <2>5. CASE x[2] = service
    <3>1. part(s) = ofx \cup part(r) /\ ofx \cap part(r) = {}
      <4> x \in s /\ r = s \ {x}
        BY <1>5, <2>1
      <4> HIDE DEF x
      <4> QED
        BY <2>5
    <3>2. Cardinality(part(s)) = Cardinality(ofx) + Cardinality(part(r)) - Cardinality({})
      <4> HIDE DEF ofx, part
      <4> QED
        BY <1>4, <2>4, <3>1, FS_Union
    <3>3. h[s] = Cardinality(ofx) + Cardinality(part(r))
      BY <2>2, <2>3, <2>5 DEF Weight
    <3>4. Cardinality({}) = 0
      BY FS_EmptySet
    <3> HIDE DEF ofx, part
    <3> QED
      BY <1>4, <2>4, <3>2, <3>3, <3>4
  <2>6. CASE x[2] # service
    <3>1. part(s) = part(r)
      <4> x \in s /\ r = s \ {x}
        BY <1>5, <2>1
      <4> HIDE DEF x
      <4> QED
        BY <2>6
    <3>2. h[s] = 0 + Cardinality(part(r))
      BY <2>2, <2>6 DEF Weight
    <3> HIDE DEF part
    <3> QED
      BY <1>4, <3>1, <3>2
  <2> QED
    BY <2>5, <2>6
<1>6. ASSUME NEW s \in SUBSET D, s = {} PROVE h[s] = Cardinality(part(s))
  <2>1. h[s] = 0
    BY <1>3, <1>6 DEF Sums, SumFrom
  <2>2. part(s) = {}
    BY <1>6
  <2> HIDE DEF part
  <2> QED
    BY <2>1, <2>2, FS_EmptySet
<1> HIDE DEF part
<1>7. 0 \in N
  <2>1. ASSUME NEW s \in SUBSET D, Cardinality(s) <= 0 PROVE s = {}
    <3>1. IsFiniteSet(s) /\ Cardinality(s) = 0
      BY <1>2, <2>1, FS_Subset, FS_CardinalityType
    <3> QED
      BY <3>1, FS_EmptySet
  <2> QED
    BY <2>1, <1>6
<1>8. ASSUME NEW n \in N PROVE n + 1 \in N
  <2> n \in Nat
    OBVIOUS
  <2>1. ASSUME NEW s \in SUBSET D, Cardinality(s) <= n + 1, s # {} PROVE h[s] = Cardinality(part(s))
    <3>1. PICK r : r = s \ {Some(s)}
      OBVIOUS
    <3>2. r \in SUBSET D /\ Cardinality(r) \in Nat /\ Cardinality(s) \in Nat /\ Cardinality(r) < Cardinality(s)
      BY <1>2, <2>1, <3>1, TakeOff
    <3>3. Cardinality(r) <= n
      BY <2>1, <3>2
    <3>4. h[r] = Cardinality(part(r))
      BY <3>2, <3>3
    <3> QED
      BY <1>5, <2>1, <3>1, <3>4
  <2>2. n + 1 \in Nat
    OBVIOUS
  <2> QED
    BY <2>1, <2>2, <1>6
<1>9. N = Nat
  <2> HIDE DEF N
  <2> QED
    BY <1>7, <1>8, Inductive DEF N
<1>10. h[D] = Cardinality(part(D))
  <2>1. Cardinality(D) \in Nat /\ Cardinality(D) <= Cardinality(D) /\ D \in SUBSET D
    BY <1>2, FS_CardinalityType
  <2> QED
    BY <2>1, <1>9
<1>11. part(D) = {call \in calls : Between(call)[2] = service}
  BY <1>1 DEF part
<1> QED
  BY <1>1, <1>3, <1>10, <1>11

\* The join has each of them once: a key names one parent.
LEMMA CallPerSpan ==
    ASSUME TableInv, StandingInv, NEW service, NEW from \in Int, NEW until \in Int
    PROVE  /\ IsFiniteSet(Calls(from, until))
           /\ Cardinality({call \in Calls(from, until) : Between(call)[2] = service})
                = Cardinality(Called(service, from, until))
<1> DEFINE calls == Calls(from, until)
           K == {call \in calls : Between(call)[2] = service}
           callee == [call \in K |-> Callee(call)]
<1>1. IsFiniteSet(calls) /\ IsFiniteSet(K)
  <2>1. IsFiniteSet(spans \X spans)
    BY FS_Product DEF TableInv
  <2>2. calls \subseteq spans \X spans /\ K \subseteq spans \X spans
    BY DEF Calls
  <2> HIDE DEF calls, K
  <2> QED
    BY <2>1, <2>2, FS_Subset
<1>2. \A call \in K :
        /\ call \in spans \X spans /\ call = <<Caller(call), Callee(call)>>
        /\ Caller(call) \in spans /\ Callee(call) \in spans
        /\ Caller(call).trace = Callee(call).trace /\ Caller(call).id = Callee(call).parent
        /\ Callee(call).start >= from /\ Callee(call).start < until
        /\ Caller(call).service # Callee(call).service /\ Callee(call).service = service
  BY DEF Calls, InWindow, Between, Caller, Callee
<1>3. \A c \in spans : c.start \in Int
  BY DEF TableInv, Span
<1>4. ASSUME NEW call \in K PROVE Callee(call) \in Called(service, from, until)
  <2>1. Key(Caller(call)) = <<Callee(call).trace, Callee(call).parent>>
    BY <1>2 DEF Key
  <2>2. Callee(call).start \in from..(until - 1)
    BY <1>2, <1>3
  <2> HIDE DEF K
  <2> QED
    BY <1>2, <2>1, <2>2 DEF Called, StandingInv
<1>5. ASSUME NEW c \in Called(service, from, until) PROVE \E call \in K : Callee(call) = c
  <2>1. PICK p \in spans : Key(p) = <<c.trace, c.parent>> /\ p.service # service
    BY DEF Called, StandingInv
  <2>2. /\ c \in spans /\ c.service = service /\ c.start >= from /\ c.start < until
        /\ p.trace = c.trace /\ p.id = c.parent
    BY <1>3, <2>1 DEF Called, Key, StandingInv
  <2>3. <<p, c>> \in K /\ Callee(<<p, c>>) = c
    BY <2>1, <2>2 DEF Calls, InWindow, Between, Caller, Callee
  <2> QED
    BY <2>3
<1>6. ASSUME NEW a \in K, NEW b \in K, Callee(a) = Callee(b) PROVE a = b
  <2>1. Key(Caller(a)) = Key(Caller(b))
    BY <1>2, <1>6 DEF Key
  <2>2. Caller(a) = Caller(b)
    BY <1>2, <2>1 DEF TableInv
  <2> HIDE DEF K
  <2> QED
    BY <1>2, <1>6, <2>2
<1> HIDE DEF K
<1>7. callee \in Surjection(K, Called(service, from, until)) /\ callee \in Injection(K, Called(service, from, until))
  BY <1>4, <1>5, <1>6 DEF Surjection, Injection, IsInjective
<1> HIDE DEF callee
<1>8. Cardinality(Called(service, from, until)) = Cardinality(K)
  BY <1>1, <1>7, FS_Surjection
<1> QED
  BY <1>1, <1>8 DEF K

\* A span that another service called, of what was sent and not swept, counts
\* for one call, in whatever order and how often the two were exported.
THEOREM CallsCounted == Spec => []CallsCountOnce
<1>1. ASSUME TableInv, StandingInv PROVE CallsCountOnce
  <2>1. ASSUME NEW from \in 0..(MaxTime + 1), NEW until \in 0..(MaxTime + 1), NEW service \in Services
        PROVE  LET counts == Dependencies(from, until)
               IN Cardinality(Called(service, from, until)) = CallsTo(service, counts, DOMAIN counts)
    <3> DEFINE calls == Calls(from, until)
               counts == Dependencies(from, until)
    <3>1. from \in Int /\ until \in Int
      OBVIOUS
    <3>2. IsFiniteSet(calls)
      BY <1>1, <3>1, CallPerSpan
    <3>3. counts = [pair \in {Between(call) : call \in calls} |->
                       Cardinality({call \in calls : Between(call) = pair})]
      BY Zenon DEF Dependencies
    <3>4. Cardinality({call \in calls : Between(call)[2] = service}) = Cardinality(Called(service, from, until))
      BY <1>1, <3>1, CallPerSpan
    <3> HIDE DEF calls, counts
    <3>5. CallsTo(service, counts, DOMAIN counts) = Cardinality({call \in calls : Between(call)[2] = service})
      BY <3>2, <3>3, SumOfCalls
    <3>6. Cardinality(Called(service, from, until)) = CallsTo(service, counts, DOMAIN counts)
      BY <3>4, <3>5
    <3> QED
      BY <3>6 DEF counts
  <2> QED
    BY <2>1, Zenon DEF CallsCountOnce, CallsTo, MapThenSumSet, MapThenFoldSet
<1> QED
  BY <1>1, TypeInvariance, StandingInvariance, PTL DEF TypeInv
=============================================================================
