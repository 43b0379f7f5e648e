------------------------ MODULE MetricCatalogProofs ------------------------
(***************************************************************************)
(* What a listing promises, for any names, services and pool size, and      *)
(* whatever exports, sweeps and other queries do meanwhile.                 *)
(***************************************************************************)
EXTENDS MetricCatalog, FiniteSetTheorems, TLAPS

-----------------------------------------------------------------------------
\* The inductive invariant.

Entry(i) == [name |-> names[i], services |-> found[i]]

\* One entry per name everywhere, and no name before the scan is done.
ShapeInv ==
    /\ TypeOK
    /\ DOMAIN out = Indices
    /\ handler \in {"wait", "scan"} => names = <<>>
    /\ \A i, j \in Indices : i < j => names[i] < names[j]

\* A listing that succeeds has joined all.
LiveInv == handler = "ok" => \A i \in Indices : task[i] = "joined"

\* What was joined is in its place.
OutInv == \A i \in Indices : task[i] = "joined" => out[i] = Entry(i)

\* What was there all the time has its name in the list, and its services are
\* among those a task has read.
StableInv ==
    /\ stable \subseteq table
    /\ handler \in {"join", "ok"} =>
        /\ \A p \in stable : \E i \in Indices : names[i] = p[1]
        /\ \A p \in stable, i \in Indices :
              task[i] \in {"ready", "joined"} /\ names[i] = p[1] => p[2] \in found[i]

\* What a task has read was there at some time, and nothing to read was noticed.
SeenInv ==
    /\ handler = "join" => table \subseteq seen
    /\ handler \in {"join", "ok"} => \A i \in Indices :
          /\ \E p \in seen : p[1] = names[i]
          /\ task[i] \in {"ready", "joined"} =>
                /\ \A s \in found[i] : <<names[i], s>> \in seen
                /\ found[i] = {} => names[i] \in gone

\* While the handler joins, a listed name without points has been noticed, an
\* error has a cause, and a failure leaves an error for the handler to find.
CauseInv ==
    /\ handler = "join" => \A i \in Indices :
          /\ PointsOf(names[i]) = {} => names[i] \in gone
          /\ task[i] = "error" => broken \/ names[i] \in gone
    /\ handler = "join" /\ broken => \E i \in Indices : task[i] = "error"
    /\ handler \in {"wait", "scan"} => ~ broken

IInv ==
    /\ ShapeInv
    /\ LiveInv
    /\ OutInv
    /\ StableInv
    /\ SeenInv
    /\ CauseInv
    /\ AllOrNothing

-----------------------------------------------------------------------------
\* Induction, on sets of naturals.

\* A set of naturals that is not empty has a least element.
LEMMA Least ==
    ASSUME NEW S \in SUBSET Nat, S # {}
    PROVE  \E x \in S : \A y \in S : x <= y
<1>1. PICK x \in S : \A y \in S : ~ (<<y, x>> \in OpToRel(<, Nat))
  BY NatLessThanWellFounded, WFMin, Zenon
<1>2. \A y \in S : y \in Nat /\ x \in Nat /\ ~ (y < x)
  BY <1>1 DEF OpToRel
<1> QED
  BY <1>2

\* A set that has zero and every successor of a member has all naturals.
LEMMA Inductive ==
    ASSUME NEW S \in SUBSET Nat, 0 \in S, \A n \in S : n + 1 \in S
    PROVE  S = Nat
<1> SUFFICES ASSUME Nat \ S # {} PROVE FALSE
  OBVIOUS
<1>1. PICK x \in Nat \ S : \A y \in Nat \ S : x <= y
  BY Least
<1>2. x # 0 /\ x - 1 \in Nat /\ ~ (x <= x - 1)
  BY <1>1
<1>3. x - 1 \in S /\ (x - 1) + 1 = x
  BY <1>1, <1>2
<1> QED
  BY <1>1, <1>3

-----------------------------------------------------------------------------
\* The index scan.

\* The values beyond v, and the recursion as a property of a function on some
\* of the values.
Beyond(V, v) == {x \in V : x > v}

NextOf(V, f, v) ==
    IF Beyond(V, v) = {} THEN <<>> ELSE <<Min(Beyond(V, v))>> \o f[Min(Beyond(V, v))]

\* From each value, the scan goes on to one with fewer values beyond it.
LEMMA FewerBeyond ==
    ASSUME NEW V \in SUBSET Nat, IsFiniteSet(V), NEW v \in Nat, Beyond(V, v) # {},
           NEW a, a = Min(Beyond(V, v))
    PROVE  /\ a \in Beyond(V, v)
           /\ \A x \in Beyond(V, v) : a <= x
           /\ Beyond(V, v) = {a} \cup Beyond(V, a)
           /\ Cardinality(Beyond(V, a)) \in Nat /\ Cardinality(Beyond(V, v)) \in Nat
           /\ Cardinality(Beyond(V, a)) < Cardinality(Beyond(V, v))
<1>1. Beyond(V, v) \in SUBSET Nat
  BY DEF Beyond
<1>2. a \in Beyond(V, v) /\ \A x \in Beyond(V, v) : a <= x
  BY <1>1, Least DEF Min
<1>3. Beyond(V, v) = {a} \cup Beyond(V, a)
  <2>1. a \in V /\ a \in Nat /\ v < a
    BY <1>2 DEF Beyond
  <2>2. ASSUME NEW x \in Beyond(V, v), x # a PROVE x \in Beyond(V, a)
    <3>1. x \in V /\ x \in Nat /\ a <= x
      BY <1>1, <1>2, <2>2 DEF Beyond
    <3> QED
      BY <2>1, <2>2, <3>1 DEF Beyond
  <2>3. ASSUME NEW x \in Beyond(V, a) PROVE x \in Beyond(V, v)
    <3>1. x \in V /\ x \in Nat /\ a < x
      BY <2>3 DEF Beyond
    <3> QED
      BY <2>1, <3>1 DEF Beyond
  <2> QED
    BY <1>2, <2>2, <2>3
<1>4. a \notin Beyond(V, a)
  BY <1>1, <1>2 DEF Beyond
<1>5. IsFiniteSet(Beyond(V, v)) /\ IsFiniteSet(Beyond(V, a))
  BY FS_Subset DEF Beyond
<1>6. Cardinality(Beyond(V, v)) = Cardinality(Beyond(V, a)) + 1
  <2>1. Beyond(V, v) = Beyond(V, a) \cup {a}
    BY <1>3
  <2>2. Cardinality(Beyond(V, a) \cup {a}) = Cardinality(Beyond(V, a)) + 1
    BY <1>4, <1>5, FS_AddElement
  <2> QED
    BY <2>1, <2>2
<1>7. Cardinality(Beyond(V, a)) \in Nat
  BY <1>5, FS_CardinalityType
<1> QED
  BY <1>2, <1>3, <1>6, <1>7

\* The recursion has a solution: it can be built up from the last value.
LEMMA WalkExists ==
    ASSUME NEW V \in SUBSET Nat, IsFiniteSet(V)
    PROVE  \E f : f = [v \in V \cup {0} |-> NextOf(V, f, v)]
<1> DEFINE size(v) == Cardinality(Beyond(V, v))
           D == V \cup {0}
           upTo(n) == {v \in D : size(v) <= n}
           N == {n \in Nat : \E f : f = [v \in upTo(n) |-> NextOf(V, f, v)]}
<1>1. ASSUME NEW v \in D PROVE size(v) \in Nat /\ size(v) <= Cardinality(V)
  BY FS_Subset, FS_CardinalityType DEF Beyond
<1>2. 0 \in N
  <2> DEFINE f == [v \in upTo(0) |-> <<>>]
  <2>1. ASSUME NEW v \in upTo(0) PROVE NextOf(V, f, v) = <<>>
    <3>1. size(v) = 0 /\ IsFiniteSet(Beyond(V, v))
      BY <1>1, FS_Subset DEF Beyond
    <3>2. Beyond(V, v) = {}
      BY <3>1, FS_EmptySet
    <3> QED
      BY <3>2 DEF NextOf
  <2>2. f = [v \in upTo(0) |-> NextOf(V, f, v)]
    BY <2>1
  <2> QED
    BY <2>2
<1>3. ASSUME NEW n \in N PROVE n + 1 \in N
  <2>1. PICK f : f = [v \in upTo(n) |-> NextOf(V, f, v)]
    OBVIOUS
  <2> DEFINE g == [v \in upTo(n + 1) |-> IF v \in upTo(n) THEN f[v] ELSE NextOf(V, f, v)]
  <2> n \in Nat
    OBVIOUS
  <2>2. upTo(n) \subseteq upTo(n + 1)
    <3> HIDE DEF size, D
    <3>1. ASSUME NEW v \in D, size(v) <= n PROVE size(v) <= n + 1
      BY <1>1, <3>1
    <3> QED
      BY <3>1
  <2>3. ASSUME NEW v \in upTo(n + 1) PROVE g[v] = NextOf(V, g, v)
    <3>1. g[v] = NextOf(V, f, v)
      BY <2>1
    <3>2. CASE Beyond(V, v) = {}
      BY <3>1, <3>2 DEF NextOf
    <3>3. CASE Beyond(V, v) # {}
      <4>1. PICK a : a = Min(Beyond(V, v))
        OBVIOUS
      <4>2. a \in V /\ size(a) < size(v) /\ size(a) \in Nat /\ size(v) \in Nat
        BY <3>3, <4>1, FewerBeyond DEF Beyond
      <4>3. a \in upTo(n)
        BY <4>2
      <4>4. g[a] = f[a]
        BY <2>2, <4>3
      <4> QED
        BY <3>1, <4>1, <4>4 DEF NextOf
    <3> QED
      BY <3>2, <3>3
  <2>4. g = [v \in upTo(n + 1) |-> NextOf(V, g, v)]
    BY <2>3
  <2>5. \E h : h = [v \in upTo(n + 1) |-> NextOf(V, h, v)]
    <3> HIDE DEF g
    <3> QED
      BY <2>4
  <2>6. n + 1 \in Nat
    OBVIOUS
  <2> QED
    BY <2>5, <2>6
<1>4. N = Nat
  <2> HIDE DEF N
  <2> QED
    BY <1>2, <1>3, Inductive DEF N
<1>5. Cardinality(V) \in N
  BY <1>4, FS_CardinalityType
<1>6. upTo(Cardinality(V)) = D
  BY <1>1
<1> QED
  BY <1>5, <1>6

\* What the scan returns is such a solution's list from zero.
LEMMA WalkIs ==
    ASSUME NEW V \in SUBSET Nat, IsFiniteSet(V)
    PROVE  \E f : f = [v \in V \cup {0} |-> NextOf(V, f, v)] /\ Walk(V) = f[0]
<1> DEFINE f == CHOOSE f : f = [v \in V \cup {0} |-> NextOf(V, f, v)]
<1>1. f = [v \in V \cup {0} |-> NextOf(V, f, v)]
  <2> HIDE DEF f
  <2> QED
    BY WalkExists, Zenon DEF f
<1>2. Walk(V) = f[0]
  BY Zenon DEF Walk, NextOf, Beyond
<1> HIDE DEF f
<1> QED
  BY <1>1, <1>2

\* A list of all of W, in order.
Lists(s, W) ==
    /\ s \in Seq(W)
    /\ \A w \in W : \E i \in DOMAIN s : s[i] = w
    /\ \A i, j \in DOMAIN s : i < j => s[i] < s[j]

\* The least value before a list of the greater ones.
LEMMA ListsMore ==
    ASSUME NEW W \in SUBSET Nat, NEW a \in Nat, \A w \in W : a < w, NEW s, Lists(s, W)
    PROVE  Lists(<<a>> \o s, {a} \cup W)
<1> DEFINE t == <<a>> \o s
<1>1. s \in Seq(W) /\ Len(s) \in Nat
  BY DEF Lists
<1>2. t \in Seq({a} \cup W) /\ Len(t) = Len(s) + 1
  <2>1. s \in Seq({a} \cup W) /\ <<a>> \in Seq({a} \cup W)
    BY <1>1
  <2> QED
    BY <2>1
<1>3. t[1] = a /\ \A i \in 1..Len(s) : t[i + 1] = s[i]
  BY <1>1
<1>4. \A i \in 1..Len(t) : i # 1 => i - 1 \in 1..Len(s) /\ t[i] = s[i - 1]
  BY <1>1, <1>2, <1>3
<1> HIDE DEF t
<1>5. ASSUME NEW w \in {a} \cup W PROVE \E i \in DOMAIN t : t[i] = w
  <2>1. CASE w = a
    BY <2>1, <1>1, <1>2, <1>3
  <2>2. CASE w \in W
    <3>1. PICK i \in 1..Len(s) : s[i] = w
      BY <2>2, <1>1 DEF Lists
    <3> QED
      BY <3>1, <1>1, <1>2, <1>3
  <2> QED
    BY <2>1, <2>2
<1>6. ASSUME NEW i \in 1..Len(t), NEW j \in 1..Len(t), i < j PROVE t[i] < t[j]
  <2>1. j - 1 \in 1..Len(s) /\ t[j] = s[j - 1] /\ s[j - 1] \in W
    BY <1>1, <1>4, <1>6
  <2>2. CASE i = 1
    BY <2>1, <2>2, <1>3
  <2>3. CASE i # 1
    <3>1. i - 1 \in 1..Len(s) /\ t[i] = s[i - 1] /\ i - 1 < j - 1
      BY <2>1, <2>3, <1>4, <1>6
    <3> QED
      BY <2>1, <3>1, <1>1 DEF Lists
  <2> QED
    BY <2>2, <2>3
<1> QED
  BY <1>2, <1>5, <1>6 DEF Lists, t

\* The index scan lists every value once, in order.
LEMMA WalkLists ==
    ASSUME NEW V \in SUBSET (Nat \ {0}), IsFiniteSet(V)
    PROVE  Lists(Walk(V), V)
<1>1. PICK f : f = [v \in V \cup {0} |-> NextOf(V, f, v)] /\ Walk(V) = f[0]
  BY WalkIs
<1> DEFINE size(v) == Cardinality(Beyond(V, v))
           N == {n \in Nat : \A v \in V \cup {0} : size(v) <= n => Lists(f[v], Beyond(V, v))}
<1>2. ASSUME NEW v \in V \cup {0} PROVE size(v) \in Nat /\ IsFiniteSet(Beyond(V, v)) /\ f[v] = NextOf(V, f, v)
  BY <1>1, FS_Subset, FS_CardinalityType DEF Beyond
<1>3. ASSUME NEW v \in V \cup {0}, Beyond(V, v) = {} PROVE Lists(f[v], Beyond(V, v))
  <2>1. f[v] = <<>>
    BY <1>2, <1>3 DEF NextOf
  <2>2. Lists(<<>>, {})
    <3>1. <<>> \in Seq({}) /\ DOMAIN <<>> = 1..0 /\ 1..0 = {}
      OBVIOUS
    <3> QED
      BY <3>1 DEF Lists
  <2> QED
    BY <2>1, <2>2, <1>3
<1>4. ASSUME NEW v \in V \cup {0}, NEW a \in V, Beyond(V, v) # {}, a = Min(Beyond(V, v)),
             Lists(f[a], Beyond(V, a))
      PROVE  Lists(f[v], Beyond(V, v))
  <2>1. f[v] = <<a>> \o f[a]
    BY <1>2, <1>4 DEF NextOf
  <2>2. Beyond(V, v) = {a} \cup Beyond(V, a)
    BY <1>4, FewerBeyond
  <2>3. a \in Nat /\ Beyond(V, a) \in SUBSET Nat /\ \A w \in Beyond(V, a) : a < w
    BY DEF Beyond
  <2>4. Lists(<<a>> \o f[a], {a} \cup Beyond(V, a))
    BY <2>3, <1>4, ListsMore
  <2> QED
    BY <2>1, <2>2, <2>4, Zenon
<1>5. 0 \in N
  <2>1. ASSUME NEW v \in V \cup {0}, size(v) <= 0 PROVE Beyond(V, v) = {}
    <3>1. size(v) = 0
      BY <1>2, <2>1
    <3> QED
      BY <3>1, <1>2, FS_EmptySet
  <2> QED
    BY <2>1, <1>3
<1>6. ASSUME NEW n \in N PROVE n + 1 \in N
  <2>1. ASSUME NEW v \in V \cup {0}, size(v) <= n + 1 PROVE Lists(f[v], Beyond(V, v))
    <3>1. CASE Beyond(V, v) = {}
      BY <3>1, <1>3
    <3>2. CASE Beyond(V, v) # {}
      <4>1. PICK a : a = Min(Beyond(V, v))
        OBVIOUS
      <4>2. a \in V /\ size(a) < size(v) /\ size(a) \in Nat /\ size(v) \in Nat
        BY <3>2, <4>1, FewerBeyond DEF Beyond
      <4>3. size(a) <= n
        BY <4>2, <2>1
      <4>4. Lists(f[a], Beyond(V, a))
        BY <4>2, <4>3
      <4> QED
        BY <4>1, <4>2, <4>4, <3>2, <1>4
    <3> QED
      BY <3>1, <3>2
  <2> QED
    BY <2>1
<1>7. N = Nat
  <2> HIDE DEF N
  <2> QED
    BY <1>5, <1>6, Inductive DEF N
<1>8. size(0) \in N
  BY <1>2, <1>7
<1>9. Lists(f[0], Beyond(V, 0))
  <2> size(0) <= size(0)
    BY <1>2
  <2> QED
    BY <1>8
<1>10. Beyond(V, 0) = V
  <2>1. \A v \in V : v \in Nat /\ v # 0 /\ v > 0
    OBVIOUS
  <2> QED
    BY <2>1 DEF Beyond
<1> QED
  BY <1>1, <1>9, <1>10

-----------------------------------------------------------------------------
\* The steps.

\* The pool, before and after a step.
LEMMA Pool ==
    ASSUME names \in Seq(Names), names' \in Seq(Names)
    PROVE  /\ Cardinality(Running) \in Nat /\ Cardinality(Running') \in Nat
           /\ Running' \subseteq Running => Cardinality(Running') <= Cardinality(Running)
           /\ \A i : Running' \subseteq Running \cup {i} => Cardinality(Running') <= Cardinality(Running) + 1
           /\ InUse = busy + (IF scanning THEN 1 ELSE 0) + Cardinality(Running)
           /\ InUse' = busy' + (IF scanning' THEN 1 ELSE 0) + Cardinality(Running')
<1>1. Running \subseteq 1..Len(names) /\ Running' \subseteq 1..Len(names')
  BY DEF Running, Indices
<1>2. IsFiniteSet(1..Len(names)) /\ IsFiniteSet(1..Len(names'))
  BY FS_Interval
<1>3. IsFiniteSet(Running) /\ IsFiniteSet(Running')
  BY <1>1, <1>2, FS_Subset
<1>4. Cardinality(Running) \in Nat /\ Cardinality(Running') \in Nat
  BY <1>3, FS_CardinalityType
<1>5. Running' \subseteq Running => Cardinality(Running') <= Cardinality(Running)
  BY <1>3, FS_Subset
<1>6. ASSUME NEW i, Running' \subseteq Running \cup {i}
      PROVE  Cardinality(Running') <= Cardinality(Running) + 1
  <2>1. /\ IsFiniteSet(Running \cup {i})
        /\ Cardinality(Running \cup {i}) = IF i \in Running THEN Cardinality(Running) ELSE Cardinality(Running) + 1
    BY <1>3, FS_AddElement
  <2>2. Cardinality(Running') <= Cardinality(Running \cup {i})
    BY <2>1, <1>6, FS_Subset
  <2> QED
    BY <2>1, <2>2, <1>4
<1>7. InUse = busy + (IF scanning THEN 1 ELSE 0) + Cardinality(Running)
  BY Zenon DEF InUse
<1>8. InUse' = busy' + (IF scanning' THEN 1 ELSE 0) + Cardinality(Running')
  BY Zenon DEF InUse
<1> QED
  BY <1>4, <1>5, <1>6, <1>7, <1>8, Zenon

LEMMA InitInv == Init => IInv
<1> SUFFICES ASSUME Init PROVE IInv
  OBVIOUS
<1>1. names \in Seq(Names) /\ Indices = {} /\ Len(names) = 0
  BY DEF Init, Indices
<1>2. InUse <= PoolSize
  <2>1. Running = {}
    BY <1>1 DEF Running
  <2>2. InUse = busy + 0 + 0
    BY <2>1, FS_EmptySet DEF Init, InUse
  <2>3. busy \in Nat /\ busy <= PoolSize
    BY CatalogAssumption DEF Init
  <2> QED
    BY <2>2, <2>3
<1>3. TypeOK
  <2>1. <<>> \in [{} -> TaskStates] /\ <<>> \in [{} -> SUBSET Services] /\ DOMAIN <<>> = {}
    OBVIOUS
  <2>2. task \in [Indices -> TaskStates] /\ found \in [Indices -> SUBSET Services] /\ DOMAIN out = {}
    BY <1>1, <2>1 DEF Init
  <2> QED
    BY <1>1, <1>2, <2>2 DEF Init, TypeOK
<1> QED
  BY <1>1, <1>3 DEF Init, IInv, ShapeInv, LiveInv, OutInv, StableInv, SeenInv, CauseInv, AllOrNothing, Indices

\* Points come and go.
LEMMA ChangeInv ==
    ASSUME IInv, NEW t \in SUBSET (Names \X Services), Change(t)
    PROVE  IInv'
<1>1. /\ names' = names /\ Indices' = Indices /\ task' = task /\ out' = out /\ handler' = handler
      /\ scanning' = scanning /\ found' = found /\ broken' = broken
  BY DEF Change, Indices
<1>2. /\ gone \subseteq gone' /\ gone' \subseteq Names
      /\ seen \subseteq seen' /\ seen' \subseteq Names \X Services
      /\ handler = "join" => t \subseteq seen'
  BY DEF IInv, ShapeInv, TypeOK, Change
<1>3. InUse' = InUse
  BY DEF Change, InUse, Indices, Running
<1>4. TypeOK'
  BY <1>1, <1>2, <1>3 DEF IInv, ShapeInv, TypeOK, Change
<1>5. ShapeInv' /\ LiveInv'
  BY <1>1, <1>4 DEF IInv, ShapeInv, LiveInv
<1>6. OutInv'
  BY <1>1 DEF IInv, OutInv, Entry
<1>7. StableInv'
  BY <1>1 DEF IInv, StableInv, Change
<1>8. CauseInv'
  <2>1. ASSUME handler = "join", NEW i \in Indices, PointsOf(names[i])' = {} PROVE names[i] \in gone'
    <3>1. names[i] \in Names
      BY DEF IInv, ShapeInv, TypeOK, Indices
    <3>2. ASSUME NEW s \in Services PROVE <<names[i], s>> \notin t
      BY <1>1, <2>1 DEF PointsOf, Change
    <3> QED
      BY <2>1, <3>1, <3>2 DEF Change
  <2> QED
    BY <1>1, <1>2, <2>1 DEF IInv, CauseInv
<1>9. AllOrNothing'
  BY <1>1, <1>2 DEF IInv, AllOrNothing
<1>10. SeenInv'
  BY <1>1, <1>2 DEF IInv, SeenInv, Change
<1> QED
  BY <1>5, <1>6, <1>7, <1>8, <1>9, <1>10 DEF IInv

\* Another query starts or ends, or the scan takes or gives back its connection.
LEMMA ConnectionInv ==
    ASSUME IInv, OtherQuery \/ OtherQueryEnds \/ ScanStarts \/ ScanLeftDone
    PROVE  IInv'
<1>1. /\ names' = names /\ task' = task /\ out' = out /\ table' = table
      /\ found' = found /\ broken' = broken /\ stable' = stable /\ seen' = seen /\ gone' = gone
      /\ \/ handler' = handler /\ scanning' = scanning
         \/ handler = "wait" /\ handler' = "scan" /\ scanning' = TRUE
         \/ handler' = handler /\ scanning' = FALSE
  BY DEF OtherQuery, OtherQueryEnds, ScanStarts, ScanLeftDone, history, env
<1>2. Indices' = Indices /\ Running' = Running
  BY <1>1 DEF Indices, Running
<1>3. busy' \in 0..PoolSize /\ InUse' <= PoolSize
  <2>1. names \in Seq(Names) /\ busy \in 0..PoolSize /\ InUse <= PoolSize /\ PoolSize \in Nat
    BY CatalogAssumption DEF IInv, ShapeInv, TypeOK
  <2>2. /\ Cardinality(Running) \in Nat
        /\ InUse = busy + (IF scanning THEN 1 ELSE 0) + Cardinality(Running)
        /\ InUse' = busy' + (IF scanning' THEN 1 ELSE 0) + Cardinality(Running)
    BY <1>1, <1>2, <2>1, Pool
  <2>3. CASE OtherQuery
    BY <2>1, <2>2, <2>3 DEF OtherQuery, Free
  <2>4. CASE OtherQueryEnds
    BY <2>1, <2>2, <2>4 DEF OtherQueryEnds
  <2>5. CASE ScanStarts
    BY <2>1, <2>2, <2>5 DEF ScanStarts, Free, env
  <2>6. CASE ScanLeftDone
    BY <2>1, <2>2, <2>6 DEF ScanLeftDone, env
  <2> QED
    BY <2>3, <2>4, <2>5, <2>6
<1>4. ShapeInv' /\ LiveInv'
  BY <1>1, <1>2, <1>3 DEF IInv, ShapeInv, TypeOK, LiveInv
<1>5. OutInv' /\ StableInv' /\ SeenInv' /\ CauseInv' /\ AllOrNothing'
  BY <1>1, <1>2 DEF IInv, OutInv, Entry, StableInv, SeenInv, CauseInv, PointsOf, AllOrNothing
<1> QED
  BY <1>4, <1>5 DEF IInv

\* A task goes on, or what is left of it: what it read is what is there, and a
\* failure leaves an error.
LEMMA TaskInv ==
    ASSUME IInv, NEW i \in Indices, NEW from, NEW to, Move(i, from, to),
           from \in {"wait_info", "info", "wait_services", "services", "left"},
           to \in {"info", "wait_services", "services", "ready", "error", "left", "aborted"},
           to \in {"info", "services"} => Free,
           to = "left" => from \in {"info", "services"},
           IF to = "ready" THEN found' = [found EXCEPT ![i] = {p[2] : p \in PointsOf(names[i])}]
                           ELSE found' = found,
           to = "error" => broken' \/ names[i] \in gone \/ handler # "join",
           broken' = broken \/ (broken' = TRUE /\ to = "error")
    PROVE  IInv'
<1>0. broken \in BOOLEAN /\ broken' \in BOOLEAN /\ (broken => broken')
  BY DEF IInv, ShapeInv, TypeOK
<1>1. /\ names' = names /\ out' = out /\ table' = table /\ busy' = busy
      /\ stable' = stable /\ seen' = seen /\ gone' = gone /\ handler' = handler /\ scanning' = scanning
      /\ task[i] = from /\ task' = [task EXCEPT ![i] = to]
  BY DEF Move, history, env
<1>2. handler \in {"join", "failed", "cancelled"}
  <2>1. handler \in {"wait", "scan", "join", "ok", "failed", "cancelled"}
    BY DEF IInv, ShapeInv, TypeOK, Ended
  <2>2. handler \in {"wait", "scan"} => Indices = {}
    BY DEF IInv, ShapeInv, Indices
  <2> QED
    BY <1>1, <2>1, <2>2 DEF IInv, LiveInv
<1>3. names \in Seq(Names) /\ task \in [Indices -> TaskStates] /\ found \in [Indices -> SUBSET Services]
  BY DEF IInv, ShapeInv, TypeOK
<1>4. Indices' = Indices /\ \A n : PointsOf(n)' = PointsOf(n)
  BY <1>1 DEF Indices, PointsOf
<1>5. task' \in [Indices -> TaskStates]
  BY <1>1, <1>3 DEF TaskStates
<1>6. \A p \in PointsOf(names[i]) : p[2] \in Services
  BY DEF PointsOf, IInv, ShapeInv, TypeOK
<1>7. found' \in [Indices -> SUBSET Services]
  BY <1>3, <1>6
<1>8. InUse' <= PoolSize
  <2> DEFINE scan == IF scanning THEN 1 ELSE 0
  <2>1. /\ Cardinality(Running) \in Nat /\ Cardinality(Running') \in Nat
        /\ Running' \subseteq Running => Cardinality(Running') <= Cardinality(Running)
        /\ Running' \subseteq Running \cup {i} => Cardinality(Running') <= Cardinality(Running) + 1
        /\ InUse = busy + scan + Cardinality(Running)
        /\ InUse' = busy + scan + Cardinality(Running')
    <3>1. names' \in Seq(Names) /\ busy' = busy /\ scanning' = scanning
      BY <1>1, <1>3
    <3> QED
      BY <3>1, <1>3, Pool
  <2>2. InUse <= PoolSize /\ busy \in Nat /\ PoolSize \in Nat /\ scan \in Nat
    BY CatalogAssumption DEF IInv, ShapeInv, TypeOK
  <2>3. CASE to \in {"info", "services"}
    <3>1. Running' \subseteq Running \cup {i}
      BY <1>1, <1>3, <1>4 DEF Running
    <3>2. InUse < PoolSize
      BY <2>3 DEF Free
    <3> HIDE DEF scan
    <3> QED
      BY <3>1, <3>2, <2>1, <2>2
  <2>4. CASE to \notin {"info", "services"}
    <3>1. Running' \subseteq Running
      BY <1>1, <1>3, <1>4, <2>4 DEF Running
    <3> HIDE DEF scan
    <3> QED
      BY <3>1, <2>1, <2>2
  <2> QED
    BY <2>3, <2>4
<1>9. ShapeInv'
  BY <1>0, <1>1, <1>4, <1>5, <1>7, <1>8 DEF IInv, ShapeInv, TypeOK
<1>10. LiveInv'
  BY <1>1, <1>2 DEF LiveInv
<1>11. OutInv'
  <2>1. ASSUME NEW j \in Indices, task'[j] = "joined" PROVE out'[j] = Entry(j)'
    <3>1. j # i /\ task[j] = "joined"
      BY <1>1, <1>3, <2>1
    <3>2. found'[j] = found[j]
      BY <3>1, <1>3
    <3> QED
      BY <3>1, <3>2, <1>1 DEF IInv, OutInv, Entry
  <2> QED
    BY <2>1, <1>4 DEF OutInv
<1>12. StableInv'
  <2>1. ASSUME handler = "join", NEW p \in stable, NEW j \in Indices, task'[j] \in {"ready", "joined"}, names[j] = p[1]
        PROVE  p[2] \in found'[j]
    <3>1. CASE j = i
      <4>1. to = "ready" /\ found'[i] = {q[2] : q \in PointsOf(names[i])}
        BY <3>1, <1>1, <1>3, <2>1
      <4>2. p \in PointsOf(names[i])
        BY <2>1, <3>1 DEF PointsOf, IInv, StableInv
      <4> QED
        BY <4>1, <4>2, <3>1
    <3>2. CASE j # i
      <4>1. task'[j] = task[j] /\ found'[j] = found[j]
        BY <3>2, <1>1, <1>3
      <4> QED
        BY <4>1, <2>1 DEF IInv, StableInv
    <3> QED
      BY <3>1, <3>2
  <2> QED
    BY <2>1, <1>1, <1>2, <1>4 DEF IInv, StableInv
<1>13. SeenInv'
  <2>1. ASSUME handler = "join", NEW j \in Indices, task'[j] \in {"ready", "joined"}
        PROVE  (\A s \in found'[j] : <<names[j], s>> \in seen) /\ (found'[j] = {} => names[j] \in gone)
    <3>1. CASE j = i
      <4>1. to = "ready" /\ found'[i] = {q[2] : q \in PointsOf(names[i])}
        BY <3>1, <1>1, <1>3, <2>1
      <4>2. \A q \in PointsOf(names[i]) : q = <<names[i], q[2]>> /\ q \in seen
        BY <2>1 DEF PointsOf, IInv, ShapeInv, TypeOK, SeenInv
      <4>3. PointsOf(names[i]) = {} => names[i] \in gone
        BY <2>1 DEF IInv, CauseInv
      <4> QED
        BY <3>1, <4>1, <4>2, <4>3
    <3>2. CASE j # i
      <4>1. task'[j] = task[j] /\ found'[j] = found[j]
        BY <3>2, <1>1, <1>3
      <4> QED
        BY <4>1, <2>1 DEF IInv, SeenInv
    <3> QED
      BY <3>1, <3>2
  <2> QED
    BY <2>1, <1>1, <1>2, <1>4 DEF IInv, SeenInv
<1>14. CauseInv'
  <2>1. ASSUME handler = "join", NEW j \in Indices, task'[j] = "error" PROVE broken' \/ names[j] \in gone
    <3>1. CASE j = i
      BY <3>1, <1>1, <1>3, <2>1
    <3>2. CASE j # i
      BY <3>2, <1>0, <1>1, <1>3, <2>1 DEF IInv, CauseInv
    <3> QED
      BY <3>1, <3>2
  <2>2. ASSUME handler = "join", broken' PROVE \E j \in Indices : task'[j] = "error"
    <3>1. CASE to = "error"
      BY <3>1, <1>1, <1>3
    <3>2. CASE to # "error"
      <4>1. PICK j \in Indices : task[j] = "error"
        BY <3>2, <2>2 DEF IInv, CauseInv
      <4> QED
        BY <4>1, <1>1, <1>3
    <3> QED
      BY <3>1, <3>2
  <2> QED
    BY <2>1, <2>2, <1>1, <1>2, <1>4 DEF IInv, CauseInv
<1>15. AllOrNothing'
  BY <1>0, <1>1, <1>2, <1>4 DEF IInv, AllOrNothing
<1> QED
  BY <1>9, <1>10, <1>11, <1>12, <1>13, <1>14, <1>15 DEF IInv

\* The call ends: tasks are dropped, and what they sent still runs.
LEMMA ReturnInv ==
    ASSUME IInv, NEW result \in Ended, Return(result),
           UNCHANGED <<env, names, found, out, history>>,
           scanning' = scanning \/ scanning' = FALSE,
           broken' \in BOOLEAN, broken => broken',
           result = "ok" => /\ handler = "join" /\ broken' = broken
                            /\ \A i \in Indices : task[i] = "joined",
           result = "failed" => broken' \/ \E i \in Indices : names[i] \in gone
    PROVE  IInv'
<1>1. /\ names' = names /\ out' = out /\ table' = table /\ busy' = busy /\ found' = found
      /\ stable' = stable /\ seen' = seen /\ gone' = gone /\ handler' = result
  BY DEF Return, history, env
<1>2. names \in Seq(Names) /\ task \in [Indices -> TaskStates]
  BY DEF IInv, ShapeInv, TypeOK
<1>3. Indices' = Indices /\ \A n : PointsOf(n)' = PointsOf(n)
  BY <1>1 DEF Indices, PointsOf
<1>4. PICK polled \in SUBSET Live :
        task' = [i \in Indices |-> IF i \in polled THEN task[i] ELSE Dropped(task[i])]
  BY DEF Return
<1>5. ASSUME NEW i \in Indices
      PROVE  /\ task'[i] \in TaskStates
             /\ task'[i] \in {"info", "services", "left"} => task[i] \in {"info", "services", "left"}
             /\ task'[i] = "joined" <=> task[i] = "joined"
  <2>1. task[i] \in TaskStates /\ task'[i] \in {task[i], Dropped(task[i])}
    BY <1>2, <1>4
  <2> QED
    BY <2>1 DEF TaskStates, Dropped
<1>6. task' \in [Indices -> TaskStates]
  <2>1. DOMAIN task' = Indices /\ task' = [i \in Indices |-> task'[i]]
    BY <1>4
  <2> QED
    BY <2>1, <1>5
<1>7. result \notin {"wait", "scan", "join"}
  BY DEF Ended
<1>8. InUse' <= PoolSize
  <2>1. Running' \subseteq Running
    <3> SUFFICES ASSUME NEW j \in Running' PROVE j \in Running
      OBVIOUS
    <3>1. j \in Indices /\ task'[j] \in {"info", "services", "left"}
      BY <1>3 DEF Running
    <3> QED
      BY <3>1, <1>5 DEF Running
  <2>2. busy \in Nat /\ InUse <= PoolSize /\ PoolSize \in Nat
    BY CatalogAssumption DEF IInv, ShapeInv, TypeOK
  <2>3. /\ Cardinality(Running) \in Nat /\ Cardinality(Running') \in Nat
        /\ Cardinality(Running') <= Cardinality(Running)
        /\ InUse = busy + (IF scanning THEN 1 ELSE 0) + Cardinality(Running)
        /\ InUse' = busy + (IF scanning' THEN 1 ELSE 0) + Cardinality(Running')
    BY <1>1, <1>2, <2>1, Pool
  <2> QED
    BY <2>2, <2>3
<1>9. ShapeInv'
  <2>1. scanning' \in BOOLEAN
    BY DEF IInv, ShapeInv, TypeOK
  <2> QED
    BY <2>1, <1>1, <1>3, <1>6, <1>7, <1>8 DEF IInv, ShapeInv, TypeOK
<1>10. LiveInv'
  BY <1>1, <1>3, <1>5 DEF LiveInv
<1>11. OutInv'
  <2>1. \A i : Entry(i)' = Entry(i)
    BY <1>1 DEF Entry
  <2> QED
    BY <2>1, <1>1, <1>3, <1>5 DEF IInv, OutInv
<1>12. StableInv'
  BY <1>1, <1>3, <1>5, <1>7 DEF IInv, StableInv
<1>13. SeenInv'
  BY <1>1, <1>3, <1>5, <1>7 DEF IInv, SeenInv
<1>14. CauseInv'
  BY <1>1, <1>7 DEF CauseInv
<1>15. AllOrNothing'
  <2>1. result = "ok" => ~ broken'
    <3> SUFFICES ASSUME result = "ok", broken PROVE FALSE
      OBVIOUS
    <3>1. PICK i \in Indices : task[i] = "error"
      BY DEF IInv, CauseInv
    <3> QED
      BY <3>1
  <2> QED
    BY <2>1, <1>1, <1>3 DEF AllOrNothing
<1> QED
  BY <1>9, <1>10, <1>11, <1>12, <1>13, <1>14, <1>15 DEF IInv

\* The scan finds each name once, in order, and the tasks are spawned.
LEMMA ScanInv ==
    ASSUME IInv, ScanDone
    PROVE  IInv'
<1> DEFINE V == {p[1] : p \in table}
<1>1. /\ names' = Walk(V) /\ stable' = table /\ seen' = table
      /\ handler' = "join" /\ handler = "scan" /\ scanning' = FALSE
      /\ table' = table /\ busy' = busy /\ gone' = gone /\ broken' = broken
      /\ task' = [i \in Indices' |-> "wait_info"]
      /\ found' = [i \in Indices' |-> {}]
      /\ out' = [i \in Indices' |-> Nothing]
  BY DEF ScanDone, Indices, env
<1>2. V \subseteq Names
  BY DEF IInv, ShapeInv, TypeOK
<1>3. Lists(names', V)
  <2>1. V \in SUBSET (Nat \ {0}) /\ IsFiniteSet(V)
    BY <1>2, CatalogAssumption, FS_Subset
  <2> HIDE DEF V
  <2> QED
    BY <2>1, <1>1, WalkLists
<1>4. names' \in Seq(V) /\ names' \in Seq(Names) /\ names \in Seq(Names)
  BY <1>2, <1>3 DEF Lists, IInv, ShapeInv, TypeOK
<1>5. InUse' <= PoolSize
  <2>1. Running' = {}
    BY <1>1 DEF Running
  <2>2. Running' \subseteq Running
    BY <2>1
  <2>3. busy \in Nat /\ InUse <= PoolSize /\ PoolSize \in Nat
    BY CatalogAssumption DEF IInv, ShapeInv, TypeOK
  <2>4. /\ Cardinality(Running) \in Nat /\ Cardinality(Running') \in Nat
        /\ Cardinality(Running') <= Cardinality(Running)
        /\ InUse = busy + (IF scanning THEN 1 ELSE 0) + Cardinality(Running)
        /\ InUse' = busy + 0 + Cardinality(Running')
    BY <1>1, <1>4, <2>2, Pool
  <2> QED
    BY <2>3, <2>4
<1>6. TypeOK'
  BY <1>1, <1>4, <1>5 DEF IInv, ShapeInv, TypeOK, TaskStates
<1>7. ShapeInv'
  BY <1>1, <1>3, <1>6 DEF ShapeInv, Lists, Indices
<1>8. LiveInv' /\ OutInv'
  BY <1>1 DEF LiveInv, OutInv
<1>9. StableInv'
  <2>1. ASSUME NEW p \in table PROVE \E i \in Indices' : names'[i] = p[1]
    <3>1. p[1] \in V
      OBVIOUS
    <3> QED
      BY <3>1, <1>3 DEF Lists, Indices
  <2> QED
    BY <2>1, <1>1 DEF StableInv
<1>10. CauseInv'
  <2>1. ASSUME NEW i \in Indices' PROVE PointsOf(names[i])' # {}
    <3>1. names'[i] \in V
      BY <1>4 DEF Indices
    <3>2. PICK p \in table : p[1] = names'[i]
      BY <3>1
    <3> QED
      BY <3>2, <1>1 DEF PointsOf
  <2>2. ~ broken
    BY <1>1 DEF IInv, CauseInv
  <2> QED
    BY <2>1, <2>2, <1>1 DEF CauseInv
<1>11. AllOrNothing'
  BY <1>1 DEF AllOrNothing
<1>12. SeenInv'
  <2>1. ASSUME NEW i \in Indices' PROVE \E p \in table : p[1] = names'[i]
    <3>1. names'[i] \in V
      BY <1>4 DEF Indices
    <3> QED
      BY <3>1
  <2> QED
    BY <2>1, <1>1 DEF SeenInv
<1> QED
  BY <1>7, <1>8, <1>9, <1>10, <1>11, <1>12 DEF IInv

\* A result is put where its name is in the list.
LEMMA JoinInv ==
    ASSUME IInv, NEW i \in Indices, JoinReady(i)
    PROVE  IInv'
<1>1. /\ names' = names /\ table' = table /\ busy' = busy /\ found' = found /\ broken' = broken
      /\ stable' = stable /\ seen' = seen /\ gone' = gone
      /\ handler = "join" /\ handler' = "join" /\ scanning' = scanning
      /\ task[i] = "ready" /\ task' = [task EXCEPT ![i] = "joined"]
      /\ out' = [out EXCEPT ![i] = Entry(i)]
  BY DEF JoinReady, Slot, Entry, history, env
<1>2. names \in Seq(Names) /\ task \in [Indices -> TaskStates] /\ found \in [Indices -> SUBSET Services]
  BY DEF IInv, ShapeInv, TypeOK
<1>3. Indices' = Indices /\ (\A n : PointsOf(n)' = PointsOf(n)) /\ \A j : Entry(j)' = Entry(j)
  BY <1>1 DEF Indices, PointsOf, Entry
<1>4. task' \in [Indices -> TaskStates]
  BY <1>1, <1>2 DEF TaskStates
<1>5. Entry(i) \in [name : Names, services : SUBSET Services]
  BY <1>2 DEF Entry, Indices
<1>6. InUse' <= PoolSize
  <2>1. Running' = Running
    BY <1>1, <1>2, <1>3 DEF Running
  <2>2. names' \in Seq(Names) /\ InUse <= PoolSize
    BY <1>1, <1>2 DEF IInv, ShapeInv, TypeOK
  <2>3. InUse' = InUse
    BY <1>1, <1>2, <2>1, <2>2, Pool
  <2> QED
    BY <2>2, <2>3
<1>7. DOMAIN out' = Indices
  BY <1>1 DEF IInv, ShapeInv
<1>8. \A j \in DOMAIN out' : out'[j] = Nothing \/ out'[j] \in [name : Names, services : SUBSET Services]
  BY <1>1, <1>5 DEF IInv, ShapeInv, TypeOK
<1>9. ShapeInv'
  BY <1>1, <1>3, <1>4, <1>6, <1>7, <1>8 DEF IInv, ShapeInv, TypeOK
<1>10. LiveInv'
  BY <1>1 DEF LiveInv
<1>11. OutInv'
  <2>1. ASSUME NEW j \in Indices, task'[j] = "joined" PROVE out'[j] = Entry(j)
    <3>1. CASE j = i
      BY <3>1, <1>1 DEF IInv, ShapeInv
    <3>2. CASE j # i
      BY <3>2, <1>1, <1>2, <2>1 DEF IInv, ShapeInv, OutInv
    <3> QED
      BY <3>1, <3>2
  <2> QED
    BY <2>1, <1>3 DEF OutInv
<1>12. StableInv'
  <2>1. \A j \in Indices : task'[j] \in {"ready", "joined"} => task[j] \in {"ready", "joined"}
    BY <1>1, <1>2
  <2> QED
    BY <2>1, <1>1, <1>3 DEF IInv, StableInv
<1>13. CauseInv'
  <2>1. \A j \in Indices : task'[j] = "error" <=> task[j] = "error"
    BY <1>1, <1>2
  <2> QED
    BY <2>1, <1>1, <1>3 DEF IInv, CauseInv
<1>14. AllOrNothing'
  BY <1>1 DEF AllOrNothing
<1>15. SeenInv'
  <2>1. \A j \in Indices : task'[j] \in {"ready", "joined"} => task[j] \in {"ready", "joined"}
    BY <1>1, <1>2
  <2> QED
    BY <2>1, <1>1, <1>3 DEF IInv, SeenInv
<1> QED
  BY <1>9, <1>10, <1>11, <1>12, <1>13, <1>14, <1>15 DEF IInv

LEMMA NextInv == IInv /\ [Next]_vars => IInv'
<1> SUFFICES ASSUME IInv, [Next]_vars PROVE IInv'
  OBVIOUS
<1>0. broken \in BOOLEAN
  BY DEF IInv, ShapeInv, TypeOK
<1>1. CASE Export \/ Sweep
  <2>1. ASSUME NEW p \in Names \X Services, Change(table \cup {p}) PROVE IInv'
    <3>1. table \cup {p} \in SUBSET (Names \X Services)
      BY DEF IInv, ShapeInv, TypeOK
    <3> QED
      BY <2>1, <3>1, ChangeInv
  <2>2. ASSUME NEW p \in table, Change(table \ {p}) PROVE IInv'
    <3>1. table \ {p} \in SUBSET (Names \X Services)
      BY DEF IInv, ShapeInv, TypeOK
    <3> QED
      BY <2>2, <3>1, ChangeInv
  <2> QED
    BY <1>1, <2>1, <2>2 DEF Export, Sweep
<1>2. CASE OtherQuery \/ OtherQueryEnds \/ ScanStarts
  BY <1>2, ConnectionInv
<1>3. CASE ScanFails
  BY <1>0, <1>3, ReturnInv DEF ScanFails, Ended
<1>4. CASE ScanDone
  BY <1>4, ScanInv
<1>5. ASSUME NEW i \in Indices, JoinReady(i) PROVE IInv'
  BY <1>5, JoinInv
<1>6. ASSUME NEW i \in Indices, JoinError(i) PROVE IInv'
  <2>1. broken' = broken /\ (broken \/ names[i] \in gone)
    BY <1>6 DEF JoinError, IInv, CauseInv
  <2> QED
    BY <1>0, <1>6, <2>1, ReturnInv DEF JoinError, Ended
<1>7. CASE AllJoined
  BY <1>0, <1>7, ReturnInv DEF AllJoined, Ended
<1>8. CASE Cancel
  BY <1>0, <1>8, ReturnInv DEF Cancel, Ended
<1>11. CASE ScanLeftDone
  BY <1>11, ConnectionInv
<1>12. ASSUME NEW i \in Indices, PollEnds(i) PROVE IInv'
  <2>1. /\ task[i] \in {"wait_info", "info", "wait_services", "services"}
        /\ Move(i, task[i], Dropped(task[i])) /\ found' = found /\ broken' = broken
    BY <1>12 DEF PollEnds, Live
  <2>2. CASE task[i] \in {"wait_info", "wait_services"}
    <3>1. Dropped(task[i]) = "aborted"
      BY <2>2 DEF Dropped
    <3> QED
      BY <2>1, <3>1, TaskInv
  <2>3. CASE task[i] \in {"info", "services"}
    <3>1. Dropped(task[i]) = "left"
      BY <2>3 DEF Dropped
    <3> QED
      BY <2>1, <2>3, <3>1, TaskInv
  <2> QED
    BY <2>1, <2>2, <2>3
<1>13. ASSUME NEW i \in Indices, LeftDone(i) PROVE IInv'
  BY <1>13, TaskInv DEF LeftDone
<1>9. ASSUME NEW i \in Indices, Task(i) PROVE IInv'
  <2>1. CASE InfoStarts(i)
    BY <1>0, <2>1, TaskInv DEF InfoStarts
  <2>2. CASE InfoFound(i)
    BY <1>0, <2>2, TaskInv DEF InfoFound
  <2>3. CASE InfoMissing(i)
    <3>1. task[i] = "info" /\ PointsOf(names[i]) = {}
      BY <2>3 DEF InfoMissing, Move
    <3>2. names[i] \in gone \/ handler # "join"
      BY <3>1 DEF IInv, CauseInv
    <3> QED
      BY <1>0, <2>3, <3>2, TaskInv DEF InfoMissing
  <2>4. CASE ServicesStart(i)
    BY <1>0, <2>4, TaskInv DEF ServicesStart
  <2>5. CASE ServicesFound(i)
    BY <1>0, <2>5, TaskInv DEF ServicesFound
  <2>6. CASE TaskFails(i)
    BY <1>0, <2>6, TaskInv DEF TaskFails
  <2> QED
    BY <1>9, <2>1, <2>2, <2>3, <2>4, <2>5, <2>6 DEF Task
<1>10. CASE UNCHANGED vars
  <2>1. /\ names' = names /\ task' = task /\ out' = out /\ table' = table /\ busy' = busy
        /\ found' = found /\ broken' = broken /\ stable' = stable /\ seen' = seen /\ gone' = gone
        /\ handler' = handler /\ scanning' = scanning
    BY <1>10 DEF vars
  <2>2. /\ Indices' = Indices /\ InUse' = InUse /\ (\A n : PointsOf(n)' = PointsOf(n))
    BY <2>1 DEF Indices, InUse, Running, PointsOf
  <2>3. ShapeInv' /\ LiveInv'
    BY <2>1, <2>2 DEF IInv, ShapeInv, TypeOK, LiveInv
  <2>4. OutInv' /\ StableInv' /\ SeenInv' /\ CauseInv' /\ AllOrNothing'
    BY <2>1, <2>2 DEF IInv, OutInv, Entry, StableInv, SeenInv, CauseInv, AllOrNothing
  <2> QED
    BY <2>3, <2>4 DEF IInv
<1> QED
  BY <1>1, <1>2, <1>3, <1>4, <1>5, <1>6, <1>7, <1>8, <1>9, <1>10, <1>11, <1>12, <1>13
     DEF Next, Handler, Others

LEMMA Invariance == Spec => []IInv
<1> QED
  BY InitInv, NextInv, PTL DEF Spec

-----------------------------------------------------------------------------
\* The theorems.

\* Every variable stays in its range, and however many tasks compete with other
\* queries, the pool is never overdrawn.
THEOREM TypeCorrect == Spec => []TypeOK
<1>1. IInv => TypeOK
  BY DEF IInv, ShapeInv
<1> QED
  BY <1>1, Invariance, PTL

\* An answer has its metrics once each and by name, whatever order the tasks
\* were joined in.
THEOREM ListingInOrder == Spec => []AnswerInOrder
<1>1. ASSUME IInv PROVE AnswerInOrder
  <2> SUFFICES ASSUME handler = "ok", NEW i \in DOMAIN out, NEW j \in DOMAIN out, i < j
               PROVE  out[i] # Nothing /\ out[j] # Nothing /\ out[i].name < out[j].name
    BY DEF AnswerInOrder
  <2>1. i \in Indices /\ j \in Indices /\ names[i] < names[j]
    BY <1>1 DEF IInv, ShapeInv
  <2>2. ASSUME NEW k \in Indices PROVE out[k] # Nothing /\ out[k].name = names[k]
    <3>1. out[k] = Entry(k)
      BY <1>1 DEF IInv, LiveInv, OutInv
    <3>2. Entry(k) \in [name : Names, services : SUBSET Services]
      BY <1>1 DEF IInv, ShapeInv, TypeOK, Entry, Indices
    <3> QED
      BY <3>1, <3>2, NothingAssumption DEF Entry
  <2> QED
    BY <2>1, <2>2
<1> QED
  BY <1>1, Invariance, PTL

\* Every metric and service there during the whole call is in its answer.
THEOREM StableListed == Spec => []StableAreListed
<1>1. ASSUME IInv PROVE StableAreListed
  <2> SUFFICES ASSUME handler = "ok", NEW p \in stable
               PROVE  \E i \in DOMAIN out : out[i] # Nothing /\ out[i].name = p[1] /\ p[2] \in out[i].services
    BY DEF StableAreListed
  <2>1. PICK i \in Indices : names[i] = p[1]
    BY <1>1 DEF IInv, StableInv
  <2>2. task[i] = "joined" /\ out[i] = Entry(i)
    BY <1>1 DEF IInv, LiveInv, OutInv
  <2>3. p[2] \in found[i]
    BY <1>1, <2>1, <2>2 DEF IInv, StableInv
  <2>4. Entry(i) \in [name : Names, services : SUBSET Services]
    BY <1>1 DEF IInv, ShapeInv, TypeOK, Entry, Indices
  <2>5. out[i] # Nothing /\ out[i].name = p[1] /\ p[2] \in out[i].services
    BY <2>1, <2>2, <2>3, <2>4, NothingAssumption DEF Entry
  <2> QED
    BY <2>5, <1>1 DEF IInv, ShapeInv
<1> QED
  BY <1>1, Invariance, PTL

\* Whatever fails while a listing reads fails it, and nothing else does but a
\* metric that lost its points.
THEOREM FailsAsAWhole == Spec => []AllOrNothing
<1>1. IInv => AllOrNothing
  BY DEF IInv
<1> QED
  BY <1>1, Invariance, PTL

\* Every metric and service of an answer was there at some time during the call.
THEOREM NothingInvented == Spec => []EntriesWereThere
<1>1. ASSUME IInv PROVE EntriesWereThere
  <2> SUFFICES ASSUME handler = "ok", NEW i \in DOMAIN out
               PROVE  /\ \E p \in seen : p[1] = out[i].name
                      /\ \A s \in out[i].services : <<out[i].name, s>> \in seen
                      /\ out[i].services = {} => out[i].name \in gone
    BY DEF EntriesWereThere
  <2>1. i \in Indices /\ task[i] = "joined" /\ out[i] = Entry(i)
    BY <1>1 DEF IInv, ShapeInv, LiveInv, OutInv
  <2>2. out[i].name = names[i] /\ out[i].services = found[i]
    BY <2>1 DEF Entry
  <2> QED
    BY <1>1, <2>1, <2>2 DEF IInv, SeenInv
<1> QED
  BY <1>1, Invariance, PTL
=============================================================================
