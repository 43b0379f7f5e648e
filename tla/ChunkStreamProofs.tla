-------------------------- MODULE ChunkStreamProofs --------------------------
(***************************************************************************)
(* Safety of ChunkStream for answers, chunks and channels of any size.  The *)
(* inductive invariant says where each message in the channel starts: the   *)
(* j-th begins j - 1 whole chunks after what the client has.  Only the last *)
(* chunk of the answer can be short, and nothing follows it.                *)
(***************************************************************************)
EXTENDS ChunkStream, Integers, TLAPS

Start(j) == Len(received) + (j - 1) * ChunkSize

\* The channel carries on where the client stands, and ends where the task
\* does.
QueueInv ==
    /\ Len(received) <= at
    /\ body = "open" => at = IF Start(Len(queue) + 1) <= N
                             THEN Start(Len(queue) + 1) ELSE N
    /\ \A j \in 1..Len(queue) : Start(j) < N /\ queue[j] = Message(Start(j))
    /\ body = "dropped" => queue = <<>>

\* The task stops at the end or when nobody listens; the call has not ended
\* while the body is open.
TaskInv ==
    /\ task = "done" => at = N \/ body = "dropped"
    /\ body = "open" => status = "none"

IInv == TypeOK /\ QueueInv /\ TaskInv /\ ReceivedIsPrefix /\ EndIsTruthful

\* A message is either Broken, or the run of positions of its chunk.
LEMMA MessageShape ==
    ASSUME NEW x \in Nat, x < N, corrupt \subseteq 1..N
    PROVE  /\ ChunkEnd(x) \in (x + 1)..N
           /\ ChunkEnd(x) <= x + ChunkSize
           /\ Message(x) \in (Seq(1..N) \ {<<>>}) \cup {Broken}
           /\ Message(x) = Broken
                => (x + 1)..(x + ChunkSize) \cap corrupt # {}
           /\ Message(x) # Broken
                => /\ Message(x) = [i \in 1..(ChunkEnd(x) - x) |-> x + i]
                   /\ Message(x) \in Seq(1..N)
                   /\ Len(Message(x)) = ChunkEnd(x) - x
                   /\ (x + 1)..ChunkEnd(x) \cap corrupt = {}
<1> USE SizesAssumption, BrokenAssumption
<1>1. /\ ChunkEnd(x) \in (x + 1)..N
      /\ ChunkEnd(x) <= x + ChunkSize
  BY DEF ChunkEnd
<1> DEFINE run == [i \in 1..(ChunkEnd(x) - x) |-> x + i]
<1>2. /\ run \in Seq(1..N)
      /\ Len(run) = ChunkEnd(x) - x
      /\ run # <<>>
  <2>1. ChunkEnd(x) - x \in Nat \ {0}
    BY <1>1
  <2>2. \A i \in 1..(ChunkEnd(x) - x) : x + i \in 1..N
    BY <1>1
  <2>3. run \in [1..(ChunkEnd(x) - x) -> 1..N]
    BY <2>2
  <2>4. run \in Seq(1..N) /\ Len(run) = ChunkEnd(x) - x
    BY <2>1, <2>3, SMT
  <2> QED
    BY <2>1, <2>4
<1>3. run # Broken
  BY <1>2
<1>4. CASE (x + 1)..ChunkEnd(x) \cap corrupt # {}
  <2>1. Message(x) = Broken
    BY <1>4 DEF Message
  <2>2. (x + 1)..ChunkEnd(x) \subseteq (x + 1)..(x + ChunkSize)
    BY <1>1
  <2> QED
    BY <1>1, <1>4, <2>1, <2>2
<1>5. CASE (x + 1)..ChunkEnd(x) \cap corrupt = {}
  <2>1. Message(x) = run
    BY <1>5 DEF Message
  <2> QED
    BY <1>1, <1>2, <1>3, <1>5, <2>1
<1> QED
  BY <1>4, <1>5

\* Where the elements of a concatenation come from.
LEMMA Concatenated ==
    ASSUME NEW S, NEW s \in Seq(S), NEW t \in Seq(S), NEW i \in 1..(Len(s) + Len(t))
    PROVE  (s \o t)[i] = IF i <= Len(s) THEN s[i] ELSE t[i - Len(s)]
OBVIOUS

LEMMA InitIInv == Init => IInv
<1> SUFFICES ASSUME Init PROVE IInv
  OBVIOUS
<1> USE SizesAssumption
<1>1. received = <<>> /\ queue = <<>> /\ at = 0 /\ body = "open"
  BY DEF Init
<1>2. Len(received) = 0 /\ Len(queue) = 0
  BY <1>1
<1>3. TypeOK
  BY <1>1, <1>2 DEF Init, TypeOK
<1>4. QueueInv
  BY <1>1, <1>2 DEF QueueInv, Start
<1>5. TaskInv /\ EndIsTruthful
  BY DEF Init, TaskInv, EndIsTruthful
<1>6. ReceivedIsPrefix
  BY <1>1, <1>2 DEF ReceivedIsPrefix
<1> QED
  BY <1>3, <1>4, <1>5, <1>6 DEF IInv

LEMMA NextIInv == IInv /\ [Next]_vars => IInv'
<1> SUFFICES ASSUME IInv, [Next]_vars PROVE IInv'
  OBVIOUS
<1> USE SizesAssumption
<1>0. TypeOK /\ QueueInv /\ TaskInv /\ ReceivedIsPrefix /\ EndIsTruthful
  BY DEF IInv
<1>a. /\ Len(received) \in Nat /\ Len(queue) \in Nat /\ at \in 0..N
      /\ corrupt \subseteq 1..N
  BY <1>0 DEF TypeOK
<1>1. CASE Produce
  <2>1. /\ at < N /\ body = "open" /\ Len(queue) < Capacity
        /\ queue' = Append(queue, Message(at))
        /\ at' = ChunkEnd(at)
        /\ UNCHANGED <<corrupt, task, body, received, status>>
    BY <1>1 DEF Produce
  <2>2. at = Start(Len(queue) + 1)
    BY <1>0, <2>1 DEF QueueInv
  <2>3. /\ at' \in (at + 1)..N
        /\ at' = IF at + ChunkSize <= N THEN at + ChunkSize ELSE N
        /\ Message(at) \in (Seq(1..N) \ {<<>>}) \cup {Broken}
    BY <1>a, <2>1, MessageShape DEF ChunkEnd
  <2>4. /\ Len(queue') = Len(queue) + 1
        /\ \A j \in 1..Len(queue) : queue'[j] = queue[j]
        /\ queue'[Len(queue) + 1] = Message(at)
        /\ queue' \in Seq((Seq(1..N) \ {<<>>}) \cup {Broken})
    BY <1>0, <2>1, <2>3 DEF TypeOK
  <2>5. TypeOK'
    BY <1>0, <1>a, <2>1, <2>3, <2>4 DEF TypeOK
  <2>6. \A j \in Nat : Start(j)' = Start(j) /\ Message(Start(j))' = Message(Start(j))
    BY <2>1 DEF Start, Message
  <2>7. Start(Len(queue) + 2) = at + ChunkSize
    BY <1>a, <2>2 DEF Start
  <2>8. QueueInv'
    <3>1. Len(received') <= at'
      BY <1>0, <1>a, <2>1, <2>3 DEF QueueInv
    <3>2. at' = IF Start(Len(queue) + 2) <= N THEN Start(Len(queue) + 2) ELSE N
      BY <2>3, <2>7
    <3>3. Start(Len(queue) + 1)' = Start(Len(queue) + 2)
      BY <1>a, <2>1, <2>4 DEF Start
    <3>4. ASSUME NEW j \in 1..Len(queue')
          PROVE  Start(j)' < N /\ queue'[j] = Message(Start(j))'
      <4>1. CASE j \in 1..Len(queue)
        BY <4>1, <1>0, <1>a, <2>4, <2>6 DEF QueueInv
      <4>2. CASE j = Len(queue) + 1
        BY <4>2, <1>a, <2>1, <2>2, <2>4, <2>6
      <4> QED
        BY <1>a, <2>4, <4>1, <4>2
    <3> QED
      BY <2>1, <3>1, <3>2, <3>3, <3>4 DEF QueueInv
  <2>9. TaskInv' /\ ReceivedIsPrefix' /\ EndIsTruthful'
    BY <1>0, <1>1, <2>1 DEF Produce, TaskInv, ReceivedIsPrefix, EndIsTruthful
  <2> QED
    BY <2>5, <2>8, <2>9 DEF IInv
<1>b. ASSUME UNCHANGED <<corrupt, at, queue, body, received, status>>
      PROVE  QueueInv' /\ ReceivedIsPrefix' /\ EndIsTruthful'
  <2>1. \A j : Start(j)' = Start(j) /\ Message(Start(j))' = Message(Start(j))
    BY <1>b DEF Start, Message
  <2>2. Start(Len(queue) + 1)' = Start(Len(queue) + 1)
    BY <1>b DEF Start
  <2>3. QueueInv'
    BY <1>0, <1>b, <2>1, <2>2 DEF QueueInv
  <2> QED
    BY <1>0, <1>b, <2>3 DEF ReceivedIsPrefix, EndIsTruthful
<1>2. CASE ProducerStops
  <2>1. UNCHANGED <<corrupt, at, queue, body, received, status>>
    BY <1>2 DEF ProducerStops
  <2>2. TypeOK'
    BY <1>0, <1>2, <2>1 DEF ProducerStops, TypeOK
  <2>3. TaskInv'
    BY <1>0, <1>2, <2>1 DEF ProducerStops, TaskInv
  <2> QED
    BY <1>b, <2>1, <2>2, <2>3 DEF IInv
<1>3. CASE Deliver
  <2>1. /\ body = "open" /\ queue # <<>> /\ Head(queue) # Broken
        /\ received' = received \o Head(queue)
        /\ queue' = Tail(queue)
        /\ UNCHANGED <<corrupt, at, task, body, status>>
    BY <1>3 DEF Deliver
  <2> DEFINE x == Len(received)
  <2>2. /\ Len(queue) >= 1
        /\ Head(queue) = queue[1]
        /\ Len(queue') = Len(queue) - 1
        /\ \A j \in 1..Len(queue') : queue'[j] = queue[j + 1]
        /\ queue' \in Seq((Seq(1..N) \ {<<>>}) \cup {Broken})
    BY <1>0, <2>1 DEF TypeOK
  <2>3. x < N /\ Head(queue) = Message(x)
    <3>1. Start(1) < N /\ queue[1] = Message(Start(1))
      BY <1>0, <1>a, <2>2 DEF QueueInv
    <3>2. Start(1) = x
      BY <1>a DEF Start
    <3> QED
      BY <2>2, <3>1, <3>2
  <2>4. /\ ChunkEnd(x) \in (x + 1)..N
        /\ ChunkEnd(x) <= x + ChunkSize
        /\ Head(queue) = [i \in 1..(ChunkEnd(x) - x) |-> x + i]
        /\ Head(queue) \in Seq(1..N)
        /\ Len(Head(queue)) = ChunkEnd(x) - x
        /\ (x + 1)..ChunkEnd(x) \cap corrupt = {}
    BY <1>a, <2>1, <2>3, MessageShape
  <2>5. received' \in Seq(1..N) /\ Len(received') = ChunkEnd(x)
    BY <1>0, <1>a, <2>1, <2>4 DEF TypeOK
  <2>6. TypeOK'
    BY <1>0, <1>a, <2>1, <2>2, <2>5 DEF TypeOK
  <2>7. ReceivedIsPrefix'
    <3>1. \A i \in 1..ChunkEnd(x) : received'[i] = i
      <4> SUFFICES ASSUME NEW i \in 1..ChunkEnd(x) PROVE received'[i] = i
        OBVIOUS
      <4>1. /\ received \in Seq(1..N) /\ Head(queue) \in Seq(1..N)
            /\ x \in Nat /\ ChunkEnd(x) \in Nat
            /\ i \in 1..(x + Len(Head(queue)))
        BY <1>0, <1>a, <2>4 DEF TypeOK
      <4>2. received'[i] = IF i <= x THEN received[i] ELSE Head(queue)[i - x]
        BY <4>1, <2>1, Concatenated
      <4>3. CASE i <= x
        BY <4>1, <4>2, <4>3, <1>0 DEF ReceivedIsPrefix
      <4>4. CASE i > x
        <5>1. received'[i] = Head(queue)[i - x]
          BY <4>1, <4>2, <4>4
        <5>2. i - x \in 1..(ChunkEnd(x) - x)
          BY <4>4, <1>a, <2>4
        <5> QED
          BY <5>1, <5>2, <1>a, <2>4
      <4> QED
        BY <4>3, <4>4, <1>a, <2>4
    <3>2. received' = [i \in 1..Len(received') |-> i]
      BY <2>5, <3>1
    <3>3. corrupt \cap 1..ChunkEnd(x) = {}
      BY <1>0, <1>a, <2>4 DEF ReceivedIsPrefix
    <3> QED
      BY <2>1, <2>5, <3>2, <3>3 DEF ReceivedIsPrefix
  <2>8. QueueInv'
    <3>1. CASE Len(queue) = 1
      <4>1. at = ChunkEnd(x)
        BY <3>1, <1>0, <1>a, <2>1, <2>3 DEF QueueInv, Start, ChunkEnd
      <4>2. Len(queue') = 0 /\ queue' = <<>>
        BY <3>1, <2>2
      <4>3. Start(Len(queue) + 1)' = ChunkEnd(x)
        BY <4>2, <2>4, <2>5 DEF Start
      <4>4. at' = ChunkEnd(x) /\ ChunkEnd(x) <= N /\ body' = "open"
        BY <1>a, <2>1, <2>4, <4>1
      <4>5. \A j \in 1..Len(queue') : FALSE
        BY <4>2
      <4> QED
        BY <2>5, <4>2, <4>3, <4>4, <4>5 DEF QueueInv
    <3>2. CASE Len(queue) # 1
      <4>1. Start(2) < N
        BY <3>2, <1>0, <1>a, <2>2 DEF QueueInv
      <4>2. ChunkEnd(x) = x + ChunkSize
        BY <4>1, <1>a DEF Start, ChunkEnd
      <4>3. \A j \in Nat : Start(j)' = Start(j + 1)
        BY <4>2, <1>a, <2>5 DEF Start
      <4>4. Start(Len(queue) + 1)' = Start(Len(queue) + 1)
        BY <4>3, <1>a, <2>2
      <4>5. Len(received') <= at'
        <5>1. Start(2) <= Start(Len(queue) + 1)
          <6>1. Len(queue) - 1 \in Nat
            BY <1>a, <2>2
          <6>2. (Len(queue) - 1) * ChunkSize >= 0
            BY <6>1
          <6>3. Start(Len(queue) + 1) = Start(2) + (Len(queue) - 1) * ChunkSize
            BY <1>a DEF Start
          <6>4. Start(2) \in Int /\ (Len(queue) - 1) * ChunkSize \in Int
            BY <1>a DEF Start
          <6> QED
            BY <6>2, <6>3, <6>4
        <5>2. Start(2) = ChunkEnd(x)
          BY <4>2, <1>a DEF Start
        <5>3. Start(Len(queue) + 1) \in Int
          BY <1>a DEF Start
        <5>4. at = IF Start(Len(queue) + 1) <= N THEN Start(Len(queue) + 1) ELSE N
          BY <1>0, <2>1 DEF QueueInv
        <5>5. ChunkEnd(x) \in 0..N
          BY <2>4, <1>a
        <5> QED
          BY <2>1, <2>5, <5>1, <5>2, <5>3, <5>4, <5>5
      <4>6. ASSUME NEW j \in 1..Len(queue')
            PROVE  Start(j)' < N /\ queue'[j] = Message(Start(j))'
        <5>1. j \in Nat /\ j + 1 \in 1..Len(queue)
          BY <1>a, <2>2
        <5>2. Message(Start(j))' = Message(Start(j + 1))
          BY <4>3, <5>1, <2>1 DEF Message
        <5> QED
          BY <5>1, <5>2, <4>3, <1>0, <2>1, <2>2 DEF QueueInv
      <4> QED
        BY <1>0, <2>1, <4>4, <4>5, <4>6 DEF QueueInv
    <3> QED
      BY <3>1, <3>2
  <2>9. TaskInv'
    BY <1>0, <2>1 DEF TaskInv
  <2>10. EndIsTruthful'
    BY <1>0, <2>1 DEF EndIsTruthful, TaskInv
  <2> QED
    BY <2>6, <2>7, <2>8, <2>9, <2>10 DEF IInv
<1>4. ASSUME NEW s \in {"ok", "error", "cancelled"}, body = "open", Finish(s),
              s = "ok" => Len(received) = N,
              s = "error" => (Len(received) + 1)..(Len(received) + ChunkSize)
                                \cap corrupt # {}
      PROVE  IInv'
  <2>1. /\ body' = "dropped" /\ queue' = <<>> /\ status' = s
        /\ UNCHANGED <<corrupt, at, task, received>>
    BY <1>4 DEF Finish
  <2>2. TypeOK'
    BY <1>0, <2>1 DEF TypeOK
  <2>3. QueueInv'
    BY <1>0, <2>1 DEF QueueInv
  <2>4. TaskInv' /\ ReceivedIsPrefix'
    BY <1>0, <2>1 DEF TaskInv, ReceivedIsPrefix
  <2>5. EndIsTruthful'
    BY <1>0, <1>4, <1>a, <2>1 DEF EndIsTruthful, ReceivedIsPrefix
  <2> QED
    BY <2>2, <2>3, <2>4, <2>5 DEF IInv
<1>5. CASE Fail
  <2>1. body = "open" /\ queue # <<>> /\ queue[1] = Broken /\ Finish("error")
    BY <1>0, <1>5 DEF Fail, TypeOK
  <2>2. 1 \in 1..Len(queue)
    BY <1>0, <2>1 DEF TypeOK
  <2>3. Start(1) = Len(received)
    BY <1>a DEF Start
  <2>4. Len(received) < N /\ Message(Len(received)) = Broken
    BY <1>0, <2>1, <2>2, <2>3 DEF QueueInv
  <2>5. (Len(received) + 1)..(Len(received) + ChunkSize) \cap corrupt # {}
    BY <1>a, <2>4, MessageShape
  <2> QED
    BY <1>4, <2>1, <2>5
<1>6. CASE Complete
  <2>1. body = "open" /\ queue = <<>> /\ task = "done" /\ Finish("ok")
    BY <1>6 DEF Complete
  <2>2. at = N
    BY <1>0, <2>1 DEF TaskInv
  <2>3. Start(Len(queue) + 1) = Len(received)
    BY <1>a, <2>1 DEF Start
  <2>4. Len(received) = N
    BY <1>0, <1>a, <2>1, <2>2, <2>3 DEF QueueInv
  <2> QED
    BY <1>4, <2>1, <2>4
<1>7. CASE Cancel
  BY <1>4, <1>7 DEF Cancel
<1>8. CASE UNCHANGED vars
  <2>1. UNCHANGED <<corrupt, at, queue, body, received, status>> /\ UNCHANGED task
    BY <1>8 DEF vars
  <2>2. TypeOK'
    BY <1>0, <2>1 DEF TypeOK
  <2>3. TaskInv'
    BY <1>0, <2>1 DEF TaskInv
  <2> QED
    BY <1>b, <2>1, <2>2, <2>3 DEF IInv
<1> QED
  BY <1>1, <1>2, <1>3, <1>5, <1>6, <1>7, <1>8 DEF Next, Quiet

\* The inductive invariant holds in every reachable state.
THEOREM Invariance == Spec => []IInv
  BY InitIInv, NextIInv, PTL DEF Spec

\* Every variable stays in its range and the channel within its capacity, for
\* any answer, chunk size and capacity.
THEOREM TypeCorrect == Spec => []TypeOK
<1>1. IInv => TypeOK
  BY DEF IInv
<1> QED
  BY <1>1, Invariance, PTL

\* What a client has got of a stream is a prefix of the answer, at any time
\* (stream_chunks).
THEOREM StreamIsPrefix == Spec => []ReceivedIsPrefix
<1>1. IInv => ReceivedIsPrefix
  BY DEF IInv
<1> QED
  BY <1>1, Invariance, PTL

\* The way a call ends tells the client whether what it got is all: "ok" only
\* for a complete answer, an error only next to a payload that does not decode
\* (stream_chunks).
THEOREM StreamEndsTruthfully == Spec => []EndIsTruthful
<1>1. IInv => EndIsTruthful
  BY DEF IInv
<1> QED
  BY <1>1, Invariance, PTL
=============================================================================
