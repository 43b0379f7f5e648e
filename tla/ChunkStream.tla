---------------------------- MODULE ChunkStream ----------------------------
(***************************************************************************)
(* Answering a query as a gRPC stream: stream_chunks (logs and metrics) and *)
(* stream_ids (spans, one to a message).  The rows are all in memory; a     *)
(* spawned task decodes them into messages and sends these through a        *)
(* bounded channel, whose receiver is the response body.  The body is done  *)
(* after its first error or when the channel ends; it is dropped then, or   *)
(* when the client goes away, and the channel's contents with it.           *)
(* A message is the sequence of the payloads (their positions) it carries.  *)
(***************************************************************************)
EXTENDS Naturals, FiniteSets, Sequences

CONSTANTS N,          \* payloads the query found
          ChunkSize,  \* CHUNK_SIZE, or 1 for spans
          Capacity,   \* of the channel: 4, or 16 for spans
          Broken      \* the message that stands for Err(Status)

ASSUME SizesAssumption ==
    /\ N \in Nat
    /\ ChunkSize \in Nat \ {0}
    /\ Capacity \in Nat \ {0}
ASSUME BrokenAssumption == Broken \notin Seq(1..N)

VARIABLES corrupt,    \* payloads that do not decode
          at,         \* payloads the task has turned into messages
          queue,      \* messages in the channel
          task,       \* "running", "done"
          body,       \* "open", "dropped"
          received,   \* payloads the client has got, in order
          status      \* how the call ended for the client: "none" before that

vars == <<corrupt, at, queue, task, body, received, status>>

Init ==
    /\ corrupt \in SUBSET (1..N)
    /\ at = 0
    /\ queue = <<>>
    /\ task = "running"
    /\ body = "open"
    /\ received = <<>>
    /\ status = "none"

\* Where the chunk after payload x ends.
ChunkEnd(x) == IF x + ChunkSize <= N THEN x + ChunkSize ELSE N

\* Mutant of Message: what decodes of the chunk, instead of an error.
Message_Partial(x) == SelectSeq([i \in 1..(ChunkEnd(x) - x) |-> x + i],
                                LAMBDA p : p \notin corrupt)

\* merge(chunk): one payload that does not decode takes the chunk with it.
Message(x) == IF (x + 1)..ChunkEnd(x) \cap corrupt # {} THEN Broken
              ELSE [i \in 1..(ChunkEnd(x) - x) |-> x + i]

\* Mutant of Produce: an unbounded channel.
Produce_Unbounded ==
    /\ task = "running"
    /\ at < N
    /\ body = "open"
    /\ queue' = Append(queue, Message(at))
    /\ at' = ChunkEnd(at)
    /\ UNCHANGED <<corrupt, task, body, received, status>>

\* The next message is sent once the channel has room.
Produce ==
    /\ task = "running"
    /\ at < N
    /\ body = "open"
    /\ Len(queue) < Capacity
    /\ queue' = Append(queue, Message(at))
    /\ at' = ChunkEnd(at)
    /\ UNCHANGED <<corrupt, task, body, received, status>>

\* Mutant of ProducerStops: a failed send is ignored and tried again.
ProducerStops_OnlyAtEnd ==
    /\ task = "running"
    /\ at = N
    /\ task' = "done"
    /\ UNCHANGED <<corrupt, at, queue, body, received, status>>

\* All is sent, or send fails because the receiver is gone, even while the
\* task is waiting for room.
ProducerStops ==
    /\ task = "running"
    /\ at = N \/ body = "dropped"
    /\ task' = "done"
    /\ UNCHANGED <<corrupt, at, queue, body, received, status>>

\* The body passes a message on.
Deliver ==
    /\ body = "open"
    /\ queue # <<>>
    /\ Head(queue) # Broken
    /\ received' = received \o Head(queue)
    /\ queue' = Tail(queue)
    /\ UNCHANGED <<corrupt, at, task, body, status>>

\* The body is over: its messages and its receiver go.
Finish(s) ==
    /\ body' = "dropped"
    /\ queue' = <<>>
    /\ status' = s
    /\ UNCHANGED <<corrupt, at, task, received>>

Fail ==
    /\ body = "open"
    /\ queue # <<>>
    /\ Head(queue) = Broken
    /\ Finish("error")

\* Mutant of Complete: the channel is empty, the sender still there.
Complete_WhenEmpty ==
    /\ body = "open"
    /\ queue = <<>>
    /\ Finish("ok")

\* The channel is empty and its sender gone.
Complete ==
    /\ body = "open"
    /\ queue = <<>>
    /\ task = "done"
    /\ Finish("ok")

\* The client cancels, reaches its deadline or disconnects.
Cancel ==
    /\ body = "open"
    /\ Finish("cancelled")

Quiet ==
    /\ task = "done"
    /\ body = "dropped"
    /\ UNCHANGED vars

Next == Produce \/ ProducerStops \/ Deliver \/ Fail \/ Complete \/ Cancel \/ Quiet

\* The task is scheduled, and the client keeps reading or goes away: one that
\* does neither blocks the task, and its rows in memory, for ever.
Fairness ==
    /\ WF_vars(Produce \/ ProducerStops)
    /\ WF_vars(Deliver \/ Fail \/ Complete)

Spec == Init /\ [][Next]_vars
FairSpec == Spec /\ Fairness

-----------------------------------------------------------------------------
\* Properties.

\* Every variable stays in its range; the channel never holds more than its
\* capacity, and an empty message is never sent.
TypeOK ==
    /\ corrupt \subseteq 1..N
    /\ at \in 0..N
    /\ queue \in Seq((Seq(1..N) \ {<<>>}) \cup {Broken})
    /\ Len(queue) <= Capacity
    /\ task \in {"running", "done"}
    /\ body \in {"open", "dropped"}
    /\ received \in Seq(1..N)
    /\ status \in {"none", "ok", "error", "cancelled"}

\* What the client has got is a prefix of the answer: nothing lost, repeated,
\* reordered or decoded from a broken payload, wherever the stream stands.
ReceivedIsPrefix ==
    /\ received = [i \in 1..Len(received) |-> i]
    /\ corrupt \cap 1..Len(received) = {}

\* A stream that ends well was complete; one that ends in an error has
\* delivered every chunk before the broken one.
EndIsTruthful ==
    /\ status = "ok" => Len(received) = N /\ corrupt = {}
    /\ status = "error" =>
          (Len(received) + 1)..(Len(received) + ChunkSize) \cap corrupt # {}

\* The call ends and the task with it, also when the client leaves while the
\* task waits for room.
Ends == <>(status # "none" /\ task = "done")
=============================================================================
