---------------------------- MODULE LogDelivery ----------------------------
(***************************************************************************)
(* What one job sends to the git server: services/log_streamer.rs, with    *)
(* one detached task per chunk of output and a background flusher, and     *)
(* services/event_publisher.rs, with the completion event that the job     *)
(* handler publishes after the last step.                                  *)
(*                                                                         *)
(* A step is what runs under one lock or between two awaits.  Both services *)
(* send with the same retry loop, which is modelled once: the completion   *)
(* event is the batch of the actor Publisher.                              *)
(***************************************************************************)
EXTENDS Integers, Sequences, FiniteSets

CONSTANTS
    Lines,       \* how many chunks of output the job may produce
    MaxRetries,  \* MAX_RETRIES of both services
    Flusher, Publisher, Completion, NoNumber

ASSUME DeliveryAssumption ==
    /\ Lines \in Nat
    /\ MaxRetries \in Nat \ {0}
    /\ NoNumber \notin Nat
    /\ {Flusher, Publisher, Completion} \cap 1 .. Lines = {}
    /\ Flusher # Publisher

VARIABLES
    job,      \* "running" while execute() runs, then "over"
    emitted,  \* chunks read from the daemon so far; chunk i is the i-th
    pc,       \* progress of each actor
    next,     \* the job's entry in sequence_map
    number,   \* sequence number of each chunk
    buffer,   \* LogBuffer.entries
    batch,    \* what each actor is sending
    attempt,  \* requests of that batch that have failed
    stored,   \* how often the git server has taken each item
    settled,  \* items whose batch was acknowledged
    dropped   \* items whose batch was given up

serverVars == <<stored, settled, dropped>>
vars == <<job, emitted, pc, next, number, buffer, batch, attempt, serverVars>>

Chunks == 1 .. Lines
Items == Chunks \cup {Completion}
Actors == Chunks \cup {Flusher, Publisher}

ItemsOf(s) == {s[i] : i \in DOMAIN s}

Init ==
    /\ job = "running"
    /\ emitted = 0
    /\ pc = [a \in Actors |-> "idle"]
    /\ next = 0
    /\ number = [c \in Chunks |-> NoNumber]
    /\ buffer = << >>
    /\ batch = [a \in Actors |-> << >>]
    /\ attempt = [a \in Actors |-> 0]
    /\ stored = [x \in Items |-> 0]
    /\ settled = {}
    /\ dropped = {}

-----------------------------------------------------------------------------
(* The job                                                                 *)

\* The executor reads a chunk and send() spawns a task for it.
Emit ==
    /\ job = "running"
    /\ emitted < Lines
    /\ emitted' = emitted + 1
    /\ pc' = [pc EXCEPT ![emitted + 1] = "spawned"]
    /\ UNCHANGED <<job, next, number, buffer, batch, attempt, serverVars>>

\* execute() returns a result and the handler publishes the completion event,
\* which it awaits.
Publish ==
    /\ job = "running"
    /\ job' = "over"
    /\ pc' = [pc EXCEPT ![Publisher] = "sending"]
    /\ batch' = [batch EXCEPT ![Publisher] = <<Completion>>]
    /\ UNCHANGED <<emitted, next, number, buffer, attempt, serverVars>>

\* execute() returns an error, panics or is aborted: no event.
EndSilently ==
    /\ job = "running"
    /\ job' = "over"
    /\ UNCHANGED <<emitted, pc, next, number, buffer, batch, attempt, serverVars>>

-----------------------------------------------------------------------------
(* send_with_step                                                          *)

\* Faulty variant: the counter is written back by another lock acquisition, so
\* a task may take the number of one that has not pushed its entry yet.
TakeNumberUnlocked(c) ==
    /\ pc[c] = "spawned"
    /\ pc' = [pc EXCEPT ![c] = "numbered"]
    /\ number' = [number EXCEPT ![c] = next]
    /\ next' = IF \E d \in Chunks : pc[d] = "numbered" THEN next ELSE next + 1
    /\ UNCHANGED <<job, emitted, buffer, batch, attempt, serverVars>>

\* Under the lock of sequence_map.
TakeNumber(c) ==
    /\ pc[c] = "spawned"
    /\ pc' = [pc EXCEPT ![c] = "numbered"]
    /\ number' = [number EXCEPT ![c] = next]
    /\ next' = next + 1
    /\ UNCHANGED <<job, emitted, buffer, batch, attempt, serverVars>>

\* Under the lock of the buffer, as are the two that follow.
Push(c) ==
    /\ pc[c] = "numbered"
    /\ pc' = [pc EXCEPT ![c] = "pushed"]
    /\ buffer' = Append(buffer, c)
    /\ UNCHANGED <<job, emitted, next, number, batch, attempt, serverVars>>

\* should_flush: any entry will do, whatever the size of the buffer.
CheckFlush(c) ==
    /\ pc[c] = "pushed"
    /\ pc' = [pc EXCEPT ![c] = IF buffer = << >> THEN "done" ELSE "flushing"]
    /\ UNCHANGED <<job, emitted, next, number, buffer, batch, attempt, serverVars>>

\* Where a task goes that has nothing (more) to send: the flusher waits for its
\* next tick.
Rest(a) == IF a = Flusher THEN "idle" ELSE "done"

\* Faulty variant: the buffer is copied and cleared by a later acquisition.
DrainCopies(a) ==
    /\ IF a = Flusher THEN pc[a] = "idle" /\ buffer # << >> ELSE pc[a] = "flushing"
    /\ pc' = [pc EXCEPT ![a] = IF buffer = << >> THEN Rest(a) ELSE "sending"]
    /\ batch' = [batch EXCEPT ![a] = buffer]
    /\ buffer' = IF \E b \in Actors : pc[b] = "flushing" /\ b # a THEN buffer ELSE << >>
    /\ UNCHANGED <<job, emitted, next, number, attempt, serverVars>>

\* flush() of a chunk's task or of a tick of the flusher: take everything.  A
\* tick that finds the buffer empty does nothing.
Drain(a) ==
    /\ IF a = Flusher THEN pc[a] = "idle" /\ buffer # << >> ELSE pc[a] = "flushing"
    /\ pc' = [pc EXCEPT ![a] = IF buffer = << >> THEN Rest(a) ELSE "sending"]
    /\ batch' = [batch EXCEPT ![a] = buffer]
    /\ buffer' = << >>
    /\ UNCHANGED <<job, emitted, next, number, attempt, serverVars>>

-----------------------------------------------------------------------------
(* send_logs_with_retry and publish_to_http_with_retry                     *)

Store(a) == stored' = [x \in Items |-> IF x \in ItemsOf(batch[a]) THEN stored[x] + 1 ELSE stored[x]]

Finish(a) ==
    /\ pc' = [pc EXCEPT ![a] = Rest(a)]
    /\ batch' = [batch EXCEPT ![a] = << >>]
    /\ attempt' = [attempt EXCEPT ![a] = 0]

GiveUp(a) == Finish(a) /\ dropped' = dropped \cup ItemsOf(batch[a])

\* Faulty variant: the attempts are counted from the wrong end.
RetryForever(a) ==
    /\ attempt' = [attempt EXCEPT ![a] = IF @ < MaxRetries - 1 THEN @ + 1 ELSE 0]
    /\ UNCHANGED <<pc, batch, dropped>>

\* Faulty variant: off by one in the bound.
RetryOnceMore(a) ==
    \/ /\ attempt[a] < MaxRetries
       /\ attempt' = [attempt EXCEPT ![a] = @ + 1]
       /\ UNCHANGED <<pc, batch, dropped>>
    \/ attempt[a] = MaxRetries /\ GiveUp(a)

\* After a network error, 429 or 5xx: back off and try again, or give up.
RetryOrGiveUp(a) ==
    \/ /\ attempt[a] < MaxRetries - 1
       /\ attempt' = [attempt EXCEPT ![a] = @ + 1]
       /\ UNCHANGED <<pc, batch, dropped>>
    \/ attempt[a] = MaxRetries - 1 /\ GiveUp(a)

Frame == UNCHANGED <<job, emitted, next, number, buffer>>

\* Faulty variant: an acknowledged event counts as one more failed attempt.
AcknowledgedRetries(a) ==
    /\ pc[a] = "sending"
    /\ Store(a)
    /\ settled' = settled \cup ItemsOf(batch[a])
    /\ RetryOrGiveUp(a)
    /\ Frame

\* The server takes the batch and the answer arrives.
Acknowledged(a) ==
    /\ pc[a] = "sending"
    /\ Store(a)
    /\ settled' = settled \cup ItemsOf(batch[a])
    /\ Finish(a)
    /\ UNCHANGED dropped
    /\ Frame

\* The server takes the batch and the answer is lost or late.
AnswerLost(a) ==
    /\ pc[a] = "sending"
    /\ Store(a)
    /\ RetryOrGiveUp(a)
    /\ UNCHANGED settled
    /\ Frame

\* The server is unreachable or overloaded.
Unavailable(a) ==
    /\ pc[a] = "sending"
    /\ RetryOrGiveUp(a)
    /\ UNCHANGED <<stored, settled>>
    /\ Frame

\* The server refuses the batch: no retry.
Refused(a) ==
    /\ pc[a] = "sending"
    /\ GiveUp(a)
    /\ UNCHANGED <<stored, settled>>
    /\ Frame

\* cancel_job aborts the handler while it awaits the publisher, during a backoff
\* or a request, which the server may still take: nobody tries the event again
\* or learns what became of it.
AbortPublish ==
    /\ pc[Publisher] = "sending"
    /\ pc' = [pc EXCEPT ![Publisher] = "aborted"]
    /\ batch' = [batch EXCEPT ![Publisher] = << >>]
    /\ attempt' = [attempt EXCEPT ![Publisher] = 0]
    /\ Store(Publisher) \/ UNCHANGED stored
    /\ UNCHANGED <<settled, dropped>>
    /\ Frame

-----------------------------------------------------------------------------

TaskStep(c) == TakeNumber(c) \/ Push(c) \/ CheckFlush(c) \/ Drain(c)

RequestEnds(a) == Acknowledged(a) \/ AnswerLost(a) \/ Unavailable(a) \/ Refused(a)

Next ==
    \/ Emit
    \/ Publish
    \/ EndSilently
    \/ \E c \in Chunks : TaskStep(c)
    \/ Drain(Flusher)
    \/ \E a \in Actors : RequestEnds(a)
    \/ AbortPublish

Spec == Init /\ [][Next]_vars

\* The runtime polls every task, the flusher ticks, and a request whose sender
\* lives ends at the latest with the timeout of the HTTP client.
Fairness ==
    /\ \A c \in Chunks : WF_vars(TaskStep(c))
    /\ WF_vars(Drain(Flusher))
    /\ \A a \in Actors : WF_vars(RequestEnds(a))

FairSpec == Spec /\ Fairness

-----------------------------------------------------------------------------
(* Properties                                                              *)

TypeOK ==
    /\ job \in {"running", "over"}
    /\ emitted \in 0 .. Lines
    /\ pc \in [Actors -> {"idle", "spawned", "numbered", "pushed", "flushing", "sending", "done", "aborted"}]
    /\ next \in 0 .. Lines
    /\ number \in [Chunks -> 0 .. Lines - 1 \cup {NoNumber}]
    /\ buffer \in Seq(Chunks)
    /\ batch \in [Actors -> Seq(Items)]
    /\ attempt \in [Actors -> 0 .. MaxRetries - 1]
    /\ stored \in [Items -> Nat]
    /\ settled \subseteq Items
    /\ dropped \subseteq Items

\* Where the entry of a chunk is: the buffer, a batch, or off the hands of the
\* streamer.
Places(c) ==
    {p \in {"buffer", "settled", "dropped"} :
        \/ p = "buffer" /\ c \in ItemsOf(buffer)
        \/ p = "settled" /\ c \in settled
        \/ p = "dropped" /\ c \in dropped}
    \cup {a \in Actors : c \in ItemsOf(batch[a])}

\* However many flushes run at once, an entry that was pushed is in exactly one
\* place: none is lost between drain and request, none is in two batches.
EntryInOnePlace ==
    \A c \in Chunks :
        Cardinality(Places(c)) = IF pc[c] \in {"idle", "spawned", "numbered"} THEN 0 ELSE 1

\* The numbers given out are distinct and leave no gap, although the tasks of
\* several chunks race for them (log_streamer.rs:94-99).
NumbersDense ==
    /\ \A c, d \in Chunks : c # d /\ number[c] = number[d] => number[c] = NoNumber
    /\ {number[c] : c \in Chunks} \ {NoNumber} = 0 .. next - 1

\* The item has been handed over for sending.
Begun(x) ==
    IF x = Completion THEN pc[Publisher] # "idle"
    ELSE pc[x] \notin {"idle", "spawned", "numbered"}

\* The event, when the handler was aborted while it published it.
Abandoned(x) == x = Completion /\ pc[Publisher] = "aborted"

Fate(x) == IF x \in settled THEN "acknowledged"
           ELSE IF x \in dropped THEN "given up"
           ELSE IF Abandoned(x) THEN "abandoned"
           ELSE IF Begun(x) THEN "open" ELSE "new"

\* Whatever tasks share a batch, each entry and the event is tried at most
\* MaxRetries times, is on the server once it is acknowledged, and is not sent
\* again after it was acknowledged, given up or abandoned
\* (log_streamer.rs:173-198).
Delivery == INSTANCE EntryDelivery WITH
    Attempts <- MaxRetries,
    Fragile <- {Completion},
    fate <- [x \in Items |-> Fate(x)],
    taken <- stored

DeliverySpec == Delivery!Spec

Started(x) == IF x = Completion THEN pc[Publisher] = "sending" ELSE emitted >= x

\* Every chunk that was read is acknowledged or given up in the end, even when
\* its job is over or was cancelled, since the detached tasks outlive it.  So is
\* the event, which the handler sends itself, unless cancel_job aborts the
\* handler before: that is what lets a handler that is left alone return.
EverythingSettles ==
    \A x \in Items : Started(x) ~> (x \in settled \cup dropped \/ Abandoned(x))

=============================================================================
