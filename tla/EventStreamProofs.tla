-------------------------- MODULE EventStreamProofs --------------------------
(***************************************************************************)
(* Proofs about EventStream, for every set of jobs and of connections,     *)
(* every capacity of the channel and every length of the history.          *)
(*                                                                         *)
(* The stored status and the events reach a client on two ways, in either  *)
(* order.  That its last word is right rests on three facts: the store has *)
(* the result that was or will be announced, the last event of a finished  *)
(* job is that result, and a client that was not told of lost events has   *)
(* either read the result or still has an event of the job ahead of it.    *)
(*                                                                         *)
(* The store alone, which the stream begins with, implements JobLifecycle. *)
(***************************************************************************)
EXTENDS EventStream, SequenceTheorems, TLAPS

\* No cancellation was asked for, and the record has not been evicted.
Undisturbed(j) == cancel[j] = "no" /\ stored[j] # "absent"

\* The handler has returned before its result is announced.
HasResult == \A j \in Jobs : stage[j] \in {"ended", "done"} => result[j] \in Results

StoredIsResult ==
    \A j \in Jobs : stage[j] \in {"ended", "done"} /\ Undisturbed(j) => stored[j] = result[j]

IsLastEvent(i, j) ==
    /\ sent[i] = [job |-> j, word |-> Word(result[j])]
    /\ \A k \in i + 1 .. Len(sent) : sent[k].job # j

ResultIsLastEvent ==
    \A j \in Jobs : stage[j] = "done" => \E i \in 1 .. Len(sent) : IsLastEvent(i, j)

\* What c is told next, or was told last, is how its job ended.
Ahead(c) == \E i \in next[c] .. Len(sent) : sent[i].job = Watches[c]

Told(c) == shown[c] # << >> /\ shown[c][Len(shown[c])] \in Says(result[Watches[c]])

AheadOrTold ==
    \A c \in Clients :
        /\ pc[c] = "streaming"
        /\ c \notin lagged
        /\ stage[Watches[c]] = "done"
        /\ Undisturbed(Watches[c])
        => Ahead(c) \/ Told(c)

Inv == TypeOK /\ HasResult /\ StoredIsResult /\ ResultIsLastEvent /\ AheadOrTold

Events == [job : Jobs, word : Words]

-----------------------------------------------------------------------------
(* Lemmas on the channel and the history                                   *)

LEMMA WordsOf == \A s \in Statuses \ {"absent"} : Word(s) \in Words
BY DEF Word, Words

LEMMA AppendedTo ==
    \A S : \A s \in Seq(S), e \in S :
        /\ Append(s, e) \in Seq(S)
        /\ Len(s) \in Nat /\ Len(Append(s, e)) = Len(s) + 1
        /\ \A i \in 1 .. Len(s) : Append(s, e)[i] = s[i]
        /\ Append(s, e)[Len(s) + 1] = e
BY AppendProperties, LenProperties

\* An announcement leaves the earlier events where they are.
LEMMA Announced ==
    ASSUME TypeOK, NEW j \in Jobs, NEW s \in Statuses \ {"absent"}, Announce(j, s)
    PROVE  /\ sent' \in Seq(Events)
           /\ Len(sent) \in Nat /\ Len(sent') = Len(sent) + 1
           /\ \A i \in 1 .. Len(sent) : sent'[i] = sent[i]
           /\ sent'[Len(sent) + 1] = [job |-> j, word |-> Word(s)]
<1> DEFINE e == [job |-> j, word |-> Word(s)]
<1>1. e \in Events /\ sent \in Seq(Events) /\ sent' = Append(sent, e)
  BY WordsOf DEF Events, Announce, TypeOK
<1> HIDE DEF e
<1>2. /\ Append(sent, e) \in Seq(Events)
      /\ Len(sent) \in Nat /\ Len(Append(sent, e)) = Len(sent) + 1
      /\ \A i \in 1 .. Len(sent) : Append(sent, e)[i] = sent[i]
      /\ Append(sent, e)[Len(sent) + 1] = e
  BY <1>1, AppendedTo
<1>3. QED
  BY <1>1, <1>2 DEF e

\* A submission adds its job, and whatever it evicts loses its record.
LEMMA SubmitShape ==
    ASSUME TypeOK, NEW j \in Jobs, Submit(j)
    PROVE  /\ history' \in Seq(Jobs)
           /\ stored' \in [Jobs -> Statuses]
           /\ \A k \in Jobs \ {j} : stored'[k] \in {stored[k], "absent"}
<1> DEFINE all == Append(history, j)
           first == IF Len(all) > MaxHistory THEN Len(all) - MaxHistory + 1 ELSE 1
           kept == SubSeq(all, first, Len(all))
           ids == {kept[i] : i \in DOMAIN kept}
<1>1. history \in Seq(Jobs) /\ stored \in [Jobs -> Statuses] /\ MaxHistory \in Nat
  BY StreamAssumption DEF TypeOK
<1>2. all \in Seq(Jobs) /\ Len(all) \in Nat /\ Len(all) >= 1
  BY <1>1, AppendedTo
<1>3. first \in 1 .. Len(all) + 1
  BY <1>1, <1>2
<1>4. kept \in Seq(Jobs)
  BY <1>2, <1>3, SubSeqProperties
<1>5. /\ history' = kept
      /\ stored' = [k \in Jobs |-> IF k \notin ids THEN "absent" ELSE IF k = j THEN "pending" ELSE stored[k]]
  BY DEF Submit
<1> HIDE DEF kept, ids
<1>6. QED
  BY <1>1, <1>4, <1>5 DEF Statuses

\* Overwriting a status leaves the other jobs alone and makes no record.
LEMMA StatusSet ==
    ASSUME TypeOK, NEW j \in Jobs, NEW s \in Statuses \ {"absent"}, SetStatus(j, s)
    PROVE  /\ stored' \in [Jobs -> Statuses]
           /\ \A k \in Jobs \ {j} : stored'[k] = stored[k]
           /\ stored'[j] # "absent" => stored'[j] = s
           /\ stored'[j] = "absent" <=> stored[j] = "absent"
BY DEF TypeOK, SetStatus

-----------------------------------------------------------------------------
(* Types                                                                   *)

LEMMA InitType == Init => TypeOK /\ HasResult
<1> SUFFICES ASSUME Init PROVE TypeOK /\ HasResult
  OBVIOUS
<1>1. << >> \in Seq(Jobs) /\ << >> \in Seq([job : Jobs, word : Words]) /\ << >> \in Seq(Words)
  OBVIOUS
<1>2. Len(sent) = 0
  BY DEF Init
<1>3. TypeOK
  BY <1>1, <1>2 DEF Init, TypeOK, Stages, Statuses
<1>4. QED
  BY <1>3 DEF Init, HasResult

LEMMA JobStepType ==
    ASSUME TypeOK, HasResult, NEW j \in Jobs,
           Submit(j) \/ Reschedule(j) \/ Task(j) \/ Die(j) \/ AskCancel(j) \/ StoreCancelled(j)
    PROVE  TypeOK' /\ HasResult'
<1> USE DEF clientVars
<1>1. CASE Submit(j)
  <2>1. history' \in Seq(Jobs) /\ stored' \in [Jobs -> Statuses]
    BY <1>1, SubmitShape
  <2>2. /\ stage' = [stage EXCEPT ![j] = "queued"]
        /\ UNCHANGED <<result, cancel, sent, pc, next, shown, lagged>>
    BY <1>1 DEF Submit
  <2>3. QED
    BY <2>1, <2>2 DEF TypeOK, Stages, HasResult
<1>2. CASE Reschedule(j) \/ Die(j)
  BY <1>2 DEF Reschedule, Die, TypeOK, Stages, HasResult
<1>3. CASE StoreRunning(j)
  <2>1. SetStatus(j, "running") /\ "running" \in Statuses \ {"absent"}
    BY <1>3 DEF StoreRunning, Statuses
  <2>2. stored' \in [Jobs -> Statuses]
    BY <2>1, StatusSet
  <2>3. QED
    BY <1>3, <2>2 DEF StoreRunning, TypeOK, Stages, HasResult
<1>4. CASE AnnounceRunning(j)
  <2>1. Announce(j, "running") /\ "running" \in Statuses \ {"absent"}
    BY <1>4 DEF AnnounceRunning, Statuses
  <2>2. sent' \in Seq(Events) /\ Len(sent) \in Nat /\ Len(sent') = Len(sent) + 1
    BY <2>1, Announced
  <2>3. QED
    BY <1>4, <2>2 DEF AnnounceRunning, TypeOK, Stages, Events, HasResult
<1>5. CASE StoreResult(j)
  <2>1. PICK s \in Results : result' = [result EXCEPT ![j] = s] /\ SetStatus(j, s)
    BY <1>5 DEF StoreResult
  <2>2. s \in Statuses \ {"absent"}
    BY DEF Statuses, Results
  <2>3. stored' \in [Jobs -> Statuses]
    BY <2>1, <2>2, StatusSet
  <2>4. QED
    BY <1>5, <2>1, <2>3 DEF StoreResult, TypeOK, Stages, HasResult
<1>6. CASE AnnounceResult(j)
  <2>1. Announce(j, result[j]) /\ result[j] \in Statuses \ {"absent"}
    BY <1>6 DEF AnnounceResult, HasResult, Statuses, Results
  <2>2. sent' \in Seq(Events) /\ Len(sent) \in Nat /\ Len(sent') = Len(sent) + 1
    BY <2>1, Announced
  <2>3. QED
    BY <1>6, <2>2 DEF AnnounceResult, TypeOK, Stages, Events, HasResult
<1>7. CASE AskCancel(j)
  BY <1>7 DEF AskCancel, TypeOK, HasResult
<1>8. CASE StoreCancelled(j)
  <2>1. SetStatus(j, "cancelled") /\ "cancelled" \in Statuses \ {"absent"}
    BY <1>8 DEF StoreCancelled, Statuses
  <2>2. stored' \in [Jobs -> Statuses]
    BY <2>1, StatusSet
  <2>3. QED
    BY <1>8, <2>2 DEF StoreCancelled, TypeOK, HasResult
<1>9. QED
  BY <1>1, <1>2, <1>3, <1>4, <1>5, <1>6, <1>7, <1>8 DEF Task

\* A receiver that lagged moves to a place that is behind the next event, not ahead.
LEMMA ClientStepType ==
    ASSUME TypeOK, HasResult, NEW c \in Clients, Open(c) \/ Stream(c) \/ Disconnect(c)
    PROVE  TypeOK' /\ HasResult'
<1> USE DEF taskVars
<1>0. /\ Len(sent) \in Nat /\ next[c] \in Nat \ {0} /\ next[c] <= Len(sent) + 1
      /\ Capacity \in Nat \ {0} /\ Watches[c] \in Jobs /\ stored[Watches[c]] \in Statuses
      /\ shown[c] \in Seq(Words)
  BY LenProperties, StreamAssumption DEF TypeOK
<1>1. CASE Open(c) \/ Disconnect(c)
  BY <1>1 DEF Open, Disconnect, TypeOK, HasResult
<1>2. CASE Subscribe(c)
  BY <1>0, <1>2 DEF Subscribe, TypeOK, HasResult
<1>3. CASE SendStored(c)
  <2>1. stored[Watches[c]] # "absent" => Append(shown[c], stored[Watches[c]]) \in Seq(Words)
    BY <1>0, AppendedTo DEF Words
  <2>2. shown' \in [Clients -> Seq(Words)]
    BY <1>3, <2>1 DEF SendStored, TypeOK
  <2>3. QED
    BY <1>3, <2>2 DEF SendStored, TypeOK, HasResult
<1>4. CASE Receive(c)
  <2>1. next[c] \in 1 .. Len(sent) /\ next' = [next EXCEPT ![c] = next[c] + 1]
    BY <1>0, <1>4 DEF Receive, Behind
  <2>2. sent[next[c]].word \in Words
    <3>1. sent \in Seq(Events)
      BY DEF TypeOK, Events
    <3>2. sent[next[c]] \in Events
      BY <2>1, <3>1, ElementOfSeq
    <3>3. QED
      BY <3>2 DEF Events
  <2>3. Append(shown[c], sent[next[c]].word) \in Seq(Words)
    BY <1>0, <2>2, AppendedTo
  <2>4. shown' \in [Clients -> Seq(Words)]
    BY <1>4, <2>3 DEF Receive, TypeOK
  <2>5. /\ next' \in [Clients -> Nat \ {0}]
        /\ \A d \in Clients : next'[d] <= Len(sent) + 1
    BY <1>0, <2>1 DEF TypeOK
  <2>6. UNCHANGED <<stage, stored, history, result, cancel, sent, pc, lagged>>
    BY <1>4 DEF Receive
  <2>7. QED
    BY <2>4, <2>5, <2>6 DEF TypeOK, HasResult
<1>5. CASE Lag(c)
  <2>1. Len(sent) - Capacity + 1 \in Nat \ {0} /\ Len(sent) - Capacity + 1 <= Len(sent) + 1
    BY <1>0, <1>5 DEF Lag, Behind
  <2>2. /\ next' \in [Clients -> Nat \ {0}]
        /\ \A d \in Clients : next'[d] <= Len(sent) + 1
    BY <1>5, <2>1 DEF Lag, TypeOK
  <2>3. UNCHANGED <<stage, stored, history, result, cancel, sent, pc, shown>> /\ lagged' \subseteq Clients
    BY <1>5 DEF Lag, TypeOK
  <2>4. QED
    BY <2>2, <2>3 DEF TypeOK, HasResult
<1>6. QED
  BY <1>1, <1>2, <1>3, <1>4, <1>5 DEF Stream

LEMMA NextType == TypeOK /\ HasResult /\ [Next]_vars => TypeOK' /\ HasResult'
<1> SUFFICES ASSUME TypeOK, HasResult, [Next]_vars PROVE TypeOK' /\ HasResult'
  OBVIOUS
<1>1. CASE UNCHANGED vars
  BY <1>1 DEF vars, taskVars, clientVars, TypeOK, HasResult
<1>2. QED
  BY <1>1, JobStepType, ClientStepType DEF Next

\* The variables keep their types; no receiver is ever ahead of the channel, and none
\* falls off its beginning, however often it lags (sse.rs).
THEOREM TypeCorrect == Spec => []TypeOK
<1>1. QED
  BY InitType, NextType, PTL DEF Spec

-----------------------------------------------------------------------------
(* The last word                                                           *)

LEMMA InitInv == Init => Inv
<1> SUFFICES ASSUME Init PROVE Inv
  OBVIOUS
<1>1. /\ \A j \in Jobs : stage[j] = "new"
      /\ \A c \in Clients : pc[c] = "idle"
  BY DEF Init
<1>2. QED
  BY <1>1, InitType DEF Inv, StoredIsResult, ResultIsLastEvent, AheadOrTold

\* The steps of jobs, as far as the store and the results go: only the closure
\* writes the result of its job, and only before it announces it.
LEMMA StoreNext ==
    ASSUME Inv, NEW j \in Jobs,
           Submit(j) \/ Reschedule(j) \/ Task(j) \/ Die(j) \/ AskCancel(j) \/ StoreCancelled(j)
    PROVE  /\ StoredIsResult'
           /\ \A k \in Jobs : stage[k] = "done" => stage'[k] = "done" /\ result'[k] = result[k]
           /\ \A k \in Jobs : stage'[k] = "done" => stage[k] = "done" \/ (k = j /\ AnnounceResult(j))
           /\ \A k \in Jobs : stage[k] = "done" /\ Undisturbed(k)' => Undisturbed(k)
<1> USE DEF Inv, StoredIsResult, Undisturbed
<1>0. TypeOK
  OBVIOUS
<1>1. CASE Submit(j)
  <2>1. \A k \in Jobs \ {j} : stored'[k] \in {stored[k], "absent"}
    BY <1>0, <1>1, SubmitShape
  <2>2. /\ stage[j] = "new" /\ stage' = [stage EXCEPT ![j] = "queued"]
        /\ UNCHANGED <<result, cancel>>
    BY <1>1 DEF Submit
  <2>3. QED
    BY <2>1, <2>2 DEF TypeOK
<1>2. CASE Reschedule(j) \/ Die(j) \/ AskCancel(j)
  BY <1>2 DEF Reschedule, Die, AskCancel, TypeOK
<1>3. CASE StoreRunning(j)
  <2>1. SetStatus(j, "running") /\ "running" \in Statuses \ {"absent"}
    BY <1>3 DEF StoreRunning, Statuses
  <2>2. \A k \in Jobs \ {j} : stored'[k] = stored[k]
    BY <1>0, <2>1, StatusSet
  <2>3. QED
    BY <1>3, <2>2 DEF StoreRunning, TypeOK
<1>4. CASE AnnounceRunning(j) \/ AnnounceResult(j)
  BY <1>4 DEF AnnounceRunning, AnnounceResult, TypeOK
<1>5. CASE StoreResult(j)
  <2>1. PICK s \in Results : result' = [result EXCEPT ![j] = s] /\ SetStatus(j, s)
    BY <1>5 DEF StoreResult
  <2>2. s \in Statuses \ {"absent"}
    BY DEF Statuses, Results
  <2>3. (\A k \in Jobs \ {j} : stored'[k] = stored[k]) /\ (stored'[j] # "absent" => stored'[j] = s)
    BY <1>0, <2>1, <2>2, StatusSet
  <2>4. QED
    BY <1>5, <2>1, <2>3 DEF StoreResult, TypeOK
<1>6. CASE StoreCancelled(j)
  <2>1. SetStatus(j, "cancelled") /\ "cancelled" \in Statuses \ {"absent"}
    BY <1>6 DEF StoreCancelled, Statuses
  <2>2. \A k \in Jobs \ {j} : stored'[k] = stored[k]
    BY <1>0, <2>1, StatusSet
  <2>3. QED
    BY <1>6, <2>2 DEF StoreCancelled, TypeOK
<1>7. QED
  BY <1>1, <1>2, <1>3, <1>4, <1>5, <1>6 DEF Task

\* An announcement comes after every other event, and a job announces nothing after
\* its result.
LEMMA EventsNext ==
    ASSUME Inv, NEW j \in Jobs,
           Submit(j) \/ Reschedule(j) \/ Task(j) \/ Die(j) \/ AskCancel(j) \/ StoreCancelled(j)
    PROVE  /\ ResultIsLastEvent'
           /\ Len(sent) \in Nat /\ Len(sent') \in Nat /\ Len(sent) <= Len(sent')
           /\ \A i \in 1 .. Len(sent) : sent'[i] = sent[i]
           /\ AnnounceResult(j) => Len(sent') = Len(sent) + 1 /\ sent'[Len(sent) + 1].job = j
<1>0. TypeOK /\ Len(sent) \in Nat
  BY LenProperties DEF Inv, TypeOK
<1>1. CASE UNCHANGED sent
  <2>1. ~ AnnounceResult(j)
    <3>1. ASSUME AnnounceResult(j) PROVE Len(sent') = Len(sent) + 1
      <4>1. Announce(j, result[j]) /\ result[j] \in Statuses \ {"absent"}
        BY <3>1 DEF AnnounceResult, Inv, HasResult, Results, Statuses
      <4>2. QED
        BY <1>0, <4>1, Announced
    <3>2. QED
      BY <1>0, <1>1, <3>1
  <2>2. ASSUME NEW k \in Jobs, stage'[k] = "done" PROVE \E i \in 1 .. Len(sent)' : IsLastEvent(i, k)'
    <3>1. stage[k] = "done" /\ result'[k] = result[k]
      BY <2>1, <2>2, StoreNext
    <3>2. PICK i \in 1 .. Len(sent) : IsLastEvent(i, k)
      BY <3>1 DEF Inv, ResultIsLastEvent
    <3>3. IsLastEvent(i, k)'
      BY <1>1, <3>1, <3>2 DEF IsLastEvent
    <3>4. QED
      BY <1>1, <3>3
  <2>3. QED
    BY <1>0, <1>1, <2>1, <2>2 DEF ResultIsLastEvent
<1>2. ASSUME NEW s \in Statuses \ {"absent"}, Announce(j, s), stage[j] # "done",
             stage'[j] = "done" => s = result'[j]
      PROVE  /\ ResultIsLastEvent'
             /\ Len(sent') = Len(sent) + 1 /\ sent'[Len(sent) + 1].job = j
             /\ \A i \in 1 .. Len(sent) : sent'[i] = sent[i]
  <2>1. /\ Len(sent') = Len(sent) + 1
        /\ \A i \in 1 .. Len(sent) : sent'[i] = sent[i]
        /\ sent'[Len(sent) + 1] = [job |-> j, word |-> Word(s)]
    BY <1>0, <1>2, Announced
  <2>2. ASSUME NEW k \in Jobs, stage'[k] = "done" PROVE \E i \in 1 .. Len(sent)' : IsLastEvent(i, k)'
    <3>1. CASE k = j
      <4>1. PICK newest : newest = Len(sent) + 1
        OBVIOUS
      <4>2. newest \in 1 .. Len(sent)' /\ newest + 1 .. Len(sent)' = {}
        BY <1>0, <2>1, <4>1
      <4>3. IsLastEvent(newest, k)'
        BY <1>2, <2>1, <2>2, <3>1, <4>1, <4>2 DEF IsLastEvent
      <4>4. QED
        BY <4>2, <4>3
    <3>2. CASE k # j
      <4>1. stage[k] = "done" /\ result'[k] = result[k]
        BY <2>2, <3>2, StoreNext
      <4>2. PICK i \in 1 .. Len(sent) : IsLastEvent(i, k)
        BY <4>1 DEF Inv, ResultIsLastEvent
      <4>3. IsLastEvent(i, k)'
        BY <1>0, <2>1, <3>2, <4>1, <4>2 DEF IsLastEvent
      <4>4. QED
        BY <1>0, <2>1, <4>3
    <3>3. QED
      BY <3>1, <3>2
  <2>3. QED
    BY <2>1, <2>2 DEF ResultIsLastEvent
<1>3. CASE AnnounceRunning(j)
  BY <1>0, <1>2, <1>3 DEF AnnounceRunning, Statuses, TypeOK
<1>4. CASE AnnounceResult(j)
  BY <1>0, <1>2, <1>4 DEF AnnounceResult, Statuses, Results, Inv, HasResult
<1>5. CASE ~ (AnnounceRunning(j) \/ AnnounceResult(j))
  <2>1. UNCHANGED sent
    BY <1>5 DEF Submit, Reschedule, Task, StoreRunning, StoreResult, Die, AskCancel, StoreCancelled
  <2>2. QED
    BY <1>1, <2>1
<1>6. QED
  BY <1>0, <1>3, <1>4, <1>5

LEMMA JobStepInv ==
    ASSUME Inv, NEW j \in Jobs,
           Submit(j) \/ Reschedule(j) \/ Task(j) \/ Die(j) \/ AskCancel(j) \/ StoreCancelled(j)
    PROVE  Inv'
<1>1. TypeOK' /\ HasResult' /\ StoredIsResult' /\ ResultIsLastEvent'
  BY JobStepType, StoreNext, EventsNext DEF Inv
<1>2. UNCHANGED <<pc, next, shown, lagged>>
  BY DEF Submit, Reschedule, Task, StoreRunning, AnnounceRunning, StoreResult, AnnounceResult,
         Die, AskCancel, StoreCancelled, clientVars
<1>3. AheadOrTold'
  <2> SUFFICES ASSUME NEW c \in Clients, pc'[c] = "streaming", c \notin lagged',
                      stage'[Watches[c]] = "done", Undisturbed(Watches[c])'
               PROVE  Ahead(c)' \/ Told(c)'
    BY DEF AheadOrTold
  <2>0. Watches[c] \in Jobs /\ next[c] \in Nat \ {0} /\ next[c] <= Len(sent) + 1
    BY StreamAssumption DEF Inv, TypeOK
  <2>1. /\ Len(sent) \in Nat /\ Len(sent') \in Nat /\ Len(sent) <= Len(sent')
        /\ \A i \in 1 .. Len(sent) : sent'[i] = sent[i]
    BY EventsNext
  <2>2. CASE stage[Watches[c]] = "done"
    <3>1. Undisturbed(Watches[c]) /\ result'[Watches[c]] = result[Watches[c]]
      BY <2>0, <2>2, StoreNext
    <3>2. Ahead(c) \/ Told(c)
      BY <1>2, <2>2, <3>1 DEF Inv, AheadOrTold
    <3>3. Ahead(c) => Ahead(c)'
      BY <1>2, <2>0, <2>1 DEF Ahead
    <3>4. Told(c) => Told(c)'
      BY <1>2, <3>1 DEF Told
    <3>5. QED
      BY <3>2, <3>3, <3>4
  <2>3. CASE stage[Watches[c]] # "done"
    <3>1. Len(sent') = Len(sent) + 1 /\ sent'[Len(sent) + 1].job = Watches[c]
      BY <2>0, <2>3, StoreNext, EventsNext
    <3>2. QED
      BY <1>2, <2>0, <2>1, <3>1 DEF Ahead
  <2>4. QED
    BY <2>2, <2>3
<1>4. QED
  BY <1>1, <1>3 DEF Inv

\* The last entry of what a client was shown.
LEMMA ShownLast ==
    \A s \in Seq(Words), w \in Words :
        Append(s, w) # << >> /\ Append(s, w)[Len(Append(s, w))] = w
BY AppendProperties, LenProperties

LEMMA ClientStepInv ==
    ASSUME Inv, NEW c \in Clients, Open(c) \/ Stream(c) \/ Disconnect(c)
    PROVE  Inv'
<1>1. /\ TypeOK' /\ HasResult'
      /\ UNCHANGED <<stage, stored, history, result, cancel, sent>>
  BY ClientStepType DEF Inv, Open, Stream, Subscribe, SendStored, Receive, Lag, Disconnect, taskVars
<1>2. StoredIsResult' /\ ResultIsLastEvent'
  BY <1>1 DEF Inv, StoredIsResult, Undisturbed, ResultIsLastEvent, IsLastEvent
<1>3. AheadOrTold'
  <2> SUFFICES ASSUME NEW d \in Clients, pc'[d] = "streaming", d \notin lagged',
                      stage'[Watches[d]] = "done", Undisturbed(Watches[d])'
               PROVE  Ahead(d)' \/ Told(d)'
    BY DEF AheadOrTold
  <2>0. /\ TypeOK
        /\ Watches[d] \in Jobs /\ next[d] \in Nat \ {0} /\ shown[d] \in Seq(Words)
        /\ stage[Watches[d]] = "done" /\ Undisturbed(Watches[d])
        /\ result[Watches[d]] \in Results
        /\ Len(sent) \in Nat
    BY <1>1, StreamAssumption, LenProperties DEF Inv, TypeOK, Undisturbed, HasResult
  <2>1. PICK last \in 1 .. Len(sent) : IsLastEvent(last, Watches[d])
    BY <2>0 DEF Inv, ResultIsLastEvent
  <2>2. CASE d # c \/ Open(c) \/ Subscribe(c) \/ Disconnect(c) \/ Lag(c)
    <3>1. /\ pc[d] = "streaming" /\ d \notin lagged
          /\ next'[d] = next[d] /\ shown'[d] = shown[d]
      BY <2>0, <2>2
      DEF Open, Stream, Subscribe, SendStored, Receive, Lag, Disconnect, TypeOK
    <3>2. Ahead(d) \/ Told(d)
      BY <2>0, <3>1 DEF Inv, AheadOrTold
    <3>3. QED
      BY <1>1, <3>1, <3>2 DEF Ahead, Told
  <2>3. CASE d = c /\ SendStored(c)
    <3>1. /\ stored[Watches[d]] = result[Watches[d]]
          /\ stored[Watches[d]] # "absent" /\ stored[Watches[d]] \in Words
      BY <2>0 DEF Inv, StoredIsResult, Undisturbed, Results, Statuses, Words
    <3>2. shown'[d] = Append(shown[d], result[Watches[d]])
      BY <2>0, <2>3, <3>1 DEF SendStored, TypeOK
    <3>3. shown'[d] # << >> /\ shown'[d][Len(shown'[d])] = result[Watches[d]]
      BY <2>0, <3>1, <3>2, ShownLast
    <3>4. QED
      BY <1>1, <3>3 DEF Told, Says
  <2>4. CASE d = c /\ Receive(c)
    <3>1. /\ next[d] \in 1 .. Len(sent) /\ next'[d] = next[d] + 1
          /\ pc[d] = "streaming" /\ d \notin lagged
          /\ shown'[d] = IF sent[next[d]].job = Watches[d]
                         THEN Append(shown[d], sent[next[d]].word) ELSE shown[d]
      BY <2>0, <2>4, StreamAssumption DEF Receive, Behind, TypeOK
    <3>2. CASE last > next[d]
      BY <1>1, <2>0, <2>1, <3>1, <3>2 DEF IsLastEvent, Ahead
    <3>3. CASE last = next[d]
      <4>1. /\ sent[next[d]].job = Watches[d]
            /\ sent[next[d]].word = Word(result[Watches[d]])
            /\ Word(result[Watches[d]]) \in Words
        BY <2>0, <2>1, <3>3, WordsOf DEF IsLastEvent, Results, Statuses
      <4>2. /\ shown'[d] # << >>
            /\ shown'[d][Len(shown'[d])] = Word(result[Watches[d]])
        BY <2>0, <3>1, <4>1, ShownLast
      <4>3. QED
        BY <1>1, <4>2 DEF Told, Says
    <3>4. CASE last < next[d]
      <4>1. \A i \in next[d] .. Len(sent) : sent[i].job # Watches[d]
        BY <2>0, <2>1, <3>4 DEF IsLastEvent
      <4>2. ~ Ahead(d) /\ shown'[d] = shown[d]
        BY <3>1, <4>1 DEF Ahead
      <4>3. Told(d)
        BY <2>0, <3>1, <4>2 DEF Inv, AheadOrTold
      <4>4. QED
        BY <1>1, <4>2, <4>3 DEF Told
    <3>5. QED
      BY <2>0, <3>2, <3>3, <3>4
  <2>5. QED
    BY <2>2, <2>3, <2>4 DEF Stream
<1>4. QED
  BY <1>1, <1>2, <1>3 DEF Inv

LEMMA NextInv == Inv /\ [Next]_vars => Inv'
<1> SUFFICES ASSUME Inv, [Next]_vars PROVE Inv'
  OBVIOUS
<1>1. CASE UNCHANGED vars
  BY <1>1, NextType
  DEF vars, taskVars, clientVars, Inv, StoredIsResult, Undisturbed, ResultIsLastEvent, IsLastEvent,
      AheadOrTold, Ahead, Told
<1>2. QED
  BY <1>1, JobStepInv, ClientStepInv DEF Next

\* A client that has read everything and was not told of lost events was last told how
\* its job ended, although the stored status overtakes the events that were sent before
\* it and an announcement may follow a status that is newer (sse.rs).
THEOREM LastWordHolds == Spec => []LastWordIsRight
<1>1. Inv => LastWordIsRight
  <2> SUFFICES ASSUME Inv, NEW c \in Clients, pc[c] = "streaming", c \notin lagged, Behind(c) = 0,
                      stage[Watches[c]] = "done", Undisturbed(Watches[c])
               PROVE  Told(c)
    BY DEF LastWordIsRight, Undisturbed, Told
  <2>1. next[c] = Len(sent) + 1 /\ Len(sent) \in Nat
    BY LenProperties DEF Inv, TypeOK, Behind
  <2>2. ~ Ahead(c)
    BY <2>1 DEF Ahead
  <2>3. QED
    BY <2>2 DEF Inv, AheadOrTold
<1>2. QED
  BY <1>1, InitInv, NextInv, PTL DEF Spec

-----------------------------------------------------------------------------
(* The stored status implements JobLifecycle                               *)

\* The status a connection begins with, with cancelled jobs set aside.
Seen(j) == IF cancel[j] # "no" THEN "contested" ELSE stored[j]
View == [j \in Jobs |-> Seen(j)]

Lifecycle == INSTANCE JobLifecycle WITH view <- [j \in Jobs |-> Seen(j)]

Lists(h, j) == \E i \in 1 .. Len(h) : h[i] = j

Distinct(h) == \A i, k \in 1 .. Len(h) : h[i] = h[k] => i = k

\* The history lists the stored jobs, each once, and no more than its bound.
HistoryListsStored ==
    /\ Len(history) <= MaxHistory
    /\ Distinct(history)
    /\ \A j \in Jobs : stored[j] # "absent" <=> Lists(history, j)

\* The store follows the task of a job that nobody cancels, until its result.
StoreFollows ==
    \A j \in Jobs :
        /\ stage[j] = "new" => stored[j] = "absent" /\ cancel[j] = "no"
        /\ stage[j] = "queued" /\ Undisturbed(j) => stored[j] = "pending"
        /\ stage[j] \in {"started", "working"} /\ Undisturbed(j) => stored[j] = "running"
        /\ stored[j] = "cancelled" => cancel[j] # "no"

StoreInv == TypeOK /\ HasResult /\ HistoryListsStored /\ StoreFollows

\* What a submission does to the store: nothing if no record may be kept; otherwise
\* the job is pending, and one other is forgotten if the history was full.
Inserted(j) ==
    \/ \A k \in Jobs : stored'[k] = stored[k]
    \/ \A k \in Jobs : stored'[k] = IF k = j THEN "pending" ELSE stored[k]
    \/ \E old \in Jobs \ {j} :
          /\ stored[old] # "absent"
          /\ \A k \in Jobs : stored'[k] = IF k = j THEN "pending" ELSE IF k = old THEN "absent" ELSE stored[k]

ButFirst(all) == SubSeq(all, 2, Len(all))

\* Without its head, a sequence that has j at its end has j and what it had before.
LEMMA TailOf ==
    ASSUME NEW h \in Seq(Jobs), NEW j \in Jobs, ~ Lists(h, j), Distinct(h)
    PROVE  LET tail == ButFirst(Append(h, j))
           IN  /\ Len(tail) = Len(h)
               /\ Distinct(tail)
               /\ \A k \in Jobs : Lists(tail, k) <=>
                                  Len(h) # 0 /\ (k = j \/ (Lists(h, k) /\ k # h[1]))
<1> DEFINE n == Len(h)
           all == Append(h, j)
           tail == ButFirst(all)
<1>1. /\ n \in Nat /\ all \in Seq(Jobs) /\ Len(all) = n + 1 /\ all[n + 1] = j
      /\ \A i \in 1 .. n : all[i] = h[i] /\ h[i] # j
  BY AppendedTo DEF Lists
<1> HIDE DEF all
<1>2. Len(tail) = n /\ \A i \in 1 .. n : tail[i] = all[i + 1]
  BY <1>1, SubSeqProperties DEF ButFirst
<1> HIDE DEF tail
<1>3. ASSUME NEW i \in 1 .. n, NEW k \in 1 .. n, tail[i] = tail[k] PROVE i = k
  <2>0. \A m \in 1 .. n : \/ m = n /\ tail[m] = j
                          \/ m # n /\ m + 1 \in 1 .. n /\ tail[m] = h[m + 1] /\ tail[m] # j
    BY <1>1, <1>2
  <2>1. CASE i = n \/ k = n
    BY <1>3, <2>0, <2>1
  <2>2. CASE i # n /\ k # n
    <3>1. i + 1 \in 1 .. n /\ k + 1 \in 1 .. n /\ h[i + 1] = h[k + 1]
      BY <1>3, <2>0, <2>2
    <3>2. i + 1 = k + 1
      BY <3>1 DEF Distinct
    <3>3. QED
      BY <3>2
  <2>3. QED
    BY <2>1, <2>2
<1>4. ASSUME NEW k \in Jobs, Lists(tail, k) PROVE n # 0 /\ (k = j \/ (Lists(h, k) /\ k # h[1]))
  <2>1. PICK i \in 1 .. n : all[i + 1] = k
    BY <1>2, <1>4 DEF Lists
  <2>2. CASE i = n
    BY <1>1, <2>1, <2>2
  <2>3. CASE i # n
    <3>1. i + 1 \in 1 .. n /\ 1 \in 1 .. n /\ i + 1 # 1
      BY <1>1, <2>1, <2>3
    <3>2. h[i + 1] = k
      BY <1>1, <2>1, <3>1
    <3>3. h[1] # k
      BY <3>1, <3>2 DEF Distinct
    <3>4. QED
      BY <1>1, <3>1, <3>2, <3>3 DEF Lists
  <2>4. QED
    BY <2>2, <2>3
<1>5. ASSUME NEW k \in Jobs, n # 0, k = j PROVE Lists(tail, k)
  <2>1. n \in 1 .. n /\ tail[n] = j
    BY <1>1, <1>2, <1>5
  <2>2. QED
    BY <1>2, <1>5, <2>1 DEF Lists
<1>6. ASSUME NEW k \in Jobs, Lists(h, k), k # h[1] PROVE Lists(tail, k)
  <2>1. PICK i \in 1 .. n : h[i] = k
    BY <1>6 DEF Lists
  <2>2. i - 1 \in 1 .. n /\ (i - 1) + 1 = i
    BY <1>1, <1>6, <2>1
  <2>3. tail[i - 1] = k
    BY <1>1, <1>2, <2>1, <2>2
  <2>4. QED
    BY <1>2, <2>2, <2>3 DEF Lists
<1>7. Distinct(tail)
  BY <1>2, <1>3 DEF Distinct
<1>8. \A k \in Jobs : Lists(tail, k) <=> n # 0 /\ (k = j \/ (Lists(h, k) /\ k # h[1]))
  BY <1>4, <1>5, <1>6
<1>9. QED
  BY <1>2, <1>7, <1>8 DEF tail, all

LEMMA SubmitWrites ==
    ASSUME StoreInv, NEW j \in Jobs, Submit(j)
    PROVE  HistoryListsStored' /\ Inserted(j)
<1> DEFINE n == Len(history)
           all == Append(history, j)
<1>1. /\ history \in Seq(Jobs) /\ n \in Nat /\ MaxHistory \in Nat /\ n <= MaxHistory
      /\ Distinct(history)
      /\ \A k \in Jobs : stored[k] # "absent" <=> Lists(history, k)
      /\ stored[j] = "absent" /\ ~ Lists(history, j)
  BY StreamAssumption, LenProperties DEF StoreInv, TypeOK, HistoryListsStored, StoreFollows, Submit
<1>2. /\ history' = SubSeq(all, IF Len(all) > MaxHistory THEN Len(all) - MaxHistory + 1 ELSE 1, Len(all))
      /\ stored' = [k \in Jobs |-> IF k \notin {history'[i] : i \in DOMAIN history'} THEN "absent"
                                   ELSE IF k = j THEN "pending" ELSE stored[k]]
  BY DEF Submit
<1>3. /\ all \in Seq(Jobs) /\ Len(all) = n + 1 /\ all[n + 1] = j
      /\ \A i \in 1 .. n : all[i] = history[i] /\ history[i] # j
  BY <1>1, AppendedTo DEF Lists
<1>4. history' \in Seq(Jobs)
  BY SubmitShape DEF StoreInv
<1>5. \A k \in Jobs : stored'[k] = IF ~ Lists(history', k) THEN "absent" ELSE IF k = j THEN "pending" ELSE stored[k]
  <2>1. DOMAIN history' = 1 .. Len(history')
    BY <1>4
  <2>2. \A k \in Jobs : k \in {history'[i] : i \in DOMAIN history'} <=> Lists(history', k)
    BY <2>1 DEF Lists
  <2>3. QED
    BY <1>2, <2>2
<1>6. CASE n < MaxHistory
  <2>1. history' = SubSeq(all, 1, Len(all))
    <3> HIDE DEF all
    <3>1. ~ (Len(all) > MaxHistory)
      BY <1>1, <1>3, <1>6
    <3>2. QED
      BY <1>2, <3>1
  <2>2. Len(history') = n + 1 /\ \A i \in 1 .. n + 1 : history'[i] = all[i]
    <3> HIDE DEF all
    <3>1. QED
      BY <1>1, <1>3, <2>1, SubSeqProperties
  <2>3. \A k \in Jobs : Lists(history', k) <=> k = j \/ Lists(history, k)
    <3> HIDE DEF all
    <3>1. QED
      BY <1>1, <1>3, <2>2 DEF Lists
  <2>4. Distinct(history')
    <3> HIDE DEF all
    <3>1. QED
      BY <1>1, <1>3, <2>2 DEF Distinct
  <2>5. \A k \in Jobs : stored'[k] = IF k = j THEN "pending" ELSE stored[k]
    BY <1>1, <1>5, <2>3
  <2>6. HistoryListsStored'
    BY <1>1, <1>6, <2>2, <2>3, <2>4, <2>5 DEF HistoryListsStored
  <2>7. QED
    BY <2>5, <2>6 DEF Inserted
<1>7. CASE n = MaxHistory
  <2>1. history' = ButFirst(all)
    <3> HIDE DEF all
    <3>1. Len(all) > MaxHistory /\ Len(all) - MaxHistory + 1 = 2
      BY <1>1, <1>3, <1>7
    <3>2. QED
      BY <1>2, <3>1 DEF ButFirst
  <2>2. /\ Len(history') = n
        /\ Distinct(history')
        /\ \A k \in Jobs : Lists(history', k) <=> n # 0 /\ (k = j \/ (Lists(history, k) /\ k # history[1]))
    BY <1>1, <2>1, TailOf, Zenon
  <2>3. HistoryListsStored'
    <3>1. \A k \in Jobs : stored'[k] # "absent" <=> Lists(history', k)
      BY <1>1, <1>5, <2>2
    <3>2. QED
      BY <1>7, <2>2, <3>1 DEF HistoryListsStored
  <2>4. CASE n = 0
    <3>1. \A k \in Jobs : ~ Lists(history, k)
      <4>1. ~ \E i \in 1 .. n : TRUE
        BY <2>4
      <4>2. QED
        BY <4>1 DEF Lists
    <3>2. \A k \in Jobs : stored'[k] = stored[k]
      BY <1>1, <1>5, <2>2, <2>4, <3>1
    <3>3. QED
      BY <2>3, <3>2 DEF Inserted
  <2>5. CASE n # 0
    <3> DEFINE old == history[1]
    <3>1. 1 \in 1 .. n
      BY <1>1, <2>5
    <3>2. old \in Jobs /\ old # j /\ stored[old] # "absent"
      BY <1>1, <1>3, <3>1, ElementOfSeq DEF Lists
    <3>3. \A k \in Jobs : stored'[k] = IF k = j THEN "pending" ELSE IF k = old THEN "absent" ELSE stored[k]
      BY <1>1, <1>5, <2>2, <2>5, <3>2
    <3>4. QED
      BY <2>3, <3>2, <3>3 DEF Inserted
  <2>6. QED
    BY <2>4, <2>5
<1>8. QED
  BY <1>1, <1>6, <1>7

LEMMA StoreInit == Init => StoreInv
<1> SUFFICES ASSUME Init PROVE StoreInv
  OBVIOUS
<1>1. /\ history = << >> /\ Len(history) = 0 /\ MaxHistory \in Nat
      /\ \A j \in Jobs : stage[j] = "new" /\ stored[j] = "absent" /\ cancel[j] = "no"
  BY StreamAssumption DEF Init
<1>2. HistoryListsStored
  BY <1>1 DEF HistoryListsStored, Distinct, Lists
<1>3. QED
  BY <1>1, <1>2, InitType DEF StoreInv, StoreFollows

\* A status that is overwritten: the history lists the same jobs.
LEMMA StatusKeepsHistory ==
    ASSUME StoreInv, UNCHANGED history,
           \A k \in Jobs : stored'[k] = "absent" <=> stored[k] = "absent"
    PROVE  HistoryListsStored'
BY DEF StoreInv, HistoryListsStored

LEMMA StoreJobNext ==
    ASSUME StoreInv, NEW j \in Jobs,
           Submit(j) \/ Reschedule(j) \/ Task(j) \/ Die(j) \/ AskCancel(j) \/ StoreCancelled(j)
    PROVE  StoreInv'
<1>0. TypeOK /\ StoreFollows /\ HistoryListsStored /\ TypeOK' /\ HasResult'
  BY JobStepType DEF StoreInv
<1> USE DEF Undisturbed
<1>1. CASE Submit(j)
  <2>1. HistoryListsStored' /\ Inserted(j)
    BY <1>1, SubmitWrites
  <2>2. /\ stage[j] = "new" /\ stage' = [stage EXCEPT ![j] = "queued"]
        /\ UNCHANGED cancel
    BY <1>1 DEF Submit
  <2>3. \A k \in Jobs : k # j => stored'[k] \in {stored[k], "absent"}
    BY <2>1 DEF Inserted
  <2>4. stored'[j] \in {"pending", "absent"}
    BY <1>0, <2>1, <2>2 DEF Inserted, StoreFollows
  <2>5. StoreFollows'
    BY <1>0, <2>2, <2>3, <2>4 DEF StoreFollows, TypeOK
  <2>6. QED
    BY <1>0, <2>1, <2>5 DEF StoreInv
<1>2. CASE Reschedule(j) \/ AnnounceRunning(j) \/ AnnounceResult(j) \/ Die(j) \/ AskCancel(j)
  <2>1. UNCHANGED <<stored, history>>
    BY <1>2 DEF Reschedule, AnnounceRunning, AnnounceResult, Die, AskCancel
  <2>2. HistoryListsStored'
    BY <2>1, StatusKeepsHistory
  <2>3. StoreFollows'
    BY <1>0, <1>2 DEF StoreFollows, TypeOK, Reschedule, AnnounceRunning, AnnounceResult, Die, AskCancel
  <2>4. QED
    BY <1>0, <2>2, <2>3 DEF StoreInv
<1>3. ASSUME NEW s \in Statuses \ {"absent"}, SetStatus(j, s), UNCHANGED history, stage[j] # "new",
             cancel' = cancel \/ cancel' = [cancel EXCEPT ![j] = "stored"],
             \A k \in Jobs \ {j} : stage'[k] = stage[k],
             stage'[j] \notin {"new", "queued"} \/ cancel'[j] = "stored",
             stage'[j] \in {"started", "working"} /\ cancel'[j] = "no" => s = "running",
             stage'[j] # "new",
             s = "cancelled" => cancel'[j] # "no"
      PROVE  StoreInv'
  <2>1. /\ \A k \in Jobs \ {j} : stored'[k] = stored[k]
        /\ stored'[j] # "absent" => stored'[j] = s
        /\ stored'[j] = "absent" <=> stored[j] = "absent"
    BY <1>0, <1>3, StatusSet
  <2>2. HistoryListsStored'
    BY <1>3, <2>1, StatusKeepsHistory
  <2>3. StoreFollows'
    BY <1>0, <1>3, <2>1 DEF StoreFollows, TypeOK
  <2>4. QED
    BY <1>0, <2>2, <2>3 DEF StoreInv
<1>4. CASE StoreRunning(j)
  BY <1>0, <1>3, <1>4 DEF StoreRunning, TypeOK, Statuses
<1>5. CASE StoreResult(j)
  <2>1. PICK s \in Results : SetStatus(j, s)
    BY <1>5 DEF StoreResult
  <2>2. s \in Statuses \ {"absent"} /\ s # "cancelled"
    BY DEF Statuses, Results
  <2>3. QED
    BY <1>0, <1>3, <1>5, <2>1, <2>2 DEF StoreResult, TypeOK
<1>6. CASE StoreCancelled(j)
  <2>1. /\ "cancelled" \in Statuses \ {"absent"} /\ SetStatus(j, "cancelled")
        /\ cancel[j] = "asked" /\ cancel' = [cancel EXCEPT ![j] = "stored"]
        /\ UNCHANGED <<stage, history>>
    BY <1>6 DEF StoreCancelled, Statuses
  <2>2. stage[j] # "new" /\ cancel'[j] = "stored"
    BY <1>0, <2>1 DEF StoreFollows, TypeOK
  <2>3. QED
    BY <1>3, <2>1, <2>2
<1>7. QED
  BY <1>1, <1>2, <1>4, <1>5, <1>6 DEF Task

LEMMA StoreInvNext == StoreInv /\ [Next]_vars => StoreInv'
<1> SUFFICES ASSUME StoreInv, [Next]_vars PROVE StoreInv'
  OBVIOUS
<1>1. ASSUME UNCHANGED taskVars, TypeOK', HasResult' PROVE StoreInv'
  BY <1>1 DEF taskVars, StoreInv, HistoryListsStored, StoreFollows, Undisturbed
<1>2. CASE \E c \in Clients : Open(c) \/ Stream(c) \/ Disconnect(c)
  <2>1. UNCHANGED taskVars
    BY <1>2 DEF Open, Stream, Subscribe, SendStored, Receive, Lag, Disconnect
  <2>2. QED
    BY <1>1, <1>2, <2>1, ClientStepType DEF StoreInv
<1>3. CASE UNCHANGED vars
  BY <1>1, <1>3, NextType DEF vars, StoreInv
<1>4. QED
  BY <1>2, <1>3, StoreJobNext DEF Next

LEMMA ViewType == ASSUME StoreInv PROVE View \in [Jobs -> Lifecycle!Views]
BY DEF StoreInv, TypeOK, StoreFollows, View, Seen, Statuses, Results, Lifecycle!Views, Lifecycle!Terminal

\* A write of the status of one job shows unless the job is cancelled or has no record.
LEMMA WriteSeen ==
    ASSUME StoreInv, NEW j \in Jobs, NEW s \in Statuses \ {"absent"}, SetStatus(j, s),
           \A k \in Jobs : cancel'[k] = "no" <=> cancel[k] = "no"
    PROVE  View' = IF Undisturbed(j) THEN [View EXCEPT ![j] = s] ELSE View
<1>1. \A k \in Jobs : stored'[k] = IF k = j /\ stored[j] # "absent" THEN s ELSE stored[k]
  BY StatusSet DEF StoreInv
<1>2. \A k \in Jobs : Seen(k)' = IF k = j /\ Undisturbed(j) THEN s ELSE Seen(k)
  BY <1>1 DEF Seen, Undisturbed
<1>3. QED
  BY <1>2 DEF View

\* The task of a job that nobody cancels takes it from pending to running, and from
\* running to its end.
LEMMA TaskAdvances ==
    ASSUME StoreInv, NEW j \in Jobs, StoreRunning(j) \/ StoreResult(j)
    PROVE  Lifecycle!Next \/ View' = View
<1>1. /\ UNCHANGED cancel
      /\ View[j] = Seen(j)
  BY DEF StoreRunning, StoreResult, View
<1>2. CASE StoreRunning(j)
  <2>1. View' = IF Undisturbed(j) THEN [View EXCEPT ![j] = "running"] ELSE View
    BY <1>1, <1>2, WriteSeen DEF StoreRunning, Statuses
  <2>2. Undisturbed(j) => View[j] = "pending"
    BY <1>1, <1>2 DEF StoreRunning, StoreInv, StoreFollows, Undisturbed, Seen
  <2>3. Undisturbed(j) => Lifecycle!Start(j)
    BY <2>1, <2>2 DEF Lifecycle!Start, Lifecycle!Become, View
  <2>4. QED
    BY <2>1, <2>3 DEF Lifecycle!Next
<1>3. CASE StoreResult(j)
  <2>1. PICK s \in Results : SetStatus(j, s)
    BY <1>3 DEF StoreResult
  <2>2. View' = IF Undisturbed(j) THEN [View EXCEPT ![j] = s] ELSE View
    BY <1>1, <2>1, WriteSeen DEF Results, Statuses
  <2>3. Undisturbed(j) => View[j] = "running"
    BY <1>1, <1>3 DEF StoreResult, StoreInv, StoreFollows, Undisturbed, Seen
  <2>4. Undisturbed(j) => Lifecycle!Finish(j)
    BY <2>1, <2>2, <2>3 DEF Lifecycle!Finish, Lifecycle!Become, Lifecycle!Terminal, Results, View
  <2>5. QED
    BY <2>2, <2>4 DEF Lifecycle!Next
<1>4. QED
  BY <1>2, <1>3

\* A submission introduces its job and may make the history forget another.
LEMMA SubmitAdvances ==
    ASSUME StoreInv, NEW j \in Jobs, Submit(j)
    PROVE  Lifecycle!Next \/ View' = View
<1>1. /\ UNCHANGED cancel
      /\ View[j] = "absent" /\ cancel[j] = "no"
  BY DEF Submit, StoreInv, StoreFollows, View, Seen
<1>2. CASE \A k \in Jobs : stored'[k] = stored[k]
  <2>1. \A k \in Jobs : Seen(k)' = Seen(k)
    BY <1>1, <1>2 DEF Seen
  <2>2. QED
    BY <2>1 DEF View
<1>3. CASE \A k \in Jobs : stored'[k] = IF k = j THEN "pending" ELSE stored[k]
  <2>1. \A k \in Jobs : Seen(k)' = IF k = j THEN "pending" ELSE Seen(k)
    BY <1>1, <1>3 DEF Seen
  <2>2. View' = [View EXCEPT ![j] = "pending"]
    BY <2>1 DEF View
  <2>3. Lifecycle!Submit(j)
    BY <1>1, <2>2 DEF Lifecycle!Submit, Lifecycle!Become, View
  <2>4. QED
    BY <2>3 DEF Lifecycle!Next
<1>4. ASSUME NEW old \in Jobs \ {j}, stored[old] # "absent",
             \A k \in Jobs : stored'[k] = IF k = j THEN "pending" ELSE IF k = old THEN "absent" ELSE stored[k]
      PROVE  Lifecycle!Next
  <2> DEFINE left == IF cancel[old] # "no" THEN "contested" ELSE "absent"
  <2>1. \A k \in Jobs : Seen(k)' = IF k = j THEN "pending" ELSE IF k = old THEN left ELSE Seen(k)
    BY <1>1, <1>4 DEF Seen
  <2>2. View' = [View EXCEPT ![j] = "pending", ![old] = left]
    BY <2>1 DEF View
  <2>3. /\ View[old] # "absent"
        /\ View[old] = "contested" <=> cancel[old] # "no"
    BY <1>4 DEF View, Seen, StoreInv, TypeOK, Statuses, Results
  <2>4. View' = [View EXCEPT ![j] = "pending", ![old] = IF View[old] = "contested" THEN View[old] ELSE "absent"]
    BY <2>2, <2>3
  <2>5. Lifecycle!SubmitAndForget(j, old)
    BY <1>1, <2>3, <2>4 DEF Lifecycle!SubmitAndForget, View
  <2>6. QED
    BY <2>5 DEF Lifecycle!Next
<1>5. QED
  BY <1>2, <1>3, <1>4, SubmitWrites DEF Inserted

LEMMA StreamAdvances == ASSUME StoreInv, [Next]_vars PROVE Lifecycle!Next \/ View' = View
<1>1. ASSUME UNCHANGED <<stored, cancel>> PROVE View' = View
  BY <1>1 DEF View, Seen
<1>2. CASE \E c \in Clients : Open(c) \/ Stream(c) \/ Disconnect(c)
  BY <1>1, <1>2 DEF Open, Stream, Subscribe, SendStored, Receive, Lag, Disconnect, taskVars
<1>3. CASE \E j \in Jobs : Reschedule(j) \/ AnnounceRunning(j) \/ AnnounceResult(j) \/ Die(j)
  BY <1>1, <1>3 DEF Reschedule, AnnounceRunning, AnnounceResult, Die
<1>4. ASSUME NEW j \in Jobs, AskCancel(j) PROVE Lifecycle!Next
  <2>1. \A k \in Jobs : Seen(k)' = IF k = j THEN "contested" ELSE Seen(k)
    BY <1>4 DEF AskCancel, Seen, StoreInv, TypeOK
  <2>2. View' = [View EXCEPT ![j] = "contested"] /\ View[j] \in Lifecycle!Views
    BY <2>1, ViewType DEF View
  <2>3. Lifecycle!Contest(j)
    BY <2>2 DEF Lifecycle!Contest, Lifecycle!Become, View
  <2>4. QED
    BY <2>3 DEF Lifecycle!Next
<1>5. ASSUME NEW j \in Jobs, StoreCancelled(j) PROVE View' = View
  <2>1. SetStatus(j, "cancelled") /\ "cancelled" \in Statuses \ {"absent"} /\ ~ Undisturbed(j)
    BY <1>5 DEF StoreCancelled, Statuses, Undisturbed
  <2>2. \A k \in Jobs : cancel'[k] = "no" <=> cancel[k] = "no"
    BY <1>5 DEF StoreCancelled, StoreInv, TypeOK
  <2>3. QED
    BY <2>1, <2>2, WriteSeen
<1>6. CASE UNCHANGED vars
  BY <1>1, <1>6 DEF vars, taskVars
<1>7. QED
  BY <1>2, <1>3, <1>4, <1>5, <1>6, TaskAdvances, SubmitAdvances DEF Next, Task

\* The status that a connection to the stream begins with keeps the promise of
\* JobLifecycle: of a job that nobody cancels it only moves forward, whatever
\* was announced meanwhile, and leaves its end only when the job is forgotten.
THEOREM StoredImplementsLifecycle == Spec => Lifecycle!Spec
<1>1. Init => Lifecycle!Init
  BY DEF Init, Lifecycle!Init, Seen
<1>2. StoreInv /\ [Next]_vars => [Lifecycle!Next]_[j \in Jobs |-> Seen(j)]
  BY StreamAdvances DEF View
<1>3. QED
  BY <1>1, <1>2, StoreInit, StoreInvNext, PTL DEF Spec, Lifecycle!Spec
=============================================================================
