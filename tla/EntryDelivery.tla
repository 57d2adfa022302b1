---------------------------- MODULE EntryDelivery ----------------------------
(***************************************************************************)
(* What a job may rely on when it sends log entries and its completion     *)
(* event: an item that was handed over is tried a bounded number of times  *)
(* and then acknowledged or given up, once and for all.  A fragile item is *)
(* abandoned when its sender is aborted.  Delivery is at least once for    *)
(* what is acknowledged, since an answer may be lost, and nothing is sent  *)
(* after its item is over.                                                 *)
(*                                                                         *)
(* Items travel together, so a request is about a set of them.             *)
(***************************************************************************)
EXTENDS Naturals

CONSTANTS
    Items,
    Attempts,
    Fragile   \* items whose sender may be aborted

VARIABLES
    fate,   \* of each item: "new", "open", "acknowledged", "given up" or "abandoned"
    taken   \* how often the server has taken each item

Init ==
    /\ fate = [x \in Items |-> "new"]
    /\ taken = [x \in Items |-> 0]

HandOver(x) ==
    /\ fate[x] = "new"
    /\ fate' = [fate EXCEPT ![x] = "open"]
    /\ UNCHANGED taken

Become(S, f) ==
    /\ \A x \in S : fate[x] = "open"
    /\ fate' = [x \in Items |-> IF x \in S THEN f ELSE fate[x]]

Take(S) ==
    /\ \A x \in S : taken[x] < Attempts
    /\ taken' = [x \in Items |-> IF x \in S THEN taken[x] + 1 ELSE taken[x]]

\* One request for S: it succeeds, or is lost on its way there or back and is
\* tried again or not.
Succeed(S) == Take(S) /\ Become(S, "acknowledged")
LoseAnswer(S) == Take(S) /\ \E f \in {"open", "given up"} : Become(S, f)
GiveUp(S) == Become(S, "given up") /\ UNCHANGED taken

\* The sender of x is aborted, with a request under way or not.
Abandon(x) == Become({x}, "abandoned") /\ (Take({x}) \/ UNCHANGED taken)

Next ==
    \/ \E x \in Items : HandOver(x)
    \/ \E x \in Fragile : Abandon(x)
    \/ \E S \in SUBSET Items : Succeed(S) \/ LoseAnswer(S) \/ GiveUp(S)

Spec == Init /\ [][Next]_<<fate, taken>>
=============================================================================
