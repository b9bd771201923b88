-------------------------- MODULE CommandLifecycle --------------------------
(***************************************************************************)
(* What the scheduler command queue promises for each command, without     *)
(* processes, locks, timers or messages: a submitted command is handed out *)
(* for delivery and comes back to the queue only by spending one of a      *)
(* fixed number of tries; once settled it never changes again.             *)
(***************************************************************************)
EXTENDS Integers

CONSTANTS Ids,    \* command ids
          Tries   \* how often a command may be handed out

VARIABLES phase,  \* "none", "queued", "outstanding", "settled" or "removed"
          used    \* the tries it has spent in vain

Move(S, to) == phase' = [i \in Ids |-> IF i \in S THEN to ELSE phase[i]]
In(S, from) == S # {} /\ \A i \in S : phase[i] \in from

Init ==
  /\ phase = [i \in Ids |-> "none"]
  /\ used = [i \in Ids |-> 0]

Submit(i) == In({i}, {"none"}) /\ Move({i}, "queued") /\ UNCHANGED used

\* A batch is handed out at once.
Dispatch(S) == In(S, {"queued"}) /\ Move(S, "outstanding") /\ UNCHANGED used

\* Delivery failed: back to the queue while tries are left, else settled.
Return(i) ==
  /\ In({i}, {"outstanding"})
  /\ used' = [used EXCEPT ![i] = @ + 1]
  /\ Move({i}, IF used[i] + 1 < Tries THEN "queued" ELSE "settled")

\* An answer may come even while the command is queued for another try.
Settle(S) == In(S, {"queued", "outstanding"}) /\ Move(S, "settled") /\ UNCHANGED used

Remove(S) ==
  In(S, {"queued", "outstanding", "settled"}) /\ Move(S, "removed") /\ UNCHANGED used

Next ==
  \/ \E i \in Ids : Submit(i) \/ Return(i)
  \/ \E S \in SUBSET Ids : Dispatch(S) \/ Settle(S) \/ Remove(S)

Spec == Init /\ [][Next]_<<phase, used>>
=============================================================================
