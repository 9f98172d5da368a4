-------------------------- MODULE PriorityMailboxes --------------------------
(***************************************************************************)
(* What the mailboxes of opsd promise to those who send and those who      *)
(* drain, whatever queues they keep: an accepted message is received once, *)
(* in the order its lane accepted it; a message is turned away only when   *)
(* its own lane holds as many as the boundary of its module grants; and    *)
(* ordinary messages are handed over only while no control waits.          *)
(***************************************************************************)
EXTENDS Naturals, Sequences

CONSTANTS Modules, StandardCapacity, HighCapacity, Messages

Lanes == {"standard", "high"}

VARIABLES
  accepted,   \* module -> lane -> every message it ever accepted, in order
  taken,      \* module -> lane -> how many of those were handed over
  received,   \* module -> what it was handed, in order
  refusals    \* module -> messages turned away

promiseVars == <<accepted, taken, received, refusals>>

Waiting(t, lane) == Len(accepted[t][lane]) - taken[t][lane]
Granted(t, lane) == IF lane = "high" THEN HighCapacity[t] ELSE StandardCapacity[t]

PromiseInit ==
  /\ accepted = [t \in Modules |-> [lane \in Lanes |-> <<>>]]
  /\ taken = [t \in Modules |-> [lane \in Lanes |-> 0]]
  /\ received = [t \in Modules |-> <<>>]
  /\ refusals = [t \in Modules |-> 0]

Arrives(t, lane, m) ==
  m.target = t /\ m.priority = lane /\ accepted' = [accepted EXCEPT ![t][lane] = Append(@, m)]

(* The length is implied; it spares TLC the choice of a message in vain. *)
TakeIn(t, lane) ==
  /\ UNCHANGED <<received, refusals>>
  /\ Waiting(t, lane) < Granted(t, lane)
  /\ Len(accepted'[t][lane]) = Len(accepted[t][lane]) + 1
  /\ \E m \in Messages : Arrives(t, lane, m)
  /\ UNCHANGED taken

TurnAway(t, lane) ==
  /\ refusals' = [refusals EXCEPT ![t] = @ + 1]
  /\ Waiting(t, lane) = Granted(t, lane)
  /\ UNCHANGED <<accepted, taken, received>>

HandOver(t, lane) ==
  /\ UNCHANGED refusals
  /\ Waiting(t, lane) > 0
  /\ lane = "standard" => Waiting(t, "high") = 0
  /\ received' = [received EXCEPT ![t] = Append(@, accepted[t][lane][taken[t][lane] + 1])]
  /\ taken' = [taken EXCEPT ![t][lane] = @ + 1]
  /\ UNCHANGED accepted

PromiseNext ==
  \E t \in Modules, lane \in Lanes : TakeIn(t, lane) \/ TurnAway(t, lane) \/ HandOver(t, lane)

PromiseSpec == PromiseInit /\ [][PromiseNext]_promiseVars
=============================================================================
