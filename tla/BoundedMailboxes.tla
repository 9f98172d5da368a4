-------------------------- MODULE BoundedMailboxes --------------------------
(***************************************************************************)
(* rust/opsd/src/mailbox.rs: one bounded mailbox per daemon module, each   *)
(* with an ordinary lane and a reserved high-priority lane.  A full lane   *)
(* refuses the message and counts the refusal; the other lane is not       *)
(* consulted.  Draining serves the high-priority lane first.               *)
(*                                                                         *)
(* A message is the part of RuntimeMessage that routing depends on, plus   *)
(* the call that produced it (its correlation id).                         *)
(***************************************************************************)
EXTENDS Naturals, Sequences, SequencesExt

CONSTANTS
  Modules,            \* the daemon modules that own a mailbox
  StandardCapacity,   \* module -> standard_mailbox_capacity of its boundary
  HighCapacity,       \* module -> high_priority_mailbox_capacity
  MaxRejected         \* bound: refusals counted per mailbox

ASSUME MailboxAssumption ==
  /\ StandardCapacity \in [Modules -> Nat]
  /\ HighCapacity \in [Modules -> Nat]
  /\ MaxRejected \in Nat

Lanes == {"standard", "high"}

Capacity(t, lane) == IF lane = "high" THEN HighCapacity[t] ELSE StandardCapacity[t]

VARIABLE mailboxes    \* module -> its two queues and its refusal counter

MailboxInit ==
  mailboxes = [t \in Modules |-> [standard |-> <<>>, high |-> <<>>, rejected |-> 0]]

Lane(t, lane) == mailboxes[t][lane]

(* Faulty variant: one bound for the mailbox instead of one per lane. *)
FitsTheMailbox(m) ==
  Len(Lane(m.target, "high")) + Len(Lane(m.target, "standard")) < Capacity(m.target, m.priority)

Fits(m) == Len(Lane(m.target, m.priority)) < Capacity(m.target, m.priority)

(* The two outcomes of try_send. *)
Accept(m) ==
  /\ Fits(m)
  /\ mailboxes' = [mailboxes EXCEPT ![m.target][m.priority] = Append(@, m)]

DropsUncounted(m) == ~Fits(m) /\ UNCHANGED mailboxes

Refuse(m) ==
  /\ ~Fits(m)
  /\ mailboxes[m.target].rejected < MaxRejected
  /\ mailboxes' = [mailboxes EXCEPT ![m.target].rejected = @ + 1]

(* Faulty variants of pop_next. *)
LatestFirst(t) ==
  LET lane == IF Lane(t, "high") # <<>> THEN "high" ELSE "standard"
  IN  /\ Lane(t, lane) # <<>>
      /\ mailboxes' = [mailboxes EXCEPT ![t][lane] = Front(@)]

HighOnly(t) ==
  /\ Lane(t, "high") # <<>>
  /\ mailboxes' = [mailboxes EXCEPT ![t].high = Tail(@)]

StandardFirst(t) == IF Lane(t, "standard") # <<>> THEN "standard" ELSE "high"

(* The lane pop_next serves, and what it takes from it. *)
NextLane(t) == IF Lane(t, "high") # <<>> THEN "high" ELSE "standard"

PopNext(t) ==
  /\ Lane(t, NextLane(t)) # <<>>
  /\ mailboxes' = [mailboxes EXCEPT ![t][NextLane(t)] = Tail(@)]
=============================================================================
