-------------------------- MODULE MCMailboxService --------------------------
(***************************************************************************)
(* The mailboxes on their own, under senders that never stop: what the     *)
(* module that owns a mailbox can count on as long as it keeps calling     *)
(* drain_next, with no bound on the length of a behaviour.                 *)
(*                                                                         *)
(* Two mailboxes: the broker's, contended by controls and ordinary         *)
(* traffic, and that of risk, which only ever receives ordinary messages.  *)
(***************************************************************************)
EXTENDS BoundedMailboxes

CONSTANT Messages   \* [target, priority, call] of the messages senders use

InFlight(m) == m \in Range(Lane(m.target, m.priority))

(* A sender's correlation ids tell its outstanding messages apart. *)
TrySend(m) == ~InFlight(m) /\ (Accept(m) \/ Refuse(m))

ServiceNext ==
  \/ \E m \in Messages : TrySend(m)
  \/ \E t \in Modules : PopNext(t)

(* The owner of a mailbox keeps draining it. *)
ServiceSpec ==
  /\ MailboxInit /\ [][ServiceNext]_mailboxes
  /\ \A t \in Modules : WF_mailboxes(PopNext(t))

----------------------------------------------------------------------------
(* However fast control keeps arriving, a control message that was accepted is
   eventually drained: the high lane starves nobody in it. *)
ControlIsServed ==
  \A m \in Messages : m.priority = "high" => (InFlight(m) ~> ~InFlight(m))

(* Ordinary traffic can be starved, but only by control that never stops. *)
StandardServedOnceControlStops ==
  \A m \in Messages :
    m.priority = "standard" =>
      (<>[](Lane(m.target, "high") = <<>>) => (InFlight(m) ~> ~InFlight(m)))

----------------------------------------------------------------------------
MCModules == {"broker", "risk"}
MCStandardCapacity == [t \in MCModules |-> IF t = "broker" THEN 2 ELSE 1]
MCHighCapacity == [t \in MCModules |-> 2]

MCMessages ==
  [target : {"broker"}, priority : {"high"}, call : 1..3]
  \cup [target : {"broker"}, priority : {"standard"}, call : 4..6]
  \cup [target : {"risk"}, priority : {"standard"}, call : {7, 8}]
=============================================================================
