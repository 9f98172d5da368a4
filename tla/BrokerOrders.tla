----------------------------- MODULE BrokerOrders -----------------------------
(***************************************************************************)
(* What the broker mutation engine promises about broker orders, whatever  *)
(* it has to remember to keep the promise: ids are handed out in sequence, *)
(* each to one intent for good; an order is placed once, working or not,   *)
(* and once it has stopped working it never works again.                   *)
(***************************************************************************)
EXTENDS Naturals

CONSTANTS Intents, NoIntent, MaxOrders

Orders == 1..MaxOrders

VARIABLES
  owner,    \* order -> the intent it was placed for, or NoIntent
  phase     \* order -> unallocated, working or inactive

ordersVars == <<owner, phase>>

OrdersInit ==
  /\ owner = [o \in Orders |-> NoIntent]
  /\ phase = [o \in Orders |-> "unallocated"]

(* A strategy's order works from the start; a flattening order is placed
   without entering the set of working orders. *)
Place(o, i, initial) ==
  /\ phase[o] = "unallocated"
  /\ \A p \in Orders : p < o => phase[p] # "unallocated"
  /\ owner' = [owner EXCEPT ![o] = i]
  /\ phase' = [phase EXCEPT ![o] = initial]

(* A report or a cancel stops any number of working orders at once. *)
Stop(stopped) ==
  /\ \A o \in stopped : phase[o] = "working"
  /\ phase' = [o \in Orders |-> IF o \in stopped THEN "inactive" ELSE phase[o]]
  /\ UNCHANGED owner

OrdersNext ==
  \/ \E o \in Orders, i \in Intents, initial \in {"working", "inactive"} : Place(o, i, initial)
  \/ \E stopped \in SUBSET Orders : Stop(stopped)

OrdersSpec == OrdersInit /\ [][OrdersNext]_ordersVars
=============================================================================
