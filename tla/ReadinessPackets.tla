-------------------------- MODULE ReadinessPackets --------------------------
(***************************************************************************)
(* rust/opsd/src/readiness.rs and publish_session_readiness_packet of      *)
(* rust/opsd/src/runtime.rs: provider outputs are assembled into a         *)
(* session-readiness packet, and the runtime retains the packet and the    *)
(* history of all packets before it.                                       *)
(***************************************************************************)
EXTENDS Integers, SequencesExt

CONSTANTS
  Kinds,        \* provider kinds; a packet may require some of them
  Providers,    \* providers that may report
  KindOf,       \* the kind each provider reports for
  Histories,    \* histories a request may bring along
  Absent,       \* no packet yet; a provider that does not report
  MaxPackets    \* bound: packets published

ASSUME ReadinessAssumption ==
  /\ KindOf \in [Providers -> Kinds] /\ MaxPackets \in Nat

ProviderStatus == {"pass", "blocked", "review_required", "stale"}
PacketStatus == {"green", "suspect", "blocked", "invalid"}

Output == [status : ProviderStatus, requiredForGreen : BOOLEAN]

Request == [identified : BOOLEAN, required : SUBSET Kinds,
            outputs : [Providers -> Output \cup {Absent}], previous : Histories]

ASSUME PacketAssumption ==
  /\ <<>> \in Histories /\ Histories \subseteq Seq(PacketStatus)
  /\ Absent \notin Output \cup [request : Request, status : PacketStatus]

VARIABLES
  latestPacket,   \* the packet last published with the request behind it, or Absent
  history,        \* readiness_history: the status of every packet so far
  published       \* packets published, for the bound

readinessVars == <<latestPacket, history, published>>

ReadinessInit == latestPacket = Absent /\ history = <<>> /\ published = 0

----------------------------------------------------------------------------
Reporting(r) == {p \in Providers : r.outputs[p] # Absent}

(* The reports of providers that count towards green. *)
GatingReports(r) ==
  {r.outputs[p].status : p \in {q \in Reporting(r) : r.outputs[q].requiredForGreen}}

MissingKinds(r) == r.required \ {KindOf[p] : p \in Reporting(r)}

(* assemble_session_readiness_packet *)
AssemblePacket(r) ==
  IF ~r.identified \/ r.required = {} \/ Reporting(r) = {} \/ MissingKinds(r) # {} THEN "invalid"
  ELSE IF {"blocked", "stale"} \cap GatingReports(r) # {} THEN "blocked"
  ELSE IF "review_required" \in GatingReports(r) THEN "suspect"
  ELSE "green"

(* The history a packet is assembled on: the runtime's own, and the request's
   only as long as the runtime has none. *)
PreviousHistory(r) == IF history = <<>> THEN r.previous ELSE history

HidesInvalidPackets(r) ==
  /\ published < MaxPackets
  /\ latestPacket' = [request |-> r, status |-> AssemblePacket(r)]
  /\ history' = IF AssemblePacket(r) = "invalid" THEN PreviousHistory(r)
                ELSE Append(PreviousHistory(r), AssemblePacket(r))
  /\ published' = published + 1

(* Every outcome, an invalid packet included, is retained and remembered. *)
PublishSessionReadinessPacket(r) ==
  /\ published < MaxPackets
  /\ latestPacket' = [request |-> r, status |-> AssemblePacket(r)]
  /\ history' = Append(PreviousHistory(r), AssemblePacket(r))
  /\ published' = published + 1

ReadinessNext == \E r \in Request : PublishSessionReadinessPacket(r)

ReadinessSpec == ReadinessInit /\ [][ReadinessNext]_readinessVars

----------------------------------------------------------------------------
(* Types, and the tie between the two retained fields: the latest packet is
   the last entry of the history, which holds every packet published. *)
ReadinessTypeOK ==
  /\ history \in Seq(PacketStatus) /\ published \in 0..MaxPackets
  /\ latestPacket = Absent <=> published = 0
  /\ Len(history) >= published
  /\ latestPacket # Absent => Last(history) = latestPacket.status

(* What a publication may do to the history: no packet outcome is rewritten or
   forgotten, whatever history later requests bring along. *)
HistoryGrows ==
  IsPrefix(history, history') /\ (history # <<>> => Len(history') = Len(history) + 1)

(* A worse report never yields a better packet: put any other status in place
   of a pass, or block or stale in place of a review, and the packet is no
   nearer to green than it was. *)
Strictness == [green |-> 0, suspect |-> 1, blocked |-> 2, invalid |-> 3]
Worse(status) == CASE status = "pass" -> ProviderStatus
                   [] status = "review_required" -> {"blocked", "stale"}
                   [] OTHER -> {}

WorseReportsNeverHelp ==
  latestPacket # Absent =>
    \A p \in Reporting(latestPacket.request) :
      \A status \in Worse(latestPacket.request.outputs[p].status) :
        Strictness[AssemblePacket([latestPacket.request EXCEPT !.outputs[p].status = status])]
          >= Strictness[latestPacket.status]
=============================================================================
