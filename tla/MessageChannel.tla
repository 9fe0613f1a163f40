--------------------------- MODULE MessageChannel ---------------------------
(***************************************************************************)
(* What the AgentOrchestrator promises about messages (spec section 4 and  *)
(* agent-orchestrator.h): a single FIFO channel.  RouteMessage puts a      *)
(* message at the end; the orchestrator takes messages out one at a time,  *)
(* oldest first, and each is taken exactly once.  Where the message is     *)
(* held inside the orchestrator (message_queue_ or the worker's local      *)
(* vector) and whether the recipient is still registered are not part of  *)
(* the promise.                                                            *)
(***************************************************************************)
EXTENDS Naturals, Sequences

CONSTANTS Agents, MaxMsgs

(* A message: its sequence number and its recipient.                       *)
Message == [id : 1..MaxMsgs, to : Agents]

VARIABLES
    sent,       \* messages sent so far
    chan,       \* messages sent and not yet taken, oldest first
    delivered   \* ids of the messages taken, in the order they were taken

cvars == <<sent, chan, delivered>>

CInit ==
    /\ sent = 0
    /\ chan = <<>>
    /\ delivered = <<>>

(* A message to an agent is put at the end of the channel.                 *)
Send(to) ==
    /\ sent < MaxMsgs
    /\ chan' = Append(chan, [id |-> sent + 1, to |-> to])
    /\ sent' = sent + 1
    /\ UNCHANGED delivered

(* The oldest message is taken out.                                        *)
Take ==
    /\ chan # <<>>
    /\ delivered' = Append(delivered, Head(chan).id)
    /\ chan' = Tail(chan)
    /\ UNCHANGED sent

CNext == (\E to \in Agents : Send(to)) \/ Take

CSpec == CInit /\ [][CNext]_cvars

=============================================================================
