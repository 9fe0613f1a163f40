---------------------------- MODULE Orchestrator ----------------------------
(***************************************************************************)
(* The AgentOrchestrator of src/src/opencog/agents/agent-orchestrator.cc   *)
(* together with the Agent state machine it drives (Agent, same file).     *)
(*                                                                         *)
(* Threads of the program and how they appear here:                        *)
(*   - the one background worker started by Start() and running            *)
(*     OrchestratorLoop(); its program counter is wpc and its locals are   *)
(*     batch (the vector filled by ProcessMessageQueue) and cur (the       *)
(*     agent_id popped from scheduled_agents_);                            *)
(*   - one controlling thread calling Start() and Stop() (Stop blocks in   *)
(*     join(), so it has a program counter ctl);                           *)
(*   - any number of caller threads invoking RegisterAgent, UnregisterAgent,*)
(*     SendMessage, ScheduleAgent and BroadcastMessage; each              *)
(*     of these is one critical section and is one action, except          *)
(*     BroadcastMessage, which holds agents_mutex_ across one RouteMessage  *)
(*     per recipient and is therefore a loop of steps (bc_from, bc_pos).   *)
(* Execute() and OnMessage() of an agent may call the same public methods; *)
(* those calls are the caller actions, which may happen at any time.       *)
(*                                                                         *)
(* Data is abstracted: an agent id is a model value, a message is its      *)
(* sequence number and its recipient (type and payload do not change       *)
(* control flow), the wall-clock timestamp is left out.                    *)
(***************************************************************************)
EXTENDS Naturals, Sequences

CONSTANTS
    Agents,      \* agent ids of the agent objects the callers own
    NoAgent,     \* the empty agent_id string of the worker loop
    AgentOrder,  \* the key order of std::map agents_ (ids sorted)
    MaxMsgs,     \* bound on the messages routed in one behaviour
    MaxSched,    \* bound on the ScheduleAgent calls in one behaviour
    MaxStarts,   \* bound on the Start() calls in one behaviour
    MaxBcasts    \* bound on the BroadcastMessage calls in one behaviour

ASSUME OrchestratorAssumption ==
    /\ NoAgent \notin Agents
    /\ AgentOrder \in Seq(Agents)
    /\ \A i, j \in 1..Len(AgentOrder) : AgentOrder[i] = AgentOrder[j] => i = j
    /\ \A a \in Agents : \E i \in 1..Len(AgentOrder) : AgentOrder[i] = a
    /\ MaxMsgs \in Nat /\ MaxSched \in Nat /\ MaxStarts \in Nat
    /\ MaxBcasts \in Nat

(* AgentState of agent.h; PAUSED is declared but never assigned.           *)
AgentStates == {"IDLE", "RUNNING", "COMPLETED", "FAILED"}

(* An AgentMessage, abstracted to its sequence number and recipient.       *)
Msg == [id : 1..MaxMsgs, to : Agents]

VARIABLES
    running,           \* running_
    agents,            \* the keys of agents_ (registered ids)
    state,             \* state_ of every agent object
    bound,             \* agents whose orchestrator_ is this orchestrator
    message_queue,     \* message_queue_
    scheduled_agents,  \* scheduled_agents_
    wpc,               \* worker thread: "none" when no thread exists
    batch,             \* worker: local vector of ProcessMessageQueue
    cur,               \* worker: local agent_id of OrchestratorLoop
    ctl,               \* controlling thread: "idle" or "joining" in Stop
    bc_from,           \* broadcasting thread: from_agent_id
    bc_pos,            \* broadcasting thread: next index of agents_, 0 = none
    starts,            \* Start() calls that launched a thread (bound)
    msg_count,         \* messages routed so far (history, bound)
    sched_count,       \* ScheduleAgent calls so far (history, bound)
    bcast_count,       \* BroadcastMessage calls so far (bound)
    pop_count,         \* ids popped from scheduled_agents_ (history)
    handled            \* ids of messages taken out of the batch, in order

vars == <<running, agents, state, bound, message_queue, scheduled_agents,
          wpc, batch, cur, ctl, bc_from, bc_pos, starts, msg_count,
          sched_count, bcast_count, pop_count, handled>>

WorkerPCs == {"none", "top", "drain", "deliver", "dispatch", "setrun", "exec"}

TypeOK ==
    /\ running \in BOOLEAN
    /\ agents \subseteq Agents
    /\ state \in [Agents -> AgentStates]
    /\ bound \subseteq Agents
    /\ message_queue \in Seq(Msg)
    /\ scheduled_agents \in Seq(Agents)
    /\ wpc \in WorkerPCs
    /\ batch \in Seq(Msg)
    /\ cur \in Agents \cup {NoAgent}
    /\ ctl \in {"idle", "joining"}
    /\ bc_from \in Agents \cup {NoAgent}
    /\ bc_pos \in 0..Len(AgentOrder)
    /\ starts \in 0..MaxStarts
    /\ msg_count \in 0..MaxMsgs
    /\ sched_count \in 0..MaxSched
    /\ bcast_count \in 0..MaxBcasts
    /\ pop_count \in 0..MaxSched
    /\ handled \in Seq(1..MaxMsgs)

(* agents_mutex_ is free of a broadcast (the only caller holding it across *)
(* steps); every other holder is a single action.                          *)
AgentsUnlocked == bc_pos = 0

Init ==
    /\ running = FALSE
    /\ agents = {}
    /\ state = [a \in Agents |-> "IDLE"]       \* Agent::Agent
    /\ bound = {}
    /\ message_queue = <<>>
    /\ scheduled_agents = <<>>
    /\ wpc = "none"
    /\ batch = <<>>
    /\ cur = NoAgent
    /\ ctl = "idle"
    /\ bc_from = NoAgent
    /\ bc_pos = 0
    /\ starts = 0
    /\ msg_count = 0
    /\ sched_count = 0
    /\ bcast_count = 0
    /\ pop_count = 0
    /\ handled = <<>>

-----------------------------------------------------------------------------
(* Caller operations.                                                      *)

(* Enqueue one message under messages_mutex_ (RouteMessage).               *)
Enqueue(to) ==
    /\ message_queue' = Append(message_queue, [id |-> msg_count + 1, to |-> to])
    /\ msg_count' = msg_count + 1

(* RegisterAgent: refuses a registered id; otherwise binds the agent,      *)
(* inserts it and returns Initialize(), which sets IDLE.                   *)
RegisterAgent(a) ==
    /\ AgentsUnlocked
    /\ a \notin agents
    /\ agents' = agents \cup {a}
    /\ bound' = bound \cup {a}
    /\ state' = [state EXCEPT ![a] = "IDLE"]
    /\ UNCHANGED <<running, message_queue, scheduled_agents, wpc, batch, cur,
                   ctl, bc_from, bc_pos, starts, msg_count, sched_count, bcast_count,
                   pop_count, handled>>

(* UnregisterAgent: Shutdown() sets COMPLETED, then the entry is erased.   *)
(* The agent object survives in its owner, and in the worker if the        *)
(* worker holds it.                                                        *)
UnregisterAgent(a) ==
    /\ AgentsUnlocked
    /\ a \in agents
    /\ state' = [state EXCEPT ![a] = "COMPLETED"]
    /\ agents' = agents \ {a}
    /\ UNCHANGED <<running, bound, message_queue, scheduled_agents, wpc, batch,
                   cur, ctl, bc_from, bc_pos, starts, msg_count, sched_count, bcast_count,
                   pop_count, handled>>

(* Message ids the broadcast in progress may still use (bound).            *)
BcastReserve == IF bc_pos = 0 THEN 0 ELSE Len(AgentOrder) + 1 - bc_pos

(* RouteMessage is called by Agent::SendMessage and BroadcastMessage only; *)
(* a direct call by embedding code has the effect of a bound SendMessage. *)
RouteMessage(to) ==
    /\ msg_count + BcastReserve < MaxMsgs
    /\ Enqueue(to)
    /\ UNCHANGED <<running, agents, state, bound, scheduled_agents, wpc, batch,
                   cur, ctl, bc_from, bc_pos, starts, sched_count, bcast_count, pop_count,
                   handled>>

(* Agent::SendMessage: routes through orchestrator_ when it is set, and is *)
(* a no-op (no step) otherwise.                                            *)
SendMessage(a, to) ==
    /\ a \in bound
    /\ RouteMessage(to)

ScheduleAgent(a) ==
    /\ sched_count < MaxSched
    /\ scheduled_agents' = Append(scheduled_agents, a)
    /\ sched_count' = sched_count + 1
    /\ UNCHANGED <<running, agents, state, bound, message_queue, wpc, batch,
                   cur, ctl, bc_from, bc_pos, starts, msg_count, bcast_count,
                   pop_count, handled>>

(* BroadcastMessage takes agents_mutex_ and starts iterating agents_.  The *)
(* message bound must leave room for one message per key.                  *)
BroadcastBegin(from) ==
    /\ AgentsUnlocked
    /\ Len(AgentOrder) > 0
    /\ msg_count + Len(AgentOrder) <= MaxMsgs
    /\ bcast_count < MaxBcasts
    /\ bcast_count' = bcast_count + 1
    /\ bc_from' = from
    /\ bc_pos' = 1
    /\ UNCHANGED <<running, agents, state, bound, message_queue,
                   scheduled_agents, wpc, batch, cur, ctl, starts, msg_count,
                   sched_count, pop_count, handled>>

(* One iteration: a registered id other than from gets one RouteMessage;   *)
(* after the last key the lock is released.                                *)
BroadcastStep ==
    /\ bc_pos > 0
    /\ LET a == AgentOrder[bc_pos] IN
         IF a \in agents /\ a # bc_from
         THEN Enqueue(a)
         ELSE UNCHANGED <<message_queue, msg_count>>
    /\ IF bc_pos = Len(AgentOrder)
       THEN bc_pos' = 0 /\ bc_from' = NoAgent
       ELSE bc_pos' = bc_pos + 1 /\ UNCHANGED bc_from
    /\ UNCHANGED <<running, agents, state, bound, scheduled_agents, wpc, batch,
                   cur, ctl, starts, sched_count, bcast_count, pop_count, handled>>

-----------------------------------------------------------------------------
(* Start() and Stop(), called by one controlling thread.                   *)

(* Start: no-op while running_; otherwise sets running_ and launches the   *)
(* worker.                                                                 *)
Start ==
    /\ ctl = "idle"
    /\ ~running
    /\ starts < MaxStarts
    /\ running' = TRUE
    /\ wpc' = "top"
    /\ starts' = starts + 1
    /\ UNCHANGED <<agents, state, bound, message_queue, scheduled_agents, batch,
                   cur, ctl, bc_from, bc_pos, msg_count, sched_count, bcast_count,
                   pop_count, handled>>

(* Stop: no-op unless running_; clears running_ and enters join().         *)
Stop ==
    /\ ctl = "idle"
    /\ running
    /\ running' = FALSE
    /\ ctl' = "joining"
    /\ UNCHANGED <<agents, state, bound, message_queue, scheduled_agents, wpc,
                   batch, cur, bc_from, bc_pos, starts, msg_count, sched_count, bcast_count,
                   pop_count, handled>>

(* Bug variant: the worker is detached instead of joined.                 *)
StopJoinedDetached ==
    /\ ctl = "joining"
    /\ ctl' = "idle"
    /\ UNCHANGED <<running, agents, state, bound, message_queue,
                   scheduled_agents, wpc, batch, cur, bc_from, bc_pos, starts,
                   msg_count, sched_count, bcast_count, pop_count, handled>>

(* join() returns once the worker thread has exited.                       *)
StopJoined ==
    /\ ctl = "joining"
    /\ wpc = "none"
    /\ ctl' = "idle"
    /\ UNCHANGED <<running, agents, state, bound, message_queue,
                   scheduled_agents, wpc, batch, cur, bc_from, bc_pos, starts,
                   msg_count, sched_count, bcast_count, pop_count, handled>>

-----------------------------------------------------------------------------
(* The worker thread, OrchestratorLoop.                                    *)

(* Bug variant: the loop body never calls ProcessMessageQueue.            *)
LoopTopSkipsQueue ==
    /\ wpc = "top"
    /\ wpc' = IF running THEN "deliver" ELSE "none"
    /\ UNCHANGED <<running, agents, state, bound, message_queue,
                   scheduled_agents, batch, cur, ctl, bc_from, bc_pos, starts,
                   msg_count, sched_count, bcast_count, pop_count, handled>>

(* while (running_): exit the thread when the flag is clear.               *)
LoopTop ==
    /\ wpc = "top"
    /\ wpc' = IF running THEN "drain" ELSE "none"
    /\ UNCHANGED <<running, agents, state, bound, message_queue,
                   scheduled_agents, batch, cur, ctl, bc_from, bc_pos, starts,
                   msg_count, sched_count, bcast_count, pop_count, handled>>

(* Bug variant: the queue is copied into the local vector, not swapped.   *)
DrainQueueCopies ==
    /\ wpc = "drain"
    /\ batch' = message_queue
    /\ wpc' = "deliver"
    /\ UNCHANGED <<running, agents, state, bound, message_queue,
                   scheduled_agents, cur, ctl, bc_from, bc_pos, starts,
                   msg_count, sched_count, bcast_count, pop_count, handled>>

(* ProcessMessageQueue, first half: move the whole queue to the local      *)
(* vector under messages_mutex_.                                           *)
DrainQueue ==
    /\ wpc = "drain"
    /\ batch' = message_queue
    /\ message_queue' = <<>>
    /\ wpc' = "deliver"
    /\ UNCHANGED <<running, agents, state, bound, scheduled_agents, cur, ctl,
                   bc_from, bc_pos, starts, msg_count, sched_count, bcast_count, pop_count,
                   handled>>

(* ProcessMessageQueue, second half: GetAgent(to) under agents_mutex_,     *)
(* OnMessage if found, silently drop otherwise.  The base OnMessage has no *)
(* effect; what an override sends is a caller action.                      *)
DeliverMessage ==
    /\ wpc = "deliver"
    /\ batch # <<>>
    /\ AgentsUnlocked
    /\ handled' = Append(handled, Head(batch).id)
    /\ batch' = Tail(batch)
    /\ UNCHANGED <<running, agents, state, bound, message_queue,
                   scheduled_agents, wpc, cur, ctl, bc_from, bc_pos, starts,
                   msg_count, sched_count, bcast_count, pop_count>>

(* Bug variant: the front id is read but pop() is forgotten.              *)
PopScheduledNoPop ==
    /\ wpc = "deliver"
    /\ batch = <<>>
    /\ IF scheduled_agents # <<>>
       THEN /\ cur' = Head(scheduled_agents)
            /\ pop_count' = pop_count + 1
            /\ wpc' = "dispatch"
            /\ UNCHANGED scheduled_agents
       ELSE /\ wpc' = "top"
            /\ UNCHANGED <<cur, scheduled_agents, pop_count>>
    /\ UNCHANGED <<running, agents, state, bound, message_queue, batch, ctl,
                   bc_from, bc_pos, starts, msg_count, sched_count,
                   bcast_count, handled>>

(* Bug variant: an id whose agent is not registered yet is left queued     *)
(* until it is.                                                            *)
PopScheduledWaits ==
    /\ wpc = "deliver"
    /\ batch = <<>>
    /\ IF scheduled_agents # <<>> /\ Head(scheduled_agents) \in agents
       THEN /\ cur' = Head(scheduled_agents)
            /\ scheduled_agents' = Tail(scheduled_agents)
            /\ pop_count' = pop_count + 1
            /\ wpc' = "dispatch"
       ELSE /\ wpc' = "top"
            /\ UNCHANGED <<cur, scheduled_agents, pop_count>>
    /\ UNCHANGED <<running, agents, state, bound, message_queue, batch, ctl,
                   bc_from, bc_pos, starts, msg_count, sched_count,
                   bcast_count, handled>>

(* Pop at most one scheduled id under messages_mutex_.                     *)
PopScheduled ==
    /\ wpc = "deliver"
    /\ batch = <<>>
    /\ IF scheduled_agents # <<>>
       THEN /\ cur' = Head(scheduled_agents)
            /\ scheduled_agents' = Tail(scheduled_agents)
            /\ pop_count' = pop_count + 1
            /\ wpc' = "dispatch"
       ELSE /\ wpc' = "top"
            /\ UNCHANGED <<cur, scheduled_agents, pop_count>>
    /\ UNCHANGED <<running, agents, state, bound, message_queue, batch, ctl,
                   bc_from, bc_pos, starts, msg_count, sched_count,
                   bcast_count, handled>>

(* Bug variant: the state() == IDLE test is left out.                     *)
DispatchCheckAnyState ==
    /\ wpc = "dispatch"
    /\ AgentsUnlocked
    /\ IF cur \in agents
       THEN wpc' = "setrun" /\ UNCHANGED cur
       ELSE wpc' = "top" /\ cur' = NoAgent
    /\ UNCHANGED <<running, agents, state, bound, message_queue,
                   scheduled_agents, batch, ctl, bc_from, bc_pos, starts,
                   msg_count, sched_count, bcast_count, pop_count, handled>>

(* GetAgent(agent_id) under agents_mutex_, then (outside the lock) the     *)
(* test state() == IDLE; a missing or non-IDLE agent is skipped.  The      *)
(* fixed sleep at the end of the iteration changes no state.               *)
DispatchCheck ==
    /\ wpc = "dispatch"
    /\ AgentsUnlocked
    /\ IF cur \in agents /\ state[cur] = "IDLE"
       THEN wpc' = "setrun" /\ UNCHANGED cur
       ELSE wpc' = "top" /\ cur' = NoAgent
    /\ UNCHANGED <<running, agents, state, bound, message_queue,
                   scheduled_agents, batch, ctl, bc_from, bc_pos, starts,
                   msg_count, sched_count, bcast_count, pop_count, handled>>

(* set_state(RUNNING): a separate, unlocked write after the test.          *)
SetRunning ==
    /\ wpc = "setrun"
    /\ state' = [state EXCEPT ![cur] = "RUNNING"]
    /\ wpc' = "exec"
    /\ UNCHANGED <<running, agents, bound, message_queue, scheduled_agents,
                   batch, cur, ctl, bc_from, bc_pos, starts, msg_count,
                   sched_count, bcast_count, pop_count, handled>>

(* Execute() returns: set_state(IDLE).                                     *)
ExecuteReturns ==
    /\ wpc = "exec"
    /\ state' = [state EXCEPT ![cur] = "IDLE"]
    /\ wpc' = "top"
    /\ cur' = NoAgent
    /\ UNCHANGED <<running, agents, bound, message_queue, scheduled_agents,
                   batch, ctl, bc_from, bc_pos, starts, msg_count,
                   sched_count, bcast_count, pop_count, handled>>

(* Bug variant: the catch block swallows the exception without set_state. *)
ExecuteFaultsKeepsState ==
    /\ wpc = "exec"
    /\ wpc' = "top"
    /\ cur' = NoAgent
    /\ UNCHANGED <<running, agents, state, bound, message_queue,
                   scheduled_agents, batch, ctl, bc_from, bc_pos, starts,
                   msg_count, sched_count, bcast_count, pop_count, handled>>

(* Execute() throws: catch (...) sets FAILED.                              *)
ExecuteFaults ==
    /\ wpc = "exec"
    /\ state' = [state EXCEPT ![cur] = "FAILED"]
    /\ wpc' = "top"
    /\ cur' = NoAgent
    /\ UNCHANGED <<running, agents, bound, message_queue, scheduled_agents,
                   batch, ctl, bc_from, bc_pos, starts, msg_count,
                   sched_count, bcast_count, pop_count, handled>>

Worker ==
    \/ LoopTop \/ DrainQueue \/ DeliverMessage \/ PopScheduled
    \/ DispatchCheck \/ SetRunning \/ ExecuteReturns \/ ExecuteFaults

Callers ==
    \/ \E a \in Agents : RegisterAgent(a) \/ UnregisterAgent(a)
                         \/ ScheduleAgent(a) \/ BroadcastBegin(a)
    \/ \E a, to \in Agents : SendMessage(a, to)
    \/ BroadcastStep

Controller == Start \/ Stop \/ StopJoined

Next == Worker \/ Callers \/ Controller

(* The worker is an OS thread that only blocks on mutexes held for single  *)
(* steps and sleeps a bounded 10 ms, and a broadcasting thread loops while  *)
(* holding agents_mutex_: both are weakly fair.  Callers and the           *)
(* controller may stop calling at any time.                                *)
Fairness == WF_vars(Worker) /\ WF_vars(BroadcastStep)

Spec == Init /\ [][Next]_vars /\ Fairness

-----------------------------------------------------------------------------
(* Properties.                                                             *)

MsgIds(s) == [i \in 1..Len(s) |-> s[i].id]

(* No message routed to the orchestrator is lost, duplicated or reordered, *)
(* across Stop/Start cycles included: the messages taken out of the        *)
(* worker's batch, then the batch, then message_queue_, are exactly the    *)
(* messages in the order RouteMessage enqueued them                        *)
(* (ProcessMessageQueue, OrchestratorLoop, Stop).                          *)
MessageConservation ==
    handled \o MsgIds(batch) \o MsgIds(message_queue) = [i \in 1..msg_count |-> i]

(* An agent whose state is RUNNING is the one the worker is executing at   *)
(* this moment: no agent is left RUNNING once its Execute has returned or  *)
(* thrown, or after Stop() has joined the worker (OrchestratorLoop).       *)
RunningMeansExecuting ==
    \A a \in Agents : state[a] = "RUNNING" => wpc = "exec" /\ cur = a

(* Once Stop() has returned, no worker thread exists and no message is     *)
(* stranded in its local batch (Stop's join, the loop test at the top).    *)
StoppedIsQuiescent ==
    (ctl = "idle" /\ ~running) => (wpc = "none" /\ batch = <<>>)

(* A FAILED agent is never dispatched again, however often it is           *)
(* scheduled (the IDLE test of OrchestratorLoop).                          *)
FailedNeverRedispatched ==
    [][\A a \in Agents : state[a] = "FAILED" => state'[a] # "RUNNING"]_state

(* Shutdown() makes an agent COMPLETED, a terminal state (spec 4.3): the   *)
(* only way out is a fresh RegisterAgent, whose Initialize() sets IDLE.    *)
CompletedIsTerminal ==
    [][\A a \in Agents :
         (state[a] = "COMPLETED" /\ state'[a] # "COMPLETED") => a \in agents' \ agents]_<<state, agents>>

(* While the orchestrator keeps running, every message routed is           *)
(* eventually taken by the worker, delivered or dropped                    *)
(* (ProcessMessageQueue under a weakly fair worker).                       *)
MessagesEventuallyHandled ==
    \A i \in 1..MaxMsgs :
        (msg_count >= i /\ running) ~> (Len(handled) >= i \/ ~running)

(* While the orchestrator keeps running, every ScheduleAgent call is       *)
(* eventually popped by the worker (the pop in OrchestratorLoop).          *)
ScheduleEventuallyPopped ==
    \A k \in 1..MaxSched :
        (sched_count >= k /\ running) ~> (pop_count >= k \/ ~running)


-----------------------------------------------------------------------------
(* Refinement of the abstract message channel.                             *)

(* The channel the orchestrator implements: the messages not yet taken are *)
(* the worker's batch followed by message_queue_, and a message is taken   *)
(* when the worker removes it from the batch.                              *)
Channel == INSTANCE MessageChannel
               WITH sent <- msg_count,
                    chan <- batch \o message_queue,
                    delivered <- handled

(* RouteMessage, BroadcastMessage, ProcessMessageQueue's swap and its      *)
(* delivery loop, across Stop/Start cycles, together behave as one FIFO    *)
(* channel: every step either sends at the end, takes the oldest message,  *)
(* or leaves the channel unchanged.                                        *)
ChannelRefinement == Channel!CSpec

=============================================================================
