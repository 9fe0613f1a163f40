------------------------- MODULE OrchestratorProofs -------------------------
(***************************************************************************)
(* Proofs about the Orchestrator module, for every value of its constants. *)
(***************************************************************************)
EXTENDS Orchestrator, TLAPS, SequenceTheorems

(* The bounds of the model stay consistent: a broadcast in progress never  *)
(* runs out of message ids, and every ScheduleAgent call is either popped  *)
(* or still queued.  TypeOK alone is not inductive without them.           *)
Budget == msg_count + BcastReserve <= MaxMsgs

SchedBalance == pop_count + Len(scheduled_agents) = sched_count

TypeInv == TypeOK /\ Budget /\ SchedBalance

-----------------------------------------------------------------------------
LEMMA AgentOrderType ==
    /\ AgentOrder \in Seq(Agents)
    /\ Len(AgentOrder) \in Nat
    /\ \A i \in 1..Len(AgentOrder) : AgentOrder[i] \in Agents
<1>1. AgentOrder \in Seq(Agents)
  BY OrchestratorAssumption
<1>2. QED
  BY <1>1, LenProperties, ElementOfSeq

LEMMA BoundsType ==
    /\ NoAgent \notin Agents
    /\ MaxMsgs \in Nat /\ MaxSched \in Nat /\ MaxStarts \in Nat
    /\ MaxBcasts \in Nat
  BY OrchestratorAssumption

LEMMA InitTypeInv == Init => TypeInv
<1> SUFFICES ASSUME Init PROVE TypeInv
  OBVIOUS
<1>1. TypeOK
  <2>0. running \in BOOLEAN
    BY DEF Init
  <2>1. state \in [Agents -> AgentStates]
    BY DEF Init, AgentStates
  <2>2. message_queue \in Seq(Msg) /\ batch \in Seq(Msg)
        /\ scheduled_agents \in Seq(Agents) /\ handled \in Seq(1..MaxMsgs)
    BY EmptySeq DEF Init
  <2>3. QED
    BY <2>0, <2>1, <2>2, AgentOrderType, BoundsType DEF Init, TypeOK, WorkerPCs
<1>2. Budget /\ SchedBalance
  BY BoundsType, EmptySeq DEF Init, Budget, BcastReserve, SchedBalance
<1>3. QED
  BY <1>1, <1>2 DEF TypeInv

LEMMA ReserveType ==
    ASSUME TypeOK
    PROVE  /\ BcastReserve \in Nat
           /\ bc_pos > 0 => BcastReserve >= 1
  BY AgentOrderType DEF TypeOK, BcastReserve

(* The type invariant in five groups, one per part of the state, so that a *)
(* step's proof only opens the groups the step changes.                    *)
TypeCtl ==
    /\ running \in BOOLEAN
    /\ wpc \in WorkerPCs
    /\ ctl \in {"idle", "joining"}
    /\ cur \in Agents \cup {NoAgent}
    /\ starts \in 0..MaxStarts

TypeReg ==
    /\ agents \subseteq Agents
    /\ state \in [Agents -> AgentStates]
    /\ bound \subseteq Agents

TypeMsgs ==
    /\ message_queue \in Seq(Msg)
    /\ batch \in Seq(Msg)
    /\ handled \in Seq(1..MaxMsgs)

TypeSched ==
    /\ scheduled_agents \in Seq(Agents)
    /\ sched_count \in 0..MaxSched
    /\ pop_count \in 0..MaxSched
    /\ SchedBalance

TypeBcast ==
    /\ bc_from \in Agents \cup {NoAgent}
    /\ bc_pos \in 0..Len(AgentOrder)
    /\ bcast_count \in 0..MaxBcasts
    /\ msg_count \in 0..MaxMsgs
    /\ Budget

Groups == TypeCtl /\ TypeReg /\ TypeMsgs /\ TypeSched /\ TypeBcast

LEMMA TypeInvGroups == TypeInv <=> Groups
BY Zenon DEF TypeInv, TypeOK, Groups, TypeCtl, TypeReg, TypeMsgs, TypeSched,
             TypeBcast

LEMMA CtlFrame ==
    ASSUME TypeCtl, UNCHANGED <<running, wpc, ctl, cur, starts>>
    PROVE  TypeCtl'
BY DEF TypeCtl

LEMMA RegFrame ==
    ASSUME TypeReg, UNCHANGED <<agents, state, bound>>
    PROVE  TypeReg'
BY DEF TypeReg

LEMMA MsgsFrame ==
    ASSUME TypeMsgs, UNCHANGED <<message_queue, batch, handled>>
    PROVE  TypeMsgs'
BY DEF TypeMsgs

LEMMA SchedFrame ==
    ASSUME TypeSched, UNCHANGED <<scheduled_agents, sched_count, pop_count>>
    PROVE  TypeSched'
BY DEF TypeSched, SchedBalance

LEMMA BcastFrame ==
    ASSUME TypeBcast, UNCHANGED <<bc_from, bc_pos, bcast_count, msg_count>>
    PROVE  TypeBcast'
BY DEF TypeBcast, Budget, BcastReserve

(* A message appended by RouteMessage or a broadcast step.                 *)
LEMMA AppendMsg ==
    ASSUME NEW q \in Seq(Msg), NEW n \in 1..MaxMsgs, NEW to \in Agents
    PROVE  Append(q, [id |-> n, to |-> to]) \in Seq(Msg)
<1>1. [id |-> n, to |-> to] \in Msg
  BY DEF Msg
<1>2. QED
  BY <1>1, AppendProperties

(* One enqueue under a budget that leaves an id for it.                    *)
LEMMA EnqueueStep ==
    ASSUME TypeMsgs, TypeBcast, NEW to \in Agents, Enqueue(to),
           NEW r \in Nat, BcastReserve' = r, msg_count + 1 + r <= MaxMsgs,
           UNCHANGED <<batch, handled, bcast_count>>,
           bc_from' \in Agents \cup {NoAgent}, bc_pos' \in 0..Len(AgentOrder)
    PROVE  TypeMsgs' /\ TypeBcast'
<1>1. msg_count \in Nat /\ msg_count + 1 \in 1..MaxMsgs
  BY BoundsType DEF TypeBcast
<1>2. message_queue' \in Seq(Msg)
  BY <1>1, AppendMsg DEF Enqueue, TypeMsgs
<1>3. TypeMsgs'
  BY <1>2 DEF TypeMsgs
<1>4. msg_count' + BcastReserve' <= MaxMsgs
  BY <1>1 DEF Enqueue
<1>5. TypeBcast'
  BY <1>1, <1>4 DEF Enqueue, TypeBcast, Budget
<1>6. QED
  BY <1>3, <1>5

(* Every step keeps the type invariant: one step per action, and under it *)
(* one step per group the action changes.                                  *)
LEMMA NextTypeInv == TypeInv /\ [Next]_vars => TypeInv'
<1> SUFFICES ASSUME TypeInv, [Next]_vars PROVE TypeInv'
  OBVIOUS
<1>g. TypeInv' <=> Groups'
  BY Zenon DEF TypeInv, TypeOK, Groups, TypeCtl, TypeReg, TypeMsgs,
               TypeSched, TypeBcast
<1> SUFFICES Groups'
  BY <1>g
<1>h. TypeCtl /\ TypeReg /\ TypeMsgs /\ TypeSched /\ TypeBcast
  BY TypeInvGroups DEF Groups
<1> USE <1>h, BoundsType, AgentOrderType DEF Groups
<1>1. ASSUME NEW a \in Agents, RegisterAgent(a) PROVE Groups'
  <2>1. TypeReg'
    BY <1>1 DEF RegisterAgent, TypeReg, AgentStates
  <2>2. QED
    BY <1>1, <2>1, CtlFrame, MsgsFrame, SchedFrame, BcastFrame DEF RegisterAgent
<1>2. ASSUME NEW a \in Agents, UnregisterAgent(a) PROVE Groups'
  <2>1. TypeReg'
    BY <1>2 DEF UnregisterAgent, TypeReg, AgentStates
  <2>2. QED
    BY <1>2, <2>1, CtlFrame, MsgsFrame, SchedFrame, BcastFrame DEF UnregisterAgent
<1>3. ASSUME NEW a \in Agents, ScheduleAgent(a) PROVE Groups'
  <2>1. TypeSched'
    BY <1>3, AppendProperties DEF ScheduleAgent, TypeSched, SchedBalance
  <2>2. QED
    BY <1>3, <2>1, CtlFrame, RegFrame, MsgsFrame, BcastFrame DEF ScheduleAgent
<1>4. ASSUME NEW a \in Agents, BroadcastBegin(a) PROVE Groups'
  <2>1. TypeBcast'
    BY <1>4 DEF BroadcastBegin, TypeBcast, Budget, BcastReserve, AgentsUnlocked
  <2>2. QED
    BY <1>4, <2>1, CtlFrame, RegFrame, MsgsFrame, SchedFrame DEF BroadcastBegin
<1>5. ASSUME NEW to \in Agents, RouteMessage(to) PROVE Groups'
  <2>1. BcastReserve' = BcastReserve /\ BcastReserve \in Nat
    BY <1>5 DEF RouteMessage, BcastReserve, TypeBcast
  <2>2. TypeMsgs' /\ TypeBcast'
    <3>1. PICK r \in Nat : BcastReserve' = r /\ BcastReserve = r
      BY <2>1
    <3>2. msg_count + 1 + r <= MaxMsgs
      BY <1>5, <3>1 DEF RouteMessage, TypeBcast
    <3>3. UNCHANGED <<batch, handled, bcast_count, bc_from, bc_pos>>
      BY <1>5 DEF RouteMessage
    <3>4. Enqueue(to)
      BY <1>5 DEF RouteMessage
    <3>5. QED
      BY <3>1, <3>2, <3>3, <3>4, EnqueueStep DEF TypeBcast
  <2>3. QED
    BY <1>5, <2>2, CtlFrame, RegFrame, SchedFrame DEF RouteMessage
<1>6. ASSUME NEW a \in Agents, NEW to \in Agents, SendMessage(a, to)
      PROVE Groups'
  BY <1>6, <1>5 DEF SendMessage
<1>7. CASE BroadcastStep
  <2>1. bc_pos \in 1..Len(AgentOrder) /\ AgentOrder[bc_pos] \in Agents
    BY <1>7 DEF BroadcastStep, TypeBcast
  <2>2. /\ bc_pos' \in 0..Len(AgentOrder)
        /\ bc_from' \in Agents \cup {NoAgent}
        /\ BcastReserve' \in Nat
        /\ BcastReserve' + 1 = BcastReserve
    <3>1. CASE bc_pos = Len(AgentOrder)
      <4>1. bc_pos' = 0 /\ bc_from' = NoAgent
        BY <1>7, <3>1 DEF BroadcastStep
      <4>2. QED
        BY <2>1, <3>1, <4>1 DEF BcastReserve
    <3>2. CASE bc_pos # Len(AgentOrder)
      <4>1. bc_pos' = bc_pos + 1 /\ bc_from' = bc_from
        BY <1>7, <3>2 DEF BroadcastStep
      <4>2. QED
        BY <2>1, <3>2, <4>1 DEF BcastReserve, TypeBcast
    <3>3. QED
      BY <3>1, <3>2
  <2>3. UNCHANGED <<batch, handled, bcast_count>>
    BY <1>7 DEF BroadcastStep
  <2>4. TypeMsgs' /\ TypeBcast'
    <3>1. CASE AgentOrder[bc_pos] \in agents /\ AgentOrder[bc_pos] # bc_from
      <4>1. Enqueue(AgentOrder[bc_pos])
        BY <1>7, <3>1 DEF BroadcastStep
      <4>2. PICK r \in Nat : BcastReserve' = r
        BY <2>2
      <4>3. msg_count + 1 + r <= MaxMsgs
        BY <2>2, <4>2 DEF TypeBcast, Budget
      <4>4. QED
        BY <2>1, <2>2, <2>3, <4>1, <4>2, <4>3, EnqueueStep
    <3>2. CASE ~(AgentOrder[bc_pos] \in agents /\ AgentOrder[bc_pos] # bc_from)
      <4>1. UNCHANGED <<message_queue, msg_count>>
        BY <1>7, <3>2 DEF BroadcastStep
      <4>2. TypeMsgs'
        BY <2>3, <4>1 DEF TypeMsgs
      <4>3. PICK r \in Nat : BcastReserve' = r
        BY <2>2
      <4>4. msg_count' + r <= MaxMsgs
        BY <2>2, <4>1, <4>3 DEF TypeBcast, Budget
      <4>5. TypeBcast'
        BY <2>2, <2>3, <4>1, <4>3, <4>4 DEF TypeBcast, Budget
      <4>6. QED
        BY <4>2, <4>5
    <3>3. QED
      BY <3>1, <3>2
  <2>5. QED
    BY <1>7, <2>4, CtlFrame, RegFrame, SchedFrame DEF BroadcastStep
<1>8. CASE Start
  <2>1. TypeCtl'
    BY <1>8 DEF Start, TypeCtl, WorkerPCs
  <2>2. QED
    BY <1>8, <2>1, RegFrame, MsgsFrame, SchedFrame, BcastFrame DEF Start
<1>9. CASE Stop
  <2>1. TypeCtl'
    BY <1>9 DEF Stop, TypeCtl
  <2>2. QED
    BY <1>9, <2>1, RegFrame, MsgsFrame, SchedFrame, BcastFrame DEF Stop
<1>10. CASE StopJoined
  <2>1. TypeCtl'
    BY <1>10 DEF StopJoined, TypeCtl
  <2>2. QED
    BY <1>10, <2>1, RegFrame, MsgsFrame, SchedFrame, BcastFrame DEF StopJoined
<1>11. CASE LoopTop
  <2>1. TypeCtl'
    BY <1>11 DEF LoopTop, TypeCtl, WorkerPCs
  <2>2. QED
    BY <1>11, <2>1, RegFrame, MsgsFrame, SchedFrame, BcastFrame DEF LoopTop
<1>12. CASE DrainQueue
  <2>1. TypeCtl'
    BY <1>12 DEF DrainQueue, TypeCtl, WorkerPCs
  <2>2. TypeMsgs'
    BY <1>12, EmptySeq DEF DrainQueue, TypeMsgs
  <2>3. QED
    BY <1>12, <2>1, <2>2, RegFrame, SchedFrame, BcastFrame DEF DrainQueue
<1>13. CASE DeliverMessage
  <2>1. batch \in Seq(Msg) /\ batch # <<>> /\ handled \in Seq(1..MaxMsgs)
    BY <1>13 DEF DeliverMessage, TypeMsgs
  <2>2. Head(batch) \in Msg /\ Tail(batch) \in Seq(Msg)
    BY <2>1, HeadTailProperties
  <2>3. Head(batch).id \in 1..MaxMsgs
    BY <2>2 DEF Msg
  <2>4. Append(handled, Head(batch).id) \in Seq(1..MaxMsgs)
    BY <2>1, <2>3, AppendProperties
  <2>5. TypeMsgs'
    BY <1>13, <2>2, <2>4 DEF DeliverMessage, TypeMsgs
  <2>6. QED
    BY <1>13, <2>5, CtlFrame, RegFrame, SchedFrame, BcastFrame DEF DeliverMessage
<1>14. CASE PopScheduled
  <2>1. CASE scheduled_agents # <<>>
    <3>1. /\ Head(scheduled_agents) \in Agents
          /\ Tail(scheduled_agents) \in Seq(Agents)
          /\ Len(Tail(scheduled_agents)) = Len(scheduled_agents) - 1
          /\ Len(scheduled_agents) >= 1
      BY <2>1, HeadTailProperties, EmptySeq DEF TypeSched
    <3>2. /\ cur' = Head(scheduled_agents) /\ wpc' = "dispatch"
          /\ pop_count' = pop_count + 1
          /\ scheduled_agents' = Tail(scheduled_agents)
          /\ UNCHANGED <<running, ctl, starts, sched_count>>
      BY <1>14, <2>1 DEF PopScheduled
    <3>3. TypeCtl'
      BY <3>1, <3>2 DEF TypeCtl, WorkerPCs
    <3>4. TypeSched'
      BY <3>1, <3>2 DEF TypeSched, SchedBalance
    <3>5. QED
      BY <1>14, <3>3, <3>4, RegFrame, MsgsFrame, BcastFrame DEF PopScheduled
  <2>2. CASE scheduled_agents = <<>>
    <3>1. TypeCtl'
      BY <1>14, <2>2 DEF PopScheduled, TypeCtl, WorkerPCs
    <3>2. QED
      BY <1>14, <2>2, <3>1, RegFrame, MsgsFrame, SchedFrame, BcastFrame
      DEF PopScheduled
  <2>3. QED
    BY <2>1, <2>2
<1>15. CASE DispatchCheck
  <2>1. TypeCtl'
    BY <1>15 DEF DispatchCheck, TypeCtl, TypeReg, WorkerPCs
  <2>2. QED
    BY <1>15, <2>1, RegFrame, MsgsFrame, SchedFrame, BcastFrame DEF DispatchCheck
<1>16. CASE SetRunning
  <2>1. TypeCtl' /\ TypeReg'
    BY <1>16 DEF SetRunning, TypeCtl, TypeReg, WorkerPCs, AgentStates
  <2>2. QED
    BY <1>16, <2>1, MsgsFrame, SchedFrame, BcastFrame DEF SetRunning
<1>17. CASE ExecuteReturns
  <2>1. TypeCtl' /\ TypeReg'
    BY <1>17 DEF ExecuteReturns, TypeCtl, TypeReg, WorkerPCs, AgentStates
  <2>2. QED
    BY <1>17, <2>1, MsgsFrame, SchedFrame, BcastFrame DEF ExecuteReturns
<1>18. CASE ExecuteFaults
  <2>1. TypeCtl' /\ TypeReg'
    BY <1>18 DEF ExecuteFaults, TypeCtl, TypeReg, WorkerPCs, AgentStates
  <2>2. QED
    BY <1>18, <2>1, MsgsFrame, SchedFrame, BcastFrame DEF ExecuteFaults
<1>19. CASE UNCHANGED vars
  BY <1>19, CtlFrame, RegFrame, MsgsFrame, SchedFrame, BcastFrame DEF vars
<1>20. QED
  BY <1>1, <1>2, <1>3, <1>4, <1>5, <1>6, <1>7, <1>8, <1>9, <1>10, <1>11,
     <1>12, <1>13, <1>14, <1>15, <1>16, <1>17, <1>18, <1>19
  DEF Next, Worker, Callers, Controller

(* Type correctness of the orchestrator model.                             *)
THEOREM TypeCorrect == Spec => []TypeOK
<1>1. Spec => []TypeInv
  BY InitTypeInv, NextTypeInv, PTL DEF Spec
<1>2. QED
  BY <1>1, PTL DEF TypeInv

-----------------------------------------------------------------------------
(* The worker's control state.  RunningMeansExecuting and                  *)
(* StoppedIsQuiescent are not inductive alone: Start needs the worker gone *)
(* when stopped, SetRunning needs cur to be an agent, and the quiescence   *)
(* of a stopped worker needs an empty batch everywhere but "deliver".      *)
CurValid == wpc \in {"setrun", "exec"} => cur \in Agents
BatchDelivering == batch # <<>> => wpc = "deliver"
WorkerInv ==
    /\ TypeInv
    /\ RunningMeansExecuting
    /\ StoppedIsQuiescent
    /\ CurValid
    /\ BatchDelivering

LEMMA InitWorkerInv == Init => WorkerInv
<1> SUFFICES ASSUME Init PROVE WorkerInv
  OBVIOUS
<1>1. TypeInv
  BY InitTypeInv
<1>2. QED
  BY <1>1 DEF Init, WorkerInv, RunningMeansExecuting, StoppedIsQuiescent,
             CurValid, BatchDelivering

(* Steps that leave the worker's control state and the agent states alone. *)
Frame == UNCHANGED <<running, state, wpc, batch, cur, ctl>>

LEMMA FrameWorkerInv ==
    ASSUME WorkerInv, TypeInv', Frame
    PROVE  WorkerInv'
BY DEF WorkerInv, Frame, RunningMeansExecuting, StoppedIsQuiescent,
       CurValid, BatchDelivering

LEMMA NextWorkerInv == WorkerInv /\ [Next]_vars => WorkerInv'
<1> SUFFICES ASSUME WorkerInv, [Next]_vars PROVE WorkerInv'
  OBVIOUS
<1>0. TypeInv'
  BY NextTypeInv DEF WorkerInv
<1> SUFFICES RunningMeansExecuting' /\ StoppedIsQuiescent' /\ CurValid'
             /\ BatchDelivering'
  BY <1>0 DEF WorkerInv
<1>s. state \in [Agents -> AgentStates]
  BY DEF WorkerInv, TypeInv, TypeOK
<1>n. NoAgent \notin Agents
  BY OrchestratorAssumption
<1> USE <1>s, <1>n DEF WorkerInv, RunningMeansExecuting, StoppedIsQuiescent,
                      CurValid, BatchDelivering
<1>1. ASSUME NEW a \in Agents, RegisterAgent(a) PROVE RunningMeansExecuting' /\ StoppedIsQuiescent' /\ CurValid'
                   /\ BatchDelivering'
  BY <1>1 DEF RegisterAgent
<1>2. ASSUME NEW a \in Agents, UnregisterAgent(a) PROVE RunningMeansExecuting' /\ StoppedIsQuiescent' /\ CurValid'
                   /\ BatchDelivering'
  BY <1>2 DEF UnregisterAgent
<1>3. CASE SetRunning
  BY <1>3 DEF SetRunning
<1>4. CASE ExecuteReturns
  BY <1>4 DEF ExecuteReturns
<1>5. CASE ExecuteFaults
  BY <1>5 DEF ExecuteFaults
<1>6. CASE LoopTop
  BY <1>6 DEF LoopTop
<1>7. CASE PopScheduled
  BY <1>7 DEF PopScheduled
<1>8. CASE DispatchCheck
  <2>1. agents \subseteq Agents
    BY DEF WorkerInv, TypeInv, TypeOK
  <2>2. QED
    BY <1>8, <2>1 DEF DispatchCheck
<1>9. CASE Start
  BY <1>9 DEF Start
<1>10. CASE Stop
  BY <1>10 DEF Stop
<1>11. CASE StopJoined
  BY <1>11 DEF StopJoined
<1>12. CASE DrainQueue
  BY <1>12 DEF DrainQueue
<1>13. CASE DeliverMessage
  BY <1>13 DEF DeliverMessage
<1>14. ASSUME NEW a \in Agents, NEW to \in Agents,
              \/ ScheduleAgent(a) \/ BroadcastBegin(a)
              \/ RouteMessage(to) \/ SendMessage(a, to)
       PROVE Frame
  BY <1>14 DEF ScheduleAgent, BroadcastBegin, RouteMessage, SendMessage,
               Enqueue, Frame
<1>15. BroadcastStep \/ UNCHANGED vars => Frame
  BY DEF BroadcastStep, Enqueue, vars, Frame
<1>16. Frame => WorkerInv'
  BY <1>0, FrameWorkerInv
<1>17. QED
  BY <1>1, <1>2, <1>3, <1>4, <1>5, <1>6, <1>7, <1>8, <1>9, <1>10,
     <1>11, <1>12, <1>13, <1>14, <1>15, <1>16
     DEF Next, Worker, Callers, Controller

(* An agent reported RUNNING is the one the worker is executing, and after *)
(* Stop() has joined the worker (OrchestratorLoop) it has exited with no   *)
(* message batch in hand.                                                  *)
THEOREM WorkerCorrect ==
    Spec => [](RunningMeansExecuting /\ StoppedIsQuiescent)
<1>1. WorkerInv => RunningMeansExecuting /\ StoppedIsQuiescent
  BY DEF WorkerInv
<1>2. QED
  BY <1>1, InitWorkerInv, NextWorkerInv, PTL DEF Spec

(* An agent reported RUNNING is always the one the worker is executing     *)
(* (OrchestratorLoop's set_state calls around Execute).                    *)
COROLLARY RunningIsExecuting == Spec => []RunningMeansExecuting
BY WorkerCorrect, PTL

(* After Stop() has joined, the worker thread is gone and holds no batch.  *)
COROLLARY StopIsQuiescent == Spec => []StoppedIsQuiescent
BY WorkerCorrect, PTL

-----------------------------------------------------------------------------
(* Message conservation.  Ids(n) is the sequence 1, ..., n of the ids      *)
(* handed out so far; MsgIds projects a queue on its ids.                  *)
Ids(n) == [i \in 1..n |-> i]

LEMMA IdsAppend ==
    ASSUME NEW n \in Nat
    PROVE  /\ Ids(n) \in Seq(Int)
           /\ Ids(n + 1) = Append(Ids(n), n + 1)
BY DEF Ids

LEMMA MsgIdsType ==
    ASSUME NEW s \in Seq(Msg)
    PROVE  MsgIds(s) \in Seq(Int)
<1>1. Len(s) \in Nat /\ \A i \in 1..Len(s) : s[i] \in Msg
  BY LenProperties, ElementOfSeq
<1>2. \A i \in 1..Len(s) : s[i].id \in Int
  BY <1>1, BoundsType DEF Msg
<1>3. QED
  BY <1>1, <1>2 DEF MsgIds

LEMMA MsgIdsEmpty == MsgIds(<<>>) = <<>>
BY DEF MsgIds

(* Appending a message appends its id.                                     *)
LEMMA MsgIdsAppend ==
    ASSUME NEW s \in Seq(Msg), NEW m \in Msg
    PROVE  MsgIds(Append(s, m)) = Append(MsgIds(s), m.id)
<1>1. Append(s, m) \in Seq(Msg)
  BY AppendProperties
<1>2. QED
  BY <1>1, AppendProperties DEF MsgIds

(* The ids of a non-empty queue are its head's id, then those of its tail. *)
LEMMA MsgIdsHead ==
    ASSUME NEW s \in Seq(Msg), s # <<>>
    PROVE  MsgIds(s) = <<Head(s).id>> \o MsgIds(Tail(s))
<1>1. Tail(s) \in Seq(Msg) /\ Len(Tail(s)) = Len(s) - 1
  BY HeadTailProperties
<1>2. MsgIds(Tail(s)) \in Seq(Int) /\ MsgIds(s) \in Seq(Int)
  BY <1>1, MsgIdsType
<1>3. Head(s).id \in Int
  <2>1. Head(s) \in Msg
    BY HeadTailProperties
  <2>2. QED
    BY <2>1, BoundsType DEF Msg
<1>4. Len(s) \in Nat /\ Len(s) >= 1
  BY LenProperties, EmptySeq
<1>5. \A i \in 1..Len(s) - 1 : Tail(s)[i] = s[i + 1]
  BY HeadTailProperties
<1>6. Head(s) = s[1]
  OBVIOUS
<1>7. QED
  BY <1>1, <1>2, <1>3, <1>4, <1>5, <1>6, ConcatProperties DEF MsgIds

(* The list algebra of the three conserving steps.                         *)
LEMMA ConcatAppend ==
    ASSUME NEW u \in Seq(Int), NEW x \in Seq(Int), NEW v \in Int
    PROVE  u \o Append(x, v) = Append(u \o x, v)
<1>1. u \o x \in Seq(Int)
  BY ConcatProperties
<1>2. u \o Append(x, v) = u \o (x \o <<v>>)
  BY AppendIsConcat
<1>3. Append(u \o x, v) = (u \o x) \o <<v>>
  BY <1>1, AppendIsConcat
<1>4. QED
  BY <1>2, <1>3, ConcatAssociative

LEMMA ConcatShift ==
    ASSUME NEW h \in Seq(Int), NEW t \in Seq(Int), NEW v \in Int
    PROVE  h \o (<<v>> \o t) = Append(h, v) \o t
<1>1. <<v>> \in Seq(Int)
  OBVIOUS
<1>2. Append(h, v) = h \o <<v>>
  BY AppendIsConcat
<1>3. (h \o <<v>>) \o t = h \o (<<v>> \o t)
  BY <1>1, ConcatAssociative
<1>4. QED
  BY <1>2, <1>3

(* MessageConservation in terms of Ids, and the three id lists typed.     *)
LEMMA ConservationTerms ==
    ASSUME TypeOK
    PROVE  /\ MessageConservation <=>
                 (handled \o MsgIds(batch)) \o MsgIds(message_queue)
                    = Ids(msg_count)
           /\ handled \in Seq(Int)
           /\ MsgIds(batch) \in Seq(Int)
           /\ MsgIds(message_queue) \in Seq(Int)
           /\ msg_count \in Nat
<1>1. handled \in Seq(Int)
  <2>1. handled \in Seq(1..MaxMsgs)
    BY DEF TypeOK
  <2>2. 1..MaxMsgs \subseteq Int
    OBVIOUS
  <2>3. QED
    BY <2>1, <2>2, SeqMonotonic, Zenon
<1>2. QED
  BY <1>1, MsgIdsType, BoundsType DEF TypeOK, MessageConservation, Ids

(* A step that appends one message (RouteMessage, a broadcast's enqueue)   *)
(* extends the id list by the next id.                                     *)
LEMMA EnqueueConserves ==
    ASSUME TypeOK, TypeOK', MessageConservation, NEW to, Enqueue(to),
           UNCHANGED <<handled, batch>>
    PROVE  MessageConservation'
<1> DEFINE m == [id |-> msg_count + 1, to |-> to]
           u == handled \o MsgIds(batch)
<1>1. /\ handled \in Seq(Int) /\ MsgIds(batch) \in Seq(Int)
      /\ MsgIds(message_queue) \in Seq(Int) /\ msg_count \in Nat
      /\ u \o MsgIds(message_queue) = Ids(msg_count)
  BY ConservationTerms
<1>2. u \in Seq(Int)
  BY <1>1, ConcatProperties
<1>3. m \in Msg
  <2>1. message_queue' \in Seq(Msg) /\ message_queue \in Seq(Msg)
    BY DEF TypeOK
  <2>2. message_queue' = Append(message_queue, m)
    BY DEF Enqueue
  <2>3. Len(message_queue) \in Nat
    BY <2>1, LenProperties
  <2>4. message_queue'[Len(message_queue) + 1] = m
    BY <2>2, <2>3
  <2>5. Len(message_queue') = Len(message_queue) + 1
    BY <2>2, <2>1
  <2>6. QED
    BY <2>1, <2>3, <2>4, <2>5, ElementOfSeq
<1>4. MsgIds(message_queue') = Append(MsgIds(message_queue), msg_count + 1)
  BY <1>3, MsgIdsAppend DEF Enqueue, TypeOK
<1>5. u \o Append(MsgIds(message_queue), msg_count + 1)
        = Append(Ids(msg_count), msg_count + 1)
  <2>1. msg_count + 1 \in Int
    BY <1>1
  <2>2. u \o Append(MsgIds(message_queue), msg_count + 1)
          = Append(u \o MsgIds(message_queue), msg_count + 1)
    BY <1>1, <1>2, <2>1, ConcatAppend
  <2>3. QED
    BY <2>2, <1>1
<1>6. Append(Ids(msg_count), msg_count + 1) = Ids(msg_count')
  BY <1>1, IdsAppend DEF Enqueue
<1>7. QED
  <2>1. (handled' \o MsgIds(batch')) \o MsgIds(message_queue') = Ids(msg_count')
    BY <1>4, <1>5, <1>6
  <2>2. QED
    BY <2>1 DEF MessageConservation, Ids

(* DrainQueue moves the queue into the empty batch.                        *)
LEMMA DrainConserves ==
    ASSUME TypeOK, TypeOK', MessageConservation, batch = <<>>, DrainQueue
    PROVE  MessageConservation'
<1>1. /\ handled \in Seq(Int) /\ MsgIds(message_queue) \in Seq(Int)
      /\ (handled \o MsgIds(batch)) \o MsgIds(message_queue) = Ids(msg_count)
  BY ConservationTerms
<1>2. handled \o MsgIds(<<>>) = handled
  BY <1>1, MsgIdsEmpty, ConcatEmptySeq
<1>3. handled \o MsgIds(message_queue) \in Seq(Int)
  BY <1>1, ConcatProperties
<1>4. (handled \o MsgIds(message_queue)) \o MsgIds(<<>>)
        = handled \o MsgIds(message_queue)
  BY <1>3, MsgIdsEmpty, ConcatEmptySeq
<1>5. (handled' \o MsgIds(batch')) \o MsgIds(message_queue') = Ids(msg_count')
  BY <1>1, <1>2, <1>4 DEF DrainQueue
<1>6. QED
  BY <1>5 DEF MessageConservation, Ids

(* DeliverMessage moves the batch's head to the handled list.              *)
LEMMA DeliverConserves ==
    ASSUME TypeOK, TypeOK', MessageConservation, DeliverMessage
    PROVE  MessageConservation'
<1> DEFINE v == Head(batch).id
           t == MsgIds(Tail(batch))
<1>1. /\ handled \in Seq(Int) /\ MsgIds(message_queue) \in Seq(Int)
      /\ (handled \o MsgIds(batch)) \o MsgIds(message_queue) = Ids(msg_count)
  BY ConservationTerms
<1>2. batch \in Seq(Msg) /\ batch # <<>>
  BY DEF TypeOK, DeliverMessage
<1>3. MsgIds(batch) = <<v>> \o t
  BY <1>2, MsgIdsHead
<1>4. v \in Int /\ t \in Seq(Int)
  <2>1. Head(batch) \in Msg /\ Tail(batch) \in Seq(Msg)
    BY <1>2, HeadTailProperties
  <2>2. v \in Int
    BY <2>1, BoundsType DEF Msg
  <2>3. t \in Seq(Int)
    BY <2>1, MsgIdsType
  <2>4. QED
    BY <2>2, <2>3
<1>5. handled \o (<<v>> \o t) = Append(handled, v) \o t
  BY <1>1, <1>4, ConcatShift
<1>6. (handled' \o MsgIds(batch')) \o MsgIds(message_queue') = Ids(msg_count')
  BY <1>1, <1>3, <1>5 DEF DeliverMessage
<1>7. QED
  BY <1>6 DEF MessageConservation, Ids

LEMMA NextConservation ==
    WorkerInv /\ MessageConservation /\ [Next]_vars => MessageConservation'
<1> SUFFICES ASSUME WorkerInv, MessageConservation, [Next]_vars
             PROVE  MessageConservation'
  OBVIOUS
<1>0. TypeOK /\ TypeOK'
  BY NextTypeInv DEF WorkerInv, TypeInv
<1> DEFINE Kept == UNCHANGED <<handled, batch, message_queue, msg_count>>
<1>k. Kept => MessageConservation'
  BY DEF MessageConservation, MsgIds
<1>1. ASSUME NEW to \in Agents, RouteMessage(to) PROVE MessageConservation'
  BY <1>0, <1>1, EnqueueConserves DEF RouteMessage
<1>2. ASSUME NEW a \in Agents, NEW to \in Agents, SendMessage(a, to)
      PROVE MessageConservation'
  BY <1>0, <1>2, EnqueueConserves DEF SendMessage, RouteMessage
<1>3. CASE BroadcastStep
  <2>1. CASE AgentOrder[bc_pos] \in agents /\ AgentOrder[bc_pos] # bc_from
    BY <1>0, <1>3, <2>1, EnqueueConserves DEF BroadcastStep
  <2>2. CASE ~(AgentOrder[bc_pos] \in agents /\ AgentOrder[bc_pos] # bc_from)
    BY <1>3, <2>2, <1>k DEF BroadcastStep
  <2>3. QED
    BY <2>1, <2>2
<1>4. CASE DrainQueue
  <2>1. batch = <<>>
    BY <1>4 DEF DrainQueue, WorkerInv, BatchDelivering
  <2>2. QED
    BY <1>0, <1>4, <2>1, DrainConserves
<1>5. CASE DeliverMessage
  BY <1>0, <1>5, DeliverConserves
<1>6. ASSUME NEW a \in Agents,
             RegisterAgent(a) \/ UnregisterAgent(a) \/ ScheduleAgent(a)
             \/ BroadcastBegin(a)
      PROVE Kept
  BY <1>6 DEF RegisterAgent, UnregisterAgent, ScheduleAgent, BroadcastBegin
<1>7. LoopTop \/ PopScheduled \/ DispatchCheck \/ SetRunning \/ ExecuteReturns
      \/ ExecuteFaults \/ Start \/ Stop \/ StopJoined \/ UNCHANGED vars => Kept
  BY DEF LoopTop, PopScheduled, DispatchCheck, SetRunning, ExecuteReturns,
         ExecuteFaults, Start, Stop, StopJoined, vars
<1>8. QED
  BY <1>k, <1>1, <1>2, <1>3, <1>4, <1>5, <1>6, <1>7
     DEF Next, Worker, Callers, Controller

(* No message routed to the orchestrator (RouteMessage, BroadcastMessage,  *)
(* Agent::SendMessage) is lost, duplicated or reordered by the worker's    *)
(* swap-and-deliver loop (ProcessMessageQueue), across Stop/Start too.     *)
THEOREM ConservationCorrect == Spec => []MessageConservation
<1>1. Init => MessageConservation
  BY DEF Init, MessageConservation, MsgIds
<1>2. WorkerInv /\ MessageConservation /\ [Next]_vars
        => (WorkerInv /\ MessageConservation)'
  BY NextWorkerInv, NextConservation
<1>3. QED
  BY <1>1, <1>2, InitWorkerInv, PTL DEF Spec


-----------------------------------------------------------------------------
(* Refinement of the abstract FIFO channel (module MessageChannel).       *)

(* Appending to the second part of a concatenation appends to the whole.   *)
LEMMA ConcatAppendSeq ==
    ASSUME NEW S, NEW u \in Seq(S), NEW x \in Seq(S), NEW v \in S
    PROVE  u \o Append(x, v) = Append(u \o x, v)
<1>1. u \o x \in Seq(S) /\ <<v>> \in Seq(S)
  BY ConcatProperties
<1>2. u \o Append(x, v) = u \o (x \o <<v>>)
  BY AppendIsConcat
<1>3. Append(u \o x, v) = (u \o x) \o <<v>>
  BY <1>1, AppendIsConcat
<1>. QED
  BY <1>1, <1>2, <1>3, ConcatAssociative

(* The head of a concatenation whose first part is non-empty is that       *)
(* part's head, and its tail is that part's tail followed by the rest.     *)
LEMMA HeadTailConcat ==
    ASSUME NEW S, NEW u \in Seq(S), u # <<>>, NEW x \in Seq(S)
    PROVE  /\ Head(u \o x) = Head(u)
           /\ Tail(u \o x) = Tail(u) \o x
<1>1. Len(u) \in Nat \ {0} /\ Len(x) \in Nat
  BY LenProperties, EmptySeq
<1>2. Head(u \o x) = Head(u)
  BY <1>1
<1>3. Tail(u \o x) = Tail(u) \o x
  BY <1>1, HeadTailProperties, ConcatProperties
<1>. QED
  BY <1>2, <1>3

(* A step that appends one message (RouteMessage, a broadcast's enqueue)   *)
(* sends that message on the channel, when an id is left for it.           *)
LEMMA EnqueueRefines ==
    ASSUME TypeOK, NEW to \in Agents, msg_count < MaxMsgs, Enqueue(to),
           UNCHANGED <<handled, batch>>
    PROVE  Channel!Send(to)
<1> DEFINE m == [id |-> msg_count + 1, to |-> to]
<1>1. m \in Msg /\ batch \in Seq(Msg) /\ message_queue \in Seq(Msg)
  BY BoundsType DEF TypeOK, Msg
<1>2. batch' \o message_queue' = Append(batch \o message_queue, m)
  BY <1>1, ConcatAppendSeq DEF Enqueue
<1>. QED
  BY <1>2 DEF Enqueue, Channel!Send

(* The worker's removal of the batch's head takes the channel's oldest     *)
(* message.                                                                *)
LEMMA DeliverRefines ==
    ASSUME TypeOK, DeliverMessage
    PROVE  Channel!Take
<1>1. batch \in Seq(Msg) /\ batch # <<>> /\ message_queue \in Seq(Msg)
  BY DEF TypeOK, DeliverMessage
<1>2. Head(batch \o message_queue) = Head(batch)
      /\ Tail(batch \o message_queue) = Tail(batch) \o message_queue
  BY <1>1, HeadTailConcat
<1>3. batch \o message_queue # <<>>
  BY <1>1, ConcatProperties
<1>. QED
  BY <1>2, <1>3 DEF DeliverMessage, Channel!Take

(* Every step of the orchestrator is a step of the channel or leaves the   *)
(* channel unchanged.                                                      *)
LEMMA NextRefines ==
    WorkerInv /\ [Next]_vars => [Channel!CNext]_Channel!cvars
<1> SUFFICES ASSUME WorkerInv, [Next]_vars
             PROVE  [Channel!CNext]_Channel!cvars
  OBVIOUS
<1>0. TypeOK /\ Budget
  BY DEF WorkerInv, TypeInv
<1> DEFINE Kept == UNCHANGED <<handled, batch, message_queue, msg_count>>
<1>k. Kept => UNCHANGED Channel!cvars
  BY DEF Channel!cvars
<1>1. ASSUME NEW to \in Agents, RouteMessage(to) PROVE Channel!CNext
  <2>1. msg_count < MaxMsgs
    BY <1>0, <1>1, ReserveType, BoundsType DEF RouteMessage, TypeOK
  <2>. QED
    BY <1>0, <1>1, <2>1, EnqueueRefines DEF RouteMessage, Channel!CNext
<1>2. CASE BroadcastStep
  <2> DEFINE a == AgentOrder[bc_pos]
  <2>1. CASE a \in agents /\ a # bc_from
    <3>1. bc_pos \in 1..Len(AgentOrder)
      BY <1>0, <1>2, AgentOrderType DEF BroadcastStep, TypeOK
    <3>2. a \in Agents
      BY <3>1, AgentOrderType
    <3>3. msg_count < MaxMsgs
      BY <1>0, <1>2, ReserveType, BoundsType DEF Budget, BroadcastStep, TypeOK
    <3>. QED
      BY <1>0, <1>2, <2>1, <3>2, <3>3, EnqueueRefines
         DEF BroadcastStep, Channel!CNext
  <2>2. CASE ~(a \in agents /\ a # bc_from)
    BY <1>2, <2>2, <1>k DEF BroadcastStep
  <2>. QED
    BY <2>1, <2>2
<1>3. CASE DrainQueue
  <2>1. batch = <<>> /\ message_queue \in Seq(Msg)
    BY <1>0, <1>3 DEF DrainQueue, WorkerInv, BatchDelivering, TypeOK
  <2>2. batch' \o message_queue' = batch \o message_queue
    BY <1>3, <2>1 DEF DrainQueue
  <2>. QED
    BY <1>3, <2>2 DEF DrainQueue, Channel!cvars
<1>4. CASE DeliverMessage
  BY <1>0, <1>4, DeliverRefines DEF Channel!CNext
<1>5. ASSUME NEW a \in Agents,
             RegisterAgent(a) \/ UnregisterAgent(a) \/ ScheduleAgent(a)
             \/ BroadcastBegin(a)
      PROVE Kept
  BY <1>5 DEF RegisterAgent, UnregisterAgent, ScheduleAgent, BroadcastBegin
<1>6. LoopTop \/ PopScheduled \/ DispatchCheck \/ SetRunning \/ ExecuteReturns
      \/ ExecuteFaults \/ Start \/ Stop \/ StopJoined \/ UNCHANGED vars => Kept
  BY DEF LoopTop, PopScheduled, DispatchCheck, SetRunning, ExecuteReturns,
         ExecuteFaults, Start, Stop, StopJoined, vars
<1>. QED
  BY <1>k, <1>1, <1>2, <1>3, <1>4, <1>5, <1>6
     DEF Next, Worker, Callers, Controller, SendMessage

(* RouteMessage, BroadcastMessage and the worker's swap-and-deliver loop   *)
(* (ProcessMessageQueue) implement one FIFO channel, for every agent set   *)
(* and bound: the orchestrator's specification implies MessageChannel's.   *)
THEOREM ChannelRefined == Spec => ChannelRefinement
<1>1. Init => Channel!CInit
  BY DEF Init, Channel!CInit
<1>2. WorkerInv /\ [Next]_vars => WorkerInv' /\ [Channel!CNext]_Channel!cvars
  BY NextWorkerInv, NextRefines
<1>. QED
  BY <1>1, <1>2, InitWorkerInv, PTL DEF Spec, ChannelRefinement, Channel!CSpec


-----------------------------------------------------------------------------
(* FAILED agents are never dispatched.  Between the worker's IDLE test and *)
(* its set_state(RUNNING) the agent may be unregistered (COMPLETED) or     *)
(* re-registered (IDLE), but nothing makes it FAILED: only the worker's    *)
(* own catch block does, and the worker is at the set_state.              *)
DispatchOK == wpc = "setrun" => state[cur] # "FAILED"

DispatchInv == WorkerInv /\ DispatchOK

LEMMA NextDispatchOK == DispatchInv /\ [Next]_vars => DispatchOK'
<1> SUFFICES ASSUME DispatchInv, [Next]_vars PROVE DispatchOK'
  OBVIOUS
<1>s. state \in [Agents -> AgentStates] /\ agents \subseteq Agents
  BY DEF DispatchInv, WorkerInv, TypeInv, TypeOK
<1>c. wpc = "setrun" => cur \in Agents
  BY DEF DispatchInv, WorkerInv, CurValid
<1> USE <1>s, <1>c DEF DispatchInv, DispatchOK
<1>1. ASSUME NEW a \in Agents, RegisterAgent(a) \/ UnregisterAgent(a)
      PROVE  DispatchOK'
  BY <1>1 DEF RegisterAgent, UnregisterAgent
<1>2. CASE DispatchCheck
  BY <1>2 DEF DispatchCheck
<1>3. CASE PopScheduled
  BY <1>3 DEF PopScheduled
<1>4. CASE SetRunning \/ ExecuteReturns \/ ExecuteFaults
  BY <1>4 DEF SetRunning, ExecuteReturns, ExecuteFaults
<1>5. CASE LoopTop \/ DrainQueue \/ DeliverMessage \/ Start \/ Stop
           \/ StopJoined \/ BroadcastStep \/ UNCHANGED vars
  BY <1>5 DEF LoopTop, DrainQueue, DeliverMessage, Start, Stop, StopJoined,
              BroadcastStep, vars
<1>6. ASSUME NEW a \in Agents, NEW to \in Agents,
             \/ ScheduleAgent(a) \/ BroadcastBegin(a)
             \/ RouteMessage(to) \/ SendMessage(a, to)
      PROVE  DispatchOK'
  BY <1>6 DEF ScheduleAgent, BroadcastBegin, RouteMessage, SendMessage
<1>. QED
  BY <1>1, <1>2, <1>3, <1>4, <1>5, <1>6 DEF Next, Worker, Callers, Controller

(* A step from a state of DispatchInv never takes a FAILED agent to        *)
(* RUNNING: only SetRunning writes RUNNING, and its agent is not FAILED.   *)
LEMMA NoFailedToRunning ==
    ASSUME DispatchInv, [Next]_vars
    PROVE  [\A a \in Agents : state[a] = "FAILED" => state'[a] # "RUNNING"]_state
<1>s. state \in [Agents -> AgentStates]
  BY DEF DispatchInv, WorkerInv, TypeInv, TypeOK
<1> DEFINE Ok == \A a \in Agents : state[a] = "FAILED" => state'[a] # "RUNNING"
<1>1. CASE SetRunning
  BY <1>1, <1>s DEF SetRunning, DispatchInv, DispatchOK, WorkerInv, CurValid
<1>2. ASSUME NEW a \in Agents, RegisterAgent(a) \/ UnregisterAgent(a)
      PROVE  Ok
  BY <1>2, <1>s DEF RegisterAgent, UnregisterAgent
<1>3. CASE ExecuteReturns \/ ExecuteFaults
  BY <1>3, <1>s DEF ExecuteReturns, ExecuteFaults
<1>4. CASE ~SetRunning /\ ~ExecuteReturns /\ ~ExecuteFaults
           /\ ~\E a \in Agents : RegisterAgent(a) \/ UnregisterAgent(a)
  <2>1. UNCHANGED state
    BY <1>4 DEF Next, Worker, Callers, Controller, LoopTop, DrainQueue,
                DeliverMessage, PopScheduled, DispatchCheck, Start, Stop,
                StopJoined, BroadcastStep, ScheduleAgent, BroadcastBegin,
                RouteMessage, SendMessage, vars
  <2>. QED
    BY <2>1
<1>. QED
  BY <1>1, <1>2, <1>3, <1>4

(* A FAILED agent is never run again however often ScheduleAgent names it *)
(* (the state() == IDLE test of OrchestratorLoop), for every agent set and *)
(* bound.                                                                  *)
THEOREM FailedNotRedispatched == Spec => FailedNeverRedispatched
<1>1. Init => DispatchInv
  BY InitWorkerInv DEF Init, DispatchInv, DispatchOK
<1>2. DispatchInv /\ [Next]_vars => DispatchInv'
  BY NextWorkerInv, NextDispatchOK DEF DispatchInv
<1>3. DispatchInv /\ [Next]_vars
        => [\A a \in Agents : state[a] = "FAILED" => state'[a] # "RUNNING"]_state
  BY NoFailedToRunning
<1>. QED
  BY <1>1, <1>2, <1>3, PTL DEF Spec, FailedNeverRedispatched

=============================================================================
