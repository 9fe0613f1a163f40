# TLA+ models of the OpenCog core (v8c)

This directory holds TLA+ models of the OpenCog layer of the repository. For each model there are TLC configurations that check it on small instances and TLAPS proofs of its main invariants for every value of the constants. The OpenCog layer is:

- the per-tenant AtomSpace;
- the agents;
- the AgentOrchestrator that routes messages to agents and runs them on a worker thread.

## 1. The system

| Part | Source | State | Operations |
|---|---|---|---|
| Atom | `src/unnamed/part_000` (atom.h), `src/src/opencog/atomspace/atom.cc` | id, type, name, Node/Link, TruthValue; the static `Atom::next_id_` | constructor `id_(next_id_++)`, `set_truth_value` |
| AtomSpace | `src/unnamed/part_001` lines 1-95 (atomspace.cc), `src/include/opencog/atomspace.h` | `atoms_by_id_`, `atoms_by_name_`, the `atoms_by_type_` multimap, `mutex_` | AddNode, AddLink, RemoveAtom, Clear; lookups, Size, Query |
| AtomSpaceManager | `src/unnamed/part_001` lines 116-163 | tenant → store map, one mutex | GetOrCreateAtomSpace, GetAtomSpace, RemoveAtomSpace, GetTenantIds, TenantCount |
| Agent | `src/src/opencog/agents/agent-orchestrator.cc` lines 164-209, `src/include/opencog/agent.h` | `state_`, `orchestrator_`, the tenant's store | Initialize, Shutdown, OnMessage, SendMessage, Execute (virtual) |
| AgentFactory | agent-orchestrator.cc lines 211-230 | type tag → creator map | RegisterAgentType, CreateAgent |
| AgentOrchestrator | agent-orchestrator.cc lines 14-163, `src/include/opencog/agent-orchestrator.h` | `running_`, the worker thread, `agents_` under `agents_mutex_`; `message_queue_` and `scheduled_agents_` under `messages_mutex_` | RegisterAgent, UnregisterAgent, GetAgent, RouteMessage, BroadcastMessage, ScheduleAgent, Start, Stop; the worker's OrchestratorLoop and ProcessMessageQueue |
| IsolateMesh, TenantIsolate | `src/src/opencog/isolate-mesh/isolate-mesh.cc`, `src/include/opencog/isolate-mesh.h` | tenant → `shared_ptr<TenantIsolate>` map under one mutex; each TenantIsolate holds a V8 isolate, a context in it, and its tenant's store | CreateTenantIsolate, GetTenantIsolate, RemoveTenantIsolate, ~IsolateMesh; ~TenantIsolate resets its context |

The parts interact as follows:

- An agent's constructor takes its tenant's store from AtomSpaceManager, and so does a TenantIsolate's.
- AgentFactory's CreateAgent runs the creator registered for a type tag, which constructs an agent.
- RemoveAtomSpace erases a tenant's entry while agents and TenantIsolates may still hold the store through their `shared_ptr`.
- RemoveTenantIsolate and ~IsolateMesh dispose the isolate; the TenantIsolate object lives on while a caller holds a copy of its `shared_ptr`.
- RegisterAgent binds the agent to the orchestrator (`set_orchestrator`) and calls `Initialize` under `agents_mutex_`.
- `SendMessage` enqueues through `RouteMessage`.
- BroadcastMessage holds `agents_mutex_` while it enqueues one message per other agent.
- The worker thread repeats the following steps:
  1. It swaps the whole queue out under `messages_mutex_`.
  2. It delivers each message with `GetAgent`, which takes `agents_mutex_`.
  3. It pops one scheduled id.
  4. It checks `state() == IDLE`, then sets RUNNING, runs `Execute`, and sets IDLE, or FAILED when `Execute` throws.
  5. It sleeps 10 ms.
- Stop clears `running_` and joins the worker.

Concurrency comes from three places:

- the worker thread;
- any number of caller threads, since agents' `Execute`/`OnMessage` and the embedder call the public API;
- the stores of different tenants, which are used in parallel but share one static id counter.

## 2. Modules

### Orchestrator (`Orchestrator.tla`, instance `MCOrchestrator.tla`)

This module models AgentOrchestrator together with the agent state machine.

**State**

| Variable | Models |
|---|---|
| `running` | `running_` |
| `agents` | the keys of `agents_` |
| `state` | each agent's `state_` |
| `bound` | agents whose `orchestrator_` is set |
| `message_queue` | `message_queue_` |
| `scheduled_agents` | `scheduled_agents_` |
| `wpc` | the worker thread's program counter |
| `batch` | the worker's local vector of messages |
| `cur` | the agent id the worker popped |
| `ctl` | the controller, which is blocked in `join()` or not |
| `bc_from`, `bc_pos` | the BroadcastMessage loop in progress (the only caller that holds a lock across several steps) |

A message is an id (its routing order) and a recipient. Type, payload and timestamp are left out: they do not change any control flow.

**Actions**

- Every caller operation is one action, because it is one critical section.
- BroadcastMessage is `BroadcastBegin` followed by one `BroadcastStep` per entry of `agents_`, in map order (`AgentOrder`). While it runs, `AgentsUnlocked` is false.
- The worker's loop is split at every lock and every unlocked access:
  - `LoopTop`: the `while (running_)` test;
  - `DrainQueue`: the swap;
  - `DeliverMessage`: one `GetAgent` and `OnMessage`;
  - `PopScheduled`;
  - `DispatchCheck`: `GetAgent` and the IDLE test;
  - `SetRunning`;
  - `ExecuteReturns` and `ExecuteFaults`.
- `Stop` is split into clearing the flag and `StopJoined`, which completes when the worker has exited.
- `RouteMessage` has no caller in the repository other than `SendMessage` and `BroadcastMessage`. It is the operator both use.

**Bounds**

Five constants bound the run: `MaxMsgs`, `MaxSched`, `MaxStarts` and `MaxBcasts` bound the calls, and `AgentOrder` fixes the agent set.

- A broadcast only begins when its messages fit within `MaxMsgs`.
- Other routes leave the ids of a broadcast in progress free (`BcastReserve`). Without this, the bound would stop a broadcast halfway, which the code never does.

### MessageChannel (`MessageChannel.tla`): what the orchestrator promises

`MessageChannel` is the abstract specification of the orchestrator's messaging: one FIFO channel with `Send(to)` (RouteMessage) and `Take` (the worker removing a message for delivery), a counter `sent`, the messages in flight `chan` and the ids taken `delivered`. `Orchestrator` defines `Channel == INSTANCE MessageChannel WITH sent <- msg_count, chan <- batch \o message_queue, delivered <- handled`, and `ChannelRefinement == Channel!CSpec`. The mapping says that the worker's local batch is the front of the channel: the swap in ProcessMessageQueue (DrainQueue) is a stutter of the channel, because the batch is empty at that moment.

### AtomSpace (`AtomSpace.tla`, instance `MCAtomSpace.tla`, proofs `AtomSpaceProofs.tla`)

This module models one store per tenant (`by_id`, `by_name`, `by_type`) and the static `next_id`.

- Each index of a store is a function from keys to an atom or `None`. The multimap's range for one type is a sequence in insertion order, because `insert` places equal keys at the end of their range.
- AddNode and AddLink run under the store's mutex, but the Atom constructor's `next_id_++` is shared by all stores. Each of them is therefore split in two steps:
  - `AddNodeBegin`/`AddLinkBegin`: the dedupe test and the read of `next_id_`;
  - `AddFinish`: the write of `next_id_` and the three insertions.
- The store is locked between the two steps (`Unlocked`).
- `RemoveAtom` erases the name entry whoever holds it, the first type entry with the id, and the id entry.
- `Clear` empties the three indices.

### Tenancy (`Tenancy.tla`, instance `MCTenancy.tla`, proofs `TenancyProofs.tla`)

This module composes AtomSpaceManager, the agents' store references, AgentFactory and IsolateMesh: every component that hands out or holds a tenant's store.

- `atomspaces` is the manager's map (0 for no entry); `stores` lists the tenant of each store constructed, so a store is its index; `dropped` holds the stores RemoveAtomSpace erased.
- `agent_objs` lists the agents constructed, each with its tenant and the store its constructor took; `creators` is the factory's set of registered type tags (a creator is abstracted to "constructs an Agent").
- `tenant_isolates` is the mesh's map; `isolates` lists the TenantIsolates, each with its tenant, its store, whether its isolate is disposed, and whether the object is alive; `held` is the bag of callers' `shared_ptr` copies.
- Each public call is one action, because each holds its registry's mutex for its whole body. `GetOrCreate` is the shared body of `GetOrCreateAtomSpace`, used by the Agent and TenantIsolate constructors in the same step as the call that constructs them.
- A TenantIsolate is destroyed (`alive` becomes FALSE, ~TenantIsolate runs `context_.Reset()`) in the step that drops its last owner: the map entry or the last caller copy (`AfterRelease`).

## 3. Runs

| Run | Config | Expect | Shows |
|---|---|---|---|
| orchestrator | `MCOrchestrator.cfg` | pass | see below |
| orchestrator_channel | `MCOrchestrator_channel.cfg` | pass | the orchestrator refines `MessageChannel` (`ChannelRefinement`) on a larger instance: three agents, five messages, two broadcasts and two Starts (2,333,109 states). `MaxSched` is 0 because scheduling moves no message |
| orchestrator_completed | `MCOrchestrator_completed.cfg` | violation | `CompletedIsTerminal` fails, as described under Findings |
| atomspace | `MCAtomSpace.cfg` | pass | the three indices agree (`IndexConsistency`); the name index holds the latest atom of each name (`NameIndexLastWriter`) |
| atomspace_node_dedupe | `MCAtomSpace_NodeNamesUnique.cfg` | violation | two Nodes with one name |
| atomspace_remove_name | `MCAtomSpace_RemoveKeepsOtherNames.cfg` | violation | removing a shadowed atom unlinks the live one from the name index |
| atomspace_id_race | `MCAtomSpace_race.cfg` | violation | two tenants' stores race on `next_id_`, and one store ends with a duplicate id |
| tenancy | `MCTenancy.cfg` | pass | `StoreSharedUntilRemoved` (every agent and live TenantIsolate holds its tenant's current store or a dropped one) and `SandboxOneToOne` (at most one undisposed isolate per tenant, and the entry is it) |
| tenancy_shared_store | `MCTenancy_TenantSharesOneStore.cfg` | violation | after RemoveAtomSpace and a new GetOrCreateAtomSpace, two agents of one tenant hold different stores |
| tenancy_dispose_order | `MCTenancy_ContextResetOnLiveIsolate.cfg` | violation | a TenantIsolate is destroyed after its isolate was disposed |

The orchestrator run is the main safety and liveness check. Its instance has two agents, `MaxMsgs` = 3, `MaxSched` = 2, two Starts (so one Stop/Start cycle) and one broadcast, which gives 383,087 states. It checks:

- `MessageConservation`: handled, then batch, then queue, is exactly 1..n, so no message is lost, duplicated or reordered;
- `RunningMeansExecuting`;
- `StoppedIsQuiescent`;
- `FailedNeverRedispatched`;
- that every message and every schedule call is served while the orchestrator keeps running.

**Why these bounds are enough.** Each bound is the smallest that makes the interesting case happen:

- Two agents give a broadcast both a recipient and a skipped sender.
- Three messages let a broadcast interleave with a SendMessage and with the worker's swap.
- Two Starts cover a message that survives a Stop.
- Four atoms over two names and two types let a Node, a Link of the same name and a re-add coexist, with a removal in between.
- The race needs two tenants, and two stores of one tenant are not possible.
- Tenancy uses two tenants, three stores, two agents, two TenantIsolates and two caller copies per isolate (209,012 states). Three stores allow a tenant's store to be removed and re-created while another tenant has one; two isolates allow a re-created sandbox beside the disposed one; two copies let a caller outlive the map's reference and another caller in between.

**Fairness.**

- The worker is weakly fair (`WF_vars(Worker)`). It is an OS thread that blocks only on mutexes held for single steps, and it sleeps for a bounded 10 ms.
- The broadcasting thread is weakly fair while it holds `agents_mutex_`.
- Callers and the controller get no fairness: they may stop at any time.
- The number of broadcasts is bounded (`MaxBcasts`). With unbounded broadcasts, `std::mutex` (which is not fair) lets a caller that keeps broadcasting starve the worker. TLC finds this, and the model does not assume it away. It is listed as a hazard.

**Mutants.** Each property of a passing run is shown to detect a plausible bug by a variant operator in the module. The check substitutes the variant and TLC finds the violation:

| Variant | Bug it models |
|---|---|
| `PopScheduledNoPop` | a forgotten `pop()` |
| `DrainQueueCopies` | copy instead of swap |
| `ExecuteFaultsKeepsState` | the catch block forgets `set_state` |
| `StopJoinedDetached` | detach instead of join |
| `DispatchCheckAnyState` | no IDLE test |
| `LoopTopSkipsQueue` | the `ProcessMessageQueue` call is missing |
| `PopScheduledWaits` | unregistered ids are kept queued |
| `AddNodeBeginPreInc` | `++next_id_` instead of `next_id_++` |
| `RemoveAtomKeepsType` | the type index is not updated |
| `AddFinishEmplace` | `emplace` instead of `operator[]` |
| `GetOrCreateNoFind` | the find before the insertion is missing |
| `RemoveIsolateNoDispose` | the entry is erased without `Dispose()` |
| `GetTenantIsolateNoCheck` | `find`'s result is not compared with `end()` |

## 4. Findings

1. **A COMPLETED agent can run again.** At agent-orchestrator.cc:127-128, the worker tests IDLE and then sets RUNNING without holding a lock. An `UnregisterAgent` → `Shutdown` (COMPLETED) in between is overwritten: the agent goes to RUNNING, then to IDLE. The spec says COMPLETED is terminal.
2. **AddNode's dedupe can be bypassed.** It consults only the name index (part_001:19), which AddLink overwrites (line 38). So AddNode X, AddLink X, AddNode X gives two Nodes named X. Spec section 8 says AddNode returns the same atom.
3. **RemoveAtom can unlink a live atom from the name index.** It erases the name entry without checking which atom holds it (part_001:75).
4. **Atom ids can repeat.** `next_id_++` (atom.cc:13) is unsynchronised across stores. A lost update makes ids repeat, even within one store, where `atoms_by_id_` then loses an atom that `atoms_by_type_` still lists.

5. **A tenant can end up with two stores.** RemoveAtomSpace (part_001:145) erases the entry while agents still hold the store; the next GetOrCreateAtomSpace makes a new one. Spec section 5 says a tenant's agents share one store. What does hold (and is proved) is `StoreSharedUntilRemoved`.
6. **~TenantIsolate resets a context in a disposed isolate.** RemoveTenantIsolate (isolate-mesh.cc:104) and ~IsolateMesh (line 57) call `isolate_->Dispose()` before the map's `shared_ptr` is dropped. The TenantIsolate's destructor, run then or when the last caller lets go, calls `context_.Reset()` on a handle of the freed isolate.

## 5. Proofs (`OrchestratorProofs.tla`, TLAPS)

All theorems hold for every agent set, agent order and bound. The assumptions are `OrchestratorAssumption`:

- `NoAgent` is not an agent;
- `AgentOrder` lists every agent exactly once;
- the bounds are naturals.

| Theorem | Statement | Inductive invariant |
|---|---|---|
| `TypeCorrect` | `Spec => []TypeOK` | `TypeInv`: TypeOK, plus `Budget` and `SchedBalance` |
| `WorkerCorrect` | `Spec => [](RunningMeansExecuting /\ StoppedIsQuiescent)` | `WorkerInv` |
| `RunningIsExecuting`, `StopIsQuiescent` | each of the two properties alone, as corollaries of `WorkerCorrect` | |
| `ConservationCorrect` | `Spec => []MessageConservation` | `WorkerInv` together with `MessageConservation` |
| `ChannelRefined` | `Spec => ChannelRefinement` (the orchestrator implements `MessageChannel`) | `WorkerInv` |
| `FailedNotRedispatched` | `Spec => FailedNeverRedispatched` (an action property) | `DispatchInv`: `WorkerInv` plus `DispatchOK` |

**TypeCorrect.** TypeOK alone is not inductive, so `TypeInv` adds two facts:

- `Budget`: the message count plus the ids reserved by a broadcast in progress stay within `MaxMsgs`;
- `SchedBalance`: pops plus the queued ids equal the schedule calls.

**WorkerCorrect.** `WorkerInv` is `TypeInv` plus:

- `CurValid`: the popped id is an agent in the setrun and exec steps;
- `BatchDelivering`: a non-empty batch exists only in the deliver step;
- the two properties themselves.

`Start` needs the worker gone when stopped, and `SetRunning` needs `cur` to be an agent.

**ConservationCorrect.** This theorem is proved from `WorkerInv` and `MessageConservation`. It rests on lemmas on `MsgIds` and concatenation, and on one step lemma for each way messages move:

- `EnqueueConserves`: SendMessage and a broadcast step;
- `DrainConserves`: the swap. It needs `BatchDelivering`, which gives an empty batch at the swap;
- `DeliverConserves`: delivering one message.

**ChannelRefined.** `Init` maps to the empty channel. `NextRefines` shows that each step maps to a channel step or a stutter: RouteMessage and a broadcast's enqueue are `Send` (the id is below `MaxMsgs` by `Budget`; `ConcatAppendSeq` moves the append out of the concatenation), `DeliverMessage` is `Take` (`HeadTailConcat`), DrainQueue is a stutter because `BatchDelivering` gives an empty batch at the swap, and every other step leaves the four variables alone.

**FailedNotRedispatched.** `DispatchOK` says that at the set_state(RUNNING) step the worker's agent is not FAILED. DispatchCheck establishes it (the agent was IDLE); while the worker waits at the write, UnregisterAgent can make the agent COMPLETED and RegisterAgent IDLE, but only the worker's own catch block writes FAILED. So SetRunning, the only writer of RUNNING, never starts from FAILED. The same gap is what lets a COMPLETED agent run again (finding 1).

**What only TLC checks.**

- The liveness properties, because fairness and ENABLED are beyond TLAPS.
- The AtomSpace properties with more than one tenant: they are false there (run `atomspace_id_race`), so the AtomSpace theorems below take one tenant as a hypothesis.

### Tenancy proofs (`TenancyProofs.tla`)

The assumption is `TenancyAssumption`: the bounds are naturals and `MaxHandles` is positive.

| Theorem | Statement |
|---|---|
| `TypeCorrect` | `Spec => []TypeOK` |
| `StoreSharingCorrect` | `Spec => []StoreSharedUntilRemoved` |
| `SandboxCorrect` | `Spec => []SandboxOneToOne` |

All three follow from `IInv`, which TLC also checks on the instance. It is TypeOK in three groups plus:

- `RegistryInv`: each manager entry is a constructed store of its tenant, and every agent and TenantIsolate (alive or not) satisfies `HolderOK`: its store is of its tenant and is its tenant's entry or dropped. Stating it for every TenantIsolate, not only live ones, is what makes it inductive: a TenantIsolate's store never changes.
- `MeshInv`: the mesh's entries and the callers' copies point to constructed TenantIsolates, each entry is undisposed and of its tenant, and every undisposed isolate is its tenant's entry. The last conjunct is the strengthening: it is why RemoveTenantIsolate, which disposes only the erased entry, and ~IsolateMesh, which disposes the entries, leave no second undisposed isolate.

There is one lemma per action (`ConstructAgentIInv`, `AcquireIInv`, `CreateNewIsolateIInv`, `ReleaseIInv`, `RemoveTenantIsolateIInv`, `DestroyMeshIInv`, ...), resting on lemmas about the bag of copies (`BagAdd`, `BagRemove`) and `AfterReleaseFacts`. The action property `ContextResetOnLiveIsolate` is violated, so it is not proved.

### AtomSpace proofs (`AtomSpaceProofs.tla`)

The assumption is the module's `AtomSpaceAssumption`: `MaxAtoms` is a natural and `None` is not an atom.

| Theorem | Hypothesis | Statement |
|---|---|---|
| `TypeCorrect` | none | `Spec => []TypeOK` |
| `IndexCorrect` | `Tenants = {t0}` | `Spec => []IndexConsistency` |
| `NameIndexCorrect` | `Tenants = {t0}` | `Spec => []NameIndexLastWriter` |

**Why one tenant.** `Atom::next_id_` is one static counter that every store's constructor increments without a lock. With two tenants, an atom can be built with an id that another store's atom already took, and the id index then holds a second atom under one id (finding 4, run `atomspace_id_race`). So the two index theorems are stated for a process that serves one tenant. That is the case `MCAtomSpace.cfg` checks. The hypothesis is a theorem's, not the module's: the model keeps every tenant. Strictly, what the hypothesis stands for is one live *store*. Each AtomSpace tenant is one store, but in the Tenancy model RemoveAtomSpace followed by GetOrCreateAtomSpace gives one tenant a second store (finding 5). Two stores of one tenant, used by different threads, race on `next_id_` just as two tenants do, so the theorems do not cover that case.

**TypeCorrect** holds for any number of tenants. It is proved through `TInv == TypeOK /\ Counter`. `Counter` says `next_id` is at most `created + 1`, and an atom under construction took an id at most `created`. This is what keeps `next_id` inside `1..MaxAtoms + 1`, even when two stores race. RemoveAtom needs `EraseType`: `EraseFirstWithId` keeps a sequence of atoms a sequence of atoms. That rests on `FirstIndex`: when some entry has the id, a first such entry exists, so the `CHOOSE` picks an index of the range. `FirstIndex` is proved by the well-foundedness of `<` on the naturals (`WFMin` of `WellFoundedInduction`), not by induction with an operator parameter.

**IndexCorrect and NameIndexCorrect** both follow from `IInv == TInv /\ \A t : StoreInv(t)`. Before it was proved, `IInv` was checked with TLC on the instance of `MCAtomSpace.cfg` (one tenant, `MaxAtoms` 4, 15,213 states). `TInv` was checked the same way with two tenants and `MaxAtoms` 3. `StoreInv(t)` has four parts:

- `IdInv`: every id entry holds the atom of that id, and that id is below `next_id`. This is the strengthening that makes AddFinish safe: the new atom's id is `next_id`, so its slot is empty, and no live atom or name entry has that id.
- `PendingFresh`: the atom under construction has id `next_id`. This is the part another tenant's AddFinish would break, by moving `next_id`.
- `NameInv`: each name entry is an atom of that name, and the id index holds it. No live atom of that name has a larger id.
- `TypeIdx`: each type range lists the live atoms of that type (`Elems`), each once (`NoDup`).

There is one lemma per action of the acting tenant: `BeginStore`, `FinishStore`, `RemoveStore` and `ClearStore`. They rest on lemmas about the type index:

- `AppendElems`: what `Append` does to `Elems` and `NoDup`;
- `RemoveAtFacts` and `RemoveAtElems`: `RemoveAt` removes exactly the element at its index;
- `EraseUnique`: when one entry alone has the id, `EraseFirstWithId` is `RemoveAt` at that entry.

In RemoveAtom, `IdInv` and `NoDup` give that only one entry of the range has the id. This is why the first-match erase removes the right atom.

The violated AtomSpace properties (`NodeNamesUnique`, `RemoveKeepsOtherNames`) are not proved.

## 6. Not modelled, and why

- **V8 itself**: an isolate is a flag (`disposed`); the context handle is the TenantIsolate's `alive` flag. `ExecuteScript`, memory limits and the configuration are not modelled: they change no registry state.
- **AgentFactory's `creators_`** is a `std::map` with no mutex (agent-orchestrator.cc:219). Concurrent registration is a data race whose outcome is undefined (a corrupt tree), so the model takes each call as atomic; it is listed as a hazard.
- **TruthValue, link outgoing sets, lookups and Query** are not modelled because no store operation reads them, and lookups change no state.
- **The data races** on `running_` and `state_` are taken with their intended outcome: a write is seen at the next read. A read that never sees the write is not enumerated.
- **The `PAUSED` state** is never set by the code.
- **Embedder overrides of Initialize, Shutdown and Execute** that call back into the orchestrator under `agents_mutex_` are not modelled. They would self-deadlock, and they are listed as hazards.
- **The demo and the unit tests** are clients whose scenarios are behaviours of the models.

## 7. Plan for later work

1. A property for the `orchestrator_` pointer an agent keeps after UnregisterAgent (agent-orchestrator.cc:156), which no run checks yet.
2. Proofs of the remaining Tenancy and Orchestrator invariants that TLC checks and no theorem states.
