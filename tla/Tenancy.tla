------------------------------ MODULE Tenancy ------------------------------
(***************************************************************************)
(* The tenant registries of the core and the objects that hold a tenant's  *)
(* store:                                                                  *)
(*   - AtomSpaceManager (src/unnamed/part_001, atomspace.cc): the tenant   *)
(*     -> shared_ptr<AtomSpace> map atomspaces_;                           *)
(*   - Agent::Agent (agent-orchestrator.cc), which takes its tenant's     *)
(*     store from the manager and keeps it for its lifetime, and           *)
(*     AgentFactory, whose CreateAgent runs a registered creator;          *)
(*   - IsolateMesh and TenantIsolate (isolate-mesh.cc): the tenant ->      *)
(*     shared_ptr<TenantIsolate> map, each TenantIsolate owning a V8       *)
(*     isolate, a context in it, and its tenant's store.                   *)
(*                                                                         *)
(* Every operation runs under its registry's single mutex (the mesh's      *)
(* CreateTenantIsolate calls the manager inside its own critical section), *)
(* so each call is one action and callers interleave between calls.        *)
(* A store, an agent and a TenantIsolate are identified by the order in    *)
(* which they were constructed; names, type tags and V8 handles are model  *)
(* values or left out.  Agent objects are never destroyed here: each one   *)
(* may outlive every registry call, which is the case that matters.       *)
(***************************************************************************)
EXTENDS Naturals, Sequences, Bags

CONSTANTS
    Tenants,      \* tenant ids
    AgentTypes,   \* type tags callers pass to the AgentFactory
    MaxStores,    \* bound on the AtomSpace objects constructed
    MaxAgents,    \* bound on the Agent objects constructed
    MaxIsolates,  \* bound on the TenantIsolate objects constructed
    MaxHandles    \* bound on the callers' copies of one shared_ptr

ASSUME TenancyAssumption ==
    /\ MaxStores \in Nat /\ MaxAgents \in Nat /\ MaxIsolates \in Nat
    /\ MaxHandles \in Nat \ {0}

(* 0 is the null shared_ptr (the map has no entry).                        *)
StoreIds == 1..MaxStores
IsolateIds == 1..MaxIsolates

(* A TenantIsolate: its tenant_id_, its atomspace_, whether its isolate_   *)
(* has been Dispose()d, and whether the object itself still exists.        *)
IsolateRec == [tenant : Tenants, store : StoreIds,
               disposed : BOOLEAN, alive : BOOLEAN]

(* An Agent: its tenant_id_ and the atomspace_ it took in its constructor. *)
AgentRec == [tenant : Tenants, store : StoreIds]

VARIABLES
    atomspaces,       \* AtomSpaceManager::atomspaces_ (0 = no entry)
    stores,           \* tenant_id_ of every AtomSpace constructed, in order
    dropped,          \* stores RemoveAtomSpace erased from the manager
    agent_objs,       \* every Agent constructed, in order
    creators,         \* AgentFactory::creators_ (the tags with a creator)
    tenant_isolates,  \* IsolateMesh::tenant_isolates_ (0 = no entry)
    isolates,         \* every TenantIsolate constructed, in order
    held,             \* callers' shared_ptr<TenantIsolate> copies (a bag)
    mesh_alive        \* the IsolateMesh object has not been destroyed

vars == <<atomspaces, stores, dropped, agent_objs, creators,
          tenant_isolates, isolates, held, mesh_alive>>

(* The copies of i in the bag B (its shared_ptr use count from callers).  *)
Copies(i, B) == IF BagIn(i, B) THEN B[i] ELSE 0

TypeOK ==
    /\ atomspaces \in [Tenants -> 0..MaxStores]
    /\ stores \in Seq(Tenants) /\ Len(stores) <= MaxStores
    /\ dropped \subseteq StoreIds
    /\ agent_objs \in Seq(AgentRec) /\ Len(agent_objs) <= MaxAgents
    /\ creators \subseteq AgentTypes
    /\ tenant_isolates \in [Tenants -> 0..MaxIsolates]
    /\ isolates \in Seq(IsolateRec) /\ Len(isolates) <= MaxIsolates
    /\ IsABag(held) /\ BagToSet(held) \subseteq IsolateIds
    /\ \A i \in IsolateIds : Copies(i, held) <= MaxHandles
    /\ mesh_alive \in BOOLEAN

Init ==
    /\ atomspaces = [t \in Tenants |-> 0]
    /\ stores = <<>>
    /\ dropped = {}
    /\ agent_objs = <<>>
    /\ creators = {}
    /\ tenant_isolates = [t \in Tenants |-> 0]
    /\ isolates = <<>>
    /\ held = EmptyBag
    /\ mesh_alive = TRUE

-----------------------------------------------------------------------------
(* AtomSpaceManager.                                                       *)

(* Mutant: the lookup is dropped and every call constructs a new store.    *)
GetOrCreateNoFind(t) ==
    /\ Len(stores) < MaxStores
    /\ stores' = Append(stores, t)
    /\ atomspaces' = [atomspaces EXCEPT ![t] = Len(stores) + 1]

(* GetOrCreateAtomSpace: return the entry, or construct AtomSpace(t) and   *)
(* insert it.  Its effect on the manager's state; the store it returns is  *)
(* the entry afterwards, atomspaces'[t].                                   *)
GetOrCreate(t) ==
    IF atomspaces[t] # 0
    THEN UNCHANGED <<atomspaces, stores>>
    ELSE /\ Len(stores) < MaxStores
         /\ stores' = Append(stores, t)
         /\ atomspaces' = [atomspaces EXCEPT ![t] = Len(stores) + 1]

(* A caller of GetOrCreateAtomSpace that keeps no reference.               *)
GetOrCreateAtomSpace(t) ==
    /\ GetOrCreate(t)
    /\ UNCHANGED <<dropped, agent_objs, creators, tenant_isolates, isolates,
                   held, mesh_alive>>

(* RemoveAtomSpace: erase the entry; false (no change) when there is none. *)
RemoveAtomSpace(t) ==
    /\ atomspaces[t] # 0
    /\ atomspaces' = [atomspaces EXCEPT ![t] = 0]
    /\ dropped' = dropped \cup {atomspaces[t]}
    /\ UNCHANGED <<stores, agent_objs, creators, tenant_isolates, isolates,
                   held, mesh_alive>>

-----------------------------------------------------------------------------
(* Agents and the AgentFactory.                                            *)

(* Agent::Agent(id, t): state IDLE, no orchestrator, and                   *)
(* atomspace_ = GetOrCreateAtomSpace(t).                                   *)
ConstructAgent(t) ==
    /\ Len(agent_objs) < MaxAgents
    /\ GetOrCreate(t)
    /\ agent_objs' = Append(agent_objs, [tenant |-> t, store |-> atomspaces'[t]])

(* An agent constructed directly by a caller.                              *)
NewAgent(t) ==
    /\ ConstructAgent(t)
    /\ UNCHANGED <<dropped, creators, tenant_isolates, isolates, held,
                   mesh_alive>>

(* RegisterAgentType: creators_[type] = creator (overwrites).  The         *)
(* creator itself is abstracted: every creator constructs an Agent.        *)
RegisterAgentType(type) ==
    /\ creators' = creators \cup {type}
    /\ UNCHANGED <<atomspaces, stores, dropped, agent_objs, tenant_isolates,
                   isolates, held, mesh_alive>>

(* CreateAgent: run the creator registered for type; an unknown type      *)
(* returns nullptr and changes nothing, so it is not a step.               *)
CreateAgent(type, t) ==
    /\ type \in creators
    /\ ConstructAgent(t)
    /\ UNCHANGED <<dropped, creators, tenant_isolates, isolates, held,
                   mesh_alive>>

-----------------------------------------------------------------------------
(* IsolateMesh and TenantIsolate.                                          *)

(* A TenantIsolate is destroyed (~TenantIsolate resets its context in its  *)
(* isolate) once neither the mesh's map nor a caller holds it.             *)
Unowned(i, map, hs) == ~BagIn(i, hs) /\ \A t \in Tenants : map[t] # i

(* The TenantIsolates after a step that leaves the map and the callers'    *)
(* copies as map and hs, disposing the isolates of ds first.               *)
AfterRelease(ds, map, hs) ==
    [i \in DOMAIN isolates |->
        [isolates[i] EXCEPT !.disposed = @ \/ i \in ds,
                            !.alive = @ /\ ~Unowned(i, map, hs)]]

(* TenantIsolate::TenantIsolate(t, isolate, config): its atomspace_ is    *)
(* GetOrCreateAtomSpace(t) (the entry after the call), and SetupContext    *)
(* makes a context in the new, undisposed isolate.                         *)
NewTenantIsolate(t) ==
    [tenant |-> t, store |-> atomspaces'[t], disposed |-> FALSE, alive |-> TRUE]

(* A caller copies the shared_ptr to TenantIsolate i the call returned.    *)
Acquire(i) ==
    /\ Copies(i, held) < MaxHandles
    /\ held' = held (+) SetToBag({i})

(* CreateTenantIsolate: return the existing entry, or create an isolate,   *)
(* construct TenantIsolate (which calls GetOrCreateAtomSpace(t) and sets   *)
(* up a context), insert it and return it; the caller keeps the result.    *)
CreateTenantIsolate(t) ==
    /\ mesh_alive
    /\ IF tenant_isolates[t] # 0
       THEN /\ Acquire(tenant_isolates[t])
            /\ UNCHANGED <<atomspaces, stores, tenant_isolates, isolates>>
       ELSE /\ Len(isolates) < MaxIsolates
            /\ GetOrCreate(t)
            /\ isolates' = Append(isolates, NewTenantIsolate(t))
            /\ tenant_isolates' = [tenant_isolates EXCEPT ![t] = Len(isolates) + 1]
            /\ held' = held (+) SetToBag({Len(isolates) + 1})
    /\ UNCHANGED <<dropped, agent_objs, creators, mesh_alive>>

(* Mutant: find's result is not compared with end().                      *)
GetTenantIsolateNoCheck(t) ==
    /\ mesh_alive
    /\ held' = held (+) SetToBag({tenant_isolates[t]})
    /\ UNCHANGED <<atomspaces, stores, dropped, agent_objs, creators,
                   tenant_isolates, isolates, mesh_alive>>

(* GetTenantIsolate: the caller keeps the entry, if there is one.          *)
GetTenantIsolate(t) ==
    /\ mesh_alive
    /\ tenant_isolates[t] # 0
    /\ Acquire(tenant_isolates[t])
    /\ UNCHANGED <<atomspaces, stores, dropped, agent_objs, creators,
                   tenant_isolates, isolates, mesh_alive>>

(* A caller drops its shared_ptr<TenantIsolate>.                           *)
ReleaseIsolate(i) ==
    /\ BagIn(i, held)
    /\ held' = held (-) SetToBag({i})
    /\ isolates' = AfterRelease({}, tenant_isolates, held')
    /\ UNCHANGED <<atomspaces, stores, dropped, agent_objs, creators,
                   tenant_isolates, mesh_alive>>

(* Mutant: the entry is erased without disposing its isolate.              *)
RemoveIsolateNoDispose(t) ==
    /\ mesh_alive
    /\ tenant_isolates[t] # 0
    /\ tenant_isolates' = [tenant_isolates EXCEPT ![t] = 0]
    /\ isolates' = AfterRelease({}, tenant_isolates', held)
    /\ UNCHANGED <<atomspaces, stores, dropped, agent_objs, creators, held,
                   mesh_alive>>

(* RemoveTenantIsolate: false when there is no entry; otherwise Dispose()  *)
(* the isolate, then erase the entry (dropping the map's reference).       *)
RemoveTenantIsolate(t) ==
    /\ mesh_alive
    /\ tenant_isolates[t] # 0
    /\ tenant_isolates' = [tenant_isolates EXCEPT ![t] = 0]
    /\ isolates' = AfterRelease({tenant_isolates[t]}, tenant_isolates', held)
    /\ UNCHANGED <<atomspaces, stores, dropped, agent_objs, creators, held,
                   mesh_alive>>

(* ~IsolateMesh: Dispose() every isolate in the map, then clear the map.   *)
DestroyMesh ==
    /\ mesh_alive
    /\ mesh_alive' = FALSE
    /\ tenant_isolates' = [t \in Tenants |-> 0]
    /\ isolates' = AfterRelease({tenant_isolates[t] : t \in Tenants},
                                tenant_isolates', held)
    /\ UNCHANGED <<atomspaces, stores, dropped, agent_objs, creators, held>>

-----------------------------------------------------------------------------
Next ==
    \/ \E t \in Tenants :
          \/ GetOrCreateAtomSpace(t) \/ RemoveAtomSpace(t)
          \/ \E type \in AgentTypes : CreateAgent(type, t)
          \/ NewAgent(t)
          \/ GetTenantIsolate(t) \/ CreateTenantIsolate(t)
          \/ RemoveTenantIsolate(t)
    \/ \E type \in AgentTypes : RegisterAgentType(type)
    \/ \E i \in BagToSet(held) : ReleaseIsolate(i)
    \/ DestroyMesh

Spec == Init /\ [][Next]_vars

-----------------------------------------------------------------------------
(* Properties.                                                             *)

(* The objects holding a store: every agent and every TenantIsolate that   *)
(* still exists.                                                           *)
Holders ==
    {agent_objs[k] : k \in DOMAIN agent_objs}
    \cup {[tenant |-> isolates[i].tenant, store |-> isolates[i].store] :
            i \in {j \in DOMAIN isolates : isolates[j].alive}}

(* GetOrCreateAtomSpace hands every caller of a tenant the one store the   *)
(* manager holds for it: an agent or TenantIsolate holds a store other     *)
(* than its tenant's entry only after RemoveAtomSpace erased that store.   *)
StoreSharedUntilRemoved ==
    \A h \in Holders :
        /\ stores[h.store] = h.tenant
        /\ h.store = atomspaces[h.tenant] \/ h.store \in dropped

(* The spec (section 5) says a tenant's store is shared by every agent of  *)
(* the tenant and the registry: once the registry holds a store for a      *)
(* tenant, every holder of that tenant holds that same store.              *)
TenantSharesOneStore ==
    \A h \in Holders :
        atomspaces[h.tenant] # 0 => h.store = atomspaces[h.tenant]

(* CreateTenantIsolate and RemoveTenantIsolate keep sandboxes one per      *)
(* tenant: at most one TenantIsolate of a tenant has an isolate that is    *)
(* not disposed, and the mesh's entry for the tenant, if any, is it.       *)
SandboxOneToOne ==
    /\ \A i, j \in DOMAIN isolates :
          /\ isolates[i].tenant = isolates[j].tenant
          /\ ~isolates[i].disposed /\ ~isolates[j].disposed
          => i = j
    /\ \A t \in Tenants :
          tenant_isolates[t] # 0 =>
             /\ isolates[tenant_isolates[t]].tenant = t
             /\ ~isolates[tenant_isolates[t]].disposed

(* ~TenantIsolate calls context_.Reset(), which frees a handle inside the  *)
(* isolate: no TenantIsolate is destroyed after its isolate was disposed.  *)
ContextResetOnLiveIsolate ==
    [][\A i \in DOMAIN isolates :
          isolates[i].alive /\ ~isolates'[i].alive => ~isolates'[i].disposed
      ]_vars
=============================================================================
