--------------------------- MODULE TenancyProofs ---------------------------
(***************************************************************************)
(* Proofs about the tenant registries (module Tenancy), for every set of   *)
(* tenants and type tags and every bound: the model is well typed, every   *)
(* holder of a store holds its tenant's current store unless               *)
(* RemoveAtomSpace dropped it, and the mesh keeps at most one undisposed   *)
(* isolate per tenant.                                                     *)
(***************************************************************************)
EXTENDS Tenancy, TLAPS, SequenceTheorems

-----------------------------------------------------------------------------
(* Lemmas about the shared_ptr copies (a bag) and the TenantIsolates.      *)

(* Copying a shared_ptr adds one copy of i and leaves the others alone.    *)
LEMMA BagAdd ==
    ASSUME NEW B, IsABag(B), NEW i
    PROVE  LET B2 == B (+) SetToBag({i}) IN
           /\ IsABag(B2)
           /\ BagToSet(B2) = BagToSet(B) \cup {i}
           /\ Copies(i, B2) = Copies(i, B) + 1
           /\ \A j : j # i => Copies(j, B2) = Copies(j, B)
BY DEF IsABag, \oplus, SetToBag, BagToSet, BagIn, Copies

(* Dropping one copy of a held shared_ptr removes copies only.             *)
LEMMA BagRemove ==
    ASSUME NEW B, IsABag(B), NEW i, BagIn(i, B)
    PROVE  LET B2 == B (-) SetToBag({i}) IN
           /\ IsABag(B2)
           /\ BagToSet(B2) \subseteq BagToSet(B)
           /\ \A j : Copies(j, B2) <= Copies(j, B)
BY DEF IsABag, \ominus, SetToBag, BagToSet, BagIn, Copies

(* AfterRelease keeps every TenantIsolate's tenant and store, and disposes *)
(* exactly the isolates of ds in addition to those already disposed.       *)
LEMMA AfterReleaseFacts ==
    ASSUME isolates \in Seq(IsolateRec), NEW ds, NEW map, NEW hs
    PROVE  LET I2 == AfterRelease(ds, map, hs) IN
           /\ I2 \in Seq(IsolateRec)
           /\ Len(I2) = Len(isolates)
           /\ \A i \in 1..Len(isolates) :
                 /\ I2[i].tenant = isolates[i].tenant
                 /\ I2[i].store = isolates[i].store
                 /\ I2[i].disposed = (isolates[i].disposed \/ i \in ds)
<1> DEFINE I2 == AfterRelease(ds, map, hs)
<1>1. DOMAIN isolates = 1..Len(isolates)
  OBVIOUS
<1>2. \A i \in 1..Len(isolates) :
         /\ I2[i] \in IsolateRec
         /\ I2[i].tenant = isolates[i].tenant
         /\ I2[i].store = isolates[i].store
         /\ I2[i].disposed = (isolates[i].disposed \/ i \in ds)
  <2> SUFFICES ASSUME NEW i \in 1..Len(isolates)
               PROVE  /\ I2[i] \in IsolateRec
                      /\ I2[i].tenant = isolates[i].tenant
                      /\ I2[i].store = isolates[i].store
                      /\ I2[i].disposed = (isolates[i].disposed \/ i \in ds)
    OBVIOUS
  <2>1. isolates[i] \in IsolateRec
    OBVIOUS
  <2>2. I2[i] = [isolates[i] EXCEPT !.disposed = @ \/ i \in ds,
                                    !.alive = @ /\ ~Unowned(i, map, hs)]
    BY <1>1 DEF AfterRelease
  <2>. QED
    BY <2>1, <2>2 DEF IsolateRec
<1>3. I2 \in [1..Len(isolates) -> IsolateRec]
  BY <1>1, <1>2 DEF AfterRelease
<1>4. I2 \in Seq(IsolateRec) /\ Len(I2) = Len(isolates)
  BY <1>3, LenProperties, IsASeq
<1>. QED
  BY <1>2, <1>4

-----------------------------------------------------------------------------
(* The inductive invariant.                                                *)

(* A holder h (an agent, or a TenantIsolate alive or not) holds a store    *)
(* of its tenant that the manager still maps to it or has dropped.        *)
HolderOK(h) ==
    /\ h.store \in 1..Len(stores)
    /\ stores[h.store] = h.tenant
    /\ h.store = atomspaces[h.tenant] \/ h.store \in dropped

(* The manager's entries point to constructed stores of their tenant.      *)
RegistryInv ==
    /\ \A t \in Tenants : atomspaces[t] \in 0..Len(stores)
    /\ \A t \in Tenants : atomspaces[t] # 0 => stores[atomspaces[t]] = t
    /\ \A k \in 1..Len(agent_objs) : HolderOK(agent_objs[k])
    /\ \A i \in 1..Len(isolates) : HolderOK(isolates[i])

(* The mesh's entries and the callers' copies point to constructed         *)
(* TenantIsolates; an entry is undisposed and of its tenant, and every     *)
(* undisposed isolate is its tenant's entry.                               *)
MeshInv ==
    /\ \A t \in Tenants : tenant_isolates[t] \in 0..Len(isolates)
    /\ BagToSet(held) \subseteq 1..Len(isolates)
    /\ \A t \in Tenants : tenant_isolates[t] # 0 =>
          /\ isolates[tenant_isolates[t]].tenant = t
          /\ ~isolates[tenant_isolates[t]].disposed
    /\ \A i \in 1..Len(isolates) :
          ~isolates[i].disposed => tenant_isolates[isolates[i].tenant] = i

(* TypeOK in three groups: the manager and the agents, the mesh, and the   *)
(* callers' copies.                                                        *)
TypeReg ==
    /\ atomspaces \in [Tenants -> 0..MaxStores]
    /\ stores \in Seq(Tenants) /\ Len(stores) <= MaxStores
    /\ dropped \subseteq StoreIds
    /\ agent_objs \in Seq(AgentRec) /\ Len(agent_objs) <= MaxAgents
    /\ creators \subseteq AgentTypes
TypeMesh ==
    /\ tenant_isolates \in [Tenants -> 0..MaxIsolates]
    /\ isolates \in Seq(IsolateRec) /\ Len(isolates) <= MaxIsolates
    /\ mesh_alive \in BOOLEAN
TypeHeld ==
    /\ IsABag(held) /\ BagToSet(held) \subseteq IsolateIds
    /\ \A i \in IsolateIds : Copies(i, held) <= MaxHandles

LEMMA TypeSplit == TypeOK <=> TypeReg /\ TypeMesh /\ TypeHeld
BY DEF TypeOK, TypeReg, TypeMesh, TypeHeld

IInv == TypeReg /\ TypeMesh /\ TypeHeld /\ RegistryInv /\ MeshInv

(* GetOrCreateAtomSpace(t) keeps the manager's entries and every holder    *)
(* consistent, and returns a constructed store of t that the new holder    *)
(* may keep.                                                               *)
LEMMA GetOrCreateRegistry ==
    ASSUME TypeReg, RegistryInv, NEW t \in Tenants, GetOrCreate(t),
           dropped' = dropped
    PROVE  /\ atomspaces' \in [Tenants -> 0..MaxStores]
           /\ stores' \in Seq(Tenants) /\ Len(stores') <= MaxStores
           /\ \A u \in Tenants : atomspaces'[u] \in 0..Len(stores')
           /\ \A u \in Tenants : atomspaces'[u] # 0 => stores'[atomspaces'[u]] = u
           /\ atomspaces'[t] \in StoreIds
           /\ \A h : HolderOK(h) /\ h.tenant \in Tenants => HolderOK(h)'
           /\ atomspaces'[t] \in 1..Len(stores') /\ stores'[atomspaces'[t]] = t
           /\ atomspaces'[t] = atomspaces[t] \/ atomspaces[t] = 0
<1>1. CASE atomspaces[t] # 0
  <2>1. atomspaces' = atomspaces /\ stores' = stores
    BY <1>1 DEF GetOrCreate
  <2>2. \A h : HolderOK(h) /\ h.tenant \in Tenants => HolderOK(h)'
    BY <2>1 DEF HolderOK
  <2>3. atomspaces'[t] \in StoreIds
    BY <1>1, <2>1 DEF TypeReg, StoreIds
  <2>4. atomspaces'[t] \in 1..Len(stores') /\ stores'[atomspaces'[t]] = t
    BY <1>1, <2>1 DEF TypeReg, RegistryInv
  <2>. QED
    BY <2>1, <2>2, <2>3, <2>4 DEF TypeReg, RegistryInv
<1>2. CASE atomspaces[t] = 0
  <2> DEFINE n == Len(stores) + 1
  <2>1. /\ Len(stores) < MaxStores
        /\ stores' = Append(stores, t)
        /\ atomspaces' = [atomspaces EXCEPT ![t] = n]
    BY <1>2 DEF GetOrCreate
  <2>2. /\ stores' \in Seq(Tenants)
        /\ Len(stores') = n
        /\ \A k \in 1..Len(stores) : stores'[k] = stores[k]
        /\ stores'[n] = t
    BY <2>1, AppendProperties DEF TypeReg
  <2>3. atomspaces' \in [Tenants -> 0..MaxStores]
    BY <2>1, TenancyAssumption DEF TypeReg
  <2>4. \A u \in Tenants : atomspaces'[u] \in 0..Len(stores')
                           /\ (atomspaces'[u] # 0 => stores'[atomspaces'[u]] = u)
    BY <2>1, <2>2 DEF TypeReg, RegistryInv
  <2>5. ASSUME NEW h, HolderOK(h), h.tenant \in Tenants
        PROVE  HolderOK(h)'
    <3>1. h.store \in 1..Len(stores) /\ stores'[h.store] = stores[h.store]
      BY <2>5, <2>2 DEF HolderOK
    <3>2. h.store = atomspaces'[h.tenant] \/ h.store \in dropped
      BY <2>5, <2>1, <1>2 DEF HolderOK, TypeOK
    <3>. QED
      BY <3>1, <3>2, <2>2, <2>5 DEF HolderOK
  <2>6. atomspaces'[t] = n
    BY <2>1 DEF TypeReg
  <2>. QED
    BY <2>1, <2>2, <2>3, <2>4, <2>5, <2>6, <1>2, TenancyAssumption DEF TypeReg, StoreIds
<1>. QED
  BY <1>1, <1>2

(* A step that leaves the manager and the agents alone and keeps every     *)
(* TenantIsolate's tenant and store keeps RegistryInv.                     *)
LEMMA RegistryFrame ==
    ASSUME RegistryInv, UNCHANGED <<atomspaces, stores, dropped, agent_objs>>,
           Len(isolates') = Len(isolates),
           \A i \in 1..Len(isolates) : /\ isolates'[i].tenant = isolates[i].tenant
                                       /\ isolates'[i].store = isolates[i].store
    PROVE  RegistryInv'
BY DEF RegistryInv, HolderOK

(* A step that leaves the mesh and the callers' copies alone keeps MeshInv. *)
LEMMA MeshFrame ==
    ASSUME MeshInv, UNCHANGED <<tenant_isolates, isolates, held>>
    PROVE  MeshInv'
BY DEF MeshInv

LEMMA InitIInv == Init => IInv
BY TenancyAssumption DEF Init, IInv, TypeReg, TypeMesh, TypeHeld, RegistryInv, MeshInv, EmptyBag, SetToBag, IsABag,
       BagToSet, Copies, BagIn


(* Every agent and every TenantIsolate has a tenant.                       *)
LEMMA HolderTenants ==
    ASSUME TypeReg, TypeMesh
    PROVE  /\ \A k \in 1..Len(agent_objs) : /\ agent_objs[k] \in AgentRec
                                            /\ agent_objs[k].tenant \in Tenants
           /\ \A i \in 1..Len(isolates) : /\ isolates[i] \in IsolateRec
                                          /\ isolates[i].tenant \in Tenants
<1>1. \A k \in 1..Len(agent_objs) : agent_objs[k] \in AgentRec
  BY ElementOfSeq DEF TypeReg
<1>2. \A i \in 1..Len(isolates) : isolates[i] \in IsolateRec
  BY ElementOfSeq DEF TypeMesh
<1>. QED
  BY <1>1, <1>2 DEF AgentRec, IsolateRec

(* A caller copying the shared_ptr of a constructed TenantIsolate keeps    *)
(* the copies well typed and pointing to constructed TenantIsolates.      *)
LEMMA AcquireFacts ==
    ASSUME TypeMesh, TypeHeld, BagToSet(held) \subseteq 1..Len(isolates),
           NEW e \in 1..Len(isolates), Acquire(e)
    PROVE  /\ TypeHeld'
           /\ BagToSet(held') \subseteq 1..Len(isolates)
<1>1. /\ IsABag(held')
      /\ BagToSet(held') = BagToSet(held) \cup {e}
      /\ Copies(e, held') = Copies(e, held) + 1
      /\ \A j : j # e => Copies(j, held') = Copies(j, held)
  BY BagAdd DEF Acquire, TypeHeld
<1>2. Copies(e, held) < MaxHandles
  BY DEF Acquire
<1>3. 1..Len(isolates) \subseteq IsolateIds
  BY TenancyAssumption DEF TypeMesh, IsolateIds
<1>4. Copies(e, held) \in Nat
  BY DEF TypeHeld, Copies, IsABag, BagIn, BagToSet
<1>5. \A i \in IsolateIds : Copies(i, held') <= MaxHandles
  BY <1>1, <1>2, <1>4, TenancyAssumption DEF TypeHeld
<1>. QED
  BY <1>1, <1>3, <1>5 DEF TypeHeld

(* Constructing an Agent (directly or through the factory) keeps IInv.     *)
LEMMA ConstructAgentIInv ==
    ASSUME IInv, NEW t \in Tenants, ConstructAgent(t),
           UNCHANGED <<dropped, creators, tenant_isolates, isolates, held,
                       mesh_alive>>
    PROVE  IInv'
<1>1. /\ atomspaces' \in [Tenants -> 0..MaxStores]
      /\ stores' \in Seq(Tenants) /\ Len(stores') <= MaxStores
      /\ \A u \in Tenants : atomspaces'[u] \in 0..Len(stores')
      /\ \A u \in Tenants : atomspaces'[u] # 0 => stores'[atomspaces'[u]] = u
      /\ atomspaces'[t] \in StoreIds
      /\ \A h : HolderOK(h) /\ h.tenant \in Tenants => HolderOK(h)'
      /\ atomspaces'[t] \in 1..Len(stores') /\ stores'[atomspaces'[t]] = t
  BY GetOrCreateRegistry DEF IInv, ConstructAgent
<1> DEFINE rec == [tenant |-> t, store |-> atomspaces'[t]]
<1>2. /\ agent_objs' = Append(agent_objs, rec)
      /\ Len(agent_objs) < MaxAgents
  BY DEF ConstructAgent
<1>3. rec \in AgentRec
  BY <1>1 DEF AgentRec
<1>4. /\ agent_objs' \in Seq(AgentRec)
      /\ Len(agent_objs') = Len(agent_objs) + 1
      /\ \A k \in 1..Len(agent_objs) : agent_objs'[k] = agent_objs[k]
      /\ agent_objs'[Len(agent_objs) + 1] = rec
  BY <1>2, <1>3, AppendProperties DEF IInv, TypeReg
<1>5. TypeReg'
  BY <1>1, <1>2, <1>4, TenancyAssumption DEF IInv, TypeReg
<1>6. RegistryInv'
  <2>1. ASSUME NEW k \in 1..Len(agent_objs')
        PROVE  HolderOK(agent_objs[k])'
    <3>1. CASE k \in 1..Len(agent_objs)
      <4>1. HolderOK(agent_objs[k]) /\ agent_objs[k].tenant \in Tenants
        BY <3>1, HolderTenants DEF IInv, RegistryInv
      <4>2. agent_objs'[k] = agent_objs[k]
        BY <3>1, <1>4
      <4>. QED
        BY <4>1, <4>2, <1>1
    <3>2. CASE k = Len(agent_objs) + 1
      BY <3>2, <1>1, <1>4 DEF HolderOK
    <3>. QED
      BY <3>1, <3>2, <1>4 DEF IInv, TypeReg
  <2>2. ASSUME NEW i \in 1..Len(isolates')
        PROVE  HolderOK(isolates[i])'
    <3>1. HolderOK(isolates[i]) /\ isolates[i].tenant \in Tenants
      BY HolderTenants DEF IInv, RegistryInv
    <3>. QED
      BY <3>1, <1>1
  <2>. QED
    BY <1>1, <2>1, <2>2 DEF RegistryInv
<1>7. MeshInv' /\ TypeMesh' /\ TypeHeld'
  BY MeshFrame DEF IInv, TypeMesh, TypeHeld
<1>. QED
  BY <1>5, <1>6, <1>7 DEF IInv

(* A caller copying the shared_ptr of the mesh's entry for t keeps IInv    *)
(* (GetTenantIsolate, and CreateTenantIsolate when the entry exists).      *)
LEMMA AcquireIInv ==
    ASSUME IInv, NEW t \in Tenants, tenant_isolates[t] # 0,
           Acquire(tenant_isolates[t]),
           UNCHANGED <<atomspaces, stores, dropped, agent_objs, creators,
                       tenant_isolates, isolates, mesh_alive>>
    PROVE  IInv'
<1>1. tenant_isolates[t] \in 1..Len(isolates)
  BY DEF IInv, MeshInv
<1>2. TypeHeld' /\ BagToSet(held') \subseteq 1..Len(isolates)
  BY <1>1, AcquireFacts DEF IInv, MeshInv
<1>3. MeshInv'
  BY <1>2 DEF IInv, MeshInv
<1>4. TypeReg' /\ TypeMesh' /\ RegistryInv'
  BY DEF IInv, TypeReg, TypeMesh, RegistryInv, HolderOK
<1>. QED
  BY <1>2, <1>3, <1>4 DEF IInv

(* RemoveAtomSpace keeps IInv: a holder of the erased store now holds a    *)
(* dropped one.                                                            *)
LEMMA RemoveAtomSpaceIInv ==
    ASSUME IInv, NEW t \in Tenants, RemoveAtomSpace(t)
    PROVE  IInv'
<1>1. atomspaces[t] \in StoreIds /\ atomspaces[t] # 0
  BY TenancyAssumption DEF IInv, TypeReg, StoreIds, RemoveAtomSpace
<1>2. TypeReg'
  BY <1>1, TenancyAssumption DEF IInv, TypeReg, RemoveAtomSpace
<1>3. ASSUME NEW h, HolderOK(h), h.tenant \in Tenants
      PROVE  HolderOK(h)'
  BY <1>3 DEF HolderOK, RemoveAtomSpace
<1>4. RegistryInv'
  <2>1. /\ \A u \in Tenants : atomspaces'[u] \in 0..Len(stores')
        /\ \A u \in Tenants : atomspaces'[u] # 0 => stores'[atomspaces'[u]] = u
    BY DEF IInv, RegistryInv, TypeReg, RemoveAtomSpace
  <2>2. \A k \in 1..Len(agent_objs') : HolderOK(agent_objs[k])'
    BY <1>3, HolderTenants DEF IInv, RegistryInv, RemoveAtomSpace
  <2>3. \A i \in 1..Len(isolates') : HolderOK(isolates[i])'
    BY <1>3, HolderTenants DEF IInv, RegistryInv, RemoveAtomSpace
  <2>. QED
    BY <2>1, <2>2, <2>3 DEF RegistryInv
<1>5. TypeMesh' /\ TypeHeld' /\ MeshInv'
  BY MeshFrame DEF IInv, TypeMesh, TypeHeld, RemoveAtomSpace
<1>. QED
  BY <1>2, <1>4, <1>5 DEF IInv

(* CreateTenantIsolate for a tenant with no entry keeps IInv: the new      *)
(* TenantIsolate is the tenant's only undisposed one.                      *)
LEMMA CreateNewIsolateIInv ==
    ASSUME IInv, NEW t \in Tenants, tenant_isolates[t] = 0,
           Len(isolates) < MaxIsolates, GetOrCreate(t),
           isolates' = Append(isolates, NewTenantIsolate(t)),
           tenant_isolates' = [tenant_isolates EXCEPT ![t] = Len(isolates) + 1],
           held' = held (+) SetToBag({Len(isolates) + 1}),
           UNCHANGED <<dropped, agent_objs, creators, mesh_alive>>
    PROVE  IInv'
<1> DEFINE n == Len(isolates) + 1
           rec == NewTenantIsolate(t)
<1>1. /\ atomspaces' \in [Tenants -> 0..MaxStores]
      /\ stores' \in Seq(Tenants) /\ Len(stores') <= MaxStores
      /\ \A u \in Tenants : atomspaces'[u] \in 0..Len(stores')
      /\ \A u \in Tenants : atomspaces'[u] # 0 => stores'[atomspaces'[u]] = u
      /\ atomspaces'[t] \in StoreIds
      /\ \A h : HolderOK(h) /\ h.tenant \in Tenants => HolderOK(h)'
      /\ atomspaces'[t] \in 1..Len(stores') /\ stores'[atomspaces'[t]] = t
  BY GetOrCreateRegistry DEF IInv
<1>2. /\ rec \in IsolateRec
      /\ rec.tenant = t /\ rec.store = atomspaces'[t] /\ ~rec.disposed
  BY <1>1 DEF NewTenantIsolate, IsolateRec
<1>3. /\ isolates' \in Seq(IsolateRec)
      /\ Len(isolates') = n
      /\ \A i \in 1..Len(isolates) : isolates'[i] = isolates[i]
      /\ isolates'[n] = rec
  BY <1>2, AppendProperties DEF IInv, TypeMesh
<1>4. TypeReg'
  BY <1>1 DEF IInv, TypeReg
<1>5. TypeMesh'
  BY <1>3, TenancyAssumption DEF IInv, TypeMesh
<1>6. /\ TypeHeld'
      /\ BagToSet(held') \subseteq 1..n
  <2>0. PICK m \in Nat : m = n
    BY DEF IInv, TypeMesh
  <2>1. /\ IsABag(held')
        /\ BagToSet(held') = BagToSet(held) \cup {m}
        /\ Copies(m, held') = Copies(m, held) + 1
        /\ \A j : j # m => Copies(j, held') = Copies(j, held)
    <3>1. IsABag(held)
      BY DEF IInv, TypeHeld
    <3>2. held' = held (+) SetToBag({m})
      BY <2>0
    <3>. QED
      BY <3>1, <3>2 DEF IsABag, \oplus, SetToBag, BagToSet, BagIn, Copies
  <2>2. Copies(m, held) = 0
    <3>1. ~BagIn(m, held)
      BY <2>0 DEF IInv, MeshInv, BagIn
    <3>. QED
      BY <3>1 DEF Copies
  <2>3. m \in IsolateIds /\ 1..m \subseteq IsolateIds
    BY <2>0, TenancyAssumption DEF IInv, TypeMesh, IsolateIds
  <2>4. \A j \in IsolateIds : Copies(j, held') <= MaxHandles
    <3> SUFFICES ASSUME NEW j \in IsolateIds
                 PROVE  Copies(j, held') <= MaxHandles
      OBVIOUS
    <3>1. CASE j = m
      BY <3>1, <2>1, <2>2, TenancyAssumption
    <3>2. CASE j # m
      <4>1. Copies(j, held) <= MaxHandles
        BY DEF IInv, TypeHeld
      <4>. QED
        BY <3>2, <4>1, <2>1
    <3>. QED
      BY <3>1, <3>2
  <2>5. BagToSet(held') \subseteq 1..m
    <3>1. BagToSet(held) \subseteq 1..Len(isolates)
      BY DEF IInv, MeshInv
    <3>2. Len(isolates) \in Nat /\ m = Len(isolates) + 1
      BY <2>0 DEF IInv, TypeMesh
    <3>3. BagToSet(held') = BagToSet(held) \cup {m}
      BY <2>1
    <3>4. 1..Len(isolates) \cup {m} \subseteq 1..m
      BY <3>2
    <3>. QED
      BY <3>1, <3>3, <3>4
  <2>. QED
    BY <2>0, <2>1, <2>3, <2>4, <2>5 DEF TypeHeld
<1>7. RegistryInv'
  <2>1. ASSUME NEW k \in 1..Len(agent_objs')
        PROVE  HolderOK(agent_objs[k])'
    BY <1>1, HolderTenants DEF IInv, RegistryInv
  <2>2. ASSUME NEW i \in 1..Len(isolates')
        PROVE  HolderOK(isolates[i])'
    <3>1. CASE i \in 1..Len(isolates)
      <4>1. HolderOK(isolates[i]) /\ isolates[i].tenant \in Tenants
        BY <3>1, HolderTenants DEF IInv, RegistryInv
      <4>. QED
        BY <4>1, <3>1, <1>1, <1>3
    <3>2. CASE i = n
      BY <3>2, <1>1, <1>2, <1>3 DEF HolderOK
    <3>. QED
      BY <3>1, <3>2, <1>3 DEF IInv, TypeMesh
  <2>. QED
    BY <1>1, <2>1, <2>2 DEF RegistryInv
<1>8. MeshInv'
  <2>1. \A u \in Tenants : tenant_isolates'[u] \in 0..n
    BY DEF IInv, MeshInv
  <2>2. ASSUME NEW u \in Tenants, tenant_isolates'[u] # 0
        PROVE  /\ isolates'[tenant_isolates'[u]].tenant = u
               /\ ~isolates'[tenant_isolates'[u]].disposed
    <3>1. CASE u = t
      BY <3>1, <1>2, <1>3 DEF IInv, TypeMesh
    <3>2. CASE u # t
      <4>1. tenant_isolates'[u] = tenant_isolates[u]
            /\ tenant_isolates[u] \in 1..Len(isolates)
        BY <3>2, <2>2 DEF IInv, MeshInv
      <4>. QED
        BY <4>1, <1>3, <2>2 DEF IInv, MeshInv
    <3>. QED
      BY <3>1, <3>2
  <2>3. ASSUME NEW i \in 1..n, ~isolates'[i].disposed
        PROVE  tenant_isolates'[isolates'[i].tenant] = i
    <3>1. CASE i = n
      BY <3>1, <1>2, <1>3 DEF IInv, TypeMesh
    <3>2. CASE i \in 1..Len(isolates)
      <4>1. isolates'[i] = isolates[i] /\ ~isolates[i].disposed
        BY <3>2, <2>3, <1>3
      <4>2. tenant_isolates[isolates[i].tenant] = i
        BY <3>2, <4>1 DEF IInv, MeshInv
      <4>3. isolates[i].tenant \in Tenants /\ isolates[i].tenant # t
        BY <3>2, <4>2, HolderTenants DEF IInv
      <4>. QED
        BY <4>1, <4>2, <4>3
    <3>. QED
      BY <3>1, <3>2
  <2>. QED
    BY <2>1, <2>2, <2>3, <1>3, <1>6 DEF MeshInv
<1>. QED
  BY <1>4, <1>5, <1>6, <1>7, <1>8 DEF IInv

(* A caller dropping a copy of its shared_ptr keeps IInv: the release      *)
(* destroys a TenantIsolate at most, and disposes nothing.                 *)
LEMMA ReleaseIInv ==
    ASSUME IInv, NEW i, ReleaseIsolate(i)
    PROVE  IInv'
<1>1. /\ IsABag(held')
      /\ BagToSet(held') \subseteq BagToSet(held)
      /\ \A j : Copies(j, held') <= Copies(j, held)
  BY BagRemove DEF IInv, TypeHeld, ReleaseIsolate
<1>2. TypeHeld'
  <2>1. ASSUME NEW j \in IsolateIds PROVE Copies(j, held') <= MaxHandles
    <3>1. Copies(j, held') \in Nat /\ Copies(j, held) \in Nat
      BY <1>1 DEF IInv, TypeHeld, Copies, IsABag, BagIn, BagToSet
    <3>2. Copies(j, held) <= MaxHandles
      BY DEF IInv, TypeHeld
    <3>. QED
      BY <1>1, <3>1, <3>2, TenancyAssumption
  <2>. QED
    BY <1>1, <2>1 DEF IInv, TypeHeld
<1>3. /\ isolates' \in Seq(IsolateRec)
      /\ Len(isolates') = Len(isolates)
      /\ \A j \in 1..Len(isolates) :
            /\ isolates'[j].tenant = isolates[j].tenant
            /\ isolates'[j].store = isolates[j].store
            /\ isolates'[j].disposed = isolates[j].disposed
  <2>1. isolates \in Seq(IsolateRec)
    BY DEF IInv, TypeMesh
  <2>2. /\ isolates' \in Seq(IsolateRec)
        /\ Len(isolates') = Len(isolates)
        /\ \A j \in 1..Len(isolates) :
              /\ isolates'[j].tenant = isolates[j].tenant
              /\ isolates'[j].store = isolates[j].store
              /\ isolates'[j].disposed = (isolates[j].disposed \/ j \in {})
    BY <2>1, AfterReleaseFacts DEF ReleaseIsolate
  <2>3. \A j \in 1..Len(isolates) : isolates[j].disposed \in BOOLEAN
    BY HolderTenants DEF IInv, IsolateRec
  <2>. QED
    BY <2>2, <2>3
<1>4. TypeMesh' /\ TypeReg'
  BY <1>3 DEF IInv, TypeMesh, TypeReg, ReleaseIsolate
<1>5. RegistryInv'
  BY <1>3, RegistryFrame DEF IInv, ReleaseIsolate
<1>6. MeshInv'
  <2>1. tenant_isolates' = tenant_isolates
    BY DEF ReleaseIsolate
  <2>2. BagToSet(held') \subseteq 1..Len(isolates')
    BY <1>1, <1>3 DEF IInv, MeshInv
  <2>3. ASSUME NEW u \in Tenants, tenant_isolates'[u] # 0
        PROVE  /\ isolates'[tenant_isolates'[u]].tenant = u
               /\ ~isolates'[tenant_isolates'[u]].disposed
    BY <2>1, <2>3, <1>3 DEF IInv, MeshInv
  <2>4. ASSUME NEW j \in 1..Len(isolates'), ~isolates'[j].disposed
        PROVE  tenant_isolates'[isolates'[j].tenant] = j
    BY <2>1, <2>4, <1>3 DEF IInv, MeshInv
  <2>. QED
    BY <2>1, <2>2, <2>3, <2>4, <1>3 DEF IInv, MeshInv
<1>. QED
  BY <1>2, <1>4, <1>5, <1>6 DEF IInv

(* RemoveTenantIsolate keeps IInv: the isolate it disposes is the entry it *)
(* erases, and no other tenant's entry is that isolate.                    *)
LEMMA RemoveTenantIsolateIInv ==
    ASSUME IInv, NEW t \in Tenants, RemoveTenantIsolate(t)
    PROVE  IInv'
<1> DEFINE e == tenant_isolates[t]
<1>1. e \in 1..Len(isolates) /\ isolates[e].tenant = t
  BY DEF IInv, MeshInv, RemoveTenantIsolate
<1>2. /\ isolates' \in Seq(IsolateRec)
      /\ Len(isolates') = Len(isolates)
      /\ \A j \in 1..Len(isolates) :
            /\ isolates'[j].tenant = isolates[j].tenant
            /\ isolates'[j].store = isolates[j].store
            /\ isolates'[j].disposed = (isolates[j].disposed \/ j \in {e})
  <2>1. isolates \in Seq(IsolateRec)
    BY DEF IInv, TypeMesh
  <2>. QED
    BY <2>1, AfterReleaseFacts DEF RemoveTenantIsolate
<1>3. /\ tenant_isolates' = [tenant_isolates EXCEPT ![t] = 0]
      /\ UNCHANGED <<atomspaces, stores, dropped, agent_objs, creators, held,
                     mesh_alive>>
  BY DEF RemoveTenantIsolate
<1>4. TypeReg' /\ TypeMesh' /\ TypeHeld'
  <2>1. TypeReg' /\ TypeHeld'
    BY <1>3 DEF IInv, TypeReg, TypeHeld
  <2>2. tenant_isolates' \in [Tenants -> 0..MaxIsolates]
    BY <1>3, TenancyAssumption DEF IInv, TypeMesh
  <2>3. TypeMesh'
    BY <1>2, <1>3, <2>2 DEF IInv, TypeMesh
  <2>. QED
    BY <2>1, <2>3
<1>5. RegistryInv'
  BY <1>2, <1>3, RegistryFrame DEF IInv
<1>6. MeshInv'
  <2>1. \A u \in Tenants : tenant_isolates'[u] \in 0..Len(isolates')
    BY <1>2, <1>3 DEF IInv, MeshInv
  <2>2. BagToSet(held') \subseteq 1..Len(isolates')
    BY <1>2, <1>3 DEF IInv, MeshInv
  <2>3. ASSUME NEW u \in Tenants, tenant_isolates'[u] # 0
        PROVE  /\ isolates'[tenant_isolates'[u]].tenant = u
               /\ ~isolates'[tenant_isolates'[u]].disposed
    <3>1. u # t /\ tenant_isolates'[u] = tenant_isolates[u]
      BY <2>3, <1>3 DEF IInv, TypeMesh
    <3>2. /\ tenant_isolates[u] \in 1..Len(isolates)
          /\ isolates[tenant_isolates[u]].tenant = u
          /\ ~isolates[tenant_isolates[u]].disposed
      BY <2>3, <3>1 DEF IInv, MeshInv
    <3>3. tenant_isolates[u] # e
      BY <1>1, <3>1, <3>2
    <3>. QED
      BY <1>2, <3>1, <3>2, <3>3
  <2>4. ASSUME NEW j \in 1..Len(isolates'), ~isolates'[j].disposed
        PROVE  tenant_isolates'[isolates'[j].tenant] = j
    <3>1. j \in 1..Len(isolates) /\ ~isolates[j].disposed /\ j # e
      BY <2>4, <1>2
    <3>2. isolates[j].tenant \in Tenants
      BY <3>1, HolderTenants DEF IInv
    <3>3. tenant_isolates[isolates[j].tenant] = j
      BY <3>1 DEF IInv, MeshInv
    <3>4. isolates[j].tenant # t
      BY <3>1, <3>3
    <3>. QED
      BY <1>2, <1>3, <3>1, <3>2, <3>3, <3>4
  <2>. QED
    BY <2>1, <2>2, <2>3, <2>4 DEF MeshInv
<1>. QED
  BY <1>4, <1>5, <1>6 DEF IInv


(* A caller of GetOrCreateAtomSpace that keeps no reference keeps IInv.    *)
LEMMA GetOrCreateAtomSpaceIInv ==
    ASSUME IInv, NEW t \in Tenants, GetOrCreateAtomSpace(t)
    PROVE  IInv'
<1>1. /\ atomspaces' \in [Tenants -> 0..MaxStores]
      /\ stores' \in Seq(Tenants) /\ Len(stores') <= MaxStores
      /\ \A u \in Tenants : atomspaces'[u] \in 0..Len(stores')
      /\ \A u \in Tenants : atomspaces'[u] # 0 => stores'[atomspaces'[u]] = u
      /\ \A h : HolderOK(h) /\ h.tenant \in Tenants => HolderOK(h)'
  BY GetOrCreateRegistry DEF IInv, GetOrCreateAtomSpace
<1>2. UNCHANGED <<dropped, agent_objs, creators, tenant_isolates, isolates,
                  held, mesh_alive>>
  BY DEF GetOrCreateAtomSpace
<1>3. TypeReg'
  BY <1>1, <1>2 DEF IInv, TypeReg
<1>4. RegistryInv'
  <2>1. ASSUME NEW k \in 1..Len(agent_objs') PROVE HolderOK(agent_objs[k])'
    <3>1. HolderOK(agent_objs[k]) /\ agent_objs[k].tenant \in Tenants
      BY <1>2, HolderTenants DEF IInv, RegistryInv
    <3>. QED
      BY <3>1, <1>1, <1>2
  <2>2. ASSUME NEW i \in 1..Len(isolates') PROVE HolderOK(isolates[i])'
    <3>1. HolderOK(isolates[i]) /\ isolates[i].tenant \in Tenants
      BY <1>2, HolderTenants DEF IInv, RegistryInv
    <3>. QED
      BY <3>1, <1>1, <1>2
  <2>. QED
    BY <1>1, <2>1, <2>2 DEF RegistryInv
<1>5. TypeMesh' /\ TypeHeld' /\ MeshInv'
  BY <1>2, MeshFrame DEF IInv, TypeMesh, TypeHeld
<1>. QED
  BY <1>3, <1>4, <1>5 DEF IInv

(* ~IsolateMesh keeps IInv: every undisposed isolate is some tenant's      *)
(* entry, so disposing the entries leaves none undisposed.                 *)
LEMMA DestroyMeshIInv ==
    ASSUME IInv, DestroyMesh
    PROVE  IInv'
<1> DEFINE ds == {tenant_isolates[u] : u \in Tenants}
<1>1. /\ isolates' \in Seq(IsolateRec)
      /\ Len(isolates') = Len(isolates)
      /\ \A j \in 1..Len(isolates) :
            /\ isolates'[j].tenant = isolates[j].tenant
            /\ isolates'[j].store = isolates[j].store
            /\ isolates'[j].disposed = (isolates[j].disposed \/ j \in ds)
  <2>1. isolates \in Seq(IsolateRec)
    BY DEF IInv, TypeMesh
  <2>. QED
    BY <2>1, AfterReleaseFacts DEF DestroyMesh
<1>2. /\ tenant_isolates' = [u \in Tenants |-> 0]
      /\ mesh_alive' = FALSE
      /\ UNCHANGED <<atomspaces, stores, dropped, agent_objs, creators, held>>
  BY DEF DestroyMesh
<1>3. TypeReg' /\ TypeMesh' /\ TypeHeld'
  <2>1. TypeReg' /\ TypeHeld'
    BY <1>2 DEF IInv, TypeReg, TypeHeld
  <2>2. TypeMesh'
    <3>1. tenant_isolates' \in [Tenants -> 0..MaxIsolates]
      BY <1>2, TenancyAssumption
    <3>2. isolates' \in Seq(IsolateRec) /\ Len(isolates') <= MaxIsolates
      BY <1>1 DEF IInv, TypeMesh
    <3>3. mesh_alive' \in BOOLEAN
      BY <1>2
    <3>. QED
      BY <3>1, <3>2, <3>3 DEF TypeMesh
  <2>. QED
    BY <2>1, <2>2
<1>4. RegistryInv'
  BY <1>1, <1>2, RegistryFrame DEF IInv
<1>5. MeshInv'
  <2>1. ASSUME NEW j \in 1..Len(isolates')
        PROVE  isolates'[j].disposed
    <3>1. j \in 1..Len(isolates)
      BY <1>1
    <3>2. CASE isolates[j].disposed
      BY <3>1, <3>2, <1>1
    <3>3. CASE ~isolates[j].disposed
      <4>1. isolates[j].tenant \in Tenants
        BY <3>1, HolderTenants DEF IInv
      <4>2. tenant_isolates[isolates[j].tenant] = j
        BY <3>1, <3>3 DEF IInv, MeshInv
      <4>3. j \in ds
        BY <4>1, <4>2
      <4>. QED
        BY <3>1, <4>3, <1>1
    <3>. QED
      BY <3>2, <3>3
  <2>2. BagToSet(held') \subseteq 1..Len(isolates')
    BY <1>1, <1>2 DEF IInv, MeshInv
  <2>. QED
    BY <1>2, <2>1, <2>2 DEF MeshInv
<1>. QED
  BY <1>3, <1>4, <1>5 DEF IInv

(* Registering a type tag keeps IInv.                                      *)
LEMMA RegisterAgentTypeIInv ==
    ASSUME IInv, NEW type \in AgentTypes, RegisterAgentType(type)
    PROVE  IInv'
<1>1. TypeReg' /\ TypeMesh' /\ TypeHeld'
  BY DEF IInv, TypeReg, TypeMesh, TypeHeld, RegisterAgentType
<1>2. RegistryInv'
  BY RegistryFrame DEF IInv, RegisterAgentType
<1>3. MeshInv'
  BY MeshFrame DEF IInv, RegisterAgentType
<1>. QED
  BY <1>1, <1>2, <1>3 DEF IInv

(* CreateTenantIsolate keeps IInv, whether or not the entry exists.        *)
LEMMA CreateTenantIsolateIInv ==
    ASSUME IInv, NEW t \in Tenants, CreateTenantIsolate(t)
    PROVE  IInv'
<1>1. CASE tenant_isolates[t] # 0
  BY <1>1, AcquireIInv DEF CreateTenantIsolate
<1>2. CASE tenant_isolates[t] = 0
  BY <1>2, CreateNewIsolateIInv DEF CreateTenantIsolate
<1>. QED
  BY <1>1, <1>2

(* Every step of Next, and every stuttering step, keeps IInv.              *)
LEMMA NextIInv == IInv /\ [Next]_vars => IInv'
<1> SUFFICES ASSUME IInv, [Next]_vars PROVE IInv'
  OBVIOUS
<1>1. ASSUME NEW t \in Tenants, GetOrCreateAtomSpace(t) PROVE IInv'
  BY <1>1, GetOrCreateAtomSpaceIInv
<1>2. ASSUME NEW t \in Tenants, RemoveAtomSpace(t) PROVE IInv'
  BY <1>2, RemoveAtomSpaceIInv
<1>3. ASSUME NEW t \in Tenants, NEW type \in AgentTypes, CreateAgent(type, t)
      PROVE IInv'
  BY <1>3, ConstructAgentIInv DEF CreateAgent
<1>4. ASSUME NEW t \in Tenants, NewAgent(t) PROVE IInv'
  BY <1>4, ConstructAgentIInv DEF NewAgent
<1>5. ASSUME NEW t \in Tenants, GetTenantIsolate(t) PROVE IInv'
  BY <1>5, AcquireIInv DEF GetTenantIsolate
<1>6. ASSUME NEW t \in Tenants, CreateTenantIsolate(t) PROVE IInv'
  BY <1>6, CreateTenantIsolateIInv
<1>7. ASSUME NEW t \in Tenants, RemoveTenantIsolate(t) PROVE IInv'
  BY <1>7, RemoveTenantIsolateIInv
<1>8. ASSUME NEW type \in AgentTypes, RegisterAgentType(type) PROVE IInv'
  BY <1>8, RegisterAgentTypeIInv
<1>9. ASSUME NEW i \in BagToSet(held), ReleaseIsolate(i) PROVE IInv'
  BY <1>9, ReleaseIInv
<1>10. CASE DestroyMesh
  BY <1>10, DestroyMeshIInv
<1>11. CASE UNCHANGED vars
  BY <1>11 DEF vars, IInv, TypeReg, TypeMesh, TypeHeld, RegistryInv, MeshInv,
               HolderOK
<1>. QED
  BY <1>1, <1>2, <1>3, <1>4, <1>5, <1>6, <1>7, <1>8, <1>9, <1>10, <1>11
     DEF Next


-----------------------------------------------------------------------------
(* The theorems.                                                           *)

(* IInv holds in every reachable state.                                    *)
LEMMA IInvHolds == Spec => []IInv
BY InitIInv, NextIInv, PTL DEF Spec

(* Every registry, agent list, TenantIsolate list and shared_ptr count the *)
(* AtomSpaceManager, AgentFactory and IsolateMesh operations produce is    *)
(* well typed, for every set of tenants and every bound.                   *)
THEOREM TypeCorrect == Spec => []TypeOK
<1>1. IInv => TypeOK
  BY TypeSplit DEF IInv
<1>. QED
  BY <1>1, IInvHolds, PTL

(* GetOrCreateAtomSpace hands every agent and every TenantIsolate of a     *)
(* tenant the store the manager maps the tenant to, unless                 *)
(* RemoveAtomSpace erased that store since.                                *)
THEOREM StoreSharingCorrect == Spec => []StoreSharedUntilRemoved
<1>1. IInv => StoreSharedUntilRemoved
  <2> SUFFICES ASSUME IInv, NEW h \in Holders
               PROVE  /\ stores[h.store] = h.tenant
                      /\ h.store = atomspaces[h.tenant] \/ h.store \in dropped
    BY DEF StoreSharedUntilRemoved
  <2>1. DOMAIN agent_objs = 1..Len(agent_objs)
        /\ DOMAIN isolates = 1..Len(isolates)
    BY DEF IInv, TypeReg, TypeMesh
  <2>2. CASE \E k \in DOMAIN agent_objs : h = agent_objs[k]
    BY <2>1, <2>2 DEF IInv, RegistryInv, HolderOK
  <2>3. CASE \E i \in DOMAIN isolates :
               h = [tenant |-> isolates[i].tenant, store |-> isolates[i].store]
    BY <2>1, <2>3 DEF IInv, RegistryInv, HolderOK
  <2>. QED
    BY <2>2, <2>3 DEF Holders
<1>. QED
  BY <1>1, IInvHolds, PTL

(* CreateTenantIsolate, RemoveTenantIsolate and ~IsolateMesh keep at most  *)
(* one undisposed isolate per tenant, and the mesh's entry for a tenant is *)
(* that isolate.                                                           *)
THEOREM SandboxCorrect == Spec => []SandboxOneToOne
<1>1. IInv => SandboxOneToOne
  <2> SUFFICES ASSUME IInv PROVE SandboxOneToOne
    OBVIOUS
  <2>1. DOMAIN isolates = 1..Len(isolates)
    BY DEF IInv, TypeMesh
  <2>2. ASSUME NEW i \in DOMAIN isolates, NEW j \in DOMAIN isolates,
               isolates[i].tenant = isolates[j].tenant,
               ~isolates[i].disposed, ~isolates[j].disposed
        PROVE  i = j
    <3>1. tenant_isolates[isolates[i].tenant] = i
      BY <2>1, <2>2 DEF IInv, MeshInv
    <3>2. tenant_isolates[isolates[j].tenant] = j
      BY <2>1, <2>2 DEF IInv, MeshInv
    <3>. QED
      BY <2>2, <3>1, <3>2
  <2>3. \A t \in Tenants :
          tenant_isolates[t] # 0 =>
             /\ isolates[tenant_isolates[t]].tenant = t
             /\ ~isolates[tenant_isolates[t]].disposed
    BY DEF IInv, MeshInv
  <2>. QED
    BY <2>2, <2>3 DEF SandboxOneToOne
<1>. QED
  BY <1>1, IInvHolds, PTL

=============================================================================
