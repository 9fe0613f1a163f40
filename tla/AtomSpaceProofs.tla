--------------------------- MODULE AtomSpaceProofs ---------------------------
(***************************************************************************)
(* Proofs about the per-tenant AtomSpace (module AtomSpace), for every set *)
(* of types and names and every bound: the model is well typed for any     *)
(* number of tenants, and a store's three indices agree and its name index *)
(* holds the newest atom of each name when the process serves one tenant.  *)
(* With two tenants the unsynchronised next_id_++ of the Atom constructor  *)
(* breaks both (run atomspace_id_race), so the single tenant is a          *)
(* hypothesis of those theorems, not an assumption of the module.          *)
(***************************************************************************)
EXTENDS AtomSpace, TLAPS, SequenceTheorems, WellFoundedInduction

(* The elements of a sequence, and that none is listed twice.              *)
Elems(s) == {s[i] : i \in 1..Len(s)}

NoDup(s) == \A i, j \in 1..Len(s) : s[i] = s[j] => i = j

-----------------------------------------------------------------------------
(* Lemmas about the type-index helpers RemoveAt and EraseFirstWithId.      *)

(* A sequence with an entry whose id is id has a first such entry: the     *)
(* CHOOSE of EraseFirstWithId is an index of the sequence.                 *)
LEMMA FirstIndex ==
    ASSUME NEW S, NEW s \in Seq(S), NEW id,
           \E i \in 1..Len(s) : s[i].id = id
    PROVE  \E i \in 1..Len(s) : s[i].id = id /\ \A j \in 1..i - 1 : s[j].id # id
<1> DEFINE T == {i \in 1..Len(s) : s[i].id = id}
           R == OpToRel(<, Nat)
<1>1. T \subseteq Nat /\ T # {}
  BY LenProperties
<1>2. PICK x \in T : \A y \in T : ~(<<y, x>> \in R)
  BY <1>1, NatLessThanWellFounded, WFMin
<1>3. ASSUME NEW j \in 1..x - 1, s[j].id = id PROVE FALSE
  <2>1. j \in T /\ x \in Nat /\ j < x
    BY <1>1, <1>3, LenProperties
  <2>2. <<j, x>> \in R
    BY <2>1, <1>1 DEF OpToRel
  <2>. QED
    BY <1>2, <2>1, <2>2
<1>. QED
  BY <1>2, <1>3

(* RemoveAt(s, i) is s with its i-th element left out.                     *)
LEMMA RemoveAtFacts ==
    ASSUME NEW S, NEW s \in Seq(S), NEW i \in 1..Len(s)
    PROVE  /\ RemoveAt(s, i) \in Seq(S)
           /\ Len(RemoveAt(s, i)) = Len(s) - 1
           /\ \A k \in 1..Len(s) - 1 :
                 RemoveAt(s, i)[k] = IF k < i THEN s[k] ELSE s[k + 1]
<1>1. Len(s) \in Nat
  BY LenProperties
<1>2. PICK u : u = SubSeq(s, 1, i - 1)
  OBVIOUS
<1>3. PICK v : v = SubSeq(s, i + 1, Len(s))
  OBVIOUS
<1>4. u \in Seq(S) /\ Len(u) = i - 1 /\ \A k \in 1..i - 1 : u[k] = s[k]
  BY <1>1, <1>2, SubSeqProperties
<1>5. v \in Seq(S) /\ Len(v) = Len(s) - i
      /\ \A k \in 1..Len(s) - i : v[k] = s[i + k]
  BY <1>1, <1>3, SubSeqProperties
<1>6. /\ u \o v \in Seq(S)
      /\ Len(u \o v) = Len(u) + Len(v)
      /\ \A k \in 1..Len(u) + Len(v) :
            (u \o v)[k] = IF k <= Len(u) THEN u[k] ELSE v[k - Len(u)]
  BY <1>4, <1>5, ConcatProperties
<1>7. Len(u) + Len(v) = (i - 1) + (Len(s) - i)
  BY <1>4, <1>5
<1>8. (i - 1) + (Len(s) - i) = Len(s) - 1
  BY <1>1
<1>9. ASSUME NEW k \in 1..Len(s) - 1
      PROVE  (u \o v)[k] = IF k < i THEN s[k] ELSE s[k + 1]
  <2>0. k \in 1..Len(u) + Len(v)
    BY <1>7, <1>8
  <2>1. CASE k < i
    <3>1. k \in 1..i - 1 /\ k <= i - 1
      BY <1>1, <2>1
    <3>2. (u \o v)[k] = u[k]
      BY <1>4, <1>6, <2>0, <3>1
    <3>. QED
      BY <1>4, <2>1, <3>1, <3>2
  <2>2. CASE ~(k < i)
    <3>1. k - (i - 1) \in 1..Len(s) - i /\ i + (k - (i - 1)) = k + 1
          /\ ~(k <= i - 1)
      BY <1>1, <2>2
    <3>2. (u \o v)[k] = v[k - Len(u)]
      BY <1>4, <1>6, <2>0, <3>1
    <3>3. v[k - Len(u)] = s[k + 1]
      BY <1>4, <1>5, <3>1
    <3>. QED
      BY <2>2, <3>2, <3>3
  <2>. QED
    BY <2>1, <2>2
<1>. QED
  BY <1>2, <1>3, <1>6, <1>7, <1>8, <1>9 DEF RemoveAt

(* EraseFirstWithId keeps a sequence of atoms a sequence of atoms.         *)
LEMMA EraseType ==
    ASSUME NEW S, NEW s \in Seq(S), NEW id
    PROVE  EraseFirstWithId(s, id) \in Seq(S)
<1>1. CASE \E i \in 1..Len(s) : s[i].id = id
  <2> DEFINE k == CHOOSE i \in 1..Len(s) :
                    s[i].id = id /\ \A j \in 1..i - 1 : s[j].id # id
  <2>1. k \in 1..Len(s)
    BY <1>1, FirstIndex
  <2>. QED
    BY <1>1, <2>1, RemoveAtFacts DEF EraseFirstWithId
<1>2. CASE ~\E i \in 1..Len(s) : s[i].id = id
  BY <1>2 DEF EraseFirstWithId
<1>. QED
  BY <1>1, <1>2

-----------------------------------------------------------------------------
(* What appending to and removing from a type range does to its elements. *)

LEMMA AppendElems ==
    ASSUME NEW S, NEW s \in Seq(S), NEW x \in S
    PROVE  /\ Elems(Append(s, x)) = Elems(s) \cup {x}
           /\ NoDup(s) /\ x \notin Elems(s) => NoDup(Append(s, x))
<1>1. /\ Len(s) \in Nat
      /\ Len(Append(s, x)) = Len(s) + 1
      /\ \A i \in 1..Len(s) : Append(s, x)[i] = s[i]
      /\ Append(s, x)[Len(s) + 1] = x
  BY AppendProperties
<1>2. Elems(Append(s, x)) = Elems(s) \cup {x}
  <2>1. 1..Len(Append(s, x)) = (1..Len(s)) \cup {Len(s) + 1}
    BY <1>1
  <2>. QED
    BY <1>1, <2>1 DEF Elems
<1>3. ASSUME NoDup(s), x \notin Elems(s) PROVE NoDup(Append(s, x))
  <2> SUFFICES ASSUME NEW i \in 1..Len(s) + 1, NEW j \in 1..Len(s) + 1,
                      Append(s, x)[i] = Append(s, x)[j]
               PROVE  i = j
    BY <1>1 DEF NoDup
  <2>1. CASE i \in 1..Len(s) /\ j \in 1..Len(s)
    BY <1>1, <1>3, <2>1 DEF NoDup
  <2>2. CASE i \in 1..Len(s) /\ j = Len(s) + 1
    BY <1>1, <1>3, <2>2 DEF Elems
  <2>3. CASE i = Len(s) + 1 /\ j \in 1..Len(s)
    BY <1>1, <1>3, <2>3 DEF Elems
  <2>4. CASE i = Len(s) + 1 /\ j = Len(s) + 1
    BY <2>4
  <2>. QED
    BY <1>1, <2>1, <2>2, <2>3, <2>4
<1>. QED
  BY <1>2, <1>3

(* Leaving out one entry of a range without duplicates removes exactly    *)
(* that atom from its elements, and keeps it without duplicates.          *)
LEMMA RemoveAtElems ==
    ASSUME NEW S, NEW s \in Seq(S), NEW k \in 1..Len(s), NoDup(s)
    PROVE  /\ Elems(RemoveAt(s, k)) = Elems(s) \ {s[k]}
           /\ NoDup(RemoveAt(s, k))
<1> DEFINE r == RemoveAt(s, k)
           f(m) == IF m < k THEN m ELSE m + 1
<1>1. /\ Len(s) \in Nat
      /\ Len(r) = Len(s) - 1
      /\ \A m \in 1..Len(s) - 1 : r[m] = s[f(m)]
  BY LenProperties, RemoveAtFacts
<1>2. \A m \in 1..Len(s) - 1 : f(m) \in (1..Len(s)) \ {k}
  BY <1>1
<1>3. Elems(r) \subseteq Elems(s) \ {s[k]}
  BY <1>1, <1>2 DEF Elems, NoDup
<1>4. Elems(s) \ {s[k]} \subseteq Elems(r)
  <2> SUFFICES ASSUME NEW j \in 1..Len(s), s[j] # s[k] PROVE s[j] \in Elems(r)
    BY DEF Elems
  <2>1. j # k
    BY DEF Elems
  <2>2. PICK m \in 1..Len(s) - 1 : f(m) = j
    <3>1. CASE j < k
      <4>1. j \in 1..Len(s) - 1 /\ j < k
        BY <1>1, <3>1
      <4>. QED
        BY <4>1
    <3>2. CASE j > k
      <4>1. j - 1 \in 1..Len(s) - 1 /\ ~(j - 1 < k)
        BY <1>1, <3>2
      <4>. QED
        BY <4>1
    <3>. QED
      BY <1>1, <2>1, <3>1, <3>2
  <2>. QED
    BY <1>1, <2>2 DEF Elems
<1>5. NoDup(r)
  <2> SUFFICES ASSUME NEW m1 \in 1..Len(s) - 1, NEW m2 \in 1..Len(s) - 1,
                      r[m1] = r[m2]
               PROVE  m1 = m2
    BY <1>1 DEF NoDup
  <2>1. f(m1) = f(m2)
    BY <1>1, <1>2 DEF NoDup
  <2>. QED
    BY <1>1, <2>1
<1>. QED
  BY <1>3, <1>4, <1>5

(* When exactly one entry of a range has the id, EraseFirstWithId removes *)
(* that entry.                                                             *)
LEMMA EraseUnique ==
    ASSUME NEW S, NEW s \in Seq(S), NEW id, NEW k \in 1..Len(s), s[k].id = id,
           \A j \in 1..Len(s) : s[j].id = id => j = k
    PROVE  EraseFirstWithId(s, id) = RemoveAt(s, k)
<1>1. (CHOOSE i \in 1..Len(s) : s[i].id = id /\ \A j \in 1..i - 1 : s[j].id # id) = k
  <2>1. \E i \in 1..Len(s) : s[i].id = id /\ \A j \in 1..i - 1 : s[j].id # id
    BY FirstIndex
  <2>. QED
    BY <2>1
<1>. QED
  BY <1>1 DEF EraseFirstWithId

-----------------------------------------------------------------------------
(* Type correctness, for any number of tenants.                            *)

(* The id counter stays ahead of every atom constructed so far: next_id_   *)
(* is at most created + 1, and an atom under construction took an id that *)
(* was handed out.  This is what keeps next_id_ in Ids for the next Begin. *)
Counter ==
    /\ next_id <= created + 1
    /\ \A t \in Tenants : pending[t] # None => pending[t].id <= created

TInv == TypeOK /\ Counter

(* The empty stores of the initial state satisfy TInv.                    *)
LEMMA InitTInv == Init => TInv
BY AtomSpaceAssumption DEF Init, TInv, TypeOK, Counter, Atom, Ids

(* AddNode and AddLink start a construction with the next id.              *)
LEMMA BeginTInv ==
    ASSUME TInv, NEW t \in Tenants, NEW ty \in Types, NEW n \in Names,
           NEW nd \in BOOLEAN,
           Unlocked(t), created < MaxAtoms,
           pending' = [pending EXCEPT ![t] =
                         [id |-> next_id, type |-> ty, name |-> n, node |-> nd]],
           created' = created + 1,
           UNCHANGED <<by_id, by_name, by_type, next_id>>
    PROVE  TInv'
<1>1. next_id \in Ids
  BY AtomSpaceAssumption DEF TInv, TypeOK, Counter, Ids
<1>2. [id |-> next_id, type |-> ty, name |-> n, node |-> nd] \in Atom
  BY <1>1 DEF Atom
<1>3. TypeOK'
  BY <1>1, <1>2, AtomSpaceAssumption DEF TInv, TypeOK
<1>4. ASSUME NEW u \in Tenants, pending'[u] # None
      PROVE  pending'[u].id <= created'
  <2>1. CASE u = t
    BY <1>1, <2>1 DEF TInv, TypeOK, Counter, Ids
  <2>2. CASE u # t
    BY <1>4, <2>2 DEF TInv, TypeOK, Counter, Atom, Ids
  <2>. QED
    BY <2>1, <2>2
<1>. QED
  BY <1>3, <1>4 DEF TInv, TypeOK, Counter

(* AddFinish sets next_id_ to the finished atom's id + 1.                 *)
LEMMA AddFinishTInv ==
    ASSUME TInv, NEW t \in Tenants, AddFinish(t)
    PROVE  TInv'
<1> DEFINE a == pending[t]
<1>1. a \in Atom /\ a.id \in Ids /\ a.id <= created
  BY DEF AddFinish, TInv, TypeOK, Counter, Atom
<1>2. by_type[t][a.type] \in Seq(Atom)
  BY <1>1 DEF TInv, TypeOK, Atom
<1>3. Append(by_type[t][a.type], a) \in Seq(Atom)
  BY <1>1, <1>2, AppendProperties
<1>4. TypeOK'
  <2>1. by_id' \in [Tenants -> [Ids -> Atom \cup {None}]]
    BY <1>1 DEF AddFinish, TInv, TypeOK
  <2>2. by_name' \in [Tenants -> [Names -> Atom \cup {None}]]
    BY <1>1 DEF AddFinish, TInv, TypeOK, Atom
  <2>3. by_type' \in [Tenants -> [Types -> Seq(Atom)]]
    BY <1>1, <1>3 DEF AddFinish, TInv, TypeOK, Atom
  <2>4. next_id' \in 1..MaxAtoms + 1
    BY <1>1, AtomSpaceAssumption DEF AddFinish, Ids
  <2>5. pending' \in [Tenants -> Atom \cup {None}] /\ created' \in 0..MaxAtoms
    BY DEF AddFinish, TInv, TypeOK
  <2>. QED
    BY <2>1, <2>2, <2>3, <2>4, <2>5 DEF TypeOK
<1>5. Counter'
  BY <1>1, AtomSpaceAssumption DEF AddFinish, TInv, TypeOK, Counter, Ids
<1>. QED
  BY <1>4, <1>5 DEF TInv

(* RemoveAtom's erase from the type range keeps a sequence of atoms.      *)
LEMMA RemoveAtomTInv ==
    ASSUME TInv, NEW t \in Tenants, NEW id \in Ids, RemoveAtom(t, id)
    PROVE  TInv'
<1> DEFINE a == by_id[t][id]
<1>1. a \in Atom
  BY DEF RemoveAtom, TInv, TypeOK
<1>2. by_type[t][a.type] \in Seq(Atom)
  BY <1>1 DEF TInv, TypeOK, Atom
<1>3. EraseFirstWithId(by_type[t][a.type], id) \in Seq(Atom)
  BY <1>2, EraseType
<1>. QED
  BY <1>1, <1>3 DEF RemoveAtom, TInv, TypeOK, Counter, Atom

(* Clear resets the three indices of one store.                           *)
LEMMA ClearTInv ==
    ASSUME TInv, NEW t \in Tenants, Clear(t)
    PROVE  TInv'
BY DEF Clear, TInv, TypeOK, Counter

(* Every step of any tenant keeps TInv.                                   *)
LEMMA NextTInv == TInv /\ [Next]_vars => TInv'
<1> SUFFICES ASSUME TInv, [Next]_vars PROVE TInv'
  OBVIOUS
<1>1. ASSUME NEW t \in Tenants, NEW ty \in Types, NEW n \in Names,
             AddNodeBegin(t, ty, n) \/ AddLinkBegin(t, ty, n)
      PROVE  TInv'
  <2>1. CASE AddNodeBegin(t, ty, n)
    BY <2>1, BeginTInv DEF AddNodeBegin
  <2>2. CASE AddLinkBegin(t, ty, n)
    BY <2>2, BeginTInv DEF AddLinkBegin
  <2>. QED
    BY <1>1, <2>1, <2>2
<1>2. ASSUME NEW t \in Tenants, AddFinish(t) PROVE TInv'
  BY <1>2, AddFinishTInv
<1>3. ASSUME NEW t \in Tenants, NEW id \in Ids, RemoveAtom(t, id) PROVE TInv'
  BY <1>3, RemoveAtomTInv
<1>4. ASSUME NEW t \in Tenants, Clear(t) PROVE TInv'
  BY <1>4, ClearTInv
<1>5. CASE UNCHANGED vars
  BY <1>5 DEF vars, TInv, TypeOK, Counter
<1>. QED
  BY <1>1, <1>2, <1>3, <1>4, <1>5 DEF Next

(* Every store's three indices, the id counter and the atoms under         *)
(* construction stay well typed for any number of tenants, the race on     *)
(* next_id_ included: the counter never passes MaxAtoms + 1.               *)
THEOREM TypeCorrect == Spec => []TypeOK
<1>1. TInv => TypeOK
  BY DEF TInv
<1>. QED
  BY <1>1, InitTInv, NextTInv, PTL DEF Spec

-----------------------------------------------------------------------------
(* The inductive invariant.                                                *)


(* Every atom of a store sits at its own id, below next_id_.               *)
IdInv(t) == \A i \in Ids : by_id[t][i] # None => by_id[t][i].id = i /\ i < next_id

(* The atom under construction takes next_id_ itself (one tenant only).   *)
PendingFresh(t) == pending[t] # None => pending[t].id = next_id

(* A name entry holds a live atom of that name, and no live atom of that   *)
(* name is newer.                                                          *)
NameInv(t) ==
    \A n \in Names :
        by_name[t][n] # None =>
            /\ by_name[t][n].name = n
            /\ by_id[t][by_name[t][n].id] = by_name[t][n]
            /\ \A a \in Live(t) : a.name = n => a.id <= by_name[t][n].id

(* Each type range lists the live atoms of that type, each once.          *)
TypeIdx(t) ==
    \A ty \in Types :
        /\ NoDup(by_type[t][ty])
        /\ Elems(by_type[t][ty]) = {a \in Live(t) : a.type = ty}

StoreInv(t) == IdInv(t) /\ PendingFresh(t) /\ NameInv(t) /\ TypeIdx(t)

IInv == TypeOK /\ Counter /\ \A t \in Tenants : StoreInv(t)

-----------------------------------------------------------------------------
(* Steps of the tenant that acts keep its store's invariant.               *)

LEMMA NoneNotAtom == None \notin Atom
BY AtomSpaceAssumption DEF Atom, Ids

(* A live atom is a well-typed atom at its own id, below next_id_.         *)
LEMMA LiveAt ==
    ASSUME TypeOK, NEW t \in Tenants, IdInv(t), NEW b \in Live(t)
    PROVE  b \in Atom /\ b.id \in Ids /\ by_id[t][b.id] = b /\ b.id < next_id
BY DEF TypeOK, IdInv, Live

(* AddFinish publishes the atom under construction in the three indices. *)
LEMMA FinishStore ==
    ASSUME TypeOK, NEW t \in Tenants, StoreInv(t), AddFinish(t)
    PROVE  StoreInv(t)'
<1> DEFINE a == pending[t]
<1>1. a \in Atom /\ a.id = next_id /\ a.id \in Ids /\ a.id \in Nat
  BY DEF AddFinish, TypeOK, StoreInv, PendingFresh, Atom, Ids
<1>2. by_id[t][a.id] = None
  BY <1>1 DEF StoreInv, IdInv
<1>3. a \notin Live(t)
  BY <1>1, LiveAt DEF StoreInv
<1>4. \A i \in Ids : by_id'[t][i] = IF i = a.id THEN a ELSE by_id[t][i]
  BY <1>1 DEF AddFinish, TypeOK
<1>5. Live(t)' = Live(t) \cup {a}
  BY <1>1, <1>2, <1>4, NoneNotAtom DEF Live
<1>6. IdInv(t)'
  BY <1>1, <1>4 DEF AddFinish, StoreInv, IdInv, TypeOK, Ids
<1>7. PendingFresh(t)'
  BY DEF AddFinish, PendingFresh, TypeOK
<1>8. NameInv(t)'
  <2> SUFFICES ASSUME NEW n \in Names, by_name'[t][n] # None
               PROVE  /\ by_name'[t][n].name = n
                      /\ by_id'[t][by_name'[t][n].id] = by_name'[t][n]
                      /\ \A b \in Live(t)' : b.name = n => b.id <= by_name'[t][n].id
    BY DEF NameInv
  <2>1. CASE n = a.name
    <3>1. by_name'[t][n] = a
      BY <1>1, <2>1 DEF AddFinish, TypeOK
    <3>2. ASSUME NEW b \in Live(t) PROVE b.id <= a.id
      BY <1>1, LiveAt DEF StoreInv, Ids
    <3>3. a.id <= a.id
      BY <1>1
    <3>. QED
      BY <1>1, <1>4, <1>5, <2>1, <3>1, <3>2, <3>3
  <2>2. CASE n # a.name
    <3> DEFINE e == by_name[t][n]
    <3>1. by_name'[t][n] = e
      BY <1>1, <2>2 DEF AddFinish, TypeOK, Atom
    <3>2. e # None /\ e.name = n /\ by_id[t][e.id] = e
          /\ \A b \in Live(t) : b.name = n => b.id <= e.id
      BY <3>1 DEF StoreInv, NameInv
    <3>3. e \in Live(t) /\ e.id \in Ids
      BY <3>2 DEF TypeOK, Live, Atom
    <3>4. e.id # a.id
      BY <1>1, <3>3, LiveAt DEF StoreInv
    <3>. QED
      BY <1>4, <1>5, <2>2, <3>1, <3>2, <3>3, <3>4
  <2>. QED
    BY <2>1, <2>2
<1>9. TypeIdx(t)'
  <2> SUFFICES ASSUME NEW ty \in Types
               PROVE  /\ NoDup(by_type'[t][ty])
                      /\ Elems(by_type'[t][ty]) = {b \in Live(t)' : b.type = ty}
    BY DEF TypeIdx
  <2>1. CASE ty = a.type
    <3>1. by_type'[t][ty] = Append(by_type[t][ty], a)
      BY <1>1, <2>1 DEF AddFinish, TypeOK, Atom
    <3>2. by_type[t][ty] \in Seq(Atom)
      BY DEF TypeOK
    <3>3. a \notin Elems(by_type[t][ty]) /\ NoDup(by_type[t][ty])
          /\ Elems(by_type[t][ty]) = {b \in Live(t) : b.type = ty}
      BY <1>3 DEF StoreInv, TypeIdx
    <3>4. /\ Elems(Append(by_type[t][ty], a)) = Elems(by_type[t][ty]) \cup {a}
          /\ NoDup(Append(by_type[t][ty], a))
      <4>1. PICK sq \in Seq(Atom) : sq = by_type[t][ty]
        BY <3>2
      <4>2. Elems(Append(sq, a)) = Elems(sq) \cup {a}
            /\ (NoDup(sq) /\ a \notin Elems(sq) => NoDup(Append(sq, a)))
        BY <1>1, AppendElems
      <4>. QED
        BY <3>3, <4>1, <4>2
    <3>5. {b \in Live(t)' : b.type = ty} = {b \in Live(t) : b.type = ty} \cup {a}
      BY <1>5, <2>1
    <3>. QED
      BY <3>1, <3>3, <3>4, <3>5
  <2>2. CASE ty # a.type
    <3>1. by_type'[t][ty] = by_type[t][ty]
      BY <1>1, <2>2 DEF AddFinish, TypeOK, Atom
    <3>. QED
      BY <1>5, <2>2, <3>1 DEF StoreInv, TypeIdx
  <2>. QED
    BY <2>1, <2>2
<1>. QED
  BY <1>6, <1>7, <1>8, <1>9 DEF StoreInv

(* RemoveAtom erases the atom from the three indices.                      *)
LEMMA RemoveStore ==
    ASSUME TypeOK, NEW t \in Tenants, StoreInv(t), NEW id \in Ids,
           RemoveAtom(t, id)
    PROVE  StoreInv(t)'
<1> DEFINE a == by_id[t][id]
<1>1. a \in Atom /\ a.id = id /\ a \in Live(t)
  BY DEF RemoveAtom, TypeOK, StoreInv, IdInv, Live
<1>2. \A i \in Ids : by_id'[t][i] = IF i = id THEN None ELSE by_id[t][i]
  BY DEF RemoveAtom, TypeOK
<1>3. Live(t)' = Live(t) \ {a}
  <2>1. \A i \in Ids : i # id /\ by_id[t][i] # None => by_id[t][i] # a
    BY <1>1 DEF StoreInv, IdInv
  <2>. QED
    BY <1>2, <2>1 DEF Live
<1>4. IdInv(t)'
  BY <1>2 DEF RemoveAtom, StoreInv, IdInv
<1>5. PendingFresh(t)'
  BY DEF RemoveAtom, StoreInv, PendingFresh
<1>6. NameInv(t)'
  <2> SUFFICES ASSUME NEW n \in Names, by_name'[t][n] # None
               PROVE  /\ by_name'[t][n].name = n
                      /\ by_id'[t][by_name'[t][n].id] = by_name'[t][n]
                      /\ \A b \in Live(t)' : b.name = n => b.id <= by_name'[t][n].id
    BY DEF NameInv
  <2>1. n # a.name
    BY <1>1 DEF RemoveAtom, TypeOK, Atom
  <2> DEFINE e == by_name[t][n]
  <2>2. by_name'[t][n] = e
    BY <1>1, <2>1 DEF RemoveAtom, TypeOK, Atom
  <2>3. e # None /\ e.name = n /\ by_id[t][e.id] = e
        /\ \A b \in Live(t) : b.name = n => b.id <= e.id
    BY <2>2 DEF StoreInv, NameInv
  <2>4. e \in Live(t) /\ e.id \in Ids
    BY <2>3 DEF TypeOK, Live, Atom
  <2>5. e.id # id
    BY <1>1, <2>1, <2>3
  <2>. QED
    BY <1>2, <1>3, <2>2, <2>3, <2>4, <2>5
<1>7. TypeIdx(t)'
  <2> SUFFICES ASSUME NEW ty \in Types
               PROVE  /\ NoDup(by_type'[t][ty])
                      /\ Elems(by_type'[t][ty]) = {b \in Live(t)' : b.type = ty}
    BY DEF TypeIdx
  <2>1. CASE ty = a.type
    <3> DEFINE sq == by_type[t][ty]
    <3>1. sq \in Seq(Atom) /\ NoDup(sq)
          /\ Elems(sq) = {b \in Live(t) : b.type = ty}
      BY DEF TypeOK, StoreInv, TypeIdx
    <3>2. PICK k \in 1..Len(sq) : sq[k] = a
      BY <1>1, <2>1, <3>1 DEF Elems
    <3>3. ASSUME NEW j \in 1..Len(sq), sq[j].id = id PROVE j = k
      <4>1. sq[j] \in Live(t)
        BY <3>1 DEF Elems
      <4>2. sq[j] = a
        BY <3>3, <4>1, LiveAt DEF StoreInv
      <4>. QED
        BY <3>1, <3>2, <4>2 DEF NoDup
    <3>4. by_type'[t][ty] = RemoveAt(sq, k)
      <4>1. EraseFirstWithId(sq, id) = RemoveAt(sq, k)
        BY <1>1, <3>1, <3>2, <3>3, EraseUnique
      <4>. QED
        BY <2>1, <4>1 DEF RemoveAtom, TypeOK, Atom
    <3>5. Elems(RemoveAt(sq, k)) = Elems(sq) \ {a} /\ NoDup(RemoveAt(sq, k))
      BY <3>1, <3>2, RemoveAtElems
    <3>. QED
      BY <1>3, <3>1, <3>4, <3>5
  <2>2. CASE ty # a.type
    <3>1. by_type'[t][ty] = by_type[t][ty]
      BY <2>2 DEF RemoveAtom, TypeOK, Atom
    <3>. QED
      BY <1>3, <2>2, <3>1 DEF StoreInv, TypeIdx
  <2>. QED
    BY <2>1, <2>2
<1>. QED
  BY <1>4, <1>5, <1>6, <1>7 DEF StoreInv

(* AddNode and AddLink only fill the construction slot, with next_id_.    *)
LEMMA BeginStore ==
    ASSUME TypeOK, NEW t \in Tenants, StoreInv(t), NEW ty \in Types,
           NEW n \in Names, AddNodeBegin(t, ty, n) \/ AddLinkBegin(t, ty, n)
    PROVE  StoreInv(t)'
<1>1. /\ UNCHANGED <<by_id, by_name, by_type, next_id>>
      /\ pending'[t].id = next_id
  BY DEF AddNodeBegin, AddLinkBegin, TypeOK
<1>2. Live(t)' = Live(t)
  BY <1>1 DEF Live
<1>. QED
  BY <1>1, <1>2 DEF StoreInv, IdInv, PendingFresh, NameInv, TypeIdx

(* Clear empties the three indices.                                        *)
LEMMA ClearStore ==
    ASSUME TypeOK, NEW t \in Tenants, StoreInv(t), Clear(t)
    PROVE  StoreInv(t)'
<1>1. /\ \A i \in Ids : by_id'[t][i] = None
      /\ \A n \in Names : by_name'[t][n] = None
      /\ \A ty \in Types : by_type'[t][ty] = <<>>
      /\ UNCHANGED <<next_id, pending>>
  BY DEF Clear, TypeOK
<1>2. Live(t)' = {}
  BY <1>1 DEF Live
<1>3. \A ty \in Types : NoDup(by_type'[t][ty]) /\ Elems(by_type'[t][ty]) = {}
  BY <1>1 DEF NoDup, Elems
<1>. QED
  BY <1>1, <1>2, <1>3 DEF StoreInv, IdInv, PendingFresh, NameInv, TypeIdx

-----------------------------------------------------------------------------
(* The indices of a store that only one tenant's steps touch.              *)

(* The empty stores of the initial state satisfy IInv.                    *)
LEMMA InitIInv == Init => IInv
<1> SUFFICES ASSUME Init PROVE IInv
  OBVIOUS
<1>1. TInv
  BY InitTInv
<1>2. ASSUME NEW t \in Tenants PROVE StoreInv(t)
  <2>1. Live(t) = {}
    BY DEF Init, Live
  <2>. QED
    BY <2>1 DEF Init, StoreInv, IdInv, PendingFresh, NameInv, TypeIdx, NoDup, Elems
<1>. QED
  BY <1>1, <1>2 DEF IInv, TInv

(* With one tenant, every step acts on its store, and keeps IInv.         *)
LEMMA NextIInv ==
    ASSUME NEW t0, Tenants = {t0}
    PROVE  IInv /\ [Next]_vars => IInv'
<1> SUFFICES ASSUME IInv, [Next]_vars PROVE IInv'
  OBVIOUS
<1>1. TInv'
  BY NextTInv DEF IInv, TInv
<1>2. TypeOK /\ StoreInv(t0)
  BY DEF IInv
<1>3. StoreInv(t0)'
  <2>1. ASSUME NEW ty \in Types, NEW n \in Names,
               AddNodeBegin(t0, ty, n) \/ AddLinkBegin(t0, ty, n)
        PROVE  StoreInv(t0)'
    BY <1>2, <2>1, BeginStore
  <2>2. ASSUME AddFinish(t0) PROVE StoreInv(t0)'
    BY <1>2, <2>2, FinishStore
  <2>3. ASSUME NEW id \in Ids, RemoveAtom(t0, id) PROVE StoreInv(t0)'
    BY <1>2, <2>3, RemoveStore
  <2>4. ASSUME Clear(t0) PROVE StoreInv(t0)'
    BY <1>2, <2>4, ClearStore
  <2>5. CASE UNCHANGED vars
    BY <1>2, <2>5 DEF vars, StoreInv, IdInv, PendingFresh, NameInv, TypeIdx, Live
  <2>. QED
    BY <2>1, <2>2, <2>3, <2>4, <2>5 DEF Next
<1>. QED
  BY <1>1, <1>3 DEF IInv, TInv

(* IInv implies the two index properties the run checks.                 *)
LEMMA IInvIndex == IInv => IndexConsistency /\ NameIndexLastWriter
BY DEF IInv, StoreInv, IdInv, NameInv, TypeIdx, NoDup, Elems,
       IndexConsistency, NameIndexLastWriter

(* With one tenant, the three indices of the store agree at every step of  *)
(* AddNode, AddLink, RemoveAtom and Clear: an id entry holds the atom of  *)
(* that id, a name entry an atom of that name that the id index holds,    *)
(* and each type range lists the live atoms of the type, each once, the   *)
(* first-match erase of RemoveAtom included.                               *)
THEOREM IndexCorrect ==
    ASSUME NEW t0, Tenants = {t0}
    PROVE  Spec => []IndexConsistency
<1>1. IInv /\ [Next]_vars => IInv'
  BY NextIInv
<1>. QED
  BY <1>1, InitIInv, IInvIndex, PTL DEF Spec

(* With one tenant, the name index holds the newest live atom of its name: *)
(* AddFinish overwrites the entry with the atom of the largest id, and     *)
(* RemoveAtom erases only the entry of the removed atom's name.            *)
THEOREM NameIndexCorrect ==
    ASSUME NEW t0, Tenants = {t0}
    PROVE  Spec => []NameIndexLastWriter
<1>1. IInv /\ [Next]_vars => IInv'
  BY NextIInv
<1>. QED
  BY <1>1, InitIInv, IInvIndex, PTL DEF Spec

=============================================================================
