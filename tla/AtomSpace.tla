----------------------------- MODULE AtomSpace -----------------------------
(***************************************************************************)
(* The per-tenant AtomSpace of src/unnamed/part_001 (atomspace.cc) and the *)
(* atom id counter of src/src/opencog/atomspace/atom.cc.                   *)
(*                                                                         *)
(* One store per tenant.  Every store operation runs under the store's     *)
(* own mutex_, so each is one step, except AddNode and AddLink: they       *)
(* construct the atom, whose constructor does id_(next_id_++) on the       *)
(* process-wide static next_id_ with no lock that other tenants' stores    *)
(* share.  That read-modify-write is split in two steps: AddBegin reads    *)
(* next_id_ (the atom under construction is pending[t], and the store's   *)
(* mutex stays held), AddFinish writes next_id_ back and inserts the atom  *)
(* in the three indices.  The data race is undefined behaviour; on the     *)
(* builds in use the outcome is a lost update, which this split produces.  *)
(*                                                                         *)
(* An atom is its id, type, name and whether it is a Node or a Link.  The  *)
(* outgoing set of a link and the truth value are left out: no store      *)
(* operation reads them.  Lookups and Query change no state and are not    *)
(* actions; the properties below state what they observe.                  *)
(***************************************************************************)
EXTENDS Naturals, Sequences

CONSTANTS
    Tenants,   \* tenant ids, one store each
    Types,     \* AtomType values
    Names,     \* atom names
    None,      \* an absent map entry / no operation in progress
    MaxAtoms   \* bound on the atoms constructed in one behaviour

ASSUME AtomSpaceAssumption ==
    /\ MaxAtoms \in Nat
    /\ None \notin [id : Nat, type : Types, name : Names, node : BOOLEAN]

Ids == 1..MaxAtoms

Atom == [id : Ids, type : Types, name : Names, node : BOOLEAN]

VARIABLES
    by_id,     \* atoms_by_id_   : tenant -> id -> atom or None
    by_name,   \* atoms_by_name_ : tenant -> name -> atom or None
    by_type,   \* atoms_by_type_ : tenant -> type -> atoms in insertion order
    next_id,   \* Atom::next_id_
    pending,   \* tenant -> atom being constructed under the store's lock
    created    \* atoms constructed so far (bound)

vars == <<by_id, by_name, by_type, next_id, pending, created>>

TypeOK ==
    /\ by_id \in [Tenants -> [Ids -> Atom \cup {None}]]
    /\ by_name \in [Tenants -> [Names -> Atom \cup {None}]]
    /\ by_type \in [Tenants -> [Types -> Seq(Atom)]]
    /\ next_id \in 1..MaxAtoms + 1
    /\ pending \in [Tenants -> Atom \cup {None}]
    /\ created \in 0..MaxAtoms

Init ==
    /\ by_id = [t \in Tenants |-> [i \in Ids |-> None]]
    /\ by_name = [t \in Tenants |-> [n \in Names |-> None]]
    /\ by_type = [t \in Tenants |-> [ty \in Types |-> <<>>]]
    /\ next_id = 1
    /\ pending = [t \in Tenants |-> None]
    /\ created = 0

(* The atoms a store holds: the values of atoms_by_id_.                    *)
Live(t) == {by_id[t][i] : i \in {i \in Ids : by_id[t][i] # None}}

(* The store's mutex_ is free.                                             *)
Unlocked(t) == pending[t] = None

-----------------------------------------------------------------------------
(* Bug variant: the constructor takes ++next_id_ instead of next_id_++.   *)
AddNodeBeginPreInc(t, type, name) ==
    /\ Unlocked(t)
    /\ created < MaxAtoms
    /\ ~(by_name[t][name] # None /\ by_name[t][name].node)
    /\ pending' = [pending EXCEPT ![t] =
                     [id |-> next_id + 1, type |-> type, name |-> name, node |-> TRUE]]
    /\ created' = created + 1
    /\ UNCHANGED <<by_id, by_name, by_type, next_id>>

(* AddNode: returns the atom the name index holds if it is a Node (no      *)
(* state change, so no step); otherwise constructs a Node.                 *)
AddNodeBegin(t, type, name) ==
    /\ Unlocked(t)
    /\ created < MaxAtoms
    /\ ~(by_name[t][name] # None /\ by_name[t][name].node)
    /\ pending' = [pending EXCEPT ![t] =
                     [id |-> next_id, type |-> type, name |-> name, node |-> TRUE]]
    /\ created' = created + 1
    /\ UNCHANGED <<by_id, by_name, by_type, next_id>>

(* AddLink: always constructs a new Link.                                  *)
AddLinkBegin(t, type, name) ==
    /\ Unlocked(t)
    /\ created < MaxAtoms
    /\ pending' = [pending EXCEPT ![t] =
                     [id |-> next_id, type |-> type, name |-> name, node |-> FALSE]]
    /\ created' = created + 1
    /\ UNCHANGED <<by_id, by_name, by_type, next_id>>

(* Bug variant: the name index is filled with emplace, keeping an older    *)
(* holder of the name.                                                     *)
AddFinishEmplace(t) ==
    /\ pending[t] # None
    /\ LET a == pending[t] IN
         /\ next_id' = a.id + 1
         /\ by_id' = [by_id EXCEPT ![t][a.id] = a]
         /\ by_name' = IF by_name[t][a.name] = None
                       THEN [by_name EXCEPT ![t][a.name] = a]
                       ELSE by_name
         /\ by_type' = [by_type EXCEPT ![t][a.type] = Append(@, a)]
    /\ pending' = [pending EXCEPT ![t] = None]
    /\ UNCHANGED created

(* The constructor's write of next_id_, then the three insertions:         *)
(* atoms_by_id_[id] = a, atoms_by_name_[name] = a (overwriting any holder) *)
(* and atoms_by_type_.insert, which appends to the type's range.           *)
AddFinish(t) ==
    /\ pending[t] # None
    /\ LET a == pending[t] IN
         /\ next_id' = a.id + 1
         /\ by_id' = [by_id EXCEPT ![t][a.id] = a]
         /\ by_name' = [by_name EXCEPT ![t][a.name] = a]
         /\ by_type' = [by_type EXCEPT ![t][a.type] = Append(@, a)]
    /\ pending' = [pending EXCEPT ![t] = None]
    /\ UNCHANGED created

(* The sequence s without its i-th element.                                *)
RemoveAt(s, i) == SubSeq(s, 1, i - 1) \o SubSeq(s, i + 1, Len(s))

(* The type-index loop: erase the first entry whose id() is id.            *)
EraseFirstWithId(s, id) ==
    IF \E i \in 1..Len(s) : s[i].id = id
    THEN RemoveAt(s, CHOOSE i \in 1..Len(s) :
                       s[i].id = id /\ \A j \in 1..i - 1 : s[j].id # id)
    ELSE s

(* Bug variant: the type index is not updated on removal.                 *)
RemoveAtomKeepsType(t, id) ==
    /\ Unlocked(t)
    /\ by_id[t][id] # None
    /\ LET a == by_id[t][id] IN
         /\ by_name' = [by_name EXCEPT ![t][a.name] = None]
         /\ by_id' = [by_id EXCEPT ![t][id] = None]
    /\ UNCHANGED <<by_type, next_id, pending, created>>

(* RemoveAtom: false if the id is absent; otherwise erases the name entry  *)
(* of the atom's name, whoever holds it, the first type-index entry with   *)
(* this id, and the id entry.  Links to the atom are not touched.          *)
RemoveAtom(t, id) ==
    /\ Unlocked(t)
    /\ by_id[t][id] # None
    /\ LET a == by_id[t][id] IN
         /\ by_name' = [by_name EXCEPT ![t][a.name] = None]
         /\ by_type' = [by_type EXCEPT ![t][a.type] = EraseFirstWithId(@, id)]
         /\ by_id' = [by_id EXCEPT ![t][id] = None]
    /\ UNCHANGED <<next_id, pending, created>>

Clear(t) ==
    /\ Unlocked(t)
    /\ by_id' = [by_id EXCEPT ![t] = [i \in Ids |-> None]]
    /\ by_name' = [by_name EXCEPT ![t] = [n \in Names |-> None]]
    /\ by_type' = [by_type EXCEPT ![t] = [ty \in Types |-> <<>>]]
    /\ UNCHANGED <<next_id, pending, created>>

Next ==
    \E t \in Tenants :
        \/ \E ty \in Types, n \in Names :
              AddNodeBegin(t, ty, n) \/ AddLinkBegin(t, ty, n)
        \/ AddFinish(t)
        \/ \E i \in Ids : RemoveAtom(t, i)
        \/ Clear(t)

Spec == Init /\ [][Next]_vars

-----------------------------------------------------------------------------
(* Properties.                                                             *)

(* The three indices agree, as every reader of the store assumes           *)
(* (GetAtom, GetAtomByName, GetAtomsByType, Size, Query): an id entry      *)
(* holds the atom with that id; a name entry holds a live atom of that     *)
(* name; each type range lists exactly the live atoms of that type, each   *)
(* once (AddNode, AddLink, RemoveAtom, Clear).                             *)
IndexConsistency ==
    \A t \in Tenants :
        /\ \A i \in Ids : by_id[t][i] # None => by_id[t][i].id = i
        /\ \A n \in Names :
              by_name[t][n] # None =>
                 /\ by_name[t][n].name = n
                 /\ by_id[t][by_name[t][n].id] = by_name[t][n]
        /\ \A ty \in Types :
              LET s == by_type[t][ty] IN
                /\ \A i, j \in 1..Len(s) : s[i] = s[j] => i = j
                /\ {s[i] : i \in 1..Len(s)} = {a \in Live(t) : a.type = ty}

(* "Last write wins": a name entry, when present, is the most recently     *)
(* created live atom of that name (AddNode, AddLink, RemoveAtom).          *)
NameIndexLastWriter ==
    \A t \in Tenants, n \in Names :
        by_name[t][n] # None =>
            \A a \in Live(t) : a.name = n => a.id <= by_name[t][n].id

(* AddNode deduplicates: a store never holds two Nodes with the same name  *)
(* (spec 4.1 and 8: repeated AddNode(type, "X") returns the same atom).    *)
NodeNamesUnique ==
    \A t \in Tenants : \A a, b \in Live(t) :
        (a.node /\ b.node /\ a.name = b.name) => a = b

(* A removal step never changes the name entry of an atom that stays in    *)
(* the store (RemoveAtom removes "the atom", spec 4.1).                    *)
RemoveKeepsOtherNames ==
    [][\A t \in Tenants, n \in Names :
          LET a == by_name[t][n] IN
            (a # None /\ Live(t)' \subseteq Live(t) /\ a \in Live(t)')
               => by_name'[t][n] = a]_vars

=============================================================================
