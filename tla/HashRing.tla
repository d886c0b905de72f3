------------------------------ MODULE HashRing ------------------------------
(***************************************************************************)
(* The consistent hash ring (hashring.go).  A writer changes the           *)
(* membership and publishes a freshly built snapshot; readers work on one  *)
(* snapshot.  xxhash is external: any function from points and keys to     *)
(* hashes, collisions included.  Member IDs are numbers so that they are   *)
(* ordered.                                                                *)
(***************************************************************************)
EXTENDS Integers, Sequences, FiniteSets, SequencesExt

CONSTANTS
    IDs,           \* member ids, integers
    Weights,       \* weights members are given, integers
    virtualNodes,  \* points of a member of weight 100
    HashSpace,     \* hashes are 0..HashSpace-1
    MaxMembers     \* bound on the length of the list given to Set

ASSUME HashRingAssumption ==
    /\ IDs \subseteq Int /\ Weights \subseteq Int
    /\ virtualNodes \in Nat /\ HashSpace \in Nat \ {0} /\ MaxMembers \in Nat

Hashes == 0..HashSpace-1
Member == [ID : IDs, Weight : Weights]

\* Mutant: a member so light that its share rounds to nothing has no point.
vnodeCount_MayBeZero(weight) == (virtualNodes * (IF weight <= 0 THEN 100 ELSE weight)) \div 100

vnodeCount(weight) ==
    LET n == (virtualNodes * (IF weight <= 0 THEN 100 ELSE weight)) \div 100
    IN IF n < 1 THEN 1 ELSE n

MaxVnodes == CHOOSE n \in {vnodeCount(w) : w \in Weights} : \A w \in Weights : vnodeCount(w) <= n

VARIABLES
    hash,   \* xxhash of each "id#i"
    snap    \* the published snapshot: points in ring order, and members by id

vars == <<hash, snap>>

-----------------------------------------------------------------------------
(* build.                                                                  *)

\* uniq: the last occurrence of an id wins; then sorted by id.
Collapse(members) ==
    LET last == {i \in DOMAIN members : \A j \in DOMAIN members : members[j].ID = members[i].ID => j <= i}
    IN SetToSortSeq({members[i] : i \in last}, LAMBDA a, b : a.ID < b.ID)

PointBefore(p, q) == p.hash < q.hash \/ (p.hash = q.hash /\ p.owner < q.owner)

\* Mutant: points are hashed by the member's place in the list, not by its id.
Points_ByPosition(members) ==
    UNION {{[hash |-> hash[k][i], owner |-> members[k].ID, i |-> i]
               : i \in 1..vnodeCount(members[k].Weight)} : k \in DOMAIN members}

\* Two points of one owner with one hash are told apart by their number only.
Points(members) ==
    UNION {{[hash |-> hash[m.ID][i], owner |-> m.ID, i |-> i] : i \in 1..vnodeCount(m.Weight)}
              : m \in ToSet(members)}

build(members) ==
    LET sorted == Collapse(members)
    IN [points |-> SetToSortSeq(Points(sorted), PointBefore), members |-> sorted]

Init ==
    /\ hash \in [IDs -> [1..MaxVnodes -> Hashes]]
    /\ snap = build(<<>>)

-----------------------------------------------------------------------------
(* Writers, one at a time under mu.                                        *)

Set(members) ==
    /\ snap' = build(members)
    /\ UNCHANGED hash

Add(m) ==
    /\ snap' = build(Append(snap.members, m))
    /\ UNCHANGED hash

RemoveMember(id) ==
    /\ \E i \in DOMAIN snap.members : snap.members[i].ID = id
    /\ snap' = build(SelectSeq(snap.members, LAMBDA m : m.ID # id))
    /\ UNCHANGED hash

-----------------------------------------------------------------------------
(* Readers, for the hash h of the key.                                     *)

\* Mutant: past the last point the search does not wrap.
index_NoWrap(s, h) ==
    LET at == {i \in DOMAIN s.points : s.points[i].hash >= h}
    IN IF at = {} THEN Len(s.points) ELSE CHOOSE i \in at : \A j \in at : i <= j

\* The first point at or after h, wrapping to the first of all.
index(s, h) ==
    LET at == {i \in DOMAIN s.points : s.points[i].hash >= h}
    IN IF at = {} THEN 1 ELSE CHOOSE i \in at : \A j \in at : i <= j

\* The owners met on one lap from h, in order.
Lap(s, h) ==
    LET len == Len(s.points)
        start == index(s, h)
    IN [i \in 1..len |-> s.points[((start - 1 + i - 1) % len) + 1].owner]

Get(s, h) == s.points[index(s, h)].owner

GetN(s, h, n) ==
    LET step(out, owner) ==
            IF Contains(out, owner) \/ Len(out) = n \/ Len(out) = Len(s.members)
            THEN out ELSE Append(out, owner)
    IN IF n <= 0 THEN <<>> ELSE FoldLeft(step, <<>>, Lap(s, h))

-----------------------------------------------------------------------------
Next ==
    \/ \E len \in 0..MaxMembers : \E members \in [1..len -> Member] : Set(members)
    \/ \E m \in Member : Add(m)
    \/ \E id \in IDs : RemoveMember(id)

Spec == Init /\ [][Next]_vars

-----------------------------------------------------------------------------
(* Properties.                                                             *)

MemberIDs(s) == {m.ID : m \in ToSet(s.members)}

\* The whole preference order of a key.
Order(s, h) == GetN(s, h, Len(s.members))

\* Every key's preference order names every member exactly once, however light
\* the member and whatever hashes collide, and a shorter GetN is a prefix of it
\* that starts with Get's owner (GetN's comment).
CompleteOrder ==
    \A h \in Hashes :
        /\ Len(Order(snap, h)) = Cardinality(MemberIDs(snap))
        /\ ToSet(Order(snap, h)) = MemberIDs(snap)
        /\ \A n \in 0..Len(snap.members) : GetN(snap, h, n) = SubSeq(Order(snap, h), 1, n)
        /\ snap.members # <<>> => Get(snap, h) = Head(Order(snap, h))

\* The owner of a key is the member with the point at the least clockwise
\* distance from it (ties to the lower id): Get against a definition that
\* neither sorts nor searches.
NearestPoint ==
    LET dist(p, h) == (p.hash - h) % HashSpace
    IN \A h \in Hashes : snap.members # <<>> =>
         \E p \in Points(snap.members) :
            /\ p.owner = Get(snap, h)
            /\ \A q \in Points(snap.members) :
                  dist(p, h) < dist(q, h) \/ (dist(p, h) = dist(q, h) /\ p.owner <= q.owner)

\* Consistency: when the membership changes, the members that are in it before
\* and after with the same weight keep their relative order for every key, so a
\* key only moves to a member that came or from one that went.
MinimalDisruption ==
    [][\A h \in Hashes :
         LET same == ToSet(snap.members) \cap ToSet(snap'.members)
             kept(id) == \E m \in same : m.ID = id
         IN SelectSeq(Order(snap, h), kept) = SelectSeq(Order(snap', h), kept)]_vars
=============================================================================
