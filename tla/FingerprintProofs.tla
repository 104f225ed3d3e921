------------------------- MODULE FingerprintProofs --------------------------
(***************************************************************************)
(* Which calls never share an entry, for any functions, versions, atoms.   *)
(***************************************************************************)
EXTENDS Fingerprint, TLAPS

\* Leaves without a tag of their own have different JSON.
LEMMA LeavesAreTold ==
    ASSUME NEW u \in Leaves, NEW w \in Leaves, u.tag = "", w.tag = "",
           JsonLeaf(u) = JsonLeaf(w)
    PROVE  u = w
<1>1. ASSUME NEW x \in Leaves
      PROVE  /\ x = [kind |-> x.kind, tag |-> x.tag, atom |-> x.atom]
             /\ JsonLeaf(x).atom = x.atom
    <2>1. CASE x \in [kind : {"str"}, tag : {""} \cup Tagged, atom : Atom]
        BY <2>1 DEF JsonLeaf, Str
    <2>2. CASE x \in [kind : {"int", "object"} \cup Tagged, tag : {""}, atom : Atom]
        BY <2>2 DEF JsonLeaf, Str
    <2> QED BY <2>1, <2>2 DEF Leaves
<1>2. \A x \in Leaves : x.tag = "" =>
        /\ x.kind \in Tagged => JsonLeaf(x).tag = x.kind /\ x.kind # ""
        /\ x.kind \notin Tagged => JsonLeaf(x).tag = "" /\ JsonLeaf(x).kind = x.kind
    BY DEF JsonLeaf, Str, Tagged
<1>3. u.kind = w.kind
    BY <1>2
<1> QED BY <1>1, <1>3

\* The JSON of a leaf is not that of a container.
LEMMA LeafKinds ==
    \A x \in Leaves : x.kind \notin {"list", "dict"} /\ JsonLeaf(x).kind \notin {"list", "dict"}
BY DEF Leaves, JsonLeaf, Str, Tagged

\* Lists and dicts are determined by what is in them, and are not each other.
LEMMA Constructors ==
    /\ \A u, w : List(u).kind = "list" /\ (List(u) = List(w) => u = w)
    /\ \A k, u : Dict(k, u).kind = "dict"
    /\ \A k, u, l, w : Dict(k, u) = Dict(l, w) => k = l /\ u = w
<1>1. \A u : List(u).kind = "list" /\ List(u).item = u
    BY DEF List
<1>2. \A k, u : Dict(k, u).kind = "dict" /\ Dict(k, u).key = k /\ Dict(k, u).item = u
    BY DEF Dict
<1>3. ASSUME NEW u, NEW w, List(u) = List(w) PROVE u = w
    BY <1>1, <1>3
<1>4. ASSUME NEW k, NEW u, NEW l, NEW w, Dict(k, u) = Dict(l, w) PROVE k = l /\ u = w
    BY <1>2, <1>4
<1> QED BY <1>1, <1>2, <1>3, <1>4

\* Ordinary values have different JSON.
LEMMA OrdinaryValuesAreTold ==
    ASSUME NEW v \in Value, NEW w \in Value, Ordinary(v), Ordinary(w),
           Json(v) = Json(w)
    PROVE  v = w
<1> DEFINE IsLeaf(x) == x \in Leaves /\ x.tag = "" /\ Json(x) = JsonLeaf(x)
           IsList(x) ==
                /\ x = List(x.item) /\ x.item \in Leaves /\ x.item.tag = ""
                /\ Json(x) = List(JsonLeaf(x.item))
           IsDict(x) ==
                /\ x = Dict(x.key, x.item) /\ x.item \in Leaves /\ x.item.tag = ""
                /\ Json(x) = Dict(x.key, JsonLeaf(x.item))
\* An ordinary value is a leaf, a list or a dict, and so is its JSON.
<1>1. ASSUME NEW x \in Value, Ordinary(x)
      PROVE  IsLeaf(x) \/ IsList(x) \/ IsDict(x)
    <2>1. CASE x \in Leaves
        BY <1>1, <2>1 DEF LeavesOf, Ordinary, Json
    <2>2. CASE x \in Trees /\ x.kind = "list"
        <3>1. x = List(x.item) /\ x.item \in Leaves
            BY <2>2 DEF Trees, List
        <3>2. x \notin Leaves
            BY <2>2, LeafKinds
        <3> QED BY <1>1, <2>2, <3>1, <3>2 DEF LeavesOf, Ordinary, Json
    <2>3. CASE x \in Trees /\ x.kind = "dict"
        <3>1. x = Dict(x.key, x.item) /\ x.item \in Leaves
            BY <2>3 DEF Trees, Dict
        <3>2. x \notin Leaves
            BY <2>3, LeafKinds
        <3>3. x.key.kind = "str" /\ x.item.tag = ""
            BY <1>1, <2>3, <3>2 DEF LeavesOf, Ordinary
        <3> QED BY <2>3, <3>1, <3>2, <3>3 DEF Json, JsonKey
    <2> QED BY <1>1, <2>1, <2>2, <2>3 DEF Value, Trees, Ordinary
<1>2. /\ IsLeaf(v) \/ IsList(v) \/ IsDict(v)
      /\ IsLeaf(w) \/ IsList(w) \/ IsDict(w)
    BY <1>1
<1>3. ASSUME NEW x
      PROVE  /\ IsLeaf(x) => Json(x).kind \notin {"list", "dict"}
             /\ IsList(x) => Json(x).kind = "list"
             /\ IsDict(x) => Json(x).kind = "dict"
    <2>1. IsLeaf(x) => Json(x).kind \notin {"list", "dict"}
        BY LeafKinds
    <2>2. IsList(x) => Json(x).kind = "list"
        <3> SUFFICES ASSUME IsList(x) PROVE Json(x).kind = "list"
            OBVIOUS
        <3>1. Json(x) = List(JsonLeaf(x.item))
            OBVIOUS
        <3> QED BY <3>1, Constructors
    <2>3. IsDict(x) => Json(x).kind = "dict"
        <3> SUFFICES ASSUME IsDict(x) PROVE Json(x).kind = "dict"
            OBVIOUS
        <3>1. Json(x) = Dict(x.key, JsonLeaf(x.item))
            OBVIOUS
        <3> QED BY ONLY <3>1, Constructors
    <2> QED BY <2>1, <2>2, <2>3
\* So two with the same JSON are of the same kind.
<1>4. \/ IsLeaf(v) /\ IsLeaf(w)
      \/ IsList(v) /\ IsList(w)
      \/ IsDict(v) /\ IsDict(w)
    <2> HIDE DEF IsLeaf, IsList, IsDict
    <2>1. /\ IsLeaf(w) => Json(v).kind \notin {"list", "dict"}
          /\ IsList(w) => Json(v).kind = "list"
          /\ IsDict(w) => Json(v).kind = "dict"
        BY <1>3
    <2>2. /\ IsLeaf(v) => Json(v).kind \notin {"list", "dict"}
          /\ IsList(v) => Json(v).kind = "list"
          /\ IsDict(v) => Json(v).kind = "dict"
        BY <1>3
    <2> QED BY <1>2, <2>1, <2>2
<1>5. CASE IsLeaf(v) /\ IsLeaf(w)
    BY <1>5, LeavesAreTold
<1>6. CASE IsList(v) /\ IsList(w)
    <2>1. List(JsonLeaf(v.item)) = List(JsonLeaf(w.item))
        BY <1>6
    <2>2. v.item = w.item
        BY <1>6, <2>1, Constructors, LeavesAreTold
    <2> QED BY <1>6, <2>2
<1>7. CASE IsDict(v) /\ IsDict(w)
    <2>1. Dict(v.key, JsonLeaf(v.item)) = Dict(w.key, JsonLeaf(w.item))
        BY <1>7
    <2>2. v.key = w.key /\ JsonLeaf(v.item) = JsonLeaf(w.item)
        BY <2>1, Constructors
    <2>3. v.item = w.item
        BY <1>7, <2>2, LeavesAreTold
    <2> QED BY <1>7, <2>2, <2>3
<1> QED BY <1>4, <1>5, <1>6, <1>7

-----------------------------------------------------------------------------

\* A hit and the call it is served from are calls with the same digest.
SameDigest ==
    /\ stored \in Call \cup {NoCall}
    /\ served # NoCall =>
            stored \in Call /\ served \in Call /\ Digest(served) = Digest(stored)

LEMMA HitsHaveTheDigest == Spec => []SameDigest
<1>1. Init => SameDigest
    BY DEF Init, SameDigest
<1>2. SameDigest /\ [Next]_vars => SameDigest'
    <2> SUFFICES ASSUME SameDigest, [Next]_vars PROVE SameDigest'
        OBVIOUS
    <2>1. ASSUME NEW c \in Call, Store(c) PROVE SameDigest'
        BY <2>1, NoCallAssumption DEF Store, SameDigest
    <2>2. ASSUME NEW c \in Call, Serve(c) PROVE SameDigest'
        BY <2>2 DEF Serve, SameDigest
    <2>3. CASE UNCHANGED vars
        BY <2>3 DEF vars, SameDigest
    <2> QED BY <2>1, <2>2, <2>3 DEF Next
<1> QED BY <1>1, <1>2, PTL DEF Spec

\* Ordinary calls never share an entry with another call.
THEOREM OrdinaryCallsAreServedTheirOwn == Spec => []OrdinaryCallsAreTold
<1>1. SameDigest => OrdinaryCallsAreTold
    <2> SUFFICES ASSUME SameDigest, served # NoCall,
                        Ordinary(served.value), Ordinary(stored.value)
                 PROVE  served = stored
        BY DEF OrdinaryCallsAreTold
    <2>1. stored \in Call /\ served \in Call
        BY DEF SameDigest
    <2>2. /\ served.fn = stored.fn /\ served.version = stored.version
          /\ served.passed = stored.passed
          /\ Json(served.value) = Json(stored.value)
        BY DEF SameDigest, Digest
    <2>3. served.value = stored.value
        BY <2>1, <2>2, OrdinaryValuesAreTold DEF Call
    <2> QED BY <2>1, <2>2, <2>3 DEF Call
<1> QED BY <1>1, HitsHaveTheDigest, PTL

\* No call shares an entry with another function or another version.
THEOREM VersionsBustTheCache == Spec => []VersionsAreTold
<1>1. SameDigest => VersionsAreTold
    BY DEF SameDigest, VersionsAreTold, Digest
<1> QED BY <1>1, HitsHaveTheDigest, PTL

\* No result is stored or served under a fingerprint that depends on an object
\* the canonical JSON does not know (fingerprint.py, FingerprintError).
THEOREM OpaqueCallsAreRejected == Spec => []TypeOK
<1>1. Init => TypeOK
    BY DEF Init, TypeOK
<1>2. TypeOK /\ [Next]_vars => TypeOK'
    <2> SUFFICES ASSUME TypeOK, [Next]_vars PROVE TypeOK'
        OBVIOUS
    <2>1. ASSUME NEW c \in Call, Store(c) \/ Serve(c) PROVE TypeOK'
        BY <2>1 DEF Store, Serve, Rejected, TypeOK
    <2>2. CASE UNCHANGED vars
        BY <2>2 DEF vars, TypeOK
    <2> QED BY <2>1, <2>2 DEF Next
<1> QED BY <1>1, <1>2, PTL DEF Spec

-----------------------------------------------------------------------------
(* How far false hits go                                                   *)

\* The JSON of a key has the key's atom.
LEMMA KeysKeepAtoms == \A k \in Leaves : JsonKey(k).atom = k.atom
BY DEF JsonKey, Str

\* What canonical_json makes of any value without a tagged string.
LEMMA UntaggedValuesAreAlike ==
    ASSUME NEW v \in Value, NEW w \in Value, Json(v) = Json(w),
           \A u \in LeavesOf(v) \cup LeavesOf(w) : u.tag = ""
    PROVE  Alike(v, w)
<1> DEFINE IsLeaf(x) == x \in Leaves /\ x.tag = "" /\ Json(x) = JsonLeaf(x)
           IsList(x) ==
                /\ x.kind \in Sequential /\ x.item \in Leaves /\ x.item.tag = ""
                /\ Json(x) = List(JsonLeaf(x.item))
           IsDict(x) ==
                /\ x.kind = "dict" /\ x.key \in Leaves /\ x.item \in Leaves /\ x.item.tag = ""
                /\ Json(x) = Dict(JsonKey(x.key), JsonLeaf(x.item))
<1>1. ASSUME NEW x \in Value, \A u \in LeavesOf(x) : u.tag = ""
      PROVE  IsLeaf(x) \/ IsList(x) \/ IsDict(x)
    <2>1. CASE x \in Leaves
        BY <1>1, <2>1 DEF LeavesOf, Json
    <2>2. CASE x \in Trees /\ x.kind \in Sequential
        <3>1. x.item \in Leaves /\ x \notin Leaves /\ x.kind # "dict"
            BY <2>2 DEF Trees, Leaves, Tagged, Sequential
        <3> QED BY <1>1, <2>2, <3>1 DEF LeavesOf, Json
    <2>3. CASE x \in Trees /\ x.kind = "dict"
        <3>1. x.item \in Leaves /\ x.key \in Leaves /\ x \notin Leaves
            BY <2>3, LeafKinds DEF Trees
        <3> QED BY <1>1, <2>3, <3>1 DEF LeavesOf, Json
    <2> QED BY <2>1, <2>2, <2>3 DEF Value, Trees, Sequential
<1>2. /\ IsLeaf(v) \/ IsList(v) \/ IsDict(v)
      /\ IsLeaf(w) \/ IsList(w) \/ IsDict(w)
    BY <1>1
<1>3. ASSUME NEW x
      PROVE  /\ IsLeaf(x) => Json(x).kind \notin {"list", "dict"}
             /\ IsList(x) => Json(x).kind = "list"
             /\ IsDict(x) => Json(x).kind = "dict"
    <2>1. IsLeaf(x) => Json(x).kind \notin {"list", "dict"}
        BY LeafKinds
    <2>2. IsList(x) => Json(x).kind = "list"
        <3> SUFFICES ASSUME IsList(x) PROVE Json(x).kind = "list"
            OBVIOUS
        <3>1. Json(x) = List(JsonLeaf(x.item))
            OBVIOUS
        <3> QED BY ONLY <3>1, Constructors
    <2>3. IsDict(x) => Json(x).kind = "dict"
        <3> SUFFICES ASSUME IsDict(x) PROVE Json(x).kind = "dict"
            OBVIOUS
        <3>1. Json(x) = Dict(JsonKey(x.key), JsonLeaf(x.item))
            OBVIOUS
        <3> QED BY ONLY <3>1, Constructors
    <2> QED BY <2>1, <2>2, <2>3
<1>4. \/ IsLeaf(v) /\ IsLeaf(w)
      \/ IsList(v) /\ IsList(w)
      \/ IsDict(v) /\ IsDict(w)
    <2> HIDE DEF IsLeaf, IsList, IsDict
    <2>1. /\ IsLeaf(w) => Json(v).kind \notin {"list", "dict"}
          /\ IsList(w) => Json(v).kind = "list"
          /\ IsDict(w) => Json(v).kind = "dict"
        BY <1>3
    <2>2. /\ IsLeaf(v) => Json(v).kind \notin {"list", "dict"}
          /\ IsList(v) => Json(v).kind = "list"
          /\ IsDict(v) => Json(v).kind = "dict"
        BY <1>3
    <2> QED BY <1>2, <2>1, <2>2
<1>5. CASE IsLeaf(v) /\ IsLeaf(w)
    BY <1>5, LeavesAreTold DEF Alike
<1>6. CASE IsList(v) /\ IsList(w)
    <2>1. List(JsonLeaf(v.item)) = List(JsonLeaf(w.item))
        BY <1>6
    <2>2. v.item = w.item
        BY <1>6, <2>1, Constructors, LeavesAreTold
    <2> QED BY <1>6, <2>2 DEF Alike
<1>7. CASE IsDict(v) /\ IsDict(w)
    <2>1. Dict(JsonKey(v.key), JsonLeaf(v.item)) = Dict(JsonKey(w.key), JsonLeaf(w.item))
        BY <1>7
    <2>2. JsonKey(v.key) = JsonKey(w.key) /\ JsonLeaf(v.item) = JsonLeaf(w.item)
        BY ONLY <2>1, Constructors
    <2>3. v.item = w.item
        BY <1>7, <2>2, LeavesAreTold
    <2>4. v.key.atom = w.key.atom
        BY <1>7, <2>2, KeysKeepAtoms
    <2> QED BY <1>7, <2>3, <2>4 DEF Alike
<1> QED BY <1>4, <1>5, <1>6, <1>7

\* False hits go no further than tuples, sets and integer keys, and strings
\* with the name of a tag (fingerprint.py, canonical_json).
THEOREM FalseHitsAreOfShape == Spec => []OnlyShapesAreMixedUp
<1>1. SameDigest => OnlyShapesAreMixedUp
    <2> SUFFICES ASSUME SameDigest, served # NoCall,
                        \A u \in LeavesOf(served.value) \cup LeavesOf(stored.value) : u.tag = ""
                 PROVE  served.passed = stored.passed /\ Alike(served.value, stored.value)
        BY DEF OnlyShapesAreMixedUp
    <2>1. served.value \in Value /\ stored.value \in Value
        BY DEF SameDigest, Call
    <2>2. served.passed = stored.passed /\ Json(served.value) = Json(stored.value)
        BY DEF SameDigest, Digest
    <2> QED BY <2>1, <2>2, UntaggedValuesAreAlike
<1> QED BY <1>1, HitsHaveTheDigest, PTL
=============================================================================
