---------------------------- MODULE Fingerprint -----------------------------
(***************************************************************************)
(* fingerprint.py: which calls of wrapped functions share a cache entry.   *)
(*                                                                         *)
(* A Python value is a tree of records.  An atom stands for some text or   *)
(* number: the int n, the string str(n) and the date d have an atom each,  *)
(* and `tag' is what the string begins with, so that Str("date", d) is the *)
(* string 'date:' + d.isoformat().  JSON values are the strings, ints,     *)
(* lists, and dicts with string keys: their text, with sorted keys and     *)
(* fixed separators, determines them and is determined by them, and        *)
(* SHA-256 is taken to tell texts apart.  Containers hold one element: how *)
(* several are put together is json.dumps's business.                      *)
(*                                                                         *)
(* The cache holds one entry, made by some call; any calls follow.  An     *)
(* operator Name_Slip is Name with a plausible mistake in it and no part   *)
(* of the specification.                                                   *)
(***************************************************************************)
CONSTANTS
    Function,     \* wrapped functions (module and qualified name)
    Keyed,        \* those that have a key_fn
    Version,      \* values of version=
    Atom,
    NoCall

ASSUME KeyedAssumption == Keyed \subseteq Function

VARIABLES
    stored,       \* the call whose result the entry holds, or NoCall
    served        \* the last hit: who asked; NoCall before there is one

vars == <<stored, served>>

-----------------------------------------------------------------------------

Str(tag, a) == [kind |-> "str", tag |-> tag, atom |-> a]
List(u) == [kind |-> "list", item |-> u]
Dict(k, u) == [kind |-> "dict", key |-> k, item |-> u]

\* What the default hook writes as 'type:text'.  datetime, time, decimal and
\* bytes differ from these by their name only.
Tagged == {"date", "uuid"}

Leaves ==
    [kind : {"str"}, tag : {""} \cup Tagged, atom : Atom]
    \cup [kind : {"int", "object"} \cup Tagged, tag : {""}, atom : Atom]

\* Containers of one leaf, or of one key and its value.
Trees ==
    [kind : {"list", "tuple", "set"}, item : Leaves]
    \cup [kind : {"dict"}, key : Leaves, item : Leaves]

Value == Leaves \cup Trees

LeavesOf(v) ==
    IF v \in Leaves THEN {v}
    ELSE IF v.kind = "dict" THEN {v.key, v.item} ELSE {v.item}

\* args and kwargs are kept apart; a key_fn takes the place of both.
Call == {c \in [fn : Function, version : Version,
                passed : {"args", "kwargs", "key"}, value : Value] :
            c.passed = "key" <=> c.fn \in Keyed}

ASSUME NoCallAssumption == NoCall \notin Call

\* No call is remembered whose fingerprint depends on an opaque object.
Opaque(v) == \E u \in LeavesOf(v) : u.kind = "object"

TypeOK ==
    /\ stored \in {c \in Call : ~Opaque(c.value)} \cup {NoCall}
    /\ served \in {c \in Call : ~Opaque(c.value)} \cup {NoCall}

Init == stored = NoCall /\ served = NoCall

-----------------------------------------------------------------------------
(* canonical_json                                                          *)

\* json.dumps itself turns the keys of a dict into strings.
JsonKey(k) == IF k.kind = "int" THEN Str("", k.atom) ELSE k

\* Dates without their type.
JsonLeaf_Slip(v) == IF v.kind \in Tagged THEN Str("", v.atom) ELSE v

JsonLeaf(v) == IF v.kind \in Tagged THEN Str(v.kind, v.atom) ELSE v

\* A tuple becomes a list, a set the list that sorted() makes of it.
Json(v) ==
    IF v \in Leaves THEN JsonLeaf(v)
    ELSE IF v.kind = "dict" THEN Dict(JsonKey(v.key), JsonLeaf(v.item))
         ELSE List(JsonLeaf(v.item))

\* Only what is not inside a container is looked at.
Rejected_Slip(v) == v.kind = "object"

\* The default hook, and json.dumps for the key of a dict, raise for what
\* they do not know: a FingerprintError.
Rejected(v) ==
    \/ Opaque(v)
    \/ v.kind = "dict" /\ v.key.kind \notin {"str", "int"}

\* The version is forgotten.
Digest_Slip(c) == [fn |-> c.fn, passed |-> c.passed, json |-> Json(c.value)]

\* fingerprint_call.
Digest(c) ==
    [fn |-> c.fn, version |-> c.version, passed |-> c.passed,
     json |-> Json(c.value)]

-----------------------------------------------------------------------------

\* The first call that is not rejected computes its result and stores it ...
Store(c) ==
    /\ stored = NoCall
    /\ ~Rejected(c.value)
    /\ stored' = c
    /\ UNCHANGED served

\* ... and a call with the same fingerprint is served that result.
Serve(c) ==
    /\ stored # NoCall
    /\ ~Rejected(c.value)
    /\ Digest(c) = Digest(stored)
    /\ served' = c
    /\ UNCHANGED stored

Next == \E c \in Call : Store(c) \/ Serve(c)

Spec == Init /\ [][Next]_vars

-----------------------------------------------------------------------------
(* Properties                                                              *)

\* The values that fingerprint.py means to tell apart: strings that do not
\* look like its own tags, no tuples or sets, dicts with string keys.
Ordinary(v) ==
    /\ v.kind \notin {"tuple", "set"}
    /\ \A u \in LeavesOf(v) : u.tag = ""
    /\ v.kind = "dict" => v.key.kind = "str"

\* A hit serves the result of the very same call, as long as both are called
\* with ordinary values: a date is not taken for its text (fingerprint.py:23),
\* a positional argument not for a keyword.
OrdinaryCallsAreTold ==
    served # NoCall /\ Ordinary(served.value) /\ Ordinary(stored.value) =>
        served = stored

\* With any values, a hit serves a result of the same function at the same
\* version: version= busts the cache (decorator.py:168).
VersionsAreTold ==
    served # NoCall => served.fn = stored.fn /\ served.version = stored.version

\* "False misses are safe; false hits are not" (fingerprint.py:3): what the
\* documentation asks for, and strings with a tag's name, tuples, sets and
\* integer keys do not get.
NoFalseHit == served \in {stored, NoCall}

-----------------------------------------------------------------------------
(* What else the proofs establish                                          *)

Sequential == {"list", "tuple", "set"}

\* The same but for the kind of sequence, or for int and str as a key.
Alike(v, w) ==
    \/ v = w
    \/ v.kind \in Sequential /\ w.kind \in Sequential /\ v.item = w.item
    \/ v.kind = "dict" /\ w.kind = "dict" /\ v.item = w.item
        /\ v.key.atom = w.key.atom

\* How far the false hits go: as long as no string looks like a tag, a hit
\* serves the result of the same call but for the kind of a sequence or of a
\* dict's key; no scalar is taken for another, none for a container, no
\* sequence for a dict, and no date or UUID in them for its text
\* (fingerprint.py:23).
OnlyShapesAreMixedUp ==
    served # NoCall
    /\ (\A u \in LeavesOf(served.value) \cup LeavesOf(stored.value) : u.tag = "") =>
        /\ served.passed = stored.passed
        /\ Alike(served.value, stored.value)
=============================================================================
