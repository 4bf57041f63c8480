----------------------------- MODULE MergePatch -----------------------------
(***************************************************************************)
(* The patches themselves: what the server's diff says of two JSON         *)
(* documents (state/mergepatch.go), what the client's applyMergePatch      *)
(* makes of it (services/protocol.dart), and FilterTopics between them.    *)
(* StateSync treats a state as a flat record of fields; this is why it may.*)
(*                                                                         *)
(* A JSON object is [kind |-> "map", at |-> a function from its keys];     *)
(* scalars and arrays, which are replaced whole, are leaves.  A document   *)
(* holds no null (state/state.go normalize); a patch may.  The recursive   *)
(* calls of diff and of applyMergePatch are the parameter sub.             *)
(***************************************************************************)
EXTENDS Integers

CONSTANTS Names,   \* the keys of objects
          Scalars, \* what a leaf can be
          Depth    \* how deep objects are nested

ASSUME MergePatchAssumption == Depth \in Nat \ {0}

Object(f) == [kind |-> "map", at |-> f]
Leaf(v)   == [kind |-> "leaf", value |-> v]
Null      == [kind |-> "null"]
IsMap(v)  == v.kind = "map"
Empty     == [k \in {} |-> Null]
Leaves    == {Leaf(v) : v \in Scalars}
Nullable  == Leaves \cup {Null}

Members(values) == UNION {[D -> values] : D \in SUBSET Names}
Within(leaves, values) == leaves \cup {Object(m) : m \in Members(values)}

\* Values nested at most n deep, without null and with it.
documents[n \in 0..Depth] == IF n = 0 THEN Leaves ELSE Within(Leaves, documents[n - 1])
patches[n \in 0..Depth] == IF n = 0 THEN Nullable ELSE Within(Nullable, patches[n - 1])

\* A state, or a patch of one, is an object's members.
Documents == Members(documents[Depth - 1])
Values    == patches[Depth]

-----------------------------------------------------------------------------
\* Fault: keys that are gone are left out of the patch.
DiffMembers_NoDeletions(sub, old, new) ==
    LET same(k)  == k \in DOMAIN old /\ old[k] = new[k]
        nested(k) == k \in DOMAIN old /\ IsMap(old[k]) /\ IsMap(new[k])
    IN  [k \in {k \in DOMAIN new : ~same(k)} |->
            IF nested(k) THEN Object(sub[old[k].at][new[k].at]) ELSE new[k]]

\* From one object's members to another's: members that are objects in both are
\* compared recursively, members that are gone become null.
DiffMembers(sub, old, new) ==
    LET nested(k) == k \in DOMAIN old /\ IsMap(old[k]) /\ IsMap(new[k])
        changed(k) == IF nested(k) THEN sub[old[k].at][new[k].at] # Empty
                      ELSE k \notin DOMAIN old \/ old[k] # new[k]
        gone == DOMAIN old \ DOMAIN new
    IN  [k \in {k \in DOMAIN new : changed(k)} \cup gone |->
            IF k \in gone THEN Null
            ELSE IF nested(k) THEN Object(sub[old[k].at][new[k].at]) ELSE new[k]]

diff[old \in Documents] == [new \in Documents |-> DiffMembers(diff, old, new)]

FilterTopics(members, topics) == [k \in DOMAIN members \cap topics |-> members[k]]

MergeInto(sub, target, patch) ==
    IF ~IsMap(patch) THEN patch
    ELSE LET base == IF IsMap(target) THEN target.at ELSE Empty
             gone == {k \in DOMAIN patch.at : patch.at[k] = Null}
         IN  Object([k \in (DOMAIN base \cup DOMAIN patch.at) \ gone |->
                 IF k \in DOMAIN patch.at
                 THEN sub[IF k \in DOMAIN base THEN base[k] ELSE Null][patch.at[k]]
                 ELSE base[k]])

applyMergePatch[target \in Values] ==
    [patch \in Values |-> MergeInto(applyMergePatch, target, patch)]

-----------------------------------------------------------------------------
\* Every pair of documents and every subscription: a patch is empty just when
\* nothing has changed, and applied to the part of the old document that a client
\* is subscribed to, its part of the patch gives its part of the new one.
Rebuilds ==
    \A old, new \in Documents :
        LET patch == diff[old][new] IN
        /\ patch = Empty <=> old = new
        /\ \A scope \in SUBSET Names :
             applyMergePatch[Object(FilterTopics(old, scope))]
                            [Object(FilterTopics(patch, scope))]
                 = Object(FilterTopics(new, scope))
=============================================================================
