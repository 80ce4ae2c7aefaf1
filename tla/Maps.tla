-------------------------------- MODULE Maps --------------------------------
(***************************************************************************)
(* The maps the bots keep their state in (HashMap and BTreeMap in Rust,    *)
(* Map in Motoko and TypeScript) are functions on a finite set of keys.    *)
(***************************************************************************)
EXTENDS Functions

(* The map without any entry. *)
EmptyMap == [k \in {} |-> {}]

(* map.insert(key, value): adds the entry, or replaces the one under key. *)
Put(map, key, value) ==
    [k \in DOMAIN map \cup {key} |-> IF k = key THEN value ELSE map[k]]

(* map.remove(key) *)
Without(map, key) == Restrict(map, DOMAIN map \ {key})

(* A map from keys in K to values in V. *)
IsMap(map, K, V) ==
    /\ map = [k \in DOMAIN map |-> map[k]]
    /\ DOMAIN map \subseteq K
    /\ \A k \in DOMAIN map : map[k] \in V
=============================================================================
