---------------------------- MODULE MapTheorems ----------------------------
(* What Put and Without do, stated once for the proofs about the bots. *)
EXTENDS Maps, TLAPS

(* Inserting an entry sets the value of its key and keeps the others. *)
LEMMA PutEntries ==
    ASSUME NEW map, NEW key, NEW value
    PROVE  /\ DOMAIN Put(map, key, value) = DOMAIN map \cup {key}
           /\ Put(map, key, value)[key] = value
           /\ \A k \in DOMAIN map : k # key => Put(map, key, value)[k] = map[k]
BY DEF Put

(* Removing a key keeps the other entries as they were. *)
LEMMA WithoutEntries ==
    ASSUME NEW map, NEW key
    PROVE  /\ DOMAIN Without(map, key) = DOMAIN map \ {key}
           /\ \A k \in DOMAIN map \ {key} : Without(map, key)[k] = map[k]
BY DEF Without, Restrict

(* Inserting an entry of the right types keeps a map well typed. *)
LEMMA PutIsMap ==
    ASSUME NEW K, NEW V, NEW map, IsMap(map, K, V), NEW key \in K, NEW value \in V
    PROVE  IsMap(Put(map, key, value), K, V)
BY DEF IsMap, Put

(* Removing a key keeps a map well typed. *)
LEMMA WithoutIsMap ==
    ASSUME NEW K, NEW V, NEW map, NEW key, IsMap(map, K, V)
    PROVE  IsMap(Without(map, key), K, V)
BY DEF IsMap, Without, Restrict

(* A map stays well typed when its types grow. *)
LEMMA IsMapWidens ==
    ASSUME NEW K, NEW V, NEW K2, NEW V2, NEW map, IsMap(map, K, V),
           K \subseteq K2, V \subseteq V2
    PROVE  IsMap(map, K2, V2)
BY DEF IsMap

(* The map without entries is well typed. *)
LEMMA EmptyIsMap ==
    ASSUME NEW K, NEW V
    PROVE  IsMap(EmptyMap, K, V)
BY DEF IsMap, EmptyMap
=============================================================================
