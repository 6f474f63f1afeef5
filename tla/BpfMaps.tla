------------------------------ MODULE BpfMaps ------------------------------
(***************************************************************************)
(* The kernel maps that the probes of pkg/ebpftracer/ebpf keep their state *)
(* in.  A map is a function over every key it may hold; a key that is not  *)
(* in the map has the value None.  The maps themselves are part of the     *)
(* kernel, so these operators are modelled from how the probes use them.   *)
(***************************************************************************)
EXTENDS Naturals, FiniteSets

CONSTANT None          \* the result of a lookup that finds nothing

Keys(m) == {k \in DOMAIN m : m[k] # None}

HasRoom(m, k, slots) == m[k] # None \/ Cardinality(Keys(m)) < slots

MapDelete(m, k) == [m EXCEPT ![k] = None]

(* BPF_MAP_TYPE_HASH, BPF_ANY: an update of a key that is not in a full    *)
(* map fails.  No probe looks at the result of its update.                 *)
HashUpdate(m, k, v, slots) ==
    IF HasRoom(m, k, slots) THEN [m EXCEPT ![k] = v] ELSE m

(* BPF_MAP_TYPE_LRU_HASH, BPF_ANY: a full map gives up one of its entries; *)
(* the kernel only approximates the least recently used one, so it may be  *)
(* any of them.                                                            *)
LruUpdates(m, k, v, slots) ==
    IF HasRoom(m, k, slots)
    THEN {[m EXCEPT ![k] = v]}
    ELSE {[MapDelete(m, victim) EXCEPT ![k] = v] : victim \in Keys(m)}

=============================================================================
