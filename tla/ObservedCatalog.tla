--------------------------- MODULE ObservedCatalog ---------------------------
(***************************************************************************)
(* MaconObservedCatalog of src/include/macon_listener.h: the diagnostic    *)
(* store of the response windows seen on the bus, keyed by (addr, count).  *)
(* A catalog is a function from keys to entries, its DOMAIN the keys in    *)
(* use.  The time stamp of an entry is left out.                           *)
(***************************************************************************)
EXTENDS Integers, Sequences, FiniteSets

CONSTANTS kMax,        \* entries the catalog has room for, 64 in the code
          PayloadCap   \* payload bytes an entry keeps, 64 in the code

ASSUME CatalogAssumption == kMax \in Nat /\ PayloadCap \in Nat

EmptyCatalog == [k \in {} |-> 0]

Captured(payload) ==
  SubSeq(payload, 1, IF Len(payload) < PayloadCap THEN Len(payload) ELSE PayloadCap)

never_counted(cat, key) == 1   \* faulty variant
hits_with(cat, key)     == 1 + IF key \in DOMAIN cat THEN cat[key].hits ELSE 0

\* Merge a sighting of window key; a new key is dropped when there is no room.
record(cat, key, known, payload) ==
  LET seen == key \in DOMAIN cat
      entry == [known   |-> known,
                hits    |-> hits_with(cat, key),
                payload |-> Captured(payload)]
  IN  IF seen \/ Cardinality(DOMAIN cat) < kMax
      THEN [k \in DOMAIN cat \cup {key} |-> IF k = key THEN entry ELSE cat[k]]
      ELSE cat
=============================================================================
