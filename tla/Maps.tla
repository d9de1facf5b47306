-------------------------------- MODULE Maps --------------------------------
(***************************************************************************)
(* Maps keyed by packet identifier or topic alias, as the std::map of the  *)
(* code.                                                                   *)
(***************************************************************************)
EXTENDS Integers, Sequences, FiniteSets, Functions

EmptyMap == [id \in {} |-> 0]

Put(map, id, entry) ==
  [i \in DOMAIN map \cup {id} |-> IF i = id THEN entry ELSE map[i]]

Drop(map, id) == Restrict(map, DOMAIN map \ {id})

(* The elements of S in the order a std::map iterates over its keys.  The
   set holds that one sequence. *)
Ascending(S) ==
  {q \in [1 .. Cardinality(S) -> S] :
     \A i, j \in 1 .. Cardinality(S) : i < j => q[i] < q[j]}
=============================================================================
