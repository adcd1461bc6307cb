------------------------------ MODULE MCHashMap ------------------------------
(* Four keys with every combination of hashes near the ends of tables of     *)
(* four and eight buckets. Keys are interchangeable, as all hashes are tried. *)
EXTENDS HashMap, TLC
Symmetry == {p @@ q : p \in Permutations(Keys), q \in Permutations(Values)}
=============================================================================
