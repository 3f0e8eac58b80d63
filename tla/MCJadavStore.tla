--------------------------- MODULE MCJadavStore ---------------------------
(* Instances of JadavStore for TLC. *)
EXTENDS JadavStoreProps, TLC

Symmetry == Permutations(Href) \cup Permutations(Uid) \cup Permutations(Client) \cup Permutations(Text)
============================================================================
