------------------------------- MODULE InOrder -------------------------------
(* What the standard library's sort and retain leave: the members of a set  *)
(* of numbers in their order, and the elements of a sequence that are kept. *)
EXTENDS Naturals, FiniteSets

Ascending(set) ==
  CHOOSE s \in [1 .. Cardinality(set) -> set] : \A i, j \in DOMAIN s : i < j => s[i] < s[j]

Retain(seq, kept) ==
  LET at == Ascending(kept) IN [i \in DOMAIN at |-> seq[at[i]]]

=============================================================================
