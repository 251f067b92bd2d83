---------------------------- MODULE MCProductFlow ----------------------------
(* Instances of ProductFlow for TLC. *)
EXTENDS ProductFlow, TLC

CONSTANTS c1, c2

Plain == [creates |-> FALSE, needs |-> {}, switched |-> FALSE, current |-> FALSE,
          children |-> 0, childNeeds |-> {}, modes |-> {}, binds |-> FALSE,
          bindNeeds |-> {}, bindSwitched |-> FALSE, bindAgain |-> FALSE]

InOrder == (c1 :> 1) @@ (c2 :> 2)

AtOne == c1 :> 1

\* One station that starts products, switches their codes, in the default way and
\* in the one that only adds a code, and builds finished products into others.
Workshop ==
    1 :> [Plain EXCEPT !.creates = TRUE,
                       !.modes = {[set |-> TRUE, disable |-> TRUE], [set |-> FALSE, disable |-> TRUE]},
                       !.binds = TRUE, !.bindNeeds = {1}, !.bindAgain = TRUE]

\* Two stations in order; an administrator may degrade the second.
Route == (1 :> [Plain EXCEPT !.creates = TRUE]) @@ (2 :> [Plain EXCEPT !.needs = {1}])

\* Bound: one record at a time.
FewRecords == Cardinality(scans) + Cardinality(waived) <= 1

\* Bound: one code over a product it does not belong to, three scan records.
OneRelabelled == Cardinality(relabelled) <= 1 /\ Cardinality(scans) <= 2 /\ Cardinality(waived) <= 1

Symmetry == Permutations(Barcode) \cup Permutations(Thread)
=============================================================================
