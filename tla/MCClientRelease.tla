--------------------------- MODULE MCClientRelease ---------------------------
(* Instances of ClientRelease for TLC. *)
EXTENDS ClientRelease, TLC

CONSTANTS b1, b2

Rc(n) == [patch |-> 3, rc |-> n]

Candidates == {Rc(8), Rc(9)}

\* Two builds of the newer version on the stable channel, one on the other channel, one
\* that is not to be offered.
NewerBuilds ==
    {[version |-> Rc(9), channel |-> "stable", build |-> b1, active |-> TRUE],
     [version |-> Rc(9), channel |-> "stable", build |-> b2, active |-> TRUE],
     [version |-> Rc(9), channel |-> "debug", build |-> b1, active |-> TRUE],
     [version |-> Rc(9), channel |-> "stable", build |-> b1, active |-> FALSE]}

\* A package with both executables; a debug package.
OldCalls ==
    {[version |-> Rc(9), packs |-> {"release_file"}, both |-> TRUE, stable |-> TRUE, build |-> b1],
     [version |-> Rc(9), packs |-> {"debug_file"}, both |-> FALSE, stable |-> FALSE, build |-> b2]}

OneEach == Channel \X {Rc(8)}

\* Bound: two requests overlap over three rows while no device takes part; a device takes
\* part while there are at most two rows and one request.
Focus ==
    \/ stamp <= 2 /\ \E t \in Thread : req[t] = None
    \/ \A d \in Device : /\ dev[d] = Started(d, Rc(8)) /\ dev[d].channel = "stable"
                         /\ \A v \in Version : local[d][v] = None

Symmetry == Permutations(Thread)
=============================================================================
