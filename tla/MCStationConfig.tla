--------------------------- MODULE MCStationConfig ---------------------------
(* Instances of StationConfig for TLC. *)
EXTENDS StationConfig, TLC

CONSTANTS s1, s2

Step(s, o, k, m) == [station |-> s, order |-> o, kind |-> k, main |-> m]

\* A main step, another scan and a screw for the first station, and a main step for the
\* second, at a place where only a station with number one may have it.
Entered ==
    {Step(s1, 1, "scan", TRUE), Step(s1, 2, "scan", FALSE), Step(s1, 2, "work", FALSE),
     Step(s2, 2, "scan", TRUE)}

\* The route with a switch: a scan at the first station, the switch at the second.
SwitchRoute ==
    {[number |-> [s \in Station |-> 1],
      rows |-> <<Step(s1, 1, "scan", TRUE), Step(s2, 1, "flow", FALSE)>>]}

\* Server threads are alike.
Symmetric == Permutations(Thread)
=============================================================================
