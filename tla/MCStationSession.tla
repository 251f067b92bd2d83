-------------------------- MODULE MCStationSession --------------------------
(* Instances of StationSession for TLC.  Overlap: two devices, one station, *)
(* two requests inside the server at once.  Life: two devices, two stations *)
(* and one request at a time, for what takes time and crosses stations.     *)
EXTENDS StationSession, TLC

\* Devices and threads are interchangeable in the safety run.
Symmetry == Permutations(Client) \cup Permutations(Thread)
=============================================================================
