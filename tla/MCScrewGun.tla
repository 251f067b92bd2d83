----------------------------- MODULE MCScrewGun -----------------------------
(* Constants for model checking ScrewGun: a station that scans a code and   *)
(* then tightens screws.                                                    *)
EXTENDS ScrewGun

ScanThenScrew == <<"scan", "screw">>
=============================================================================
