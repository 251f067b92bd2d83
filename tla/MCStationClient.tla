--------------------------- MODULE MCStationClient ---------------------------
(* Constants for model checking StationClient: a station that scans and      *)
(* measures, one that receives its main barcode and receives it again, to    *)
(* which a window of any of them may be switched, one that checks a scanned  *)
(* code against the line, a first station that scans a part before it        *)
(* receives its main barcode, and one that measures before it scans.         *)
EXTENDS StationClient, TLC

ScanMagnet == <<"main", "part", "magnet">>
PlcTwice == <<"plcmain", "plc">>
ScanPlc == <<"main", "plc">>
PartFirst == <<"part", "plcmain">>
MagnetFirst == <<"magnet", "main">>

All == {ScanMagnet, PlcTwice, ScanPlc, PartFirst, MagnetFirst}
Another == {PlcTwice}
OneLayout == {ScanMagnet}

Interchangeable == Permutations(Code)
=============================================================================
