--------------------------- MODULE MCHistoryTable ---------------------------
(***************************************************************************)
(* Instances of the history tables for TLC.  The real tables span a        *)
(* minute, an hour, a day and more; here a window of the first is one or   *)
(* two seconds and of each next twice that, and records expire at twice    *)
(* their window.                                                           *)
(***************************************************************************)
EXTENDS HistoryTable

CONSTANTS u1, u2, v1

OneId == {u1}
TwoIds == {u1, u2}
OneReading == {v1}

CascadeTwo   == <<1, 2>>
CascadeThree == <<1, 2, 4>>
ExpiryTwo    == <<2, 4>>
ExpiryThree  == <<2, 4, 8>>
=============================================================================
