------------------------------ MODULE SmallParts ------------------------------
(***************************************************************************)
(* The parts of the system that share nothing with the others, side by     *)
(* side: one of them runs and the others rest, so that one run checks them *)
(* all.                                                                    *)
(***************************************************************************)
EXTENDS MediaFile, DnsServer, Forecast, SearchPage, PortalText

VARIABLE part   \* the one that runs

vars == <<part, file, dns, station, search, convert>>

\* A part that rests is in one of its initial states, with nothing to do.
MediaRests == total \in {CHOOSE n \in Files : TRUE} /\ asked = [form |-> "whole"] /\ FileInit
DnsRests == DnsInit
StationRests ==
    /\ millis = 0
    /\ \E p \in {CHOOSE q \in Pressures : TRUE} : readings = <<p>>
    /\ ForecastInit
SearchRests ==
    /\ SearchInit
    /\ search.query = <<>> /\ search.titles = CHOOSE titles \in Libraries : TRUE
TextRests == text = <<>> /\ TextInit

Init ==
    \/ part = "media" /\ DnsRests /\ StationRests /\ SearchRests /\ TextRests /\ FileInit
    \/ part = "dns" /\ MediaRests /\ StationRests /\ SearchRests /\ TextRests /\ DnsInit
    \/ part = "station" /\ MediaRests /\ DnsRests /\ SearchRests /\ TextRests /\ ForecastInit
    \/ part = "search" /\ MediaRests /\ DnsRests /\ StationRests /\ TextRests /\ SearchInit
    \/ part = "text" /\ MediaRests /\ DnsRests /\ StationRests /\ SearchRests /\ TextInit

Runs(p) == part = p /\ UNCHANGED part

Next ==
    \/ Runs("media") /\ FileNext /\ UNCHANGED <<dns, station, search, convert>>
    \/ Runs("dns") /\ DnsNext /\ UNCHANGED <<file, station, search, convert>>
    \/ Runs("station") /\ ForecastNext /\ UNCHANGED <<file, dns, search, convert>>
    \/ Runs("search") /\ SearchNext /\ UNCHANGED <<file, dns, station, convert>>
    \/ Runs("text") /\ TextNext /\ UNCHANGED <<file, dns, station, search>>

Spec == Init /\ [][Next]_vars
===============================================================================
