------------------------------ MODULE Forecast -------------------------------
(***************************************************************************)
(* The forecast board (forcast.ino): every ten minutes a reading, and the  *)
(* forecast from the change of pressure since the reading an hour before,  *)
(* which a ring keeps.  millis() starts again at 0 after 2^32.             *)
(***************************************************************************)
EXTENDS Integers, SequencesExt

CONSTANTS
    Slots,        \* readings in pressureHistory, 6
    Interval,     \* READING_INTERVAL
    Wrap,         \* values of an unsigned long, 2^32
    MaxLoop,      \* longest turn of loop()
    Pressures,    \* in tenths of hPa
    Air,          \* [temp, hum] the other sensor may report
    MaxReadings   \* bound: readings taken

ASSUME ForecastAssumption ==
    /\ {Slots, Interval, Wrap, MaxLoop, MaxReadings} \subseteq Nat \ {0}
    /\ Interval + MaxLoop < Wrap /\ Pressures \subseteq Int

VARIABLES
    millis, lastReadingTime, pressureHistory, historyIndex, isCalibrated,
    shown,      \* what the display says
    readings,   \* history: every pressure read
    since       \* history: how long ago the last reading was, and the one before that

station == <<millis, lastReadingTime, pressureHistory, historyIndex, isCalibrated, shown, readings, since>>

generateForecast(trend, pressure, air) ==
    CASE trend <= -15 /\ air.hum > 70 -> IF air.temp <= 0 THEN "SNOW STORM!" ELSE "HEAVY STORM!"
      [] trend <= -15 /\ air.hum <= 70 -> "HIGH WINDS"
      [] trend \in -14..-6 -> IF air.temp <= 0 THEN "LIGHT SNOW" ELSE "RAIN LIKELY"
      [] trend >= 5 -> "CLEARING UP"
      [] OTHER -> IF pressure > 10150 THEN "CLEAR / SUNNY" ELSE "CLOUDY / STEADY"

\* setup() takes the first reading, as every entry of the ring.
ForecastInit ==
    /\ millis \in 0..MaxLoop /\ lastReadingTime = 0
    /\ \E p \in Pressures : pressureHistory = [i \in 1..Slots |-> p] /\ readings = <<p>>
    /\ historyIndex = 0 /\ isCalibrated = FALSE
    /\ shown = [text |-> "Calibrating...", trend |-> 0]
    /\ since = [now |-> millis, before |-> Interval]

\* Mutant of Due: the next time is computed, and wraps around before millis() does.
DueBySum == millis >= (lastReadingTime + Interval) % Wrap
Due == (millis - lastReadingTime) % Wrap >= Interval

\* Mutant of NextIndex: an entry of the ring is left out.
NextIndexShort == IF historyIndex + 1 >= Slots - 1 THEN 0 ELSE historyIndex + 1
NextIndex == IF historyIndex + 1 >= Slots THEN 0 ELSE historyIndex + 1

Read(p, air) ==
    /\ Due /\ Len(readings) < MaxReadings
    /\ LET trend == p - pressureHistory[historyIndex + 1] IN
       /\ isCalibrated' = (isCalibrated \/ NextIndex = 0)
       /\ shown' = [text |-> IF isCalibrated' THEN generateForecast(trend, p, air)
                             ELSE "Gathering Data...",
                    trend |-> trend]
    /\ lastReadingTime' = millis
    /\ pressureHistory' = [pressureHistory EXCEPT ![historyIndex + 1] = p]
    /\ historyIndex' = NextIndex
    /\ readings' = Append(readings, p)
    /\ since' = [now |-> 0, before |-> since.now]
    /\ UNCHANGED millis

\* The rest of a turn of loop(): d milliseconds go by until the next one.
Pass(d) ==
    /\ ~Due
    /\ millis' = (millis + d) % Wrap
    /\ since' = [since EXCEPT !.now = @ + d]
    /\ UNCHANGED <<lastReadingTime, pressureHistory, historyIndex, isCalibrated, shown, readings>>

ForecastNext ==
    \/ \E p \in Pressures, air \in Air : Read(p, air)
    \/ \E d \in 1..MaxLoop : Pass(d)
-----------------------------------------------------------------------------
\* "Holds 6 readings (1 hour of data at 10 min intervals)": a forecast is only
\* shown when the pressure has changed as it says since six readings before.
TrendSpansAnHour ==
    shown.text \notin {"Calibrating...", "Gathering Data..."} =>
        /\ Len(readings) > Slots
        /\ shown.trend = Last(readings) - readings[Len(readings) - Slots]

\* Two readings are an interval apart, and no more than a turn of loop() longer,
\* also when millis() starts again.
ReadingsOnTime == since.before >= Interval /\ since.now < Interval + MaxLoop
=============================================================================
