-------------------------- MODULE SmallPartsProofs --------------------------
(***************************************************************************)
(* Proofs about the small parts, for any sizes and inputs: the forecast    *)
(* board reads on time and compares with the reading an hour before        *)
(* (ReadingsOnTime, TrendSpansAnHour), a range of a file is sent as it was *)
(* asked for (RightBytes), the name server repeats the question it was     *)
(* asked (OwnQuestion), a search lists the pages it should (ListsRight),   *)
(* and a text survives its conversions (TextKept).  Each part runs while   *)
(* the others rest.                                                        *)
(***************************************************************************)
EXTENDS SmallParts, SequenceTheorems, FiniteSetTheorems, WellFoundedInduction, TLAPS

-----------------------------------------------------------------------------
(* The forecast board *)

\* millis() and the time of the last reading, around the clock.
OnClock ==
    /\ {millis, lastReadingTime} \subseteq 0..Wrap - 1
    /\ since.now \in 0..Interval + MaxLoop - 1 /\ since.before >= Interval
    /\ \/ millis = lastReadingTime + since.now
       \/ millis + Wrap = lastReadingTime + since.now

\* The ring holds the readings of this round up to historyIndex, and behind it those
\* of the round before, or the first reading.
Ring ==
    /\ historyIndex \in 0..Slots - 1 /\ isCalibrated \in BOOLEAN
    /\ IF isCalibrated THEN Len(readings) > historyIndex + Slots
       ELSE Len(readings) = historyIndex + 1
    /\ \A i \in 1..Slots :
          pressureHistory[i] =
              readings[IF i <= historyIndex THEN Len(readings) - historyIndex + i
                       ELSE IF isCalibrated THEN Len(readings) - historyIndex + i - Slots
                       ELSE 1]

StationShape ==
    /\ readings \in Seq(Int) /\ pressureHistory \in [1..Slots -> Int]
    /\ since \in [now : Int, before : Int] /\ shown.trend \in Int

StationInv == StationShape /\ OnClock /\ Ring /\ TrendSpansAnHour

\* What is left of a number after W was taken off as often as it takes.
LEMMA ModIs ==
    ASSUME NEW W \in Nat \ {0}, NEW x \in Int, NEW r \in 0..W - 1, x = r \/ x = r - W \/ x = r + W
    PROVE  x % W = r
<1>1. /\ x \div W \in Int /\ x % W \in 0..W - 1 /\ x = W * (x \div W) + (x % W)
  OBVIOUS
<1>q. PICK q \in Int, m \in 0..W - 1 : q = x \div W /\ m = x % W /\ x = W * q + m
  BY <1>1
<1>2. PICK k \in {-1, 0, 1} : x = r + W * k
  <2>1. x = r + W * 0 \/ x = r + W * (-1) \/ x = r + W * 1
    OBVIOUS
  <2> QED BY <2>1
<1>3. W * (q - k) = r - m
  BY <1>q, <1>2
<1>d. PICK d \in Int : d = q - k
  BY <1>2
<1>4. W * d = r - m /\ r - m < W /\ r - m > -W
  BY <1>3, <1>d
<1>5. CASE d >= 1
  <2>1. W * d >= W
    BY <1>5
  <2> QED BY <1>4, <2>1
<1>6. CASE d <= -1
  <2>1. W * d <= -W
    BY <1>6
  <2> QED BY <1>4, <2>1
<1>7. CASE d = 0
  <2>1. W * d = 0
    BY <1>7
  <2> QED BY <1>q, <1>4, <2>1
<1> QED BY <1>5, <1>6, <1>7

LEMMA StationIs ==
    /\ Slots \in Nat \ {0} /\ Interval \in Nat \ {0} /\ Wrap \in Nat \ {0} /\ MaxLoop \in Nat \ {0}
    /\ Interval + MaxLoop < Wrap /\ Pressures \subseteq Int
BY ForecastAssumption

\* Due compares the time since the last reading.
LEMMA DueIs == OnClock => ((millis - lastReadingTime) % Wrap = since.now)
<1> SUFFICES ASSUME OnClock PROVE (millis - lastReadingTime) % Wrap = since.now
  OBVIOUS
<1>1. /\ millis \in Int /\ lastReadingTime \in Int /\ since.now \in 0..Wrap - 1
      /\ millis - lastReadingTime \in Int
      /\ \/ millis - lastReadingTime = since.now
         \/ millis - lastReadingTime = since.now - Wrap
  BY StationIs DEF OnClock
<1> QED BY <1>1, StationIs, ModIs

LEMMA StationInit == ForecastInit => StationInv
<1> SUFFICES ASSUME ForecastInit PROVE StationInv
  OBVIOUS
<1>1. PICK p \in Pressures : pressureHistory = [i \in 1..Slots |-> p] /\ readings = <<p>>
  BY DEF ForecastInit
<1>2. /\ millis \in 0..MaxLoop /\ lastReadingTime = 0 /\ historyIndex = 0 /\ isCalibrated = FALSE
      /\ shown = [text |-> "Calibrating...", trend |-> 0]
      /\ since = [now |-> millis, before |-> Interval]
  BY DEF ForecastInit
<1>3. p \in Int /\ readings \in Seq(Int) /\ Len(readings) = 1 /\ readings[1] = p
  BY <1>1, StationIs
<1>4. StationShape
  BY <1>1, <1>2, <1>3, StationIs DEF StationShape
<1>5. OnClock
  BY <1>2, StationIs DEF OnClock
<1>6. Ring
  <2>1. 0 \in 0..Slots - 1 /\ Len(readings) = 0 + 1
    BY <1>3, StationIs
  <2>2. \A i \in 1..Slots : pressureHistory[i] = readings[1] /\ ~(i <= 0)
    BY <1>1, <1>3, StationIs
  <2> QED BY <1>2, <2>1, <2>2 DEF Ring
<1>7. TrendSpansAnHour
  BY <1>2 DEF TrendSpansAnHour
<1> QED BY <1>4, <1>5, <1>6, <1>7 DEF StationInv

LEMMA PassStep ==
    ASSUME StationInv, NEW d \in 1..MaxLoop, Pass(d)
    PROVE  StationInv'
<1>1. /\ ~Due /\ millis' = (millis + d) % Wrap /\ since' = [since EXCEPT !.now = @ + d]
      /\ UNCHANGED <<lastReadingTime, pressureHistory, historyIndex, isCalibrated, shown, readings>>
  BY DEF Pass
<1>2. StationShape /\ OnClock /\ Ring /\ TrendSpansAnHour
  BY DEF StationInv
<1>3. /\ since.now \in Nat /\ since.now < Interval /\ d \in Nat /\ d <= MaxLoop
      /\ since'.now = since.now + d /\ since'.before = since.before
      /\ since' \in [now : Int, before : Int]
  <2>1. since \in [now : Int, before : Int] /\ since.now \in Nat /\ since.now \in Int
    BY <1>2, StationIs DEF OnClock, StationShape
  <2>2. since.now < Interval
    BY <1>1, <1>2, <2>1, DueIs, StationIs DEF Due
  <2>3. d \in Nat /\ d <= MaxLoop
    BY StationIs
  <2>4. PICK e \in Int : e = since.now + d
    BY <2>1, <2>3
  <2>5. since' = [since EXCEPT !.now = e]
    BY <1>1, <2>4
  <2>6. /\ since'.now = since.now + d /\ since'.before = since.before
        /\ since' \in [now : Int, before : Int]
    BY <2>1, <2>4, <2>5
  <2> QED BY <2>1, <2>2, <2>3, <2>6
<1>4. /\ millis \in 0..Wrap - 1 /\ lastReadingTime \in 0..Wrap - 1
      /\ millis = lastReadingTime + since.now \/ millis + Wrap = lastReadingTime + since.now
  BY <1>2 DEF OnClock
<1>5. /\ millis' \in 0..Wrap - 1
      /\ millis' = lastReadingTime + since'.now \/ millis' + Wrap = lastReadingTime + since'.now
  <2>1. CASE millis + d < Wrap
    <3>1. (millis + d) % Wrap = millis + d
      <4>1. millis + d \in 0..Wrap - 1 /\ millis + d \in Int
        BY <1>3, <1>4, <2>1, StationIs
      <4> QED BY <4>1, StationIs, ModIs
    <3> QED BY <1>1, <1>3, <1>4, <2>1, <3>1, StationIs
  <2>2. CASE millis + d >= Wrap
    <3>1. (millis + d) % Wrap = millis + d - Wrap
      <4>1. millis + d - Wrap \in 0..Wrap - 1 /\ millis + d \in Int
        BY <1>3, <1>4, <2>2, StationIs
      <4>2. millis + d = (millis + d - Wrap) + Wrap
        BY <1>3, <1>4, StationIs
      <4> QED BY <4>1, <4>2, StationIs, ModIs
    <3>2. millis + Wrap # lastReadingTime + since.now
      BY <1>3, <1>4, <2>2, StationIs
    <3> QED BY <1>1, <1>3, <1>4, <2>2, <3>1, <3>2, StationIs
  <2> QED BY <1>3, <1>4, <2>1, <2>2, StationIs
<1>6. OnClock'
  BY <1>1, <1>2, <1>3, <1>4, <1>5, StationIs DEF OnClock
<1>7. StationShape' /\ Ring' /\ TrendSpansAnHour'
  BY <1>1, <1>2, <1>3 DEF StationShape, Ring, TrendSpansAnHour, Last
<1> QED BY <1>6, <1>7 DEF StationInv

LEMMA ReadStep ==
    ASSUME StationInv, NEW p \in Pressures, NEW air \in Air, Read(p, air)
    PROVE  StationInv'
<1>h. PICK h : h = historyIndex
  OBVIOUS
<1>n. PICK n : n = Len(readings)
  OBVIOUS
<1>t. PICK trend : trend = p - pressureHistory[h + 1]
  OBVIOUS
<1>1. /\ Due /\ lastReadingTime' = millis /\ millis' = millis
      /\ pressureHistory' = [pressureHistory EXCEPT ![h + 1] = p]
      /\ historyIndex' = (IF h + 1 >= Slots THEN 0 ELSE h + 1)
      /\ IF historyIndex' = 0 THEN isCalibrated' = TRUE ELSE isCalibrated' = isCalibrated
      /\ readings' = Append(readings, p)
      /\ since' = [now |-> 0, before |-> since.now]
      /\ shown'.trend = trend
      /\ ~isCalibrated' => shown'.text = "Gathering Data..."
  <2>1. /\ Due /\ lastReadingTime' = millis /\ millis' = millis
        /\ pressureHistory' = [pressureHistory EXCEPT ![h + 1] = p]
        /\ historyIndex' = (IF h + 1 >= Slots THEN 0 ELSE h + 1)
        /\ readings' = Append(readings, p) /\ since' = [now |-> 0, before |-> since.now]
        /\ isCalibrated' = (isCalibrated \/ NextIndex = 0) /\ historyIndex' = NextIndex
        /\ shown' = [text |-> IF isCalibrated' THEN generateForecast(trend, p, air)
                              ELSE "Gathering Data...",
                     trend |-> trend]
    BY <1>h, <1>t DEF Read, NextIndex
  <2>2. shown'.trend = trend /\ (~isCalibrated' => shown'.text = "Gathering Data...")
    <3> HIDE DEF generateForecast
    <3> QED BY <2>1
  <2>3. isCalibrated \in BOOLEAN
    BY DEF StationInv, Ring
  <2>4. CASE historyIndex' = 0
    <3>1. isCalibrated' = TRUE
      BY Zenon, <2>1, <2>4
    <3> QED BY <2>1, <2>2, <2>4, <3>1
  <2>5. CASE historyIndex' # 0
    <3>1. isCalibrated' = isCalibrated
      BY Zenon, <2>1, <2>3, <2>5
    <3> QED BY <2>1, <2>2, <2>5, <3>1
  <2> QED BY <2>4, <2>5
<1>2. StationShape /\ OnClock /\ Ring
  BY DEF StationInv
<1>3. /\ p \in Int /\ n \in Nat /\ readings' \in Seq(Int) /\ Len(readings') = n + 1
      /\ readings'[n + 1] = p /\ \A i \in 1..n : readings'[i] = readings[i]
  <2>1. p \in Int /\ readings \in Seq(Int) /\ n \in Nat /\ readings' = Append(readings, p)
    BY <1>1, <1>2, <1>n, StationIs, LenProperties DEF StationShape
  <2> QED BY <1>n, <2>1, AppendProperties
<1>4. /\ h \in 0..Slots - 1 /\ isCalibrated \in BOOLEAN
      /\ IF isCalibrated THEN n > h + Slots ELSE n = h + 1
      /\ \A i \in 1..Slots :
            pressureHistory[i] = readings[IF i <= h THEN n - h + i
                                          ELSE IF isCalibrated THEN n - h + i - Slots ELSE 1]
  BY <1>2, <1>h, <1>n DEF Ring
<1>5. /\ pressureHistory' \in [1..Slots -> Int] /\ pressureHistory'[h + 1] = p
      /\ \A i \in 1..Slots : i # h + 1 => pressureHistory'[i] = pressureHistory[i]
      /\ h + 1 \in 1..Slots
  <2>1. h + 1 \in 1..Slots
    BY <1>4, StationIs
  <2> QED BY <1>1, <1>2, <1>3, <2>1 DEF StationShape
<1>6. StationShape'
  <2>1. trend \in Int
    BY <1>2, <1>3, <1>5, <1>t DEF StationShape
  <2>2. since.now \in Int
    BY <1>2 DEF StationShape
  <2>3. since' \in [now : Int, before : Int]
    <3>1. since' = [now |-> 0, before |-> since.now]
      BY <1>1
    <3> QED BY <2>2, <3>1
  <2>4. shown'.trend \in Int
    BY <1>1, <2>1
  <2> QED BY <1>3, <1>5, <2>3, <2>4 DEF StationShape
<1>7. OnClock'
  <2>1. since.now >= Interval
    BY <1>1, <1>2, DueIs DEF Due
  <2>2. since'.now = 0 /\ since'.before = since.now
    BY <1>1
  <2>3. millis' = millis /\ lastReadingTime' = millis /\ millis \in 0..Wrap - 1
    BY <1>1, <1>2 DEF OnClock
  <2>4. 0 \in 0..Interval + MaxLoop - 1 /\ millis = millis + 0
    BY <2>3, StationIs
  <2> QED BY <2>1, <2>2, <2>3, <2>4 DEF OnClock
<1>8. Ring'
  <2>1. CASE h + 1 >= Slots
    <3>0. h + 1 = Slots /\ historyIndex' = 0
      BY <1>1, <1>4, <2>1, StationIs
    <3>1. h + 1 = Slots /\ historyIndex' = 0 /\ isCalibrated' = TRUE
      BY <1>1, <3>0
    <3>2. ASSUME NEW i \in 1..Slots
          PROVE  pressureHistory'[i] = readings'[n + 1 + i - Slots]
      <4>1. CASE i = h + 1
        BY <1>3, <1>5, <3>1, <4>1, StationIs
      <4>2. CASE i # h + 1
        <5>1. i <= h /\ pressureHistory[i] = readings[n - h + i]
          BY <1>4, <3>1, <4>2, StationIs
        <5>2. n - h + i \in 1..n /\ n - h + i = n + 1 + i - Slots
          BY <1>3, <1>4, <3>1, <5>1, StationIs
        <5> QED BY <1>3, <1>5, <4>2, <5>1, <5>2
      <4> QED BY <4>1, <4>2
    <3>3. n + 1 > 0 + Slots
      BY <1>3, <1>4, <3>1, StationIs
    <3>4. \A i \in 1..Slots : ~(i <= 0) /\ n + 1 - 0 + i - Slots = n + 1 + i - Slots
      BY <1>3, StationIs
    <3> QED BY <1>3, <3>1, <3>2, <3>3, <3>4, StationIs DEF Ring
  <2>2. CASE h + 1 < Slots
    <3>a. h \in Nat /\ h + 1 \in 0..Slots - 1 /\ h + 1 # 0 /\ ~(h + 1 >= Slots)
      BY <1>4, <2>2, StationIs
    <3>0. historyIndex' = h + 1 /\ h + 1 \in 0..Slots - 1 /\ h + 1 # 0
      BY <1>1, <3>a
    <3>1. historyIndex' = h + 1 /\ isCalibrated' = isCalibrated /\ h + 1 \in 0..Slots - 1
      BY <1>1, <3>0
    <3>2. IF isCalibrated THEN n + 1 > h + 1 + Slots ELSE n + 1 = h + 1 + 1
      BY <1>3, <1>4, StationIs
    <3>3. ASSUME NEW i \in 1..Slots
          PROVE  pressureHistory'[i] =
                     readings'[IF i <= h + 1 THEN n + 1 - (h + 1) + i
                               ELSE IF isCalibrated THEN n + 1 - (h + 1) + i - Slots ELSE 1]
      <4>1. CASE i = h + 1
        <5>1. n + 1 - (h + 1) + i = n + 1
          BY <1>3, <1>4, <4>1
        <5> QED BY <1>3, <1>5, <4>1, <5>1
      <4>2. CASE i <= h
        <5>1. n + 1 - (h + 1) + i = n - h + i /\ n - h + i \in 1..n /\ i # h + 1 /\ i <= h + 1
          BY <1>3, <1>4, <4>2, StationIs
        <5>2. pressureHistory[i] = readings[n - h + i]
          BY <1>4, <4>2
        <5> QED BY <1>3, <1>5, <5>1, <5>2
      <4>3. CASE i > h + 1 /\ isCalibrated
        <5>1. /\ n + 1 - (h + 1) + i - Slots = n - h + i - Slots /\ n - h + i - Slots \in 1..n
              /\ i # h + 1 /\ ~(i <= h + 1) /\ ~(i <= h)
          BY <1>3, <1>4, <4>3, StationIs
        <5>2. pressureHistory[i] = readings[n - h + i - Slots]
          BY <1>4, <4>3, <5>1
        <5> QED BY <1>3, <1>5, <4>3, <5>1, <5>2
      <4>4. CASE i > h + 1 /\ ~isCalibrated
        <5>1. 1 \in 1..n /\ i # h + 1 /\ ~(i <= h + 1) /\ ~(i <= h)
          BY <1>3, <1>4, <4>4, StationIs
        <5>2. pressureHistory[i] = readings[1]
          BY <1>4, <4>4, <5>1
        <5> QED BY <1>3, <1>5, <4>4, <5>1, <5>2
      <4>5. i = h + 1 \/ i <= h \/ i > h + 1
        BY <1>4
      <4> QED BY <1>4, <4>1, <4>2, <4>3, <4>4, <4>5
    <3> QED BY <1>3, <1>4, <3>1, <3>2, <3>3 DEF Ring
  <2> QED BY <1>4, <2>1, <2>2, StationIs
<1>9. TrendSpansAnHour'
  <2>1. pressureHistory[h + 1] = readings[IF isCalibrated THEN n + 1 - Slots ELSE 1]
    <3>1. ~(h + 1 <= h) /\ n - h + (h + 1) - Slots = n + 1 - Slots
      BY <1>3, <1>4, StationIs
    <3> QED BY <1>4, <1>5, <3>1
  <2>2. ASSUME isCalibrated'
        PROVE  n + 1 > Slots /\ trend = readings'[n + 1] - readings'[n + 1 - Slots]
    <3>1. CASE isCalibrated
      <4>1. n + 1 - Slots \in 1..n
        BY <1>3, <1>4, <3>1, StationIs
      <4> QED BY <1>3, <1>t, <2>1, <3>1, <4>1, StationIs
    <3>2. CASE ~isCalibrated
      <4>a. historyIndex' = 0
        BY <1>1, <2>2, <3>2
      <4>b. h + 1 >= Slots
        <5>1. h \in Nat /\ h + 1 # 0
          BY <1>4, StationIs
        <5>2. 0 = IF h + 1 >= Slots THEN 0 ELSE h + 1
          BY <1>1, <4>a
        <5> QED BY <5>1, <5>2
      <4>1. h + 1 = Slots /\ n = Slots
        BY <1>4, <3>2, <4>b, StationIs
      <4>2. n + 1 - Slots = 1 /\ 1 \in 1..n
        BY <1>3, <4>1, StationIs
      <4> QED BY <1>3, <1>t, <2>1, <3>2, <4>1, <4>2, StationIs
    <3> QED BY <3>1, <3>2
  <2>3. /\ shown'.trend = trend /\ (~isCalibrated' => shown'.text = "Gathering Data...")
        /\ Len(readings') = n + 1
    BY <1>1, <1>3
  <2>4. ASSUME isCalibrated'
        PROVE  /\ Len(readings') > Slots
               /\ shown'.trend = readings'[Len(readings')] - readings'[Len(readings') - Slots]
    <3>1. Len(readings') = n + 1 /\ n + 1 > Slots
      BY <2>2, <2>3, <2>4
    <3>2. trend = readings'[n + 1] - readings'[n + 1 - Slots]
      BY <2>2, <2>4
    <3>3. n + 1 - Slots = Len(readings') - Slots
      BY <1>3, <3>1, StationIs
    <3>4. shown'.trend = readings'[Len(readings')] - readings'[Len(readings') - Slots]
      BY Zenon, <2>3, <3>1, <3>2, <3>3
    <3> QED BY <3>1, <3>4
  <2>5. CASE isCalibrated'
    BY <2>4, <2>5 DEF TrendSpansAnHour, Last
  <2>6. CASE ~isCalibrated'
    BY <2>3, <2>6 DEF TrendSpansAnHour
  <2> QED BY <2>5, <2>6
<1> QED BY <1>6, <1>7, <1>8, <1>9 DEF StationInv

LEMMA StationStep == StationInv /\ [ForecastNext]_station => StationInv'
<1>1. CASE UNCHANGED station
  BY <1>1 DEF station, StationInv, StationShape, OnClock, Ring, TrendSpansAnHour, Last
<1> QED BY <1>1, PassStep, ReadStep DEF ForecastNext
-----------------------------------------------------------------------------
(* A range of a file *)

\* What was sent so far: the header of the range and the bytes that follow its first.
Sent ==
    /\ body \in Seq(Nat) /\ Len(body) <= answer.length
    /\ \A i \in 1..Len(body) : body[i] = answer.first + (i - 1)

FileInv ==
    /\ total \in Nat /\ asked \in Ranges /\ state \in {"open", "sending", "failed", "done"}
    /\ state = "open" => body = <<>>
    /\ state = "sending" => /\ ~Unsatisfiable(asked, total) /\ answer = Head206(asked, total)
                            /\ Sent
    /\ state = "done" =>
          IF Unsatisfiable(asked, total)
          THEN answer = [status |-> 416, first |-> 0, length |-> 0] /\ body = <<>>
          ELSE answer = Head206(asked, total) /\ Sent /\ Len(body) = answer.length

LEMMA TwoIs ==
    ASSUME NEW a \in Int, NEW b \in Int
    PROVE  /\ Max({a, b}) = IF a >= b THEN a ELSE b
           /\ Min({a, b}) = IF a <= b THEN a ELSE b
BY DEF Max, Min

\* The first and the last position of a range.
LEMMA RangeIs ==
    ASSUME NEW r \in Ranges, NEW len \in Nat
    PROVE  /\ First(r, len) \in Nat /\ End(r, len) \in Int /\ End(r, len) <= len - 1
           /\ r.form = "whole" => First(r, len) = 0 /\ End(r, len) = len - 1
           /\ Unsatisfiable(r, len) <=> r.form # "whole" /\ First(r, len) > End(r, len)
           /\ Meaningful(r) =>
                 \A p \in 0..len - 1 :
                     (CASE r.form = "last" -> p >= len - r.n
                        [] r.form = "from" -> p >= r.a
                        [] r.form = "part" -> p \in r.a..r.b
                        [] OTHER -> TRUE) <=> p \in First(r, len)..End(r, len)
<1> USE FileAssumption
<1>1. CASE r \in [form : {"last"}, n : Numbers]
  <2>1. r.form = "last" /\ r.n \in Nat
    BY <1>1
  <2>2. End(r, len) = len - 1
    BY <2>1 DEF End
  <2>3. First(r, len) = IF r.n > 0 /\ len - r.n >= 0 THEN len - r.n ELSE 0
    <3>1. Max({len - r.n, 0}) = IF len - r.n >= 0 THEN len - r.n ELSE 0
      BY <2>1, TwoIs
    <3> QED BY <2>1, <3>1 DEF First
  <2> QED BY <2>1, <2>2, <2>3 DEF Unsatisfiable, Meaningful
<1>2. CASE r \in [form : {"from"}, a : Numbers]
  <2>1. r.form = "from" /\ r.a \in Nat
    BY <1>2
  <2>2. End(r, len) = len - 1 /\ First(r, len) = r.a
    BY <2>1 DEF End, First
  <2> QED BY <2>1, <2>2 DEF Unsatisfiable, Meaningful
<1>3. CASE r \in [form : {"part"}, a : Numbers, b : Numbers]
  <2>1. r.form = "part" /\ r.a \in Nat /\ r.b \in Nat
    BY <1>3
  <2>2. First(r, len) = r.a
    BY <2>1 DEF First
  <2>3. End(r, len) = IF r.b <= len - 1 THEN r.b ELSE len - 1
    <3>1. r.b \in Int /\ len - 1 \in Int
      BY <2>1
    <3>2. Min({r.b, len - 1}) = IF r.b <= len - 1 THEN r.b ELSE len - 1
      BY Zenon, <3>1, TwoIs
    <3> QED BY <2>1, <3>2 DEF End
  <2> QED BY <2>1, <2>2, <2>3 DEF Unsatisfiable, Meaningful
<1>4. CASE r = [form |-> "whole"]
  <2>1. r.form = "whole"
    BY <1>4
  <2>2. End(r, len) = len - 1 /\ First(r, len) = 0
    BY <2>1 DEF End, First
  <2> QED BY <2>1, <2>2 DEF Unsatisfiable, Meaningful
<1> QED BY <1>1, <1>2, <1>3, <1>4 DEF Ranges

\* The bytes that are asked for.
LEMMA WantedIs ==
    ASSUME total \in Nat, asked \in Ranges, Meaningful(asked)
    PROVE  {p \in 0..total - 1 : Meant(asked, p)} = First(asked, total)..End(asked, total)
<1>1. /\ First(asked, total) \in Nat /\ End(asked, total) \in Int
      /\ End(asked, total) <= total - 1
  BY RangeIs
<1>2. \A p \in 0..total - 1 : Meant(asked, p) <=> p \in First(asked, total)..End(asked, total)
  BY RangeIs DEF Meant
<1> QED BY <1>1, <1>2

LEMMA FileInitInv == FileInit => FileInv
BY FileAssumption DEF FileInit, FileInv

LEMMA FileStep == FileInv /\ [FileNext]_file => FileInv'
<1> SUFFICES ASSUME FileInv, [FileNext]_file PROVE FileInv'
  OBVIOUS
<1>0. total \in Nat /\ asked \in Ranges /\ Piece \in Nat \ {0}
  BY FileAssumption DEF FileInv
<1>h. /\ Head206(asked, total).first = First(asked, total)
      /\ Head206(asked, total).length = End(asked, total) - First(asked, total) + 1
      /\ First(asked, total) \in Nat /\ End(asked, total) \in Int
      /\ End(asked, total) <= total - 1
      /\ ~Unsatisfiable(asked, total) => Head206(asked, total).length \in Nat
  <2>1. /\ First(asked, total) \in Nat /\ End(asked, total) \in Int
        /\ End(asked, total) <= total - 1
        /\ ~Unsatisfiable(asked, total) =>
               \/ First(asked, total) = 0 /\ End(asked, total) = total - 1
               \/ First(asked, total) <= End(asked, total)
    BY <1>0, RangeIs
  <2> QED BY <1>0, <2>1 DEF Head206
<1>1. CASE SendHead
  <2>1. state = "open" /\ body' = body /\ total' = total /\ asked' = asked /\ body = <<>>
    BY <1>1 DEF SendHead, FileInv
  <2>2. CASE Unsatisfiable(asked, total)
    BY <1>0, <1>1, <2>1, <2>2 DEF SendHead, FileInv, Unsatisfiable, First, End
  <2>3. CASE ~Unsatisfiable(asked, total)
    <3>1. answer' = Head206(asked, total) /\ state' \in {"sending", "failed"}
      BY <1>1, <2>3 DEF SendHead
    <3>2. Sent'
      BY <1>h, <2>1, <2>3, <3>1 DEF Sent
    <3>3. ~Unsatisfiable(asked', total') /\ answer' = Head206(asked', total')
      BY <2>1, <2>3, <3>1
    <3> QED BY <1>0, <2>1, <3>1, <3>2, <3>3 DEF FileInv
  <2> QED BY <2>2, <2>3
<1>2. CASE SendPiece
  <2>1. /\ state = "sending" /\ Left > 0 /\ total' = total /\ asked' = asked /\ answer' = answer
    BY <1>2 DEF SendPiece
  <2>2. /\ ~Unsatisfiable(asked, total) /\ answer = Head206(asked, total) /\ Sent
    BY <2>1 DEF FileInv
  <2>n. PICK n : n = Len(body)
    OBVIOUS
  <2>3. /\ n \in Nat /\ body \in Seq(Nat) /\ answer.first \in Nat /\ answer.length \in Nat
        /\ n < answer.length /\ Left = answer.length - n
        /\ answer.first + n < total
    BY <1>0, <1>h, <2>1, <2>2, <2>n, LenProperties DEF Sent, Left
  <2>a. PICK at \in Nat : at = answer.first + n
    BY <2>3
  <2>t. PICK take : take = Min({Left, Piece})
    OBVIOUS
  <2>4. take \in Nat \ {0} /\ take <= Left
    <3>1. Left \in Int /\ Piece \in Int
      BY <1>0, <2>3
    <3>2. take = IF Left <= Piece THEN Left ELSE Piece
      BY Zenon, <2>t, <3>1, TwoIs
    <3> QED BY <1>0, <2>1, <3>1, <3>2
  <2>5. PICK there : there = Max({0, Min({take, total - at})})
    OBVIOUS
  <2>6. there \in Nat \ {0} /\ there <= Left /\ there <= total - at
    <3>1. Min({take, total - at}) = IF take <= total - at THEN take ELSE total - at
      <4>1. take \in Int /\ total - at \in Int
        BY <1>0, <2>3, <2>4, <2>a
      <4> QED BY Zenon, <4>1, TwoIs
    <3>2. PICK least \in Nat \ {0} : least = Min({take, total - at}) /\ least <= take /\ least <= total - at
      BY <1>0, <2>3, <2>4, <2>a, <3>1
    <3>3. there = least
      <4>1. least \in Int /\ 0 \in Int /\ there = Max({0, least})
        BY <2>5, <3>2
      <4>2. there = IF 0 >= least THEN 0 ELSE least
        BY Zenon, <4>1, TwoIs
      <4> QED BY <3>2, <4>2
    <3> QED BY <2>3, <2>4, <3>2, <3>3
  <2>7. \/ body' = body \o [i \in 1..there |-> at + i - 1] /\ state' = state
        \/ state' = "failed" /\ body' = body
    BY <1>2, <2>6, <2>n, <2>a, <2>t, <2>5 DEF SendPiece
  <2>8. CASE state' = "failed" /\ body' = body
    BY <1>0, <2>1, <2>8 DEF FileInv
  <2>9. CASE body' = body \o [i \in 1..there |-> at + i - 1] /\ state' = state
    <3>1. PICK more : more = [i \in 1..there |-> at + i - 1]
      OBVIOUS
    <3>2. more \in Seq(Nat) /\ Len(more) = there /\ \A i \in 1..there : more[i] = at + i - 1
      <4>1. \A i \in 1..there : at + i - 1 \in Nat
        BY <2>6
      <4> QED BY <2>6, <3>1, <4>1, IsASeq
    <3>3. /\ body' \in Seq(Nat) /\ Len(body') = n + there
          /\ \A i \in 1..n + there : body'[i] = IF i <= n THEN body[i] ELSE more[i - n]
      <4>1. body' = body \o more /\ body \in Seq(Nat) /\ more \in Seq(Nat)
        BY <2>3, <2>9, <3>1, <3>2
      <4> QED BY <2>n, <3>2, <4>1, ConcatProperties
    <3>4. ASSUME NEW i \in 1..n + there PROVE body'[i] = answer.first + (i - 1)
      <4>1. CASE i <= n
        <5>1. i \in 1..n
          BY <2>3, <2>6, <4>1
        <5> QED BY <2>2, <2>n, <3>3, <4>1, <5>1 DEF Sent
      <4>2. CASE i > n
        <5>1. i - n \in 1..there /\ ~(i <= n)
          BY <2>3, <2>6, <4>2
        <5>2. at + (i - n) - 1 = answer.first + (i - 1)
          BY <2>3, <2>a, <5>1
        <5> QED BY <3>2, <3>3, <5>1, <5>2
      <4>3. i \in Nat /\ n \in Nat /\ (i <= n \/ i > n)
        BY <2>n, <2>6
      <4> QED BY <4>1, <4>2, <4>3
    <3>5. Sent'
      <4>1. Len(body') <= answer.length
        BY <2>3, <2>6, <3>3
      <4>2. Len(body') = n + there /\ answer' = answer
        BY <2>1, <3>3
      <4> QED BY <3>3, <3>4, <4>1, <4>2 DEF Sent
    <3>6. state' = "sending" /\ ~Unsatisfiable(asked', total') /\ answer' = Head206(asked', total')
      BY <2>1, <2>2, <2>9
    <3> QED BY <1>0, <2>1, <3>5, <3>6 DEF FileInv
  <2> QED BY <2>7, <2>8, <2>9
<1>3. CASE SentAll
  <2>1. /\ state = "sending" /\ Left = 0 /\ state' = "done" /\ UNCHANGED <<total, asked, answer, body>>
    BY <1>3 DEF SentAll
  <2>2. /\ ~Unsatisfiable(asked, total) /\ answer = Head206(asked, total) /\ Sent
    BY <2>1 DEF FileInv
  <2>3. Len(body) = answer.length
    BY <1>h, <2>1, <2>2, LenProperties DEF Left, Sent
  <2>4. Sent'
    BY <2>1, <2>2 DEF Sent
  <2>5. ~Unsatisfiable(asked', total') /\ answer' = Head206(asked', total') /\ Len(body') = answer'.length
    BY <2>1, <2>2, <2>3
  <2> QED BY <1>0, <2>1, <2>4, <2>5 DEF FileInv
<1>4. CASE UNCHANGED file
  BY <1>4 DEF file, FileInv, Sent, Unsatisfiable, Head206, First, End
<1> QED BY <1>1, <1>2, <1>3, <1>4 DEF FileNext

LEMMA FileRight == FileInv => RightBytes
<1> SUFFICES ASSUME FileInv, state = "done", Meaningful(asked)
             PROVE  LET wanted == {p \in 0..total - 1 : Meant(asked, p)} IN
                    /\ ToSet(body) = wanted /\ Len(body) = Cardinality(wanted)
                    /\ Len(body) = answer.length
                    /\ \A i \in 2..Len(body) : body[i] = body[i - 1] + 1
                    /\ answer.status = 416 <=> (wanted = {} /\ asked.form # "whole")
  BY DEF RightBytes
<1>1. total \in Nat /\ asked \in Ranges
  BY DEF FileInv
<1>w. PICK wanted : wanted = {p \in 0..total - 1 : Meant(asked, p)}
  OBVIOUS
<1>f. PICK f \in Nat, e \in Int : f = First(asked, total) /\ e = End(asked, total)
  BY <1>1, RangeIs
<1>2. /\ wanted = f..e /\ (Unsatisfiable(asked, total) <=> asked.form # "whole" /\ f > e)
      /\ asked.form = "whole" => f = 0 /\ e = total - 1
      /\ Cardinality(wanted) = IF f > e THEN 0 ELSE e - f + 1
  <2>1. wanted = f..e
    BY <1>1, <1>w, <1>f, WantedIs
  <2>2. Cardinality(f..e) = IF f > e THEN 0 ELSE e - f + 1
    BY FS_Interval
  <2>3. /\ Unsatisfiable(asked, total) <=> asked.form # "whole" /\ f > e
        /\ asked.form = "whole" => f = 0 /\ e = total - 1
    BY <1>1, <1>f, RangeIs
  <2> QED BY <2>1, <2>2, <2>3
<1>3. CASE Unsatisfiable(asked, total)
  <2>1. answer = [status |-> 416, first |-> 0, length |-> 0] /\ body = <<>>
    BY <1>3 DEF FileInv
  <2>2. wanted = {} /\ asked.form # "whole" /\ Cardinality(wanted) = 0
    BY <1>2, <1>3
  <2>3. ToSet(body) = {} /\ Len(body) = 0 /\ 2..0 = {}
    BY <2>1 DEF ToSet
  <2>4. answer.status = 416 /\ answer.length = 0
    BY <2>1
  <2> QED BY <1>w, <2>2, <2>3, <2>4
<1>4. CASE ~Unsatisfiable(asked, total)
  <2>1. answer = Head206(asked, total) /\ Sent /\ Len(body) = answer.length
    BY <1>4 DEF FileInv
  <2>2. /\ answer.first = f /\ answer.length = e - f + 1 /\ answer.status # 416
    BY <1>f, <2>1 DEF Head206
  <2>n. PICK n : n = Len(body)
    OBVIOUS
  <2>3. /\ n \in Nat /\ n = e - f + 1 /\ body \in Seq(Nat) /\ DOMAIN body = 1..n
        /\ \A i \in 1..n : body[i] = f + (i - 1)
    BY <2>1, <2>2, <2>n, LenProperties DEF Sent
  <2>4. ToSet(body) = wanted
    <3>1. \A i \in 1..n : f + (i - 1) \in f..e
      BY <2>3
    <3>2. \A p \in f..e : p - f + 1 \in 1..n /\ p = f + ((p - f + 1) - 1)
      BY <2>3
    <3>3. \A p \in f..e : \E i \in 1..n : body[i] = p
      BY <2>3, <3>2
    <3>4. ToSet(body) = {body[i] : i \in 1..n}
      BY <2>3 DEF ToSet
    <3>5. {body[i] : i \in 1..n} = f..e
      BY <2>3, <3>1, <3>3
    <3> QED BY <1>2, <3>4, <3>5
  <2>5. n = Cardinality(wanted)
    BY <1>2, <2>3
  <2>6. \A i \in 2..n : body[i] = body[i - 1] + 1
    <3>1. \A i \in 2..n : i \in 1..n /\ i - 1 \in 1..n /\ f + (i - 1) = (f + ((i - 1) - 1)) + 1
      BY <2>3
    <3> QED BY <2>3, <3>1
  <2>7. ~(wanted = {} /\ asked.form # "whole")
    <3>1. wanted = {} => f > e
      BY <1>2
    <3> QED BY <1>2, <1>4, <3>1
  <2> QED BY <1>w, <2>1, <2>2, <2>n, <2>4, <2>5, <2>6, <2>7
<1> QED BY <1>3, <1>4
-----------------------------------------------------------------------------
(* The name server *)

Buffers == [1..BufLen -> [value : 0..255, packet : Nat]]

DnsInv == buf \in Buffers /\ packets \in Nat /\ OwnQuestion

\* A set of numbers has a least.
LEMMA LeastExists ==
    ASSUME NEW T, T \subseteq Nat, T # {}
    PROVE  \E x \in T : \A y \in T : x <= y
<1> DEFINE Below(x) == 0..x
           R == StrictSubsetOrdering(Nat)
           B == {Below(x) : x \in T}
<1>1. \E b \in B : \A c \in B : ~(<<c, b>> \in R)
  <2>1. \A x \in T : IsFiniteSet(Below(x)) /\ Below(x) \subseteq Nat
    BY FS_Interval
  <2>2. B \subseteq FiniteSubsetsOf(Nat) /\ B # {}
    BY <2>1 DEF FiniteSubsetsOf
  <2> QED BY <2>2, FS_StrictSubsetOrderingWellFounded, WFMin
<1>2. PICK x \in T : \A y \in T : ~(<<Below(y), Below(x)>> \in R)
  BY <1>1
<1>3. \A y \in T : x <= y
  <2> SUFFICES ASSUME NEW y \in T, y < x PROVE FALSE
    OBVIOUS
  <2>1. Below(y) \subseteq Below(x) /\ x \in Below(x) /\ x \notin Below(y)
    OBVIOUS
  <2>2. <<Below(y), Below(x)>> \in R
    BY <2>1 DEF StrictSubsetOrdering
  <2> QED BY <1>2, <2>2
<1> QED BY <1>3

\* Where a name ends is defined from the places behind it: there is such a function,
\* and its values are places.
LEMMA NameEndIs ==
    ASSUME NEW b \in Buffers, NEW len \in Nat, len <= BufLen, HeaderLen <= len
    PROVE  NameEnd(b, len) \in Nat
<1> DEFINE N == len + 255
           Stop(i) == i >= len \/ b[i + 1].value = 0
           Next1(i) == i + b[i + 1].value + 1
           Fix(f) == f = [i \in 0..N |-> IF Stop(i) THEN i ELSE f[Next1(i)]]
           Ends(g, k) == g \in [k..N -> Nat] /\ \A i \in k..N : g[i] = IF Stop(i) THEN i ELSE g[Next1(i)]
           K == {k \in 0..N + 1 : \E g : Ends(g, k)}
<1>1. N \in Nat /\ HeaderLen \in 0..N
  <2>1. HeaderLen \in Nat
    BY DnsAssumption
  <2> QED BY <2>1
<1>2. \A i \in 0..N : ~Stop(i) => Next1(i) \in i + 1..N
  <2> SUFFICES ASSUME NEW i \in 0..N, ~Stop(i) PROVE Next1(i) \in i + 1..N
    OBVIOUS
  <2>1. i < len /\ i + 1 \in 1..BufLen /\ BufLen \in Nat
    BY DnsAssumption, <1>1
  <2>2. b[i + 1].value \in 0..255
    BY <2>1 DEF Buffers
  <2>3. Next1(i) = i + b[i + 1].value + 1 /\ i + b[i + 1].value + 1 >= i + 1
    BY <2>2
  <2> QED BY <1>1, <2>1, <2>2, <2>3
<1> HIDE DEF N, Stop, Next1
<1>3. N + 1 \in K
  <2>1. (N + 1)..N = {} /\ N + 1 \in 0..N + 1
    BY <1>1
  <2>2. Ends([i \in (N + 1)..N |-> 0], N + 1)
    BY <2>1
  <2> QED BY <2>1, <2>2
<1>4. PICK k \in K : \A j \in K : k <= j
  <2>1. K \subseteq Nat /\ K # {}
    BY <1>1, <1>3
  <2> HIDE DEF K
  <2> QED BY <2>1, LeastExists
<1>5. PICK g : Ends(g, k)
  OBVIOUS
<1>6. k = 0
  <2> SUFFICES ASSUME k # 0 PROVE FALSE
    OBVIOUS
  <2>1. k - 1 \in 0..N /\ k \in 1..N + 1 /\ k - 1 \in 0..N + 1
    BY <1>1
  <2> DEFINE h == [i \in k - 1..N |-> IF i = k - 1
                                      THEN (IF Stop(i) THEN i ELSE g[Next1(i)]) ELSE g[i]]
  <2>2. \A i \in k - 1..N : i = k - 1 \/ i \in k..N
    BY <1>1, <2>1
  <2>3. ~Stop(k - 1) => Next1(k - 1) \in k..N
    BY <1>2, <2>1
  <2>4. h \in [k - 1..N -> Nat]
    <3>1. \A i \in k..N : g[i] \in Nat
      BY <1>5
    <3> QED BY <2>1, <2>2, <2>3, <3>1
  <2>5. ASSUME NEW i \in k - 1..N PROVE h[i] = IF Stop(i) THEN i ELSE h[Next1(i)]
    <3>1. CASE i = k - 1
      <4>1. h[i] = IF Stop(i) THEN i ELSE g[Next1(i)]
        BY <3>1
      <4>2. ~Stop(i) => Next1(i) \in k - 1..N /\ Next1(i) # k - 1
        BY <1>1, <2>1, <2>3, <3>1
      <4>3. ~Stop(i) => h[Next1(i)] = g[Next1(i)]
        BY <4>2
      <4> QED BY <4>1, <4>3
    <3>2. CASE i # k - 1
      <4>1. i \in k..N /\ h[i] = g[i]
        BY <2>2, <3>2
      <4>2. g[i] = IF Stop(i) THEN i ELSE g[Next1(i)]
        BY <1>5, <4>1
      <4>3. ~Stop(i) => Next1(i) \in k - 1..N /\ Next1(i) # k - 1
        <5>1. i \in 0..N
          BY <1>1, <2>1, <4>1
        <5>2. ~Stop(i) => Next1(i) \in i + 1..N
          BY <1>2, <5>1
        <5> QED BY <1>1, <2>1, <4>1, <5>2
      <4>4. ~Stop(i) => h[Next1(i)] = g[Next1(i)]
        BY <4>3
      <4> QED BY <4>1, <4>2, <4>4
    <3> QED BY <3>1, <3>2
  <2>6. Ends(h, k - 1)
    <3> HIDE DEF h
    <3> QED BY <2>4, <2>5
  <2>7. k - 1 \in K
    <3> HIDE DEF Ends, h
    <3> QED BY <2>1, <2>6
  <2> QED BY <1>4, <2>1, <2>7
<1>7. \E f : Fix(f)
  <2>1. g \in [0..N -> Nat] /\ \A i \in 0..N : g[i] = IF Stop(i) THEN i ELSE g[Next1(i)]
    BY <1>5, <1>6
  <2>2. Fix(g)
    BY <2>1
  <2> QED BY <2>2
<1>8. ASSUME NEW f, Fix(f) PROVE f[HeaderLen] \in Nat
  <2> DEFINE Bad == {i \in 0..N : f[N - i] \notin Nat}
  <2>1. Bad = {}
    <3> SUFFICES ASSUME Bad # {} PROVE FALSE
      OBVIOUS
    <3>1. PICK i \in Bad : \A j \in Bad : i <= j
      <4>1. Bad \subseteq Nat
        OBVIOUS
      <4> HIDE DEF Bad
      <4> QED BY <4>1, LeastExists
    <3>2. PICK p \in 0..N : p = N - i /\ i = N - p
      BY <1>1
    <3>3. f[p] = IF Stop(p) THEN p ELSE f[Next1(p)]
      BY <1>8
    <3>4. f[p] \notin Nat /\ p \in Nat
      BY <3>1, <3>2
    <3>5. ~Stop(p) /\ f[Next1(p)] \notin Nat
      BY <3>3, <3>4
    <3>6. PICK q \in p + 1..N : q = Next1(p) /\ f[q] \notin Nat
      BY <1>2, <3>2, <3>5
    <3>7. N - q \in 0..N /\ N - (N - q) = q /\ N - q < i
      BY <1>1, <3>2, <3>6
    <3>8. N - q \in Bad
      BY <3>6, <3>7
    <3>9. i <= N - q
      BY <3>1, <3>8
    <3> QED BY <1>1, <3>2, <3>6, <3>7, <3>9
  <2>2. N - HeaderLen \in 0..N /\ N - (N - HeaderLen) = HeaderLen
    BY <1>1
  <2> QED BY <2>1, <2>2
<1>9. NameEnd(b, len) = (CHOOSE f : Fix(f))[HeaderLen]
  BY DEF NameEnd, N, Stop, Next1
<1> QED
  <2> HIDE DEF Fix
  <2> QED BY <1>7, <1>8, <1>9

LEMMA DnsInitInv == DnsInit => DnsInv
<1> SUFFICES ASSUME DnsInit PROVE DnsInv
  OBVIOUS
<1>1. buf = [i \in 1..BufLen |-> Byte(0, 0)] /\ packets = 0 /\ reply = NoReply
  BY DEF DnsInit
<1>2. Byte(0, 0) \in [value : 0..255, packet : Nat]
  BY DEF Byte
<1> QED BY <1>1, <1>2 DEF DnsInv, Buffers, OwnQuestion

LEMMA HandleStep ==
    ASSUME DnsInv, NEW datagram \in Packets, Handle(datagram)
    PROVE  DnsInv'
<1> DEFINE packet == SubSeq(datagram, 1, Min({Len(datagram), BufLen - Spare}))
           len == Len(packet)
           b == [i \in DOMAIN buf |-> IF i <= len THEN Byte(packet[i], packets') ELSE buf[i]]
           end == NameEnd(b, len)
           two(i) == b[i + 1].value * 256 + b[i + 2].value
           qend == end + 5
           known == two(end + 1) \in {1, 255} /\ two(end + 3) = 1
<1>5. /\ packets' = packets + 1
      /\ IF len < HeaderLen \/ TooShort(end, len)
         THEN buf' = b /\ reply' = NoReply
         ELSE /\ reply' = [len |-> qend + (IF known THEN AnswerLen ELSE 0), question |-> qend,
                           of |-> packets', records |-> IF known THEN 1 ELSE 0]
              /\ buf' = [i \in DOMAIN buf |->
                            IF known /\ i \in qend + 1..qend + AnswerLen
                            THEN Byte(1, packets') ELSE b[i]]
  BY DEF Handle
<1> HIDE DEF packet, len, b, end, two, qend, known
<1>0. /\ BufLen \in Nat /\ Spare \in Nat /\ HeaderLen \in Nat /\ AnswerLen \in Nat
      /\ Spare + HeaderLen < BufLen /\ AnswerLen <= Spare
      /\ datagram \in Seq(0..255) /\ Len(datagram) \in Nat
  BY DnsAssumption, LenProperties
<1>t. PICK take : take = Min({Len(datagram), BufLen - Spare})
  OBVIOUS
<1>1. take \in Nat /\ take <= Len(datagram) /\ take <= BufLen - Spare
  <2>1. Len(datagram) \in Int /\ BufLen - Spare \in Int
    BY <1>0
  <2>2. take = IF Len(datagram) <= BufLen - Spare THEN Len(datagram) ELSE BufLen - Spare
    BY Zenon, <1>t, <2>1, TwoIs
  <2> QED BY <1>0, <2>2
<1>p. packet = SubSeq(datagram, 1, take)
  BY <1>t DEF packet
<1>2. Len(packet) = take /\ \A i \in 1..take : packet[i] \in 0..255
  <2>1. \A i \in 1..take : datagram[i] \in 0..255
    <3>1. \A i \in 1..take : i \in 1..Len(datagram)
      BY <1>0, <1>1
    <3> QED BY <1>0, <3>1, ElementOfSeq
  <2>2. packet \in Seq(0..255) /\ Len(packet) = IF 1 <= take THEN take - 1 + 1 ELSE 0
    <3>1. 1 \in Int /\ take \in Int
      BY <1>1
    <3> QED BY <1>p, <2>1, <3>1, SubSeqProperties
  <2>3. Len(packet) = take
    BY <1>1, <2>2
  <2>4. \A i \in 1..take : packet[i] \in 0..255
    BY <2>2, <2>3, ElementOfSeq
  <2> QED BY <2>3, <2>4
<1>l. len = take
  BY <1>2 DEF len
<1>n. PICK now \in Nat : now = packets'
  BY <1>5 DEF DnsInv
<1>b. b = [i \in DOMAIN buf |-> IF i <= take THEN Byte(packet[i], now) ELSE buf[i]]
  BY <1>l, <1>n DEF b
<1>3. DOMAIN buf = 1..BufLen /\ \A i \in 1..BufLen : buf[i] \in [value : 0..255, packet : Nat]
  BY DEF DnsInv, Buffers
<1>4. b \in Buffers /\ \A i \in 1..take : b[i].packet = now
  <2>1. \A i \in 1..take : Byte(packet[i], now) \in [value : 0..255, packet : Nat]
    BY <1>2 DEF Byte
  <2>2. \A i \in 1..BufLen : i <= take => i \in 1..take
    BY <1>1
  <2>3. \A i \in 1..BufLen : b[i] \in [value : 0..255, packet : Nat]
    BY <1>b, <1>3, <2>1, <2>2
  <2>4. b \in Buffers
    BY <1>b, <1>3, <2>3 DEF Buffers
  <2>5. \A i \in 1..take : i \in 1..BufLen /\ i <= take
    BY <1>0, <1>1
  <2>6. \A i \in 1..take : b[i] = Byte(packet[i], now)
    BY <1>b, <1>3, <2>5
  <2>7. \A i \in 1..take : Byte(packet[i], now).packet = now
    BY DEF Byte
  <2> QED BY <2>4, <2>6, <2>7
<1>6. CASE take < HeaderLen \/ TooShort(end, take)
  BY <1>l, <1>n, <1>4, <1>5, <1>6 DEF DnsInv, OwnQuestion
<1>7. CASE ~(take < HeaderLen \/ TooShort(end, take))
  <2>1. /\ reply' = [len |-> qend + (IF known THEN AnswerLen ELSE 0), question |-> qend,
                     of |-> now, records |-> IF known THEN 1 ELSE 0]
        /\ buf' = [i \in 1..BufLen |->
                      IF known /\ i \in qend + 1..qend + AnswerLen THEN Byte(1, now) ELSE b[i]]
    BY <1>3, <1>5, <1>7, <1>l, <1>n
  <2>2. end \in Nat
    <3>1. HeaderLen <= take /\ take <= BufLen
      BY <1>0, <1>1, <1>7
    <3> QED BY <1>1, <1>4, <1>l, <3>1, NameEndIs DEF end
  <2>3. qend \in Nat /\ qend <= take
    BY <1>1, <1>7, <2>2 DEF TooShort, qend
  <2>4. buf' \in Buffers
    <3>1. Byte(1, now) \in [value : 0..255, packet : Nat]
      BY DEF Byte
    <3>2. \A i \in 1..BufLen : b[i] \in [value : 0..255, packet : Nat]
      BY <1>4 DEF Buffers
    <3> QED BY <2>1, <3>1, <3>2 DEF Buffers
  <2>5. reply'.len <= BufLen
    <3>1. reply'.len = qend + (IF known THEN AnswerLen ELSE 0)
      BY <2>1
    <3> QED BY <1>0, <1>1, <2>3, <3>1
  <2>6. ASSUME NEW i \in 1..reply'.question PROVE buf'[i].packet = reply'.of
    <3>1. i \in 1..take /\ i \in 1..BufLen /\ i \notin qend + 1..qend + AnswerLen /\ reply'.of = now
      BY <1>0, <1>1, <2>1, <2>3
    <3> QED BY <1>4, <2>1, <3>1
  <2> QED BY <1>n, <2>4, <2>5, <2>6 DEF DnsInv, OwnQuestion
<1> QED BY <1>6, <1>7

LEMMA DnsStep == DnsInv /\ [DnsNext]_dns => DnsInv'
<1>1. CASE UNCHANGED dns
  BY <1>1 DEF dns, DnsInv, OwnQuestion
<1> QED BY <1>1, HandleStep DEF DnsNext
-----------------------------------------------------------------------------
(* Conversions of text *)

\* How many of T are among 1..n.
Count(T, n) == Cardinality((1..n) \cap T)

\* Counting one place further counts one more, or as many.
LEMMA CountNext ==
    ASSUME NEW T, NEW n \in Nat
    PROVE  /\ Count(T, 0) = 0 /\ Count(T, n) \in Nat
           /\ n + 1 \in T => Count(T, n + 1) = Count(T, n) + 1
           /\ n + 1 \notin T => Count(T, n + 1) = Count(T, n)
<1>1. (1..0) \cap T = {} /\ Count(T, 0) = 0
  BY FS_EmptySet DEF Count
<1>2. IsFiniteSet((1..n) \cap T) /\ Count(T, n) \in Nat
  <2>1. IsFiniteSet(1..n)
    BY FS_Interval
  <2> QED BY <2>1, FS_Subset, FS_CardinalityType DEF Count
<1>3. ASSUME n + 1 \in T PROVE Count(T, n + 1) = Count(T, n) + 1
  <2>1. (1..n + 1) \cap T = ((1..n) \cap T) \cup {n + 1} /\ n + 1 \notin (1..n) \cap T
    BY <1>3
  <2> QED BY <1>2, <2>1, FS_AddElement DEF Count
<1>4. ASSUME n + 1 \notin T PROVE Count(T, n + 1) = Count(T, n)
  <2>1. (1..n + 1) \cap T = (1..n) \cap T
    BY <1>4
  <2> QED BY <2>1 DEF Count
<1> QED BY <1>1, <1>2, <1>3, <1>4

\* Counting further counts no fewer.
LEMMA CountGrows ==
    ASSUME NEW T, NEW m \in Nat, NEW n \in Nat, m <= n
    PROVE  Count(T, m) <= Count(T, n)
<1>1. IsFiniteSet((1..n) \cap T)
  <2>1. IsFiniteSet(1..n)
    BY FS_Interval
  <2> QED BY <2>1, FS_Subset
<1>2. (1..m) \cap T \subseteq (1..n) \cap T
  OBVIOUS
<1> QED BY <1>1, <1>2, FS_Subset DEF Count

\* What a string on its way consists of: characters and hex digits.
Bytes == UNION {{Is(x), <<"high", x>>, <<"low", x>>} : x \in Letters \cup {"%", "+", " ", "<", "&", "quote"}}

\* Three bytes for a character are its own again; no byte is the end of a string.
LEMMA CharactersAre ==
    /\ \A c \in Characters : c \in Bytes /\ c = Is(c[2]) /\ Hex(c) \in Seq(Bytes) /\ Len(Hex(c)) = 3
    /\ \A c \in Characters : Hex(c)[1] = Is("%") /\ HexValue(Hex(c)[2], Hex(c)[3]) = c
    /\ Is("%") \in Characters /\ Is("+") \in Characters /\ Is(" ") \in Characters
    /\ Is("%") # Is("+") /\ Is("%") # Is(" ") /\ Is("+") # Is(" ")
    /\ \A b \in Bytes : b # EndOfString
<1>1. ASSUME NEW c \in Characters PROVE c \in Bytes /\ c = Is(c[2])
  <2>1. PICK x \in Letters \cup {"%", "+", " ", "<", "&", "quote"} : c = Is(x)
    BY DEF Characters
  <2>2. c[2] = x
    BY <2>1 DEF Is
  <2>3. c \in {Is(x), <<"high", x>>, <<"low", x>>}
    BY <2>1
  <2> QED BY <2>1, <2>2, <2>3 DEF Bytes
<1>2. ASSUME NEW c \in Characters
      PROVE  /\ Hex(c) \in Seq(Bytes) /\ Len(Hex(c)) = 3 /\ Hex(c)[1] = Is("%")
             /\ HexValue(Hex(c)[2], Hex(c)[3]) = c
  <2> DEFINE S == Letters \cup {"%", "+", " ", "<", "&", "quote"}
             High(x) == <<"high", x>>
             Low(x) == <<"low", x>>
  <2>1. PICK x \in S : c = Is(x)
    BY DEF Characters
  <2>2. /\ Is(x)[2] = x /\ High(x)[1] = "high" /\ High(x)[2] = x
        /\ High(x) = <<"high", x>> /\ Low(x) = <<"low", x>>
    BY DEF Is
  <2>3. Hex(c) = <<Is("%"), High(x), Low(x)>> /\ HexValue(High(x), Low(x)) = c
    BY <2>1, <2>2 DEF Hex, HexValue
  <2>4. \A y \in S : Is(y) \in Bytes /\ High(y) \in Bytes /\ Low(y) \in Bytes
    <3> TAKE y \in S
    <3>1. {Is(y), High(y), Low(y)} \subseteq Bytes
      BY Zenon DEF Bytes
    <3> HIDE DEF High, Low
    <3> QED BY <3>1
  <2>5. "%" \in S
    OBVIOUS
  <2> HIDE DEF S, High, Low
  <2>6. Is("%") \in Bytes /\ High(x) \in Bytes /\ Low(x) \in Bytes
    BY <2>4, <2>5
  <2> QED BY <2>3, <2>6
<1>3. /\ Is("%") \in Characters /\ Is("+") \in Characters /\ Is(" ") \in Characters
      /\ Is("%") # Is("+") /\ Is("%") # Is(" ") /\ Is("+") # Is(" ")
  BY DEF Characters, Is
<1>4. ASSUME NEW b \in Bytes PROVE b # EndOfString
  <2>1. PICK x : b \in {<<"is", x>>, <<"high", x>>, <<"low", x>>}
    BY DEF Bytes, Is
  <2>2. b[1] \in {"is", "high", "low"}
    BY <2>1
  <2>3. EndOfString[1] = "end"
    BY DEF EndOfString
  <2> QED BY <2>2, <2>3
<1> QED BY <1>1, <1>2, <1>3, <1>4

\* Where the k-th character is written: behind the ones before it.
LEMMA FromIs ==
    ASSUME NEW t \in Seq(Characters), NEW form \in BOOLEAN
    PROVE  /\ From(t, form, 1) = 1
           /\ \A k \in Nat \ {0} : From(t, form, k) \in Nat \ {0}
           /\ \A k \in Nat \ {0} : From(t, form, k + 1) =
                 IF t[k] \in Coded(form) THEN From(t, form, k) + 3 ELSE From(t, form, k) + 1
           /\ \A j, k \in Nat \ {0} : j <= k => From(t, form, j) <= From(t, form, k) /\ k <= From(t, form, k)
           /\ \A j, k \in Nat \ {0} : j < k => From(t, form, j) < From(t, form, k)
<1> DEFINE T == {j \in Nat : t[j] \in Coded(form)}
<1>1. \A k \in Nat \ {0} : From(t, form, k) = k + 2 * Count(T, k - 1)
  <2> SUFFICES ASSUME NEW k \in Nat \ {0} PROVE From(t, form, k) = k + 2 * Count(T, k - 1)
    OBVIOUS
  <2>1. {j \in 1..k - 1 : t[j] \in Coded(form)} = (1..k - 1) \cap T
    OBVIOUS
  <2> QED BY <2>1 DEF From, Count
<1> HIDE DEF T
<1>2. \A k \in Nat \ {0} : k - 1 \in Nat /\ Count(T, k - 1) \in Nat
  BY CountNext
<1>3. From(t, form, 1) = 1
  <2>1. Count(T, 0) = 0
    BY CountNext
  <2> QED BY <1>1, <2>1
<1>4. ASSUME NEW k \in Nat \ {0}
      PROVE  From(t, form, k + 1) = IF t[k] \in Coded(form) THEN From(t, form, k) + 3 ELSE From(t, form, k) + 1
  <2>1. PICK n \in Nat : n = k - 1 /\ k = n + 1
    OBVIOUS
  <2>2. PICK c \in Nat : c = Count(T, n)
    BY CountNext
  <2>3. From(t, form, k) = k + 2 * c /\ From(t, form, k + 1) = k + 1 + 2 * Count(T, n + 1)
    BY <1>1, <2>1, <2>2
  <2>4. CASE t[k] \in Coded(form)
    <3>1. n + 1 \in T
      BY <2>1, <2>4 DEF T
    <3>2. Count(T, n + 1) = c + 1
      BY <2>2, <3>1, CountNext
    <3> QED BY <2>3, <2>4, <3>2
  <2>5. CASE t[k] \notin Coded(form)
    <3>1. n + 1 \notin T
      BY <2>1, <2>5 DEF T
    <3>2. Count(T, n + 1) = c
      BY <2>2, <3>1, CountNext
    <3> QED BY <2>3, <2>5, <3>2
  <2> QED BY <2>4, <2>5
<1>5. ASSUME NEW j \in Nat \ {0}, NEW k \in Nat \ {0}, j <= k
      PROVE  From(t, form, j) + (k - j) <= From(t, form, k) /\ k <= From(t, form, k)
  <2>1. Count(T, j - 1) <= Count(T, k - 1)
    <3>1. j - 1 \in Nat /\ k - 1 \in Nat /\ j - 1 <= k - 1
      BY <1>5
    <3> QED BY <3>1, CountGrows
  <2>2. PICK c \in Nat, d \in Nat : c = Count(T, j - 1) /\ d = Count(T, k - 1)
    BY <1>2
  <2>3. From(t, form, j) = j + 2 * c /\ From(t, form, k) = k + 2 * d /\ c <= d
    BY <1>1, <2>1, <2>2
  <2> QED BY <1>5, <2>3
<1>6. \A k \in Nat \ {0} : From(t, form, k) \in Nat \ {0}
  BY <1>1, <1>2
<1>7. \A j, k \in Nat \ {0} : j <= k => From(t, form, j) <= From(t, form, k) /\ k <= From(t, form, k)
  BY <1>5, <1>6
<1>8. \A j, k \in Nat \ {0} : j < k => From(t, form, j) < From(t, form, k)
  BY <1>5, <1>6
<1> QED BY <1>3, <1>4, <1>6, <1>7, <1>8

\* Each character is written as its encoding, in its place.
LEMMA EncodedIs ==
    ASSUME NEW t \in Seq(Characters), NEW form \in BOOLEAN
    PROVE  /\ Encoded(t, form) \in Seq(Bytes) /\ Len(Encoded(t, form)) = From(t, form, Len(t) + 1) - 1
           /\ \A k \in 1..Len(t) :
                 IF t[k] \in Coded(form)
                 THEN \A d \in 0..2 : Encoded(t, form)[From(t, form, k) + d] = Hex(t[k])[d + 1]
                 ELSE Encoded(t, form)[From(t, form, k)] = IF form /\ t[k] = Is(" ") THEN Is("+") ELSE t[k]
<1> DEFINE n == Len(t)
           last == From(t, form, n + 1) - 1
           Place(k) == From(t, form, k)..From(t, form, k + 1) - 1
<1>0. n \in Nat /\ DOMAIN t = 1..n /\ (\A k \in 1..n : t[k] \in Characters) /\ last \in Nat
  <2>1. n \in Nat /\ DOMAIN t = 1..n /\ (\A k \in 1..n : t[k] \in Characters)
    BY ElementOfSeq, LenProperties
  <2>2. From(t, form, n + 1) \in Nat \ {0}
    <3>1. n + 1 \in Nat \ {0}
      BY <2>1
    <3> QED BY <3>1, FromIs
  <2> QED BY <2>1, <2>2
<1>1. \A p \in 1..last : \E k \in 1..n : p \in Place(k)
  <2> SUFFICES ASSUME NEW p \in 1..last PROVE \E k \in 1..n : p \in Place(k)
    OBVIOUS
  <2> DEFINE Behind == {k \in Nat \ {0} : From(t, form, k) > p}
  <2>1. n + 1 \in Behind
    <3>1. n + 1 \in Nat \ {0}
      BY <1>0
    <3>2. From(t, form, n + 1) \in Nat
      BY <3>1, FromIs
    <3> QED BY <3>1, <3>2
  <2>2. PICK m \in Behind : \A k \in Behind : m <= k
    <3>1. Behind \subseteq Nat /\ Behind # {}
      BY <2>1
    <3> HIDE DEF Behind
    <3> QED BY <3>1, LeastExists
  <2>3. m # 1
    BY FromIs
  <2>4. m - 1 \in Nat \ {0} /\ m - 1 \notin Behind /\ m <= n + 1 /\ m = m - 1 + 1
    <3>1. m \in Nat \ {0} /\ m <= n + 1
      BY <2>1, <2>2
    <3>2. m - 1 \in Nat \ {0}
      BY <2>3, <3>1
    <3> QED BY <2>2, <3>1, <3>2
  <2>5. m - 1 \in 1..n /\ From(t, form, m - 1) <= p /\ p <= From(t, form, m) - 1
    <3>1. From(t, form, m - 1) \in Nat /\ From(t, form, m) \in Nat
      BY <2>4, FromIs
    <3> QED BY <1>0, <2>2, <2>4, <3>1
  <2> QED BY <2>4, <2>5, FromIs
<1>2. ASSUME NEW j \in 1..n, NEW k \in 1..n, NEW p \in Place(j), p \in Place(k) PROVE j = k
  <2>0. /\ {j, k, j + 1, k + 1} \subseteq Nat \ {0} /\ j \in Int /\ k \in Int
        /\ {From(t, form, j), From(t, form, k), From(t, form, j + 1), From(t, form, k + 1)} \subseteq Nat
    <3>1. {j, k, j + 1, k + 1} \subseteq Nat \ {0} /\ j \in Int /\ k \in Int
      BY <1>0
    <3> QED BY <3>1, FromIs
  <2>1. CASE j + 1 <= k
    <3>1. From(t, form, j + 1) <= From(t, form, k)
      BY <2>0, <2>1, FromIs
    <3> QED BY <1>2, <2>0, <3>1
  <2>2. CASE k + 1 <= j
    <3>1. From(t, form, k + 1) <= From(t, form, j)
      BY <2>0, <2>2, FromIs
    <3> QED BY <1>2, <2>0, <3>1
  <2> QED BY <2>0, <2>1, <2>2
<1>3. ASSUME NEW p \in 1..last, NEW k \in 1..n, p \in Place(k)
      PROVE  Encoded(t, form)[p] = Encoding(t[k], form)[p - From(t, form, k) + 1]
  <2>1. k = CHOOSE j \in 1..n : p \in Place(j)
    BY <1>2, <1>3
  <2> QED BY <1>0, <2>1 DEF Encoded
<1>4. ASSUME NEW k \in 1..n
      PROVE  /\ Place(k) \subseteq 1..last
             /\ Encoding(t[k], form) =
                   IF t[k] \in Coded(form) THEN Hex(t[k])
                   ELSE <<IF form /\ t[k] = Is(" ") THEN Is("+") ELSE t[k]>>
             /\ Place(k) = IF t[k] \in Coded(form) THEN From(t, form, k)..From(t, form, k) + 2
                           ELSE From(t, form, k)..From(t, form, k)
  <2>1. Encoding(t[k], form) =
                   IF t[k] \in Coded(form) THEN Hex(t[k])
                   ELSE <<IF form /\ t[k] = Is(" ") THEN Is("+") ELSE t[k]>>
    BY DEF Encoding
  <2>2. k \in Nat \ {0} /\ k + 1 \in Nat \ {0} /\ n + 1 \in Nat \ {0} /\ k + 1 <= n + 1
    BY <1>0
  <2>3. From(t, form, k) \in Nat \ {0} /\ From(t, form, k + 1) <= From(t, form, n + 1)
    BY <2>2, FromIs
  <2>4. From(t, form, k + 1) = IF t[k] \in Coded(form) THEN From(t, form, k) + 3 ELSE From(t, form, k) + 1
    BY <2>2, FromIs
  <2>5. From(t, form, k + 1) \in Nat /\ From(t, form, n + 1) \in Nat
    BY <2>2, FromIs
  <2>6. PICK f \in Nat \ {0}, g \in Nat, h \in Nat :
           f = From(t, form, k) /\ g = From(t, form, k + 1) /\ h = From(t, form, n + 1)
    BY <2>3, <2>5
  <2>7. f..g - 1 \subseteq 1..h - 1
    BY <2>3, <2>6
  <2>8. f..g - 1 = IF t[k] \in Coded(form) THEN f..f + 2 ELSE f..f
    <3>1. CASE t[k] \in Coded(form)
      <4>1. g - 1 = f + 2
        BY <2>4, <2>6, <3>1
      <4> QED BY <3>1, <4>1
    <3>2. CASE t[k] \notin Coded(form)
      <4>1. g - 1 = f
        BY <2>4, <2>6, <3>2
      <4> QED BY <3>2, <4>1
    <3> QED BY <3>1, <3>2
  <2> QED BY <2>1, <2>6, <2>7, <2>8
<1>5. ASSUME NEW p \in 1..last PROVE Encoded(t, form)[p] \in Bytes
  <2>1. PICK k \in 1..n : p \in Place(k)
    BY <1>1
  <2>2. t[k] \in Characters /\ From(t, form, k) \in Nat \ {0} /\ p \in Int
    BY <1>0, FromIs
  <2>3. Encoded(t, form)[p] = Encoding(t[k], form)[p - From(t, form, k) + 1]
    BY <1>3, <2>1
  <2>f. PICK f \in Nat \ {0} : f = From(t, form, k)
    BY <2>2
  <2>4. CASE t[k] \in Coded(form)
    <3>1. p - From(t, form, k) + 1 \in 1..3
      <4>1. p \in f..f + 2
        BY <1>4, <2>1, <2>4, <2>f
      <4> QED BY <2>f, <4>1
    <3>2. Encoded(t, form)[p] = Hex(t[k])[p - From(t, form, k) + 1]
      BY <1>4, <2>3, <2>4
    <3> QED BY <2>2, <3>1, <3>2, CharactersAre, ElementOfSeq
  <2>5. CASE t[k] \notin Coded(form)
    <3>1. p - From(t, form, k) + 1 = 1
      <4>1. p \in f..f
        BY <1>4, <2>1, <2>5, <2>f
      <4> QED BY <2>f, <4>1
    <3>2. Encoded(t, form)[p] = Encoding(t[k], form)[1]
      BY <2>3, <3>1
    <3>3. Encoding(t[k], form) = <<t[k]>> \/ Encoding(t[k], form) = <<Is("+")>>
      BY <1>4, <2>5
    <3>4. t[k] \in Bytes /\ Is("+") \in Bytes
      BY <2>2, CharactersAre
    <3>5. CASE Encoding(t[k], form) = <<t[k]>>
      BY <3>2, <3>4, <3>5
    <3>6. CASE Encoding(t[k], form) = <<Is("+")>>
      BY <3>2, <3>4, <3>6
    <3> QED BY <3>3, <3>5, <3>6
  <2> QED BY <2>4, <2>5
<1>6. Encoded(t, form) = [p \in 1..last |-> Encoded(t, form)[p]]
  BY DEF Encoded
<1>7. Encoded(t, form) \in Seq(Bytes) /\ Len(Encoded(t, form)) = last
  <2> HIDE DEF last
  <2> QED BY <1>0, <1>5, <1>6
<1>8. ASSUME NEW k \in 1..n, t[k] \in Coded(form), NEW d \in 0..2
      PROVE  Encoded(t, form)[From(t, form, k) + d] = Hex(t[k])[d + 1]
  <2>1. From(t, form, k) \in Nat
    BY <1>0, FromIs
  <2>f. PICK f \in Nat : f = From(t, form, k)
    BY <2>1
  <2>2. f + d \in Place(k) /\ (f + d) - f + 1 = d + 1
    <3>1. Place(k) = f..f + 2
      BY <1>4, <1>8, <2>f
    <3>2. f + d \in f..f + 2
      OBVIOUS
    <3>3. (f + d) - f + 1 = d + 1
      OBVIOUS
    <3> QED BY <3>1, <3>2, <3>3
  <2>3. f + d \in 1..last
    BY <1>4, <2>2
  <2>4. Encoded(t, form)[f + d] = Encoding(t[k], form)[(f + d) - f + 1]
    BY <1>3, <2>2, <2>3, <2>f
  <2>5. Encoding(t[k], form) = Hex(t[k])
    BY <1>4, <1>8
  <2> QED BY <2>2, <2>4, <2>5, <2>f
<1>9. ASSUME NEW k \in 1..n, t[k] \notin Coded(form)
      PROVE  Encoded(t, form)[From(t, form, k)] = IF form /\ t[k] = Is(" ") THEN Is("+") ELSE t[k]
  <2>1. From(t, form, k) \in Nat
    BY <1>0, FromIs
  <2>f. PICK f \in Nat : f = From(t, form, k)
    BY <2>1
  <2>2. f \in Place(k) /\ f - f + 1 = 1
    <3>1. Place(k) = f..f
      BY <1>4, <1>9, <2>f
    <3> QED BY <3>1
  <2>3. f \in 1..last
    BY <1>4, <2>2
  <2>4. Encoded(t, form)[f] = Encoding(t[k], form)[1]
    <3>1. Encoded(t, form)[f] = Encoding(t[k], form)[f - f + 1]
      BY <1>3, <2>2, <2>3, <2>f
    <3> QED BY <2>2, <3>1
  <2>5. Encoding(t[k], form) = <<IF form /\ t[k] = Is(" ") THEN Is("+") ELSE t[k]>>
    BY <1>4, <1>9
  <2>6. <<IF form /\ t[k] = Is(" ") THEN Is("+") ELSE t[k]>>[1] =
           IF form /\ t[k] = Is(" ") THEN Is("+") ELSE t[k]
    OBVIOUS
  <2>7. Encoded(t, form)[f] = IF form /\ t[k] = Is(" ") THEN Is("+") ELSE t[k]
    BY Zenon, <2>4, <2>5, <2>6
  <2> QED BY <2>7, <2>f
<1> QED BY <1>7, <1>8, <1>9

\* Before s the string is written, from s on it is as it came.  What is written are the
\* first characters of the text (Kept), as many as were read (InStep), until one is
\* met that was cut (CutShort).
Kept(n) == \A j \in 1..n : conv.string[j] = text[j]
InStep ==
    conv.o <= Len(text) + 1 /\ conv.s = From(text, conv.plus_is_space, conv.o) /\ Kept(conv.o - 1)
CutShort ==
    \E k \in 1..Len(text) :
        /\ k <= conv.o /\ From(text, conv.plus_is_space, k) <= conv.s /\ Kept(k - 1)
        /\ Len(conv.string) + 1 < From(text, conv.plus_is_space, k + 1)
DecodeInv ==
    /\ conv.o \in 1..conv.s /\ conv.s \in 1..Len(conv.string) + 1
    /\ Len(conv.string) <= Len(Encoded(text, conv.plus_is_space))
    /\ \A p \in conv.s..Len(conv.string) : conv.string[p] = Encoded(text, conv.plus_is_space)[p]
    /\ InStep \/ CutShort
\* What is escaped leaves room for the end, and is only cut where there is little.
EscapeInv ==
    /\ conv.cap \in Caps /\ conv.o < conv.cap
    /\ conv.pc = "escaped" /\ conv.s <= Len(text) => conv.o + 6 >= conv.cap
TextShape ==
    /\ text \in Seq(Characters)
    /\ conv \in [pc : {"idle", "decode", "decoded", "escape", "escaped"}, plus_is_space : BOOLEAN,
                 string : Seq(Bytes), s : Nat \ {0}, o : Nat, cap : Nat]

\* What holds of the conversion at every turn.
TextInv ==
    /\ TextShape
    /\ conv.pc = "idle" => ~conv.plus_is_space /\ conv.s = 1 /\ conv.o = 1
    /\ conv.pc \in {"decode", "decoded"} => DecodeInv
    /\ conv.pc = "decoded" => conv.s > Len(conv.string)
    /\ conv.pc \in {"escape", "escaped"} => EscapeInv

\* No conversion has begun.
LEMMA TextInitInv == TextInit => TextInv
<1> SUFFICES ASSUME TextInit PROVE TextInv
  OBVIOUS
<1>1. text \in Seq(Characters)
  BY TextAssumption DEF TextInit
<1>2. conv = [pc |-> "idle", plus_is_space |-> FALSE, string |-> <<>>, s |-> 1, o |-> 1, cap |-> 7]
  BY DEF TextInit
<1>3. <<>> \in Seq(Bytes)
  OBVIOUS
<1>4. TextShape
  BY <1>1, <1>2, <1>3 DEF TextShape
<1> QED BY <1>2, <1>4 DEF TextInv

\* The reading of a string that came begins.
LEMMA BeginInv ==
    ASSUME TextInv, text' = text, NEW form \in BOOLEAN, NEW string \in Seq(Bytes),
           conv' = [conv EXCEPT !.pc = "decode", !.plus_is_space = form, !.string = string],
           conv.pc = "idle", Len(string) <= Len(Encoded(text, form)),
           \A p \in 1..Len(string) : string[p] = Encoded(text, form)[p]
    PROVE  TextInv'
<1>1. TextShape /\ text \in Seq(Characters) /\ conv.s = 1 /\ conv.o = 1
  BY DEF TextInv, TextShape
<1>2. /\ conv'.pc = "decode" /\ conv'.plus_is_space = form /\ conv'.string = string
      /\ conv'.s = 1 /\ conv'.o = 1
  BY <1>1 DEF TextShape
<1>3. TextShape'
  BY <1>1 DEF TextShape
<1>4. From(text, form, 1) = 1 /\ Len(text) \in Nat /\ Len(string) \in Nat
  BY <1>1, FromIs
<1>5. InStep'
  BY <1>2, <1>4 DEF InStep, Kept
<1>6. DecodeInv'
  BY <1>2, <1>4, <1>5 DEF DecodeInv
<1> QED BY <1>2, <1>3, <1>6 DEF TextInv

\* A query comes whole or cut, a path comes whole.
LEMMA BeginSteps == TextInv /\ (DecodeQuery \/ DecodePath) => TextInv'
<1> SUFFICES ASSUME TextInv, DecodeQuery \/ DecodePath PROVE TextInv'
  OBVIOUS
<1>1. text \in Seq(Characters) /\ text' = text /\ conv.pc = "idle" /\ conv.plus_is_space = FALSE /\ TextShape
  BY DEF TextInv, TextShape, DecodeQuery, DecodePath
<1>2. CASE DecodeQuery
  <2> DEFINE e == Encoded(text, TRUE)
  <2>1. PICK k \in 0..Len(e) :
           conv' = [conv EXCEPT !.pc = "decode", !.plus_is_space = TRUE, !.string = SubSeq(e, 1, k)]
    BY <1>2 DEF DecodeQuery
  <2>2. e \in Seq(Bytes)
    BY <1>1, EncodedIs
  <2> HIDE DEF e
  <2>3. Len(e) \in Nat /\ \A p \in 1..k : e[p] \in Bytes
    BY <2>2, ElementOfSeq
  <2>4. /\ SubSeq(e, 1, k) \in Seq(Bytes) /\ Len(SubSeq(e, 1, k)) = k
        /\ \A p \in 1..k : SubSeq(e, 1, k)[p] = e[p]
    <3>1. 1 \in Int /\ k \in Int
      OBVIOUS
    <3>2. /\ SubSeq(e, 1, k) \in Seq(Bytes)
          /\ Len(SubSeq(e, 1, k)) = IF 1 <= k THEN k - 1 + 1 ELSE 0
          /\ \A p \in 1..k - 1 + 1 : SubSeq(e, 1, k)[p] = e[1 + p - 1]
      BY <2>3, <3>1, SubSeqProperties
    <3> QED BY <2>3, <3>2
  <2>5. Len(SubSeq(e, 1, k)) <= Len(e)
    BY <2>3, <2>4
  <2> QED BY <1>1, <2>1, <2>4, <2>5, BeginInv DEF e
<1>3. CASE DecodePath
  <2> DEFINE e == Encoded(text, FALSE)
  <2>1. conv' = [conv EXCEPT !.pc = "decode", !.plus_is_space = FALSE, !.string = e]
    BY <1>1, <1>3 DEF DecodePath, TextShape
  <2>2. e \in Seq(Bytes) /\ Len(e) <= Len(e)
    <3>1. e \in Seq(Bytes)
      BY <1>1, EncodedIs
    <3> HIDE DEF e
    <3> QED BY <3>1
  <2> QED BY <1>1, <2>1, <2>2, BeginInv
<1> QED BY <1>2, <1>3

\* A turn of url_decode: what it writes is behind what it still reads, and is the next
\* character of the text unless the string was cut in it.
LEMMA DecodeStep == TextInv /\ url_decode => TextInv'
<1> SUFFICES ASSUME TextInv, url_decode PROVE TextInv'
  OBVIOUS
<1>0. text \in Seq(Characters) /\ text' = text /\ conv.pc = "decode" /\ TextShape /\ DecodeInv
  BY DEF TextInv, TextShape, url_decode
<1>r. PICK string \in Seq(Bytes), s \in Nat \ {0}, o \in Nat, form \in BOOLEAN, n \in Nat, m \in Nat :
         /\ string = conv.string /\ s = conv.s /\ o = conv.o /\ form = conv.plus_is_space
         /\ n = Len(string) /\ m = Len(text)
  BY <1>0 DEF TextShape
<1> DEFINE e == Encoded(text, form)
           F(k) == From(text, form, k)
           Cut(k) == /\ k <= o /\ F(k) <= s /\ n + 1 < F(k + 1)
                     /\ \A j \in 1..k - 1 : string[j] = text[j]
<1>1. /\ o \in 1..s /\ s \in 1..n + 1 /\ n <= Len(e) /\ Len(e) = F(m + 1) - 1
      /\ \A p \in s..n : string[p] = e[p]
  BY <1>0, <1>r, EncodedIs DEF DecodeInv
<1>2. \/ o <= m + 1 /\ s = F(o) /\ \A j \in 1..o - 1 : string[j] = text[j]
      \/ \E k \in 1..m : Cut(k)
  BY <1>0, <1>r DEF DecodeInv, InStep, CutShort, Kept
<1>3. \A k \in Nat \ {0} : F(k) \in Nat \ {0}
  BY <1>0, FromIs
<1>4. CASE s > n
  <2>1. conv' = [conv EXCEPT !.pc = "decoded"]
    BY <1>4, <1>r DEF url_decode
  <2>2. TextShape' /\ conv'.pc = "decoded" /\ conv'.s = s /\ conv'.o = o /\ conv'.string = string
        /\ conv'.plus_is_space = form
    BY <1>0, <1>r, <2>1 DEF TextShape
  <2>3. DecodeInv'
    BY <1>0, <1>r, <2>2 DEF DecodeInv, InStep, CutShort, Kept
  <2> QED BY <1>4, <1>r, <2>2, <2>3 DEF TextInv
<1>5. ASSUME NEW c \in Bytes, NEW w \in 1..3, s + w <= n + 1,
             conv' = [conv EXCEPT !.string = [@ EXCEPT ![conv.o] = c], !.o = @ + 1, !.s = @ + w],
             \/ o <= m /\ s + w = F(o + 1) /\ c = text[o] /\ \A j \in 1..o - 1 : string[j] = text[j]
             \/ \E k \in 1..m : Cut(k)
      PROVE  TextInv'
  <2> DEFINE string2 == [string EXCEPT ![o] = c]
  <2>1. o \in 1..Len(string)
    BY <1>1, <1>5, <1>r
  <2>2. string2 \in Seq(Bytes) /\ Len(string2) = n /\ \A j \in 1..n : string2[j] = IF j = o THEN c ELSE string[j]
    BY <1>r, <2>1, ExceptSeq
  <2>3. /\ conv'.pc = "decode" /\ conv'.string = string2 /\ conv'.o = o + 1 /\ conv'.s = s + w
        /\ conv'.plus_is_space = form /\ conv'.cap = conv.cap
    BY <1>0, <1>5, <1>r DEF TextShape
  <2> HIDE DEF string2
  <2>4. TextShape'
    <3>1. conv' = [pc |-> "decode", plus_is_space |-> form, string |-> string2, s |-> s + w, o |-> o + 1,
                   cap |-> conv.cap]
      BY <1>0, <1>5, <1>r, <2>3 DEF TextShape, string2
    <3>2. s + w \in Nat \ {0} /\ o + 1 \in Nat /\ conv.cap \in Nat
      BY <1>0 DEF TextShape
    <3> QED BY <1>0, <2>2, <3>1, <3>2 DEF TextShape
  <2>5. o + 1 \in 1..s + w /\ s + w \in 1..n + 1
    <3>1. o <= s /\ 1 <= w /\ w \in Nat /\ s + w <= n + 1
      BY <1>1, <1>5
    <3> QED BY <3>1
  <2>6. \A p \in s + w..n : string2[p] = e[p]
    <3>1. \A p \in s + w..n : p \in s..n /\ p # o /\ p \in 1..n
      BY <1>1
    <3> QED BY <1>1, <2>2, <3>1
  <2>7. InStep' \/ CutShort'
    <3>1. CASE o <= m /\ s + w = F(o + 1) /\ c = text[o] /\ \A j \in 1..o - 1 : string[j] = text[j]
      <4>1. \A j \in 1..o + 1 - 1 : j \in 1..n /\ (j = o \/ j \in 1..o - 1)
        BY <2>1, <1>r
      <4>2. \A j \in 1..o + 1 - 1 : string2[j] = text[j]
        BY <2>2, <3>1, <4>1
      <4>3. o + 1 <= m + 1
        BY <3>1
      <4> QED BY <1>0, <1>r, <2>3, <3>1, <4>2, <4>3 DEF InStep, Kept
    <3>2. CASE \E k \in 1..m : Cut(k)
      <4>1. PICK k \in 1..m : Cut(k)
        BY <3>2
      <4>2. \A j \in 1..k - 1 : j \in 1..n /\ j # o
        BY <2>1, <1>r, <4>1
      <4>3. \A j \in 1..k - 1 : string2[j] = text[j]
        BY <2>2, <4>1, <4>2
      <4>4. F(k) <= s + w /\ k <= o + 1
        <5>1. F(k) \in Nat /\ F(k) <= s /\ k <= o
          BY <1>3, <4>1
        <5> HIDE DEF F
        <5> QED BY <5>1
      <4> QED BY <1>0, <1>r, <2>2, <2>3, <4>1, <4>3, <4>4 DEF CutShort, Kept
    <3> QED BY <1>5, <3>1, <3>2
  <2>8. DecodeInv'
    BY <1>0, <1>1, <1>r, <2>2, <2>3, <2>5, <2>6, <2>7 DEF DecodeInv
  <2> QED BY <2>3, <2>4, <2>8 DEF TextInv
<1>6. CASE s <= n
  <2> DEFINE put(c, w) == [conv EXCEPT !.string = [@ EXCEPT ![conv.o] = c], !.o = @ + 1, !.s = @ + w]
  <2>1. conv' = IF string[s] = Is("%") /\ s + 2 <= n THEN put(HexValue(string[s + 1], string[s + 2]), 3)
                ELSE put(IF IsSpace(string[s], form) THEN Is(" ") ELSE string[s], 1)
    <3>1. ~(conv.s > Len(conv.string))
      BY <1>6, <1>r
    <3> QED BY <1>r, <3>1 DEF url_decode
  <2> HIDE DEF put
  <2>2. s \in 1..n /\ string[s] = e[s] /\ string[s] \in Bytes
    BY <1>1, <1>6, <1>r, ElementOfSeq
  <2>3. ASSUME NEW c \in Bytes, NEW w \in 1..3, s + w <= n + 1, conv' = put(c, w),
               \/ o <= m /\ s + w = F(o + 1) /\ c = text[o] /\ \A j \in 1..o - 1 : string[j] = text[j]
               \/ \E k \in 1..m : Cut(k)
        PROVE  TextInv'
    BY <1>5, <2>3 DEF put
  <2>4. ASSUME NEW k \in 1..m, Cut(k) PROVE TextInv'
    <3>1. F(k + 1) <= F(k) + 3 /\ F(k) \in Nat /\ F(k + 1) \in Nat
      <4>1. k \in Nat \ {0} /\ k + 1 \in Nat \ {0}
        OBVIOUS
      <4>2. F(k) \in Nat /\ F(k + 1) \in Nat
        BY <1>3, <4>1
      <4>3. F(k + 1) = IF text[k] \in Coded(form) THEN F(k) + 3 ELSE F(k) + 1
        BY <1>0, <4>1, FromIs
      <4> HIDE DEF F
      <4> QED BY <4>2, <4>3
    <3>2. ~(s + 2 <= n)
      BY <2>4, <3>1
    <3>3. PICK c \in Bytes : conv' = put(c, 1)
      BY <2>1, <2>2, <3>2, CharactersAre
    <3>4. s + 1 <= n + 1 /\ 1 \in 1..3
      BY <1>6
    <3> QED BY <2>3, <2>4, <3>3, <3>4
  <2>5. ASSUME o <= m + 1, s = F(o), \A j \in 1..o - 1 : string[j] = text[j] PROVE TextInv'
    <3>1. o \in 1..m
      <4>1. o # m + 1
        BY <1>1, <1>6, <2>5
      <4> QED BY <1>1, <2>5, <4>1
    <3>2. text[o] \in Characters /\ text[o] \in Bytes
      BY <1>0, <1>r, <3>1, CharactersAre, ElementOfSeq
    <3>3. CASE text[o] \in Coded(form)
      <4>1. F(o + 1) = s + 3
        <5>1. o \in Nat \ {0}
          BY <3>1
        <5>2. F(o + 1) = IF text[o] \in Coded(form) THEN F(o) + 3 ELSE F(o) + 1
          BY <1>0, <5>1, FromIs
        <5> QED BY <2>5, <3>3, <5>2
      <4>2. \A d \in 0..2 : e[s + d] = Hex(text[o])[d + 1]
        <5>1. o \in 1..Len(text)
          BY <1>r, <3>1
        <5>2. \A d \in 0..2 : e[F(o) + d] = Hex(text[o])[d + 1]
          BY <1>0, <3>3, <5>1, EncodedIs
        <5> QED BY <2>5, <5>2
      <4>3. string[s] = Is("%")
        <5>1. e[s + 0] = Hex(text[o])[0 + 1]
          BY <4>2
        <5>2. s + 0 = s /\ 0 + 1 = 1
          OBVIOUS
        <5>3. e[s] = Hex(text[o])[1]
          BY <5>1, <5>2
        <5> QED BY <2>2, <3>2, <5>3, CharactersAre
      <4>4. CASE s + 2 <= n
        <5>1. string[s + 1] = Hex(text[o])[2] /\ string[s + 2] = Hex(text[o])[3]
          <6>1. s + 1 \in s..n /\ s + 2 \in s..n
            BY <4>4
          <6>2. e[s + 1] = Hex(text[o])[1 + 1] /\ e[s + 2] = Hex(text[o])[2 + 1]
            BY <4>2
          <6>3. 1 + 1 = 2 /\ 2 + 1 = 3
            OBVIOUS
          <6> QED BY <1>1, <6>1, <6>2, <6>3
        <5>2. HexValue(string[s + 1], string[s + 2]) = text[o]
          BY <3>2, <5>1, CharactersAre
        <5>3. conv' = put(text[o], 3)
          BY <2>1, <4>3, <4>4, <5>2
        <5>4. s + 3 <= n + 1 /\ 3 \in 1..3 /\ o <= m
          BY <3>1, <4>4
        <5> QED BY <2>3, <2>5, <3>2, <4>1, <5>3, <5>4
      <4>5. CASE ~(s + 2 <= n)
        <5>1. Cut(o)
          BY <1>0, <2>5, <4>1, <4>5
        <5> QED BY <2>4, <3>1, <5>1
      <4> QED BY <4>4, <4>5
    <3>4. CASE text[o] \notin Coded(form)
      <4>1. F(o + 1) = s + 1
        <5>1. o \in Nat \ {0}
          BY <3>1
        <5>2. F(o + 1) = IF text[o] \in Coded(form) THEN F(o) + 3 ELSE F(o) + 1
          BY <1>0, <5>1, FromIs
        <5> QED BY <2>5, <3>4, <5>2
      <4>2. string[s] = IF form /\ text[o] = Is(" ") THEN Is("+") ELSE text[o]
        <5>1. o \in 1..Len(text)
          BY <1>r, <3>1
        <5>2. e[F(o)] = IF form /\ text[o] = Is(" ") THEN Is("+") ELSE text[o]
          BY <1>0, <3>4, <5>1, EncodedIs
        <5> QED BY <2>2, <2>5, <5>2
      <4>3. text[o] # Is("%") /\ (form => text[o] # Is("+"))
        BY <3>4 DEF Coded
      <4>4. string[s] # Is("%")
        BY <4>2, <4>3, CharactersAre
      <4>5. (IF IsSpace(string[s], form) THEN Is(" ") ELSE string[s]) = text[o]
        BY <4>2, <4>3, CharactersAre DEF IsSpace
      <4>6. conv' = put(text[o], 1)
        BY <2>1, <4>4, <4>5
      <4>7. s + 1 <= n + 1 /\ 1 \in 1..3 /\ o <= m
        BY <1>6, <3>1
      <4> QED BY <2>3, <2>5, <3>2, <4>1, <4>6, <4>7
    <3> QED BY <3>3, <3>4
  <2> QED BY <1>2, <2>4, <2>5
<1> QED BY <1>1, <1>4, <1>6

\* A turn of html_escape: a replacement of six fits wherever one is begun.
LEMMA EscapeSteps == TextInv /\ (EscapeText \/ html_escape) => TextInv'
<1> SUFFICES ASSUME TextInv, EscapeText \/ html_escape PROVE TextInv'
  OBVIOUS
<1>0. text \in Seq(Characters) /\ text' = text /\ TextShape /\ Caps \subseteq Nat \ 0..6
  BY TextAssumption DEF TextInv, TextShape, EscapeText, html_escape
<1>1. CASE EscapeText
  <2>1. PICK cap \in Caps : conv' = [conv EXCEPT !.pc = "escape", !.cap = cap, !.o = 0]
    BY <1>1 DEF EscapeText
  <2>2. /\ conv'.pc = "escape" /\ conv'.cap = cap /\ conv'.o = 0 /\ cap \in Nat /\ 0 < cap
    BY <1>0, <2>1 DEF TextShape
  <2>3. TextShape'
    BY <1>0, <2>1, <2>2 DEF TextShape
  <2> QED BY <2>2, <2>3 DEF TextInv, EscapeInv
<1>2. CASE html_escape
  <2>1. conv.pc = "escape" /\ conv.cap \in Caps /\ conv.o < conv.cap
    BY <1>2 DEF html_escape, TextInv, EscapeInv
  <2>2. PICK s \in Nat \ {0}, o \in Nat, cap \in Nat : s = conv.s /\ o = conv.o /\ cap = conv.cap
    BY <1>0 DEF TextShape
  <2>3. CASE s <= Len(text) /\ Fits(o, cap)
    <3>1. conv' = [conv EXCEPT !.s = @ + 1, !.o = @ + Width(text[conv.s])]
      BY <1>2, <2>2, <2>3 DEF html_escape
    <3>2. PICK w \in 1..6 : w = Width(text[s])
      <4>1. Width(text[s]) \in 1..6
        BY DEF Width
      <4> QED BY <4>1
    <3>3. /\ conv'.pc = "escape" /\ conv'.cap = cap /\ conv'.o = o + w /\ o + w < cap
      BY <1>0, <2>1, <2>2, <2>3, <3>1, <3>2 DEF TextShape, Fits
    <3>4. TextShape'
      <4>1. conv' = [conv EXCEPT !.s = s + 1, !.o = o + w]
        BY <2>2, <3>1, <3>2 DEF TextShape
      <4>2. s + 1 \in Nat \ {0} /\ o + w \in Nat
        OBVIOUS
      <4> QED BY <1>0, <4>1, <4>2 DEF TextShape
    <3> QED BY <2>1, <2>2, <3>3, <3>4 DEF TextInv, EscapeInv
  <2>4. CASE ~(s <= Len(text) /\ Fits(o, cap))
    <3>1. conv' = [conv EXCEPT !.pc = "escaped"]
      BY <1>2, <2>2, <2>4 DEF html_escape
    <3>2. conv'.pc = "escaped" /\ conv'.cap = cap /\ conv'.o = o /\ conv'.s = s
      BY <1>0, <2>2, <3>1 DEF TextShape
    <3>3. TextShape'
      BY <1>0, <3>1 DEF TextShape
    <3>4. s <= Len(text) => o + 6 >= cap
      BY <2>4 DEF Fits
    <3> QED BY <1>0, <2>1, <2>2, <3>2, <3>3, <3>4 DEF TextInv, EscapeInv
  <2> QED BY <2>3, <2>4
<1> QED BY <1>1, <1>2

\* Every turn keeps it.
LEMMA TextStep == TextInv /\ [TextNext]_convert => TextInv'
<1>1. CASE UNCHANGED convert
  BY <1>1 DEF convert, TextInv, TextShape, DecodeInv, InStep, CutShort, Kept, EscapeInv
<1> QED BY <1>1, BeginSteps, DecodeStep, EscapeSteps DEF TextNext

\* What has been decoded is the text as far as the string goes, and ends where it ends.
LEMMA TextRight == TextInv => TextKept
<1> SUFFICES ASSUME TextInv PROVE TextKept
  OBVIOUS
<1>1. ASSUME conv.pc \in {"escape", "escaped"}
      PROVE  conv.o < conv.cap /\ (conv.pc = "escaped" /\ conv.s <= Len(text) => conv.o + 6 >= conv.cap)
  BY <1>1 DEF TextInv, EscapeInv
<1>2. ASSUME conv.pc = "decoded"
      PROVE  LET form == conv.plus_is_space IN
             /\ \A m \in DOMAIN text :
                   From(text, form, m + 1) - 1 <= Len(conv.string) => IsPrefix(SubSeq(text, 1, m), Decoded)
             /\ Len(conv.string) = Len(Encoded(text, form)) => Decoded = text
  <2>0. text \in Seq(Characters) /\ TextShape /\ DecodeInv /\ conv.s > Len(conv.string)
    BY <1>2 DEF TextInv, TextShape
  <2>r. PICK string \in Seq(Bytes), o \in Nat, form \in BOOLEAN, n \in Nat, size \in Nat :
           /\ string = conv.string /\ o = conv.o /\ form = conv.plus_is_space
           /\ n = Len(string) /\ size = Len(text)
    BY <2>0 DEF TextShape
  <2> DEFINE F(k) == From(text, form, k)
  <2>1. o \in 1..n + 1 /\ conv.s = n + 1 /\ Len(Encoded(text, form)) = F(size + 1) - 1
    <3>1. Len(Encoded(text, form)) = F(size + 1) - 1
      BY <2>0, <2>r, EncodedIs
    <3>2. PICK s \in Nat : s = conv.s
      BY <2>0 DEF TextShape
    <3>3. o \in 1..s /\ s \in 1..n + 1 /\ s > n
      BY <2>0, <2>r, <3>2 DEF DecodeInv
    <3> QED BY <3>1, <3>2, <3>3
  <2>2. /\ Decoded = SubSeq(string, 1, o - 1) /\ Decoded \in Seq(Bytes) /\ Len(Decoded) = o - 1
        /\ \A j \in 1..o - 1 : Decoded[j] = string[j]
    <3>1. \A i \in 1..o - 1 : string[i] \in Bytes
      <4>1. \A i \in 1..o - 1 : i \in 1..Len(string)
        BY <2>1, <2>r
      <4> QED BY <4>1, ElementOfSeq
    <3>2. {i \in 1..conv.o - 1 : conv.string[i] = EndOfString} = {}
      BY <2>r, <3>1, CharactersAre
    <3>3. Decoded = SubSeq(string, 1, o - 1)
      BY <2>r, <3>2 DEF Decoded
    <3>4. 1 \in Int /\ o - 1 \in Int
      OBVIOUS
    <3>5. /\ SubSeq(string, 1, o - 1) \in Seq(Bytes)
          /\ Len(SubSeq(string, 1, o - 1)) = IF 1 <= o - 1 THEN o - 1 - 1 + 1 ELSE 0
          /\ \A i \in 1..o - 1 - 1 + 1 : SubSeq(string, 1, o - 1)[i] = string[1 + i - 1]
      BY <3>1, <3>4, SubSeqProperties
    <3>6. \A j \in 1..o - 1 : j \in 1..o - 1 - 1 + 1 /\ 1 + j - 1 = j
      OBVIOUS
    <3>7. Len(Decoded) = o - 1
      BY <2>1, <3>3, <3>5
    <3> QED BY <3>3, <3>5, <3>6, <3>7
  \* The characters that came whole are kept.
  <2>3. PICK kept \in 0..o - 1 :
           /\ kept <= size /\ \A j \in 1..kept : string[j] = text[j]
           /\ \A m \in 1..size : F(m + 1) <= n + 1 => m <= kept
           /\ n = Len(Encoded(text, form)) => kept = size /\ o = size + 1
    <3>1. CASE InStep
      <4>1. o <= size + 1 /\ F(o) = n + 1 /\ \A j \in 1..o - 1 : string[j] = text[j]
        BY <2>1, <2>r, <3>1 DEF InStep, Kept
      <4>2. ASSUME NEW m \in 1..size, F(m + 1) <= n + 1 PROVE m <= o - 1
        <5>1. o \in Nat \ {0} /\ m + 1 \in Nat \ {0}
          BY <2>1
        <5>2. ~(o < m + 1)
          <6>1. F(o) \in Nat /\ F(m + 1) \in Nat
            BY <2>0, <5>1, FromIs
          <6>2. o < m + 1 => F(o) < F(m + 1)
            BY <2>0, <5>1, FromIs
          <6> QED BY <4>1, <4>2, <6>1, <6>2
        <5> QED BY <5>1, <5>2
      <4>3. ASSUME n = Len(Encoded(text, form)) PROVE o = size + 1
        <5>1. o \in Nat \ {0} /\ size + 1 \in Nat \ {0}
          BY <2>1
        <5>2. F(size + 1) \in Nat /\ F(o) \in Nat
          BY <2>0, <5>1, FromIs
        <5>3. o < size + 1 => F(o) < F(size + 1)
          BY <2>0, <5>1, FromIs
        <5> QED BY <2>1, <4>1, <4>3, <5>1, <5>2, <5>3
      <4>4. o - 1 \in 0..o - 1 /\ o - 1 <= size
        BY <2>1, <4>1
      <4>5. \A m \in 1..size : F(m + 1) <= n + 1 => m <= o - 1
        BY <4>2
      <4>6. n = Len(Encoded(text, form)) => o - 1 = size /\ o = size + 1
        BY <4>3
      <4> HIDE DEF F
      <4> QED BY <4>1, <4>4, <4>5, <4>6
    <3>2. CASE CutShort
      <4>1. PICK k \in 1..size : k <= o /\ n + 1 < F(k + 1) /\ \A j \in 1..k - 1 : string[j] = text[j]
        BY <2>r, <3>2 DEF CutShort, Kept
      <4>2. ASSUME NEW m \in 1..size, F(m + 1) <= n + 1 PROVE m <= k - 1
        <5>1. k + 1 \in Nat \ {0} /\ m + 1 \in Nat \ {0}
          OBVIOUS
        <5>2. F(m + 1) \in Nat /\ F(k + 1) \in Nat
          BY <2>0, <5>1, FromIs
        <5>3. k + 1 <= m + 1 => F(k + 1) <= F(m + 1)
          BY <2>0, <5>1, FromIs
        <5> QED BY <4>1, <4>2, <5>2, <5>3
      <4>3. n # Len(Encoded(text, form))
        <5>1. k + 1 \in Nat \ {0} /\ size + 1 \in Nat \ {0} /\ k + 1 <= size + 1
          OBVIOUS
        <5>2. F(size + 1) \in Nat /\ F(k + 1) \in Nat /\ F(k + 1) <= F(size + 1)
          BY <2>0, <5>1, FromIs
        <5> QED BY <2>1, <4>1, <5>2
      <4>4. k - 1 \in 0..o - 1 /\ k - 1 <= size
        BY <4>1
      <4>5. \A m \in 1..size : F(m + 1) <= n + 1 => m <= k - 1
        BY <4>2
      <4>6. \A j \in 1..k - 1 : string[j] = text[j]
        BY <4>1
      <4> HIDE DEF F
      <4> QED BY <4>3, <4>4, <4>5, <4>6
    <3> QED BY <2>0, <3>1, <3>2 DEF DecodeInv
  <2>4. ASSUME NEW m \in DOMAIN text, F(m + 1) - 1 <= n PROVE IsPrefix(SubSeq(text, 1, m), Decoded)
    <3>1. m \in 1..size
      BY <2>0, <2>r
    <3>2. m <= kept
      <4>1. F(m + 1) \in Nat
        <5>1. m + 1 \in Nat \ {0}
          BY <3>1
        <5> QED BY <2>0, <5>1, FromIs
      <4>2. F(m + 1) <= n + 1
        BY <2>4, <4>1
      <4> QED BY <2>3, <3>1, <4>2
    <3>3. \A j \in 1..m : j \in 1..kept /\ j \in 1..o - 1 /\ j \in 1..Len(text)
      BY <2>3, <2>r, <3>1, <3>2
    <3>4. \A j \in 1..m : text[j] = Decoded[j] /\ Decoded[j] \in Bytes
      <4>1. \A j \in 1..m : text[j] \in Characters
        BY <2>0, <3>3, ElementOfSeq
      <4> QED BY <2>2, <2>3, <3>3, <4>1, CharactersAre
    <3> DEFINE p == SubSeq(text, 1, m)
    <3>5. p \in Seq(Bytes) /\ Len(p) = m /\ \A j \in 1..m : p[j] = text[j]
      <4>1. 1 \in Int /\ m \in Int /\ \A i \in 1..m : text[i] \in Bytes
        BY <3>1, <3>4
      <4>2. /\ SubSeq(text, 1, m) \in Seq(Bytes)
            /\ Len(SubSeq(text, 1, m)) = IF 1 <= m THEN m - 1 + 1 ELSE 0
            /\ \A i \in 1..m - 1 + 1 : SubSeq(text, 1, m)[i] = text[1 + i - 1]
        BY <4>1, SubSeqProperties
      <4> QED BY <3>1, <4>2
    <3> HIDE DEF p
    <3>6. SubSeq(p, 1, m) = SubSeq(Decoded, 1, m)
      <4>1. \A i \in 1..m : p[i] = Decoded[i] /\ p[i] \in Bytes
        BY <3>4, <3>5
      <4> HIDE DEF Decoded
      <4>2. m \in Nat
        BY <3>1
      <4> QED BY <4>1, <4>2
    <3>7. m <= Len(Decoded)
      BY <2>2, <2>3, <3>1, <3>2
    <3> QED BY <3>5, <3>6, <3>7 DEF IsPrefix, p
  <2>5. ASSUME n = Len(Encoded(text, form)) PROVE Decoded = text
    <3>1. kept = size /\ o - 1 = size /\ Len(Decoded) = Len(text)
      BY <2>2, <2>3, <2>5, <2>r
    <3>2. \A j \in 1..Len(Decoded) : Decoded[j] = text[j]
      BY <2>2, <2>3, <3>1
    <3>3. text \in Seq(Bytes)
      BY <2>0, CharactersAre, SeqMonotonic
    <3> QED BY <2>2, <3>1, <3>2, <3>3, SeqEqual
  <2> QED BY <2>4, <2>5, <2>r
<1> QED BY <1>1, <1>2 DEF TextKept
-----------------------------------------------------------------------------
(* The search *)

\* An entry of an archive's list of titles.
Title == [title : Seq(Nat), ns : STRING]

\* A title begins with a term if it has the term's letters in the term's places.
LEMMA StartsIs ==
    ASSUME NEW t \in Seq(Nat), NEW p \in Seq(Nat)
    PROVE  StartsWith(t, p) <=> Len(p) <= Len(t) /\ \A i \in 1..Len(p) : t[i] = p[i]
<1>0. Len(p) \in Nat /\ Len(t) \in Nat
  OBVIOUS
<1>1. SubSeq(p, 1, Len(p)) = p
  BY SubSeqFull
<1>2. CASE Len(p) <= Len(t)
  <2> DEFINE q == SubSeq(t, 1, Len(p))
  <2>1. \A i \in 1..Len(p) : t[i] \in Nat
    <3>1. \A i \in 1..Len(p) : i \in 1..Len(t)
      BY <1>0, <1>2
    <3> QED BY <3>1, ElementOfSeq
  <2>2. q \in Seq(Nat) /\ Len(q) = Len(p) /\ \A i \in 1..Len(p) : q[i] = t[i]
    <3>1. 1 \in Int /\ Len(p) \in Int
      BY <1>0
    <3>2. /\ q \in Seq(Nat) /\ Len(q) = IF 1 <= Len(p) THEN Len(p) - 1 + 1 ELSE 0
          /\ \A i \in 1..Len(p) - 1 + 1 : q[i] = t[1 + i - 1]
      BY <2>1, <3>1, SubSeqProperties
    <3> QED BY <1>0, <3>2
  <2> HIDE DEF q
  <2>3. p = q <=> \A i \in 1..Len(p) : t[i] = p[i]
    <3>1. (\A i \in 1..Len(p) : t[i] = p[i]) => p = q
      BY <2>2, SeqEqual
    <3> QED BY <2>2, <3>1
  <2> QED BY <1>1, <1>2, <2>3 DEF StartsWith, IsPrefix, q
<1>3. CASE ~(Len(p) <= Len(t))
  BY <1>3 DEF StartsWith, IsPrefix
<1> QED BY <1>2, <1>3

\* A text that does not agree with another on its first n letters leaves it somewhere.
Agrees(s, p, n) == \A j \in 1..n : j <= Len(s) /\ s[j] = p[j]
LEMMA LeavesIt ==
    ASSUME NEW s \in Seq(Nat), NEW p \in Seq(Nat), NEW n \in 0..Len(p), ~Agrees(s, p, n)
    PROVE  \E d \in 1..n : Agrees(s, p, d - 1) /\ (d > Len(s) \/ (d <= Len(s) /\ s[d] # p[d]))
<1> DEFINE D == {j \in 1..n : ~(j <= Len(s) /\ s[j] = p[j])}
<1>0. Len(s) \in Nat /\ Len(p) \in Nat
  OBVIOUS
<1>1. D \subseteq Nat /\ D # {}
  <2>1. \E j \in 1..n : ~(j <= Len(s) /\ s[j] = p[j])
    BY DEF Agrees
  <2> QED BY <2>1
<1>2. PICK d \in D : \A j \in D : d <= j
  <2> HIDE DEF D
  <2> QED BY <1>1, LeastExists
<1>3. d \in 1..n /\ (d > Len(s) \/ (d <= Len(s) /\ s[d] # p[d]))
  BY <1>0
<1>4. Agrees(s, p, d - 1)
  <2>1. \A j \in 1..d - 1 : j \in 1..n /\ ~(d <= j)
    BY <1>3
  <2>2. \A j \in 1..d - 1 : j <= Len(s) /\ s[j] = p[j]
    BY <1>2, <2>1
  <2> QED BY <2>2 DEF Agrees
<1> QED BY <1>3, <1>4

\* strcmp: below at the first letter where two texts differ.
LEMMA BeforeIs ==
    \A t, p : Before(t, p) <=> \E i \in 1..Len(p) : Agrees(t, p, i - 1) /\ (i > Len(t) \/ (i <= Len(t) /\ t[i] < p[i]))
BY DEF Before, Agrees

\* What is not above a title that is below the term is below the term.
LEMMA BeforeGoesDown ==
    ASSUME NEW s \in Seq(Nat), NEW t \in Seq(Nat), NEW p \in Seq(Nat), ~Before(t, s), Before(t, p)
    PROVE  Before(s, p)
<1>0. /\ Len(s) \in Nat /\ Len(t) \in Nat /\ Len(p) \in Nat
      /\ (\A i \in 1..Len(s) : s[i] \in Nat) /\ (\A i \in 1..Len(t) : t[i] \in Nat) /\ (\A i \in 1..Len(p) : p[i] \in Nat)
  BY ElementOfSeq
<1>1. PICK i \in 1..Len(p) : Agrees(t, p, i - 1) /\ (i > Len(t) \/ (i <= Len(t) /\ t[i] < p[i]))
  BY BeforeIs
\* Where t leaves s, or ends, t is not the smaller.
<1>2. ASSUME NEW d \in 1..Len(s), Agrees(t, s, d - 1) PROVE d <= Len(t) /\ ~(t[d] < s[d])
  <2>1. ~(d > Len(t) \/ (d <= Len(t) /\ t[d] < s[d]))
    BY <1>2, BeforeIs
  <2>2. d \in Nat
    BY <1>0
  <2> QED BY <1>0, <2>1, <2>2
<1>3. CASE Agrees(s, p, i)
  <2>1. i <= Len(s) /\ s[i] = p[i] /\ \A j \in 1..i - 1 : j <= Len(s) /\ s[j] = p[j]
    BY <1>3 DEF Agrees
  <2>2. Agrees(t, s, i - 1)
    BY <1>1, <2>1 DEF Agrees
  <2> QED BY <1>0, <1>1, <1>2, <2>1, <2>2
<1>4. CASE ~Agrees(s, p, i)
  <2>1. PICK d \in 1..i : Agrees(s, p, d - 1) /\ (d > Len(s) \/ (d <= Len(s) /\ s[d] # p[d]))
    <3>1. i \in 0..Len(p)
      BY <1>0
    <3> QED BY <1>4, <3>1, LeavesIt
  <2>2. CASE d > Len(s)
    BY <1>0, <2>1, <2>2, BeforeIs
  <2>3. CASE d <= Len(s) /\ s[d] # p[d]
    <3>1. d \in 1..Len(p) /\ d \in 1..Len(s)
      BY <1>0, <2>3
    <3>2. Agrees(t, s, d - 1)
      BY <1>0, <1>1, <2>1 DEF Agrees
    <3>3. d <= Len(t) /\ ~(t[d] < s[d])
      BY <1>2, <3>1, <3>2
    <3>4. t[d] <= p[d]
      <4>0. t[d] \in Nat /\ p[d] \in Nat
        BY <1>0, <3>1, <3>3
      <4>1. CASE d = i
        <5>1. t[d] < p[d]
          BY <1>1, <3>3, <4>1
        <5> QED BY <4>0, <5>1
      <4>2. CASE d < i
        <5>1. d \in 1..i - 1
          BY <4>2
        <5>2. t[d] = p[d]
          BY <1>1, <5>1 DEF Agrees
        <5> QED BY <4>0, <5>2
      <4> QED BY <4>1, <4>2
    <3>5. s[d] < p[d]
      <4>0. d \in 1..Len(t)
        BY <1>0, <3>1, <3>3
      <4>1. PICK sd \in Nat, pd \in Nat, td \in Nat : sd = s[d] /\ pd = p[d] /\ td = t[d]
        BY <1>0, <3>1, <4>0
      <4>2. sd # pd /\ ~(td < sd) /\ td <= pd
        BY <2>3, <3>3, <3>4, <4>1
      <4>3. sd < pd
        BY <4>2
      <4> QED BY <4>1, <4>3
    <3> QED BY <2>1, <2>3, <3>1, <3>5, BeforeIs
  <2> QED BY <2>1, <2>2, <2>3
<1> QED BY <1>3, <1>4

\* A title that begins with the term is not below it.
LEMMA MatchIsNotBefore ==
    ASSUME NEW t \in Seq(Nat), NEW p \in Seq(Nat), StartsWith(t, p)
    PROVE  ~Before(t, p)
<1>1. Len(p) \in Nat /\ Len(t) \in Nat /\ Len(p) <= Len(t) /\ \A i \in 1..Len(p) : t[i] = p[i] /\ p[i] \in Nat
  BY StartsIs, ElementOfSeq
<1> QED BY <1>1 DEF Before

\* Behind a title that is not below the term and does not begin with it, none does.
LEMMA MatchesTogether ==
    ASSUME NEW u \in Seq(Nat), NEW t \in Seq(Nat), NEW p \in Seq(Nat),
           ~Before(u, t), ~Before(t, p), StartsWith(u, p)
    PROVE  StartsWith(t, p)
<1>0. /\ Len(u) \in Nat /\ Len(t) \in Nat /\ Len(p) \in Nat
      /\ (\A i \in 1..Len(t) : t[i] \in Nat) /\ (\A i \in 1..Len(p) : p[i] \in Nat)
      /\ Len(p) <= Len(u) /\ \A i \in 1..Len(p) : u[i] = p[i]
  BY StartsIs, ElementOfSeq
<1>1. CASE Agrees(t, p, Len(p))
  <2>1. \A i \in 1..Len(p) : i <= Len(t) /\ t[i] = p[i]
    BY <1>1 DEF Agrees
  <2>2. Len(p) <= Len(t)
    <3>1. CASE Len(p) = 0
      BY <1>0, <3>1
    <3>2. CASE Len(p) # 0
      BY <1>0, <2>1, <3>2
    <3> QED BY <3>1, <3>2
  <2> QED BY <2>1, <2>2, StartsIs
<1>2. CASE ~Agrees(t, p, Len(p))
  <2>1. PICK d \in 1..Len(p) : Agrees(t, p, d - 1) /\ (d > Len(t) \/ (d <= Len(t) /\ t[d] # p[d]))
    <3>1. Len(p) \in 0..Len(p)
      BY <1>0
    <3> QED BY <1>2, <3>1, LeavesIt
  <2>2. d <= Len(t) /\ ~(t[d] < p[d])
    BY <1>0, <2>1, BeforeIs
  <2>3. d \in 1..Len(t) /\ u[d] < t[d] /\ d <= Len(u)
    <3>1. d \in 1..Len(t) /\ d \in 1..Len(p) /\ d <= Len(u)
      BY <1>0, <2>2
    <3>2. PICK td \in Nat, pd \in Nat : td = t[d] /\ pd = p[d] /\ u[d] = pd
      BY <1>0, <3>1
    <3>3. td # pd /\ ~(td < pd)
      BY <2>1, <2>2, <3>2
    <3>4. pd < td
      BY <3>3
    <3> QED BY <3>1, <3>2, <3>4
  <2>4. Agrees(u, t, d - 1)
    <3>1. \A j \in 1..d - 1 : j \in 1..Len(p) /\ j <= Len(u) /\ u[j] = p[j]
      <4>1. PICK k \in Nat, l \in Nat : k = Len(p) /\ l = Len(u) /\ d \in 1..k /\ d <= l
        BY <1>0, <2>3
      <4>2. \A j \in 1..d - 1 : j \in 1..k /\ j <= l
        BY <4>1
      <4> QED BY <1>0, <4>1, <4>2
    <3>2. \A j \in 1..d - 1 : t[j] = p[j]
      BY <2>1 DEF Agrees
    <3> QED BY <3>1, <3>2 DEF Agrees
  <2> QED BY <2>3, <2>4, BeforeIs
<1> QED BY <1>1, <1>2

\* A member up to lo has fewer before it than there are up to lo, one behind lo as many.
LEMMA CountsAround ==
    ASSUME NEW T, NEW lo \in Nat, NEW i \in Nat \ {0}
    PROVE  /\ Count(T, lo) \in Nat /\ Count(T, i - 1) \in Nat
           /\ i <= lo /\ i \in T => Count(T, i - 1) < Count(T, lo)
           /\ i > lo => Count(T, lo) <= Count(T, i - 1)
<1>1. PICK k \in Nat : k = i - 1 /\ i = k + 1
  OBVIOUS
<1>2. Count(T, lo) \in Nat /\ Count(T, k) \in Nat /\ Count(T, k + 1) \in Nat
  BY CountNext
<1>3. ASSUME k + 1 <= lo, k + 1 \in T PROVE Count(T, k) < Count(T, lo)
  <2>1. Count(T, k + 1) = Count(T, k) + 1
    BY <1>3, CountNext
  <2>2. Count(T, k + 1) <= Count(T, lo)
    BY <1>3, CountGrows
  <2> QED BY <1>2, <2>1, <2>2
<1>4. ASSUME k + 1 > lo PROVE Count(T, lo) <= Count(T, k)
  <2>1. lo <= k
    BY <1>4
  <2> QED BY <2>1, CountGrows
<1> QED BY <1>1, <1>2, <1>3, <1>4

\* Once the scan of a sorted list ends, the pages to be listed are those it has read.
LEMMA ScanEnds ==
    ASSUME NEW list \in Seq(Title), NEW term \in Seq(Nat), NEW space, NEW lo \in 0..Len(list),
           NEW scanned \in 0..ScanCap, NEW n \in 0..PerFile
    PROVE  /\ Sorted(list)
           /\ \A i \in lo + 1..Len(list) : ~Before(list[i].title, term)
           /\ scanned = Cardinality({j \in 1..lo : Matches(list, j, term)})
           /\ n = Cardinality({j \in 1..lo : IsPage(list, space, j, term)})
           /\ lo = Len(list) \/ scanned = ScanCap \/ n = PerFile \/ ~StartsWith(list[lo + 1].title, term)
           => \A i \in DOMAIN list : i \in Pages(list, space, term) <=> i <= lo /\ IsPage(list, space, i, term)
<1> DEFINE M == {j \in Nat : Matches(list, j, term)}
           P == {j \in Nat : IsPage(list, space, j, term)}
<1>0. /\ Len(list) \in Nat /\ DOMAIN list = 1..Len(list) /\ lo \in Nat /\ ScanCap \in Nat /\ PerFile \in Nat
      /\ scanned \in Nat /\ n \in Nat /\ \A i \in 1..Len(list) : list[i].title \in Seq(Nat)
  <2>1. \A i \in 1..Len(list) : list[i] \in Title
    BY ElementOfSeq
  <2> QED BY <2>1, LenProperties, SearchAssumption DEF Title
<1>m. PICK size \in Nat : size = Len(list)
  BY <1>0
<1>1. ASSUME NEW k \in Nat
      PROVE  /\ Cardinality({j \in 1..k : Matches(list, j, term)}) = Count(M, k)
             /\ Cardinality({j \in 1..k : IsPage(list, space, j, term)}) = Count(P, k)
  <2>1. /\ {j \in 1..k : Matches(list, j, term)} = (1..k) \cap M
        /\ {j \in 1..k : IsPage(list, space, j, term)} = (1..k) \cap P
    OBVIOUS
  <2> QED BY Zenon, <2>1 DEF Count
<1>2. ASSUME NEW i \in 1..size
      PROVE  i \in Pages(list, space, term) <=>
                IsPage(list, space, i, term) /\ Count(M, i - 1) < ScanCap /\ Count(P, i - 1) < PerFile
  <2>1. i - 1 \in Nat
    OBVIOUS
  <2>2. /\ Cardinality({j \in 1..i - 1 : Matches(list, j, term)}) = Count(M, i - 1)
        /\ Cardinality({j \in 1..i - 1 : IsPage(list, space, j, term)}) = Count(P, i - 1)
    BY Zenon, <1>1, <2>1
  <2>3. i \in DOMAIN list
    BY <1>0, <1>m
  <2> HIDE DEF M, P
  <2> QED BY Zenon, <2>2, <2>3 DEF Pages
<1>3. \A i \in Nat : IsPage(list, space, i, term) => i \in M /\ i \in P
  BY DEF IsPage
<1> HIDE DEF M, P
<1> SUFFICES
      ASSUME Sorted(list), \A i \in lo + 1..size : ~Before(list[i].title, term),
             scanned = Count(M, lo), n = Count(P, lo),
             lo = size \/ scanned = ScanCap \/ n = PerFile \/ ~StartsWith(list[lo + 1].title, term),
             NEW i \in 1..size
      PROVE  i \in Pages(list, space, term) <=> i <= lo /\ IsPage(list, space, i, term)
  BY Zenon, <1>0, <1>1, <1>m
<1>4. i \in Nat \ {0} /\ lo \in Nat
  BY <1>0
<1>5. CASE i <= lo
  <2>1. IsPage(list, space, i, term) => Count(M, i - 1) < Count(M, lo) /\ Count(P, i - 1) < Count(P, lo)
    BY <1>3, <1>4, <1>5, CountsAround
  <2>2. Count(M, i - 1) \in Nat /\ Count(P, i - 1) \in Nat
    BY <1>4, CountsAround
  <2>3. IsPage(list, space, i, term) => Count(M, i - 1) < ScanCap /\ Count(P, i - 1) < PerFile
    BY <1>0, <2>1, <2>2
  <2> QED BY <1>2, <1>5, <2>3
<1>6. CASE i > lo
  <2>0. ~(i <= lo)
    BY <1>4, <1>6
  <2>1. /\ Count(M, lo) <= Count(M, i - 1) /\ Count(P, lo) <= Count(P, i - 1)
        /\ Count(M, i - 1) \in Nat /\ Count(P, i - 1) \in Nat
    BY <1>4, <1>6, CountsAround
  <2>2. CASE scanned = ScanCap \/ n = PerFile
    <3>1. ~(Count(M, i - 1) < ScanCap) \/ ~(Count(P, i - 1) < PerFile)
      BY <1>0, <2>1, <2>2
    <3> QED BY <1>2, <2>0, <3>1
  <2>3. CASE lo = size
    BY <1>4, <1>6, <2>3
  <2>4. CASE ~StartsWith(list[lo + 1].title, term) /\ lo # size
    <3>1. lo + 1 \in 1..size /\ lo + 1 \in lo + 1..size /\ (i = lo + 1 \/ lo + 1 < i)
      BY <1>4, <1>6, <2>4
    <3>2. ~StartsWith(list[i].title, term)
      <4>1. CASE i = lo + 1
        BY <2>4, <4>1
      <4>2. CASE lo + 1 < i
        <5>1. ~Before(list[i].title, list[lo + 1].title)
          BY <1>0, <1>m, <3>1, <4>2 DEF Sorted
        <5>2. ~Before(list[lo + 1].title, term)
          BY <3>1
        <5>3. list[i].title \in Seq(Nat) /\ list[lo + 1].title \in Seq(Nat)
          BY <1>0, <1>m, <3>1
        <5> QED BY <2>4, <5>1, <5>2, <5>3, MatchesTogether
      <4> QED BY <3>1, <4>1, <4>2
    <3> QED BY <1>2, <2>0, <3>2 DEF IsPage, Matches
  <2> QED BY <2>2, <2>3, <2>4
<1> QED BY <1>4, <1>5, <1>6

\* The term of the second pass.
Capitals(q) == <<Capital[Head(q)]>> \o Tail(q)

Searches ==
    [titles : Libraries, pc : {"begin", "refused", "archive", "bisect", "scan", "done"}, query : Seq(Nat), term : Seq(Nat),
     pass : {1, 2}, archive : Nat \ {0}, lo : Nat, hi : Nat, scanned : Nat, n : Nat,
     hits : Seq((Nat \ {0}) \X (Nat \ {0})), failed : BOOLEAN]

\* Where a search is, and for what.
Where(s) ==
    /\ s.pass = 1 => s.term = s.query
    /\ s.pass = 2 => s.query # <<>> /\ Head(s.query) \in DOMAIN Capital /\ s.term = Capitals(s.query)
    /\ s.pc \notin {"begin", "refused", "done"} => s.query # <<>>
    /\ s.pc \in {"begin", "refused"} =>
          s.pass = 1 /\ s.archive = 1 /\ s.hits = <<>> /\ ~s.failed
    /\ s.pc \in {"bisect", "scan"} => s.archive <= Len(s.titles)
    /\ s.pc = "bisect" => s.lo <= s.hi /\ s.hi <= Len(s.titles[s.archive]) /\ s.scanned = 0 /\ s.n = 0
    /\ s.pc = "scan" => s.lo <= Len(s.titles[s.archive])
    /\ s.pc = "done" /\ s.query # <<>> /\ ~s.failed =>
          /\ s.archive > Len(s.titles)
          /\ s.pass = 1 /\ s.hits = <<>> => Head(s.query) \notin DOMAIN Capital

\* A hit is a page behind the hits before it, and no further than the search is.
RightHit(s, k) ==
    LET a == s.hits[k][1]  i == s.hits[k][2] IN
    /\ a \in DOMAIN s.titles /\ i \in DOMAIN s.titles[a]
    /\ IsPage(s.titles[a], WantedSpace[a], i, s.term)
    /\ a < s.archive \/ (s.pc = "scan" /\ a = s.archive /\ i <= s.lo)
HitsRight(s) ==
    \A k \in 1..Len(s.hits) : RightHit(s, k) /\ \A l \in 1..k - 1 : Earlier(s.hits[l], s.hits[k])

\* An entry that is listed.
Hit(s, a, i) == \E k \in 1..Len(s.hits) : s.hits[k] = <<a, i>>

\* What completeness asks for: lists in order, and nothing that failed.
Orderly(s) == ~s.failed /\ \A a \in DOMAIN s.titles : Sorted(s.titles[a])

\* What is sought is not below lo, nor from hi on.
Bisected(s, list) ==
    /\ \A i \in 1..s.lo : Before(list[i].title, s.term)
    /\ \A i \in s.hi + 1..Len(list) : ~Before(list[i].title, s.term)
\* What was read, and that its pages were listed.
Scanned(s, list, space) ==
    /\ \A i \in s.lo + 1..Len(list) : ~Before(list[i].title, s.term)
    /\ s.scanned <= ScanCap /\ s.n <= PerFile
    /\ s.scanned = Cardinality({j \in 1..s.lo : Matches(list, j, s.term)})
    /\ s.n = Cardinality({j \in 1..s.lo : IsPage(list, space, j, s.term)})
    /\ \A i \in 1..s.lo : IsPage(list, space, i, s.term) => Hit(s, s.archive, i)
\* The archives that were searched are done.
Behind(s) ==
    \A a \in DOMAIN s.titles : a < s.archive =>
        \A i \in DOMAIN s.titles[a] : Hit(s, a, i) <=> i \in Pages(s.titles[a], WantedSpace[a], s.term)

\* Nothing that should be listed is missing from what was searched.
Complete(s) ==
    /\ s.pass = 2 => All(s.titles, s.query) = {}
    /\ s.query # <<>> => Behind(s)
    /\ s.pc = "bisect" => Bisected(s, s.titles[s.archive])
    /\ s.pc = "scan" => Scanned(s, s.titles[s.archive], WantedSpace[s.archive])

\* What holds of a search at every step.
SearchIs(s) == s \in Searches /\ Where(s) /\ HitsRight(s) /\ (Orderly(s) => Complete(s))
SearchInv == SearchIs(search)

\* What titles and hits are made of.
LEMMA TypesAre ==
    ASSUME NEW s \in Searches
    PROVE  /\ DOMAIN s.titles = 1..Len(s.titles) /\ Len(s.titles) \in Nat
           /\ \A a \in 1..Len(s.titles) : s.titles[a] \in Seq(Title)
           /\ Len(s.hits) \in Nat
           /\ \A k \in 1..Len(s.hits) : s.hits[k] \in (Nat \ {0}) \X (Nat \ {0})
<1>1. s.titles \in Seq(Seq(Title))
  BY SearchAssumption DEF Searches, Title
<1>2. s.hits \in Seq((Nat \ {0}) \X (Nat \ {0}))
  BY DEF Searches
<1>3. \A a \in 1..Len(s.titles) : s.titles[a] \in Seq(Title)
  BY <1>1, ElementOfSeq
<1>4. \A k \in 1..Len(s.hits) : s.hits[k] \in (Nat \ {0}) \X (Nat \ {0})
  BY <1>2, ElementOfSeq
<1> QED BY <1>1, <1>2, <1>3, <1>4, LenProperties

\* Hits stay right while the search goes on.
LEMMA HitsStay ==
    ASSUME NEW s \in Searches, NEW t \in Searches, HitsRight(s),
           t.hits = s.hits, t.titles = s.titles, t.term = s.term,
           \/ s.archive < t.archive
           \/ s.archive = t.archive /\ (s.pc = "scan" => t.pc = "scan" /\ s.lo <= t.lo)
    PROVE  HitsRight(t)
<1> SUFFICES ASSUME NEW k \in 1..Len(s.hits)
             PROVE  RightHit(t, k) /\ \A l \in 1..k - 1 : Earlier(t.hits[l], t.hits[k])
  BY DEF HitsRight
<1>1. RightHit(s, k) /\ \A l \in 1..k - 1 : Earlier(s.hits[l], s.hits[k])
  BY DEF HitsRight
<1>2. PICK a \in Nat, i \in Nat : a = s.hits[k][1] /\ i = s.hits[k][2]
  BY TypesAre
<1>3. PICK x \in Nat, y \in Nat, lo \in Nat, lo2 \in Nat :
         x = s.archive /\ y = t.archive /\ lo = s.lo /\ lo2 = t.lo
  BY DEF Searches
<1>4. a < x \/ (s.pc = "scan" /\ a = x /\ i <= lo)
  BY <1>1, <1>2, <1>3 DEF RightHit
<1>5. a < y \/ (t.pc = "scan" /\ a = y /\ i <= lo2)
  BY <1>3, <1>4
<1> QED BY <1>1, <1>2, <1>3, <1>5 DEF RightHit

\* A search has found nothing yet.
LEMMA SearchInitInv == SearchInit => SearchInv
<1> SUFFICES ASSUME SearchInit PROVE SearchIs(search)
  BY DEF SearchInv
<1>1. PICK q \in Queries, titles \in Libraries :
         search = [titles |-> titles, pc |-> "begin", query |-> q, term |-> q, pass |-> 1,
                   archive |-> 1, lo |-> 0, hi |-> 0, scanned |-> 0, n |-> 0, hits |-> <<>>,
                   failed |-> FALSE]
  BY DEF SearchInit
<1>2. q \in Seq(Nat) /\ <<>> \in Seq((Nat \ {0}) \X (Nat \ {0}))
  BY SearchAssumption
<1>3. search \in Searches
  BY <1>1, <1>2 DEF Searches
<1>4. Where(search)
  BY <1>1 DEF Where
<1>5. HitsRight(search)
  BY <1>1 DEF HitsRight
<1>6. Complete(search)
  <2>1. ~(\E a \in DOMAIN search.titles : a < search.archive)
    BY <1>1, <1>3, TypesAre
  <2> QED BY <1>1, <2>1 DEF Complete, Behind
<1> QED BY <1>3, <1>4, <1>5, <1>6 DEF SearchIs

\* Nothing is found before the first archive.
LEMMA BeginStep ==
    ASSUME SearchInv, Begin \/ NoPage \/ NoHits
    PROVE  SearchInv'
<1> SUFFICES SearchIs(search')
  BY DEF SearchInv
<1>s. PICK s, t : s = search /\ t = search'
  OBVIOUS
<1>1. s \in Searches /\ Where(s) /\ s.pc = "begin"
  BY <1>s DEF SearchInv, SearchIs, Begin, NoPage, NoHits
<1>4. /\ s.pass = 1 /\ s.archive = 1 /\ s.hits = <<>> /\ s.term = s.query
      /\ s = [s EXCEPT !.failed = FALSE]
  <2>1. s.pass = 1 /\ s.archive = 1 /\ s.hits = <<>> /\ s.term = s.query /\ ~s.failed
    BY <1>1 DEF Where
  <2>2. s.failed = FALSE
    BY <1>1, <2>1 DEF Searches
  <2> QED BY <1>1, <2>1, <2>2 DEF Searches
<1>2. PICK pc \in {"refused", "done", "archive"}, f \in {FALSE, TRUE} :
          /\ t = [s EXCEPT !.pc = pc, !.failed = f]
          /\ pc = "archive" => s.query # <<>>
          /\ pc = "refused" => f = FALSE
          /\ pc = "done" => f = TRUE \/ s.query = <<>>
  <2>1. \A pc \in {"refused", "done", "archive"} :
           [s EXCEPT !.pc = pc] = [s EXCEPT !.pc = pc, !.failed = FALSE]
    BY <1>1, <1>4 DEF Searches
  <2>2. CASE Begin
    BY <1>s, <2>1, <2>2 DEF Begin
  <2>3. CASE NoPage
    BY <1>s, <2>1, <2>3 DEF NoPage
  <2>4. CASE NoHits
    <3>1. t = [s EXCEPT !.pc = "done", !.failed = TRUE]
      BY <1>s, <2>4 DEF NoHits
    <3> QED BY <3>1
  <2> QED BY <2>2, <2>3, <2>4
<1>3. /\ t \in Searches /\ t.pc = pc /\ t.failed = f /\ t.hits = s.hits /\ t.titles = s.titles
      /\ t.term = s.term /\ t.query = s.query /\ t.pass = s.pass /\ t.archive = s.archive
  BY <1>1, <1>2 DEF Searches
<1>5. Where(t)
  BY <1>1, <1>2, <1>3, <1>4 DEF Where
<1>6. HitsRight(t)
  BY <1>3, <1>4 DEF HitsRight
<1>7. Complete(t)
  <2>1. ~(\E a \in DOMAIN t.titles : a < t.archive)
    BY <1>3, <1>4, TypesAre
  <2> QED BY <1>2, <1>3, <1>4, <2>1 DEF Complete, Behind
<1> QED BY <1>3, <1>5, <1>6, <1>7, <1>s DEF SearchIs

\* A read that fails ends the archive, and with it the claim of completeness.
LEMMA ReadFailsStep == SearchInv /\ ReadFails => SearchInv'
<1> SUFFICES ASSUME SearchInv, ReadFails PROVE SearchIs(search')
  BY DEF SearchInv
<1>s. PICK s, t : s = search /\ t = search'
  OBVIOUS
<1>1. s \in Searches /\ Where(s) /\ HitsRight(s) /\ s.pc \in {"bisect", "scan"}
  BY <1>s DEF SearchInv, SearchIs, ReadFails
<1>2. t = [s EXCEPT !.pc = "archive", !.archive = @ + 1, !.failed = TRUE]
  BY <1>s DEF ReadFails
<1>3. PICK x \in Nat \ {0} : x = s.archive
  BY <1>1 DEF Searches
<1>4. /\ t.pc = "archive" /\ t.archive = x + 1 /\ t.failed = TRUE /\ t.hits = s.hits /\ t.titles = s.titles
      /\ t.term = s.term /\ t.query = s.query /\ t.pass = s.pass
  BY <1>1, <1>2, <1>3 DEF Searches
<1>5. t \in Searches
  <2>1. x + 1 \in Nat \ {0}
    OBVIOUS
  <2> QED BY <1>1, <1>2, <1>3, <2>1 DEF Searches
<1>6. Where(t)
  BY <1>1, <1>4 DEF Where
<1>7. HitsRight(t)
  <2>1. s.archive < t.archive
    BY <1>3, <1>4
  <2> QED BY <1>1, <1>4, <1>5, <2>1, HitsStay
<1> QED BY <1>4, <1>5, <1>6, <1>7, <1>s DEF SearchIs, Orderly

\* The middle is in the range, and not its end.
LEMMA MidIs ==
    ASSUME NEW lo \in Nat, NEW hi \in Nat, lo < hi
    PROVE  lo + (hi - lo) \div 2 \in lo..hi - 1
<1>1. PICK d \in Nat : d = hi - lo /\ d > 0
  OBVIOUS
<1>2. d \div 2 \in 0..d - 1
  BY <1>1
<1>3. PICK h \in 0..d - 1 : h = d \div 2
  BY <1>2
<1> QED BY <1>1, <1>3

\* A turn of the bisection: the half that is left out has only titles below the term,
\* or none.
LEMMA BisectStep == SearchInv /\ Bisect => SearchInv'
<1> SUFFICES ASSUME SearchInv, Bisect PROVE SearchIs(search')
  BY DEF SearchInv
<1>s. PICK s, t : s = search /\ t = search'
  OBVIOUS
<1>1. s \in Searches /\ Where(s) /\ HitsRight(s) /\ s.pc = "bisect" /\ (Orderly(s) => Complete(s))
  BY <1>s DEF SearchInv, SearchIs, Bisect
<1>r. PICK x \in Nat \ {0}, lo \in Nat, hi \in Nat, term \in Seq(Nat) :
         x = s.archive /\ lo = s.lo /\ hi = s.hi /\ term = s.term
  BY <1>1 DEF Searches
<1>l. PICK list \in Seq(Title) : list = s.titles[x] /\ x \in 1..Len(s.titles)
  <2>1. x <= Len(s.titles)
    BY <1>1, <1>r DEF Where
  <2> QED BY <1>1, <2>1, TypesAre
<1>z. PICK size \in Nat : size = Len(list) /\ DOMAIN list = 1..size /\ \A i \in 1..size : list[i].title \in Seq(Nat)
  <2>1. \A i \in 1..Len(list) : list[i] \in Title
    BY ElementOfSeq
  <2> QED BY <2>1, LenProperties DEF Title
<1>2. lo <= hi /\ hi <= size /\ s.scanned = 0 /\ s.n = 0
  BY <1>1, <1>r, <1>l, <1>z DEF Where
<1>o. ASSUME Orderly(s)
      PROVE  /\ Sorted(list)
             /\ s.pass = 2 => All(s.titles, s.query) = {}
             /\ s.query # <<>> /\ Behind(s)
             /\ \A i \in 1..lo : Before(list[i].title, term)
             /\ \A i \in hi + 1..size : ~Before(list[i].title, term)
  <2>1. x \in DOMAIN s.titles
    BY <1>1, <1>l, TypesAre
  <2>2. Sorted(list)
    BY <1>o, <1>l, <2>1 DEF Orderly
  <2>3. Complete(s) /\ s.query # <<>>
    BY <1>1, <1>o DEF Where
  <2> QED BY <1>1, <1>r, <1>l, <1>z, <2>2, <2>3 DEF Complete, Bisected
\* Wherever the bisection goes on, what is behind stays.
<1>3. ASSUME t \in Searches, t.pc \in {"bisect", "scan"}, t.archive = x, t.hits = s.hits, t.titles = s.titles, t.term = term,
             t.query = s.query, t.pass = s.pass, t.failed = s.failed, t.lo <= size,
             t.pc = "bisect" => t.lo <= t.hi /\ t.hi <= size /\ t.scanned = 0 /\ t.n = 0,
             Orderly(s) => (t.pc = "bisect" => Bisected(t, list)) /\ (t.pc = "scan" => Scanned(t, list, WantedSpace[x]))
      PROVE  SearchIs(t)
  <2>1. Where(t)
    BY <1>1, <1>3, <1>r, <1>l, <1>z DEF Where
  <2>2. HitsRight(t)
    BY <1>1, <1>3, <1>r, HitsStay
  <2>3. Orderly(t) => Complete(t)
    <3> SUFFICES ASSUME Orderly(t) PROVE Complete(t)
      OBVIOUS
    <3>1. Orderly(s)
      BY <1>3 DEF Orderly
    <3>2. Behind(t)
      BY <1>3, <1>o, <1>r, <3>1 DEF Behind, Hit
    <3> QED BY <1>3, <1>o, <1>l, <3>1, <3>2 DEF Complete
  <2> QED BY <1>3, <2>1, <2>2, <2>3 DEF SearchIs
<1>4. CASE lo >= hi
  <2>1. t = [s EXCEPT !.pc = "scan"] /\ lo = hi
    BY <1>2, <1>4, <1>r, <1>s DEF Bisect
  <2>2. /\ t \in Searches /\ t.pc = "scan" /\ t.archive = x /\ t.hits = s.hits /\ t.titles = s.titles
        /\ t.term = term /\ t.query = s.query /\ t.pass = s.pass /\ t.failed = s.failed /\ t.lo = lo
        /\ t.scanned = s.scanned /\ t.n = s.n
    BY <1>1, <1>r, <2>1 DEF Searches
  <2>3. ASSUME Orderly(s) PROVE Scanned(t, list, WantedSpace[x])
    <3>1. /\ \A i \in t.lo + 1..Len(list) : ~Before(list[i].title, t.term)
          /\ \A i \in 1..lo : ~Matches(list, i, term)
      <4>1. \A i \in 1..lo : i \in 1..size /\ Before(list[i].title, term)
        BY <1>2, <1>o, <2>3
      <4>2. \A i \in 1..lo : ~Matches(list, i, term)
        BY <1>z, <4>1, MatchIsNotBefore DEF Matches
      <4>3. \A i \in hi + 1..size : ~Before(list[i].title, term)
        BY <1>o, <2>3
      <4> QED BY <1>z, <2>1, <2>2, <4>2, <4>3
    <3>2. \A i \in 1..lo : ~IsPage(list, WantedSpace[x], i, term)
      BY <3>1 DEF IsPage
    <3>3. /\ {j \in 1..lo : Matches(list, j, term)} = {}
          /\ {j \in 1..lo : IsPage(list, WantedSpace[x], j, term)} = {}
      BY <3>1, <3>2
    <3>4. Cardinality({}) = 0 /\ 0 <= ScanCap /\ 0 <= PerFile
      BY FS_EmptySet, SearchAssumption
    <3> QED BY <1>2, <2>2, <3>1, <3>2, <3>3, <3>4 DEF Scanned
  <2>4. lo <= size
    BY <1>2, <2>1
  <2> QED BY <1>3, <1>s, <2>2, <2>3, <2>4
<1>5. CASE lo < hi
  <2> DEFINE mid == lo + (hi - lo) \div 2
  <2>1. mid \in lo..hi - 1
    BY <1>5, MidIs
  <2>2. TooEarly(Entry(mid).title) <=> Before(list[mid + 1].title, term)
    BY <1>r, <1>l, <1>s DEF TooEarly, Entry, List
  <2>3. t = IF Before(list[mid + 1].title, term) THEN [s EXCEPT !.lo = mid + 1] ELSE [s EXCEPT !.hi = mid]
    <3>1. ~(search.lo >= search.hi)
      BY <1>5, <1>r, <1>s
    <3>2. t = IF TooEarly(Entry(mid).title) THEN [s EXCEPT !.lo = mid + 1] ELSE [s EXCEPT !.hi = mid]
      BY <1>r, <1>s, <3>1 DEF Bisect
    <3>3. CASE Before(list[mid + 1].title, term)
      BY <2>2, <3>2, <3>3
    <3>4. CASE ~Before(list[mid + 1].title, term)
      BY <2>2, <3>2, <3>4
    <3> QED BY <3>3, <3>4
  <2> HIDE DEF mid
  <2>4. mid \in Nat /\ mid + 1 \in 1..size /\ mid + 1 <= hi /\ lo <= mid
    BY <1>2, <2>1
  <2>5. \A i \in 1..size : list[i].title \in Seq(Nat)
    BY <1>z
  <2>6. CASE Before(list[mid + 1].title, term)
    <3>1. /\ t \in Searches /\ t.pc = "bisect" /\ t.archive = x /\ t.hits = s.hits /\ t.titles = s.titles
          /\ t.term = term /\ t.query = s.query /\ t.pass = s.pass /\ t.failed = s.failed
          /\ t.lo = mid + 1 /\ t.hi = hi /\ t.scanned = s.scanned /\ t.n = s.n
      <4>1. t = [s EXCEPT !.lo = mid + 1] /\ mid + 1 \in Nat
        BY <2>3, <2>4, <2>6
      <4> QED BY <1>1, <1>r, <4>1 DEF Searches
    <3>2. ASSUME Orderly(s) PROVE Bisected(t, list)
      <4>1. ASSUME NEW i \in 1..mid + 1 PROVE Before(list[i].title, term)
        <5>1. i \in 1..size /\ (i = mid + 1 \/ i < mid + 1)
          BY <2>4
        <5>2. i < mid + 1 => ~Before(list[mid + 1].title, list[i].title)
          BY <1>o, <1>z, <2>4, <3>2, <5>1 DEF Sorted
        <5> QED BY <2>4, <2>5, <2>6, <5>1, <5>2, BeforeGoesDown
      <4> QED BY <1>o, <1>z, <3>1, <3>2, <4>1 DEF Bisected
    <3>3. t.lo <= size /\ t.lo <= t.hi /\ t.hi <= size
      BY <1>2, <2>4, <3>1
    <3> QED BY <1>2, <1>3, <1>s, <3>1, <3>2, <3>3
  <2>7. CASE ~Before(list[mid + 1].title, term)
    <3>1. /\ t \in Searches /\ t.pc = "bisect" /\ t.archive = x /\ t.hits = s.hits /\ t.titles = s.titles
          /\ t.term = term /\ t.query = s.query /\ t.pass = s.pass /\ t.failed = s.failed
          /\ t.lo = lo /\ t.hi = mid /\ t.scanned = s.scanned /\ t.n = s.n
      <4>1. t = [s EXCEPT !.hi = mid]
        BY <2>3, <2>7
      <4> QED BY <1>1, <1>r, <2>4, <4>1 DEF Searches
    <3>2. ASSUME Orderly(s) PROVE Bisected(t, list)
      <4>1. ASSUME NEW i \in mid + 1..size PROVE ~Before(list[i].title, term)
        <5>1. i \in 1..size /\ (i = mid + 1 \/ mid + 1 < i)
          BY <2>4
        <5>2. mid + 1 < i => ~Before(list[i].title, list[mid + 1].title)
          BY <1>o, <1>z, <2>4, <3>2, <5>1 DEF Sorted
        <5> QED BY <2>4, <2>5, <2>7, <5>1, <5>2, BeforeGoesDown
      <4> QED BY <1>o, <1>z, <3>1, <3>2, <4>1 DEF Bisected
    <3>3. t.lo <= size /\ t.lo <= t.hi /\ t.hi <= size
      BY <1>2, <2>4, <3>1
    <3> QED BY <1>2, <1>3, <1>s, <3>1, <3>2, <3>3
  <2> QED BY <2>6, <2>7
<1> QED BY <1>4, <1>5

\* An archive is begun, or a pass ends: the second follows one that found nothing.
LEMMA NextArchiveStep == SearchInv /\ NextArchive => SearchInv'
<1> SUFFICES ASSUME SearchInv, NextArchive PROVE SearchIs(search')
  BY DEF SearchInv
<1>s. PICK s, t : s = search /\ t = search'
  OBVIOUS
<1>1. s \in Searches /\ Where(s) /\ HitsRight(s) /\ s.pc = "archive" /\ (Orderly(s) => Complete(s))
  BY <1>s DEF SearchInv, SearchIs, NextArchive
<1>r. PICK x \in Nat \ {0}, count \in Nat : x = s.archive /\ count = Len(s.titles) /\ DOMAIN s.titles = 1..count
  BY <1>1, TypesAre DEF Searches
<1>q. s.query # <<>> /\ s.query \in Seq(Nat)
  BY <1>1 DEF Where, Searches
<1>2. CASE x <= count
  <2>1. PICK size \in Nat : size = Len(s.titles[x])
    <3>1. s.titles[x] \in Seq(Title)
      BY <1>1, <1>2, <1>r, TypesAre
    <3> QED BY <3>1
  <2>2. t = [s EXCEPT !.pc = "bisect", !.lo = 0, !.hi = size, !.scanned = 0, !.n = 0]
    BY <1>2, <1>r, <1>s, <2>1 DEF NextArchive, List
  <2>3. /\ t \in Searches /\ t.pc = "bisect" /\ t.archive = x /\ t.hits = s.hits /\ t.titles = s.titles
        /\ t.term = s.term /\ t.query = s.query /\ t.pass = s.pass /\ t.failed = s.failed
        /\ t.lo = 0 /\ t.hi = size /\ t.scanned = 0 /\ t.n = 0
    BY <1>1, <1>r, <2>2 DEF Searches
  <2>4. Where(t)
    BY <1>1, <1>2, <1>r, <2>1, <2>3 DEF Where
  <2>5. HitsRight(t)
    BY <1>1, <1>r, <2>3, HitsStay
  <2>6. ASSUME Orderly(t) PROVE Complete(t)
    <3>1. Complete(s)
      BY <1>1, <2>3, <2>6 DEF Orderly
    <3>2. Behind(t)
      BY <1>q, <1>r, <2>3, <3>1 DEF Complete, Behind, Hit
    <3>3. Bisected(t, t.titles[x])
      <4>1. \A i \in 1..0 : FALSE
        OBVIOUS
      <4>2. \A i \in size + 1..size : FALSE
        OBVIOUS
      <4> QED BY <2>1, <2>3, <4>1, <4>2 DEF Bisected
    <3> QED BY <2>3, <3>1, <3>2, <3>3 DEF Complete
  <2> QED BY <1>s, <2>3, <2>4, <2>5, <2>6 DEF SearchIs
<1>3. CASE x > count
  <2>0. ~(x <= count)
    BY <1>3
  <2>a. CASE s.pass = 1 /\ s.hits = <<>> /\ Head(s.term) \in DOMAIN Capital
    <3>1. s.term = s.query
      BY <1>1, <2>a DEF Where
    <3>2. t = [s EXCEPT !.pass = 2, !.archive = 1, !.term = Capitals(s.query)]
      BY <1>r, <1>s, <2>0, <2>a, <3>1 DEF NextArchive, Capitals
    <3>3. Capitals(s.query) \in Seq(Nat)
      <4>1. Capital[Head(s.query)] \in Nat
        BY <2>a, <3>1, SearchAssumption
      <4>2. Tail(s.query) \in Seq(Nat)
        BY <1>q
      <4>3. <<Capital[Head(s.query)]>> \in Seq(Nat)
        BY <4>1
      <4> QED BY <4>2, <4>3 DEF Capitals
    <3>4. /\ t \in Searches /\ t.pc = "archive" /\ t.archive = 1 /\ t.hits = <<>> /\ t.titles = s.titles
          /\ t.term = Capitals(s.query) /\ t.query = s.query /\ t.pass = 2 /\ t.failed = s.failed
      <4>1. PICK term \in Seq(Nat) : term = Capitals(s.query)
        BY <3>3
      <4>2. t = [s EXCEPT !.pass = 2, !.archive = 1, !.term = term]
        BY <3>2, <4>1
      <4>3. t \in Searches
        <5>1. 2 \in {1, 2} /\ 1 \in Nat \ {0}
          OBVIOUS
        <5>2. s \in Searches
          BY <1>1
        <5> QED BY <4>1, <4>2, <5>1, <5>2 DEF Searches
      <4>5. t.hits = s.hits
        BY <1>1, <4>2 DEF Searches
      <4>4. /\ t.pc = "archive" /\ t.archive = 1 /\ t.titles = s.titles
            /\ t.term = term /\ t.query = s.query /\ t.pass = 2 /\ t.failed = s.failed
        BY <1>1, <4>2 DEF Searches
      <4> QED BY <2>a, <4>1, <4>3, <4>4, <4>5
    <3>5. Where(t)
      BY <1>q, <2>a, <3>1, <3>4 DEF Where
    <3>6. HitsRight(t)
      BY <3>4 DEF HitsRight
    <3>7. ASSUME Orderly(t) PROVE Complete(t)
      <4>1. Complete(s)
        BY <1>1, <3>4, <3>7 DEF Orderly
      <4>2. ASSUME NEW a \in DOMAIN s.titles PROVE Pages(s.titles[a], WantedSpace[a], s.query) = {}
        <5>1. a < x
          BY <1>3, <1>r
        <5>2. \A i \in DOMAIN s.titles[a] : ~Hit(s, a, i)
          BY <2>a DEF Hit
        <5>3. \A i \in DOMAIN s.titles[a] : i \notin Pages(s.titles[a], WantedSpace[a], s.query)
          BY <1>q, <1>r, <3>1, <4>1, <5>1, <5>2 DEF Complete, Behind
        <5> QED BY <5>3 DEF Pages
      <4>3. All(t.titles, t.query) = {}
        BY <3>4, <4>2 DEF All
      <4>4. Behind(t)
        <5>1. \A a \in DOMAIN t.titles : ~(a < t.archive)
          BY <1>r, <3>4
        <5> QED BY <5>1 DEF Behind
      <4> QED BY <3>4, <4>3, <4>4 DEF Complete
    <3> QED BY <1>s, <3>4, <3>5, <3>6, <3>7 DEF SearchIs
  <2>b. CASE ~(s.pass = 1 /\ s.hits = <<>> /\ Head(s.term) \in DOMAIN Capital)
    <3>1. t = [s EXCEPT !.pc = "done"]
      BY <1>r, <1>s, <2>0, <2>b DEF NextArchive
    <3>2. /\ t \in Searches /\ t.pc = "done" /\ t.archive = x /\ t.hits = s.hits /\ t.titles = s.titles
          /\ t.term = s.term /\ t.query = s.query /\ t.pass = s.pass /\ t.failed = s.failed
      BY <1>1, <1>r, <3>1 DEF Searches
    <3>3. Where(t)
      BY <1>1, <1>3, <1>r, <2>b, <3>2 DEF Where
    <3>4. HitsRight(t)
      BY <1>1, <1>r, <3>2, HitsStay
    <3>5. ASSUME Orderly(t) PROVE Complete(t)
      BY <1>1, <1>r, <3>2, <3>5 DEF Orderly, Complete, Behind, Hit
    <3> QED BY <1>s, <3>2, <3>3, <3>4, <3>5 DEF SearchIs
  <2> QED BY <2>a, <2>b
<1> QED BY <1>2, <1>3, <1>r

\* A turn of the scan: the entry is listed or passed over, or the scan ends.
LEMMA ScanStep == SearchInv /\ Scan => SearchInv'
<1> SUFFICES ASSUME SearchInv, Scan PROVE SearchIs(search')
  BY DEF SearchInv
<1>s. PICK s, t : s = search /\ t = search'
  OBVIOUS
<1>1. s \in Searches /\ Where(s) /\ HitsRight(s) /\ s.pc = "scan" /\ (Orderly(s) => Complete(s)) /\ s.query # <<>>
  BY <1>s DEF SearchInv, SearchIs, Scan, Where
<1>r. PICK x \in Nat \ {0}, lo \in Nat, scanned \in Nat, n \in Nat, term \in Seq(Nat),
          space \in {WantedSpace[s.archive]} :
         x = s.archive /\ lo = s.lo /\ scanned = s.scanned /\ n = s.n /\ term = s.term /\ space = WantedSpace[x]
  BY <1>1 DEF Searches
<1>l. PICK list \in Seq(Title) : list = s.titles[x] /\ x \in 1..Len(s.titles) /\ x \in DOMAIN s.titles
  <2>1. x <= Len(s.titles)
    BY <1>1, <1>r DEF Where
  <2> QED BY <1>1, <2>1, TypesAre
<1>z. PICK size \in Nat : size = Len(list) /\ DOMAIN list = 1..size /\ lo <= size
  <2>1. lo <= Len(list)
    BY <1>1, <1>r, <1>l DEF Where
  <2> QED BY <2>1, LenProperties
<1> DEFINE Going == lo < size /\ scanned < ScanCap /\ n < PerFile /\ StartsWith(list[lo + 1].title, term)
<1>2. /\ ~Going => t = [s EXCEPT !.pc = "archive", !.archive = @ + 1]
      /\ Going /\ list[lo + 1].ns # space => t = [s EXCEPT !.lo = @ + 1, !.scanned = @ + 1]
      /\ Going /\ list[lo + 1].ns = space =>
            t = [s EXCEPT !.lo = @ + 1, !.scanned = @ + 1, !.n = @ + 1, !.hits = Append(@, <<x, lo + 1>>)]
  <2>1. Going <=> /\ search.lo < Len(List) /\ search.scanned < ScanCap /\ search.n < PerFile
                  /\ StartsWith(Entry(search.lo).title, search.term)
    BY <1>r, <1>l, <1>z, <1>s DEF Entry, List
  <2>2. Entry(search.lo).ns = list[lo + 1].ns /\ WantedSpace[search.archive] = space
    BY <1>r, <1>l, <1>s DEF Entry, List
  <2> HIDE DEF Going
  <2>3. CASE ~Going
    <3>1. search' = [search EXCEPT !.pc = "archive", !.archive = @ + 1]
      BY <2>1, <2>3 DEF Scan
    <3> QED BY <1>s, <2>3, <3>1
  <2>4. CASE Going
    <3> DEFINE further == [search EXCEPT !.lo = @ + 1, !.scanned = @ + 1]
    <3>1. search' = IF Entry(search.lo).ns # WantedSpace[search.archive] THEN further
                    ELSE [further EXCEPT !.n = @ + 1, !.hits = Append(@, <<search.archive, search.lo + 1>>)]
      BY <2>1, <2>4 DEF Scan
    <3> QED BY <1>r, <1>s, <2>2, <2>4, <3>1
  <2> QED BY <2>3, <2>4
<1> HIDE DEF Going
<1>c. ScanCap \in Nat /\ PerFile \in Nat
  BY SearchAssumption
<1>o. ASSUME Orderly(s)
      PROVE  /\ Sorted(list) /\ Behind(s)
             /\ s.pass = 2 => All(s.titles, s.query) = {}
             /\ \A i \in lo + 1..size : ~Before(list[i].title, term)
             /\ scanned <= ScanCap /\ n <= PerFile
             /\ scanned = Cardinality({j \in 1..lo : Matches(list, j, term)})
             /\ n = Cardinality({j \in 1..lo : IsPage(list, space, j, term)})
             /\ \A i \in 1..lo : IsPage(list, space, i, term) => Hit(s, x, i)
  <2>1. Sorted(list)
    BY <1>o, <1>l DEF Orderly
  <2>2. Complete(s)
    BY <1>1, <1>o
  <2>3. Scanned(s, list, space)
    BY <1>1, <1>r, <1>l, <2>2 DEF Complete
  <2> QED BY <1>1, <1>r, <1>z, <2>1, <2>2, <2>3 DEF Complete, Scanned
\* Of this archive, hits are pages up to lo.
<1>h. ASSUME NEW i, Hit(s, x, i) PROVE i <= lo /\ IsPage(list, space, i, term)
  <2>1. PICK k \in 1..Len(s.hits) : s.hits[k] = <<x, i>>
    BY <1>h DEF Hit
  <2>2. RightHit(s, k) /\ s.hits[k][1] = x /\ s.hits[k][2] = i
    BY <1>1, <2>1 DEF HitsRight
  <2> QED BY <1>r, <1>l, <2>2 DEF RightHit
<1>3. CASE ~Going
  <2>1. t = [s EXCEPT !.pc = "archive", !.archive = x + 1]
    BY <1>2, <1>3, <1>r
  <2>2. /\ t \in Searches /\ t.pc = "archive" /\ t.archive = x + 1 /\ t.hits = s.hits /\ t.titles = s.titles
        /\ t.term = s.term /\ t.query = s.query /\ t.pass = s.pass /\ t.failed = s.failed
    <3>1. x + 1 \in Nat \ {0}
      OBVIOUS
    <3> QED BY <1>1, <2>1, <3>1 DEF Searches
  <2>3. Where(t)
    BY <1>1, <2>2 DEF Where
  <2>4. HitsRight(t)
    <3>1. s.archive < t.archive
      BY <1>r, <2>2
    <3> QED BY <1>1, <2>2, <3>1, HitsStay
  <2>5. ASSUME Orderly(t) PROVE Complete(t)
    <3>1. Orderly(s)
      BY <2>2, <2>5 DEF Orderly
    <3>2. \A i \in DOMAIN list : i \in Pages(list, space, term) <=> i <= lo /\ IsPage(list, space, i, term)
      <4>1. lo = size \/ scanned = ScanCap \/ n = PerFile \/ ~StartsWith(list[lo + 1].title, term)
        BY <1>3, <1>c, <1>o, <1>z, <3>1 DEF Going
      <4>2. lo \in 0..Len(list) /\ scanned \in 0..ScanCap /\ n \in 0..PerFile
        BY <1>c, <1>o, <1>z, <3>1
      <4> QED BY <1>o, <1>z, <3>1, <4>1, <4>2, ScanEnds
    <3>3. \A i \in DOMAIN list : Hit(s, x, i) <=> i \in Pages(list, space, term)
      <4>1. \A i \in DOMAIN list : i <= lo => i \in 1..lo
        BY <1>z
      <4> QED BY <1>o, <1>h, <3>1, <3>2, <4>1
    <3>4. ASSUME NEW a \in DOMAIN s.titles, a < x + 1, NEW i \in DOMAIN s.titles[a]
          PROVE  Hit(s, a, i) <=> i \in Pages(s.titles[a], WantedSpace[a], term)
      <4>1. CASE a = x
        BY <1>r, <1>l, <3>3, <3>4, <4>1
      <4>2. CASE a < x
        BY <1>o, <1>r, <3>1, <3>4, <4>2 DEF Behind
      <4>3. a \in Nat
        BY <1>1, TypesAre
      <4> QED BY <3>4, <4>1, <4>2, <4>3
    <3>5. Behind(t)
      <4>1. \A a, i : Hit(t, a, i) <=> Hit(s, a, i)
        BY <2>2 DEF Hit
      <4> QED BY <1>r, <2>2, <3>4, <4>1 DEF Behind
    <3> QED BY <1>o, <2>2, <3>1, <3>5 DEF Complete
  <2> QED BY <1>s, <2>2, <2>3, <2>4, <2>5 DEF SearchIs
<1>4. CASE Going
  <2>0. lo + 1 \in 1..size /\ scanned + 1 <= ScanCap /\ n + 1 <= PerFile /\ Matches(list, lo + 1, term)
    BY <1>4, <1>c, <1>z DEF Going, Matches
  <2>s. IsPage(list, space, lo + 1, term) <=> list[lo + 1].ns = space
    BY <2>0 DEF IsPage
  <2>1. PICK new \in {0, 1} : new = IF list[lo + 1].ns = space THEN 1 ELSE 0
    <3>1. (IF list[lo + 1].ns = space THEN 1 ELSE 0) \in {0, 1}
      OBVIOUS
    <3> QED BY <3>1
  <2>t. /\ t \in Searches /\ t.pc = "scan" /\ t.archive = x /\ t.titles = s.titles /\ t.lo = lo + 1
        /\ t.scanned = scanned + 1 /\ t.n = n + new
        /\ t.hits = IF new = 1 THEN Append(s.hits, <<x, lo + 1>>) ELSE s.hits
        /\ t.term = term /\ t.query = s.query /\ t.pass = s.pass /\ t.failed = s.failed
    <3>1. CASE list[lo + 1].ns # space
      <4>1. t = [s EXCEPT !.lo = lo + 1, !.scanned = scanned + 1]
        BY <1>2, <1>4, <1>r, <3>1
      <4>2. lo + 1 \in Nat /\ scanned + 1 \in Nat /\ new = 0 /\ n + new = n
        BY <2>1, <3>1
      <4>3. /\ t \in Searches /\ t.pc = "scan" /\ t.archive = x /\ t.titles = s.titles /\ t.lo = lo + 1
            /\ t.scanned = scanned + 1 /\ t.n = n /\ t.hits = s.hits
            /\ t.term = term /\ t.query = s.query /\ t.pass = s.pass /\ t.failed = s.failed
        BY <1>1, <1>r, <4>1, <4>2 DEF Searches
      <4> QED BY <4>2, <4>3
    <3>2. CASE list[lo + 1].ns = space
      <4> DEFINE more == Append(s.hits, <<x, lo + 1>>)
      <4>1. t = [s EXCEPT !.lo = lo + 1, !.scanned = scanned + 1, !.n = n + 1, !.hits = more]
        BY <1>2, <1>4, <1>r, <3>2
      <4>2. more \in Seq((Nat \ {0}) \X (Nat \ {0}))
        <5>1. s.hits \in Seq((Nat \ {0}) \X (Nat \ {0}))
          BY <1>1 DEF Searches
        <5>2. <<x, lo + 1>> \in (Nat \ {0}) \X (Nat \ {0})
          OBVIOUS
        <5> QED BY <5>1, <5>2, AppendProperties
      <4> HIDE DEF more
      <4>3. lo + 1 \in Nat /\ scanned + 1 \in Nat /\ n + 1 \in Nat /\ new = 1 /\ n + new = n + 1
        BY <2>1, <3>2
      <4>4. /\ t \in Searches /\ t.pc = "scan" /\ t.archive = x /\ t.titles = s.titles /\ t.lo = lo + 1
            /\ t.scanned = scanned + 1 /\ t.n = n + 1 /\ t.hits = more
            /\ t.term = term /\ t.query = s.query /\ t.pass = s.pass /\ t.failed = s.failed
        BY <1>1, <1>r, <4>1, <4>2, <4>3 DEF Searches
      <4> QED BY <4>3, <4>4 DEF more
    <3> QED BY <3>1, <3>2
  <2>2. Where(t)
    BY <1>1, <1>l, <1>r, <1>z, <2>0, <2>t DEF Where
  <2>3. PICK size2 \in Nat : size2 = Len(s.hits)
    BY <1>1, TypesAre
  <2>4. /\ Len(t.hits) = size2 + new /\ \A k \in 1..size2 : t.hits[k] = s.hits[k]
        /\ new = 1 => t.hits[size2 + 1] = <<x, lo + 1>>
    <3>1. s.hits \in Seq((Nat \ {0}) \X (Nat \ {0})) /\ <<x, lo + 1>> \in (Nat \ {0}) \X (Nat \ {0})
      BY <1>1 DEF Searches
    <3>2. /\ Len(Append(s.hits, <<x, lo + 1>>)) = size2 + 1
          /\ \A k \in 1..size2 : Append(s.hits, <<x, lo + 1>>)[k] = s.hits[k]
          /\ Append(s.hits, <<x, lo + 1>>)[size2 + 1] = <<x, lo + 1>>
      BY <2>3, <3>1, AppendProperties
    <3>3. CASE new = 1
      BY <2>t, <3>2, <3>3
    <3>4. CASE new = 0
      BY <2>3, <2>t, <3>4
    <3> QED BY <3>3, <3>4
  <2>5. HitsRight(t)
    <3>1. ASSUME NEW k \in 1..size2 PROVE RightHit(t, k) /\ \A l \in 1..k - 1 : Earlier(t.hits[l], t.hits[k])
      <4>1. RightHit(s, k) /\ \A l \in 1..k - 1 : Earlier(s.hits[l], s.hits[k])
        BY <1>1, <2>3 DEF HitsRight
      <4>2. \A l \in 1..k - 1 : l \in 1..size2
        OBVIOUS
      <4>3. PICK a \in Nat, i \in Nat : a = s.hits[k][1] /\ i = s.hits[k][2]
        BY <1>1, <2>3, TypesAre
      <4>4. i <= lo => i <= lo + 1
        OBVIOUS
      <4>5. RightHit(t, k)
        BY <1>1, <1>r, <2>4, <2>t, <4>1, <4>3, <4>4 DEF RightHit
      <4> QED BY <2>4, <4>1, <4>2, <4>5
    <3>2. CASE new = 1
      <4>1. RightHit(t, size2 + 1)
        <5>1. t.hits[size2 + 1][1] = x /\ t.hits[size2 + 1][2] = lo + 1
          BY <2>4, <3>2
        <5>2. IsPage(list, space, lo + 1, term) /\ lo + 1 \in DOMAIN list
          BY <1>z, <2>0, <2>1, <2>s, <3>2
        <5>3. lo + 1 <= lo + 1
          OBVIOUS
        <5> QED BY <1>l, <1>r, <2>t, <5>1, <5>2, <5>3 DEF RightHit
      <4>2. ASSUME NEW l \in 1..size2 PROVE Earlier(t.hits[l], t.hits[size2 + 1])
        <5>1. RightHit(s, l) /\ t.hits[l] = s.hits[l]
          BY <1>1, <2>3, <2>4 DEF HitsRight
        <5>2. PICK a \in Nat, i \in Nat : a = s.hits[l][1] /\ i = s.hits[l][2]
          BY <1>1, <2>3, TypesAre
        <5>3. a < x \/ (a = x /\ i <= lo)
          BY <1>r, <5>1, <5>2 DEF RightHit
        <5>4. t.hits[size2 + 1][1] = x /\ t.hits[size2 + 1][2] = lo + 1
          BY <2>4, <3>2
        <5> QED BY <5>1, <5>2, <5>3, <5>4 DEF Earlier
      <4>3. \A k \in 1..size2 + 1 : k \in 1..size2 \/ k = size2 + 1
        OBVIOUS
      <4>4. Len(t.hits) = size2 + 1 /\ size2 + 1 - 1 = size2
        BY <2>4, <3>2
      <4>5. ASSUME NEW k \in 1..size2 + 1 PROVE RightHit(t, k) /\ \A l \in 1..k - 1 : Earlier(t.hits[l], t.hits[k])
        <5>1. CASE k \in 1..size2
          BY <3>1, <5>1
        <5>2. CASE k = size2 + 1
          BY <4>1, <4>2, <4>4, <5>2
        <5> QED BY <4>3, <5>1, <5>2
      <4> QED BY <4>4, <4>5 DEF HitsRight
    <3>3. CASE new = 0
      <4>1. Len(t.hits) = size2
        BY <2>3, <2>4, <3>3
      <4> QED BY <3>1, <4>1 DEF HitsRight
    <3> QED BY <3>2, <3>3
  <2>6. ASSUME Orderly(t) PROVE Complete(t)
    <3>1. Orderly(s)
      BY <2>6, <2>t DEF Orderly
    <3>2. \A a, i : Hit(s, a, i) => Hit(t, a, i)
      <4>1. \A k \in 1..size2 : k \in 1..Len(t.hits)
        BY <2>4
      <4> QED BY <2>3, <2>4, <4>1 DEF Hit
    <3>3. \A a, i : Hit(t, a, i) /\ a # x => Hit(s, a, i)
      <4>1. ASSUME NEW a, NEW i, a # x, NEW k \in 1..Len(t.hits), t.hits[k] = <<a, i>> PROVE Hit(s, a, i)
        <5>1. k \in 1..size2 \/ (new = 1 /\ k = size2 + 1)
          BY <2>4
        <5>2. k # size2 + 1 \/ new # 1
          BY <2>4, <4>1
        <5> QED BY <2>3, <2>4, <4>1, <5>1, <5>2 DEF Hit
      <4> QED BY <4>1 DEF Hit
    <3>4. Behind(t)
      <4>1. \A a \in DOMAIN s.titles : a < x => a # x
        BY <1>1, TypesAre
      <4> QED BY <1>o, <1>r, <2>t, <3>1, <3>2, <3>3, <4>1 DEF Behind
    <3>5. Scanned(t, list, space)
      <4> DEFINE M == {j \in Nat : Matches(list, j, term)}
                 P == {j \in Nat : IsPage(list, space, j, term)}
      <4>1. ASSUME NEW k \in Nat
            PROVE  /\ Cardinality({j \in 1..k : Matches(list, j, term)}) = Count(M, k)
                   /\ Cardinality({j \in 1..k : IsPage(list, space, j, term)}) = Count(P, k)
        <5>1. /\ {j \in 1..k : Matches(list, j, term)} = (1..k) \cap M
              /\ {j \in 1..k : IsPage(list, space, j, term)} = (1..k) \cap P
          OBVIOUS
        <5> QED BY Zenon, <5>1 DEF Count
      <4>2. lo + 1 \in M /\ (lo + 1 \in P <=> new = 1)
        BY <2>0, <2>1, <2>s
      <4> HIDE DEF M, P
      <4>3. Count(M, lo) = scanned /\ Count(P, lo) = n
        BY Zenon, <1>o, <1>r, <3>1, <4>1
      <4>4. Count(M, lo + 1) = scanned + 1 /\ Count(P, lo + 1) = n + new
        <5>1. Count(M, lo + 1) = Count(M, lo) + 1
          BY <4>2, CountNext
        <5>2. CASE new = 1
          BY <4>2, <4>3, <5>1, <5>2, CountNext
        <5>3. CASE new = 0
          <6>1. Count(P, lo + 1) = Count(P, lo)
            BY <4>2, <5>3, CountNext
          <6> QED BY <4>3, <5>1, <5>3, <6>1
        <5> QED BY <5>2, <5>3
      <4>5. lo + 1 \in Nat
        OBVIOUS
      <4>6. /\ Cardinality({j \in 1..lo + 1 : Matches(list, j, term)}) = scanned + 1
            /\ Cardinality({j \in 1..lo + 1 : IsPage(list, space, j, term)}) = n + new
        BY Zenon, <4>1, <4>4, <4>5
      <4>7. \A i \in lo + 1 + 1..size : ~Before(list[i].title, term)
        <5>1. \A i \in lo + 1 + 1..size : i \in lo + 1..size
          OBVIOUS
        <5> QED BY <1>o, <3>1, <5>1
      <4>8. ASSUME NEW i \in 1..lo + 1, IsPage(list, space, i, term) PROVE Hit(t, x, i)
        <5>1. CASE i = lo + 1
          <6>1. new = 1 /\ size2 + 1 \in 1..Len(t.hits)
            BY <2>1, <2>4, <2>s, <4>8, <5>1
          <6> QED BY <2>4, <5>1, <6>1 DEF Hit
        <5>2. CASE i # lo + 1
          <6>1. i \in 1..lo
            BY <5>2
          <6> QED BY <1>o, <3>1, <3>2, <4>8, <6>1
        <5> QED BY <5>1, <5>2
      <4>9. scanned + 1 <= ScanCap /\ n + new <= PerFile
        <5>1. scanned + 1 <= ScanCap /\ n + 1 <= PerFile
          BY <2>0
        <5>2. new \in Nat /\ new <= 1
          OBVIOUS
        <5> QED BY <1>c, <5>1, <5>2
      <4> QED BY <1>z, <2>t, <4>6, <4>7, <4>8, <4>9 DEF Scanned
    <3> QED BY <1>l, <1>o, <1>r, <2>t, <3>1, <3>4, <3>5 DEF Complete
  <2> QED BY <1>s, <2>t, <2>2, <2>5, <2>6 DEF SearchIs
<1> QED BY <1>3, <1>4

\* Every step keeps it.
LEMMA SearchStep == SearchInv /\ [SearchNext]_search => SearchInv'
<1>1. CASE UNCHANGED search
  BY <1>1 DEF SearchInv
<1> QED BY <1>1, BeginStep, NextArchiveStep, ReadFailsStep, BisectStep, ScanStep DEF SearchNext

\* A search that is done lists what it should.
LEMMA SearchRight == SearchInv => ListsRight
<1> SUFFICES ASSUME SearchInv, search.pc = "done" PROVE ListsRight
  BY DEF ListsRight
<1>s. PICK s : s = search
  OBVIOUS
<1>1. s \in Searches /\ Where(s) /\ HitsRight(s) /\ s.pc = "done" /\ (Orderly(s) => Complete(s))
  BY <1>s DEF SearchInv, SearchIs
<1>r. PICK x \in Nat \ {0}, count \in Nat : x = s.archive /\ count = Len(s.titles) /\ DOMAIN s.titles = 1..count
  BY <1>1, TypesAre DEF Searches
<1> DEFINE titles == s.titles  query == s.query  hits == s.hits
<1>2. PICK size \in Nat : size = Len(hits) /\ DOMAIN hits = 1..size
  <2>1. hits \in Seq((Nat \ {0}) \X (Nat \ {0}))
    BY <1>1 DEF Searches
  <2> QED BY <2>1, LenProperties
<1>3. \A k \in DOMAIN hits : IsPage(titles[hits[k][1]], WantedSpace[hits[k][1]], hits[k][2], s.term)
  BY <1>1, <1>2 DEF HitsRight, RightHit
<1>4. \A k, l \in DOMAIN hits : k < l => Earlier(hits[k], hits[l])
  <2>1. \A k, l \in 1..size : k < l => k \in 1..l - 1
    OBVIOUS
  <2> QED BY <1>1, <1>2, <2>1 DEF HitsRight
<1>5. ASSUME Orderly(s), query # <<>>
      PROVE  Range(hits) = IF All(titles, query) # {} THEN All(titles, query)
                           ELSE IF Head(query) \in DOMAIN Capital THEN All(titles, Capitals(query)) ELSE {}
  <2>0. Complete(s) /\ x > count /\ (s.pass = 1 /\ hits = <<>> => Head(query) \notin DOMAIN Capital)
    BY <1>1, <1>5, <1>r DEF Where, Orderly
  <2>1. Range(hits) = All(titles, s.term)
    <3>1. ASSUME NEW h \in Range(hits) PROVE h \in All(titles, s.term)
      <4>1. PICK k \in 1..size : h = hits[k]
        BY <1>2 DEF Range
      <4>2. PICK a \in Nat, i \in Nat : h = <<a, i>> /\ hits[k] = <<a, i>>
        BY <1>1, <1>2, <4>1, TypesAre
      <4>3. hits[k][1] = a /\ hits[k][2] = i /\ Hit(s, a, i)
        BY <1>2, <4>2 DEF Hit
      <4>4. a \in DOMAIN titles /\ i \in DOMAIN titles[a]
        BY <1>1, <1>2, <4>3 DEF HitsRight, RightHit
      <4>5. a < x
        BY <1>r, <2>0, <4>4
      <4>6. i \in Pages(titles[a], WantedSpace[a], s.term)
        BY <1>5, <1>r, <2>0, <4>3, <4>4, <4>5 DEF Complete, Behind
      <4> QED BY <4>2, <4>4, <4>6 DEF All
    <3>2. ASSUME NEW h \in All(titles, s.term) PROVE h \in Range(hits)
      <4>1. PICK a \in DOMAIN titles : h \in {a} \X Pages(titles[a], WantedSpace[a], s.term)
        BY DEF All
      <4>2. PICK i \in Pages(titles[a], WantedSpace[a], s.term) : h = <<a, i>>
        BY <4>1
      <4>3. i \in DOMAIN titles[a] /\ a < x
        BY <1>r, <2>0 DEF Pages
      <4>4. Hit(s, a, i)
        BY <1>5, <1>r, <2>0, <4>3 DEF Complete, Behind
      <4> QED BY <1>2, <4>2, <4>4 DEF Hit, Range
    <3> QED BY <3>1, <3>2
  <2>2. CASE s.pass = 1
    <3>1. s.term = query
      BY <1>1, <2>2 DEF Where
    <3>2. CASE All(titles, query) # {}
      BY <2>1, <3>1, <3>2
    <3>3. CASE All(titles, query) = {}
      <4>1. Range(hits) = {}
        BY <2>1, <3>1, <3>3
      <4>2. hits = <<>>
        <5>1. size = 0
          <6>1. \A k \in 1..size : hits[k] \in Range(hits)
            BY <1>2 DEF Range
          <6>2. size # 0 => 1 \in 1..size
            OBVIOUS
          <6> QED BY <4>1, <6>1, <6>2
        <5>2. hits \in Seq((Nat \ {0}) \X (Nat \ {0}))
          BY <1>1 DEF Searches
        <5> QED BY <1>2, <5>1, <5>2, EmptySeq
      <4> QED BY <2>0, <2>2, <3>3, <4>1, <4>2
    <3> QED BY <3>2, <3>3
  <2>3. CASE s.pass = 2
    <3>1. All(titles, query) = {} /\ Head(query) \in DOMAIN Capital /\ s.term = Capitals(query)
      BY <1>1, <2>0, <2>3 DEF Where, Complete
    <3> QED BY <2>1, <3>1
  <2> QED BY <1>1, <2>2, <2>3 DEF Searches
<1> QED BY <1>3, <1>4, <1>5, <1>s DEF ListsRight, Orderly, Capitals
-----------------------------------------------------------------------------
(* All of them, side by side *)

PartsInv == StationInv /\ FileInv /\ DnsInv /\ SearchInv /\ TextInv

\* What each of the five parts keeps while it runs and while it rests: the ring and the
\* clock of the forecast board, the range that was sent, the name server's buffer, what
\* was searched and listed, and the text that is converted.
THEOREM PartsInvariant == Spec => []PartsInv
<1>1. Init => PartsInv
  <2> SUFFICES ASSUME Init PROVE PartsInv
    OBVIOUS
  <2>1. ForecastInit /\ FileInit /\ DnsInit /\ SearchInit /\ TextInit
    BY DEF Init, MediaRests, DnsRests, StationRests, SearchRests, TextRests
  <2> QED BY <2>1, StationInit, FileInitInv, DnsInitInv, SearchInitInv, TextInitInv DEF PartsInv
<1>2. PartsInv /\ [Next]_vars => PartsInv'
  <2> SUFFICES ASSUME PartsInv, [Next]_vars PROVE PartsInv'
    OBVIOUS
  <2>1. [ForecastNext]_station /\ [FileNext]_file /\ [DnsNext]_dns /\ [SearchNext]_search /\ [TextNext]_convert
    BY DEF Next, vars
  <2> QED BY <2>1, StationStep, FileStep, DnsStep, SearchStep, TextStep DEF PartsInv
<1> QED BY <1>1, <1>2, PTL DEF Spec

\* The forecast board's readings are an interval apart and at most a turn of loop()
\* more, for any interval, and also when millis() starts again from 0.
THEOREM ReadingsComeOnTime == Spec => []ReadingsOnTime
<1>1. PartsInv => ReadingsOnTime
  <2> SUFFICES ASSUME PartsInv PROVE ReadingsOnTime
    OBVIOUS
  <2>1. since.before >= Interval /\ since.now \in 0..Interval + MaxLoop - 1
    BY DEF PartsInv, StationInv, OnClock
  <2> QED BY <2>1, StationIs DEF ReadingsOnTime
<1> QED BY <1>1, PartsInvariant, PTL

\* A forecast that is shown compares with the reading as many readings before as the
\* ring has slots, however many that are and whatever was read.
THEOREM TrendsSpanTheRing == Spec => []TrendSpansAnHour
<1>1. PartsInv => TrendSpansAnHour
  BY DEF PartsInv, StationInv
<1> QED BY <1>1, PartsInvariant, PTL

\* Of any file, any range that has a meaning is sent as it was meant, in pieces of any
\* size, and refused exactly when it has no bytes.
THEOREM RangesAreRight == Spec => []RightBytes
<1>1. PartsInv => RightBytes
  BY FileRight DEF PartsInv
<1> QED BY <1>1, PartsInvariant, PTL

\* The name server's reply fits its buffer and the question in it is the packet's own,
\* for packets of any bytes: also a name whose labels lead behind the packet.
THEOREM QuestionIsOwn == Spec => []OwnQuestion
<1>1. PartsInv => OwnQuestion
  BY DEF PartsInv, DnsInv
<1> QED BY <1>1, PartsInvariant, PTL

\* Over any archives whose lists are in order, a search for any query with which no
\* read of the card and no allocation of the hits failed lists the first pages whose
\* titles begin with it, the capital's only if it has none; and whatever the order and
\* the failures, nothing else, twice or out of order.
THEOREM SearchListsRight == Spec => []ListsRight
<1>1. PartsInv => ListsRight
  BY SearchRight DEF PartsInv
<1> QED BY <1>1, PartsInvariant, PTL

\* A text of any characters and length comes back from what a browser made of it, though
\* it is decoded in place; escaped, it fits a buffer of any size from 7 bytes.
THEOREM TextIsKept == Spec => []TextKept
<1>1. PartsInv => TextKept
  BY TextRight DEF PartsInv
<1> QED BY <1>1, PartsInvariant, PTL
=============================================================================
