------------------------ MODULE GsUsbTimestampProofs ------------------------
(***************************************************************************)
(* Proofs about GsUsbTimestamp, for every range of the counter, every      *)
(* delay and lateness of the worker and every age of a frame that the      *)
(* assumptions allow, and for every time the device runs.                  *)
(***************************************************************************)
EXTENDS GsUsbTimestamp, TLAPS

-----------------------------------------------------------------------------
(***************************************************************************)
(* Arithmetic modulo the counter's range.                                  *)
(***************************************************************************)
Half == Wrap \div 2

LEMMA Halves == Half \in Nat /\ Wrap = 2 * Half /\ (Wrap - 1) \div 2 = Half - 1 /\ Half > 0
BY TimesAssumption DEF Half

LEMMA WrapType == Wrap \in Nat \ {0}
BY TimesAssumption

USE WrapType

LEMMA ModForm ==
  ASSUME NEW x \in Int
  PROVE  x % Wrap \in 0 .. Wrap - 1 /\ \E q \in Int : x = Wrap * q + (x % Wrap)
<1>1. x % Wrap \in 0 .. Wrap - 1 OBVIOUS
<1>2. x - Wrap * (x \div Wrap) = (x % Wrap) OBVIOUS
<1>3. PICK q \in Int : q = x \div Wrap OBVIOUS
<1>4. x = Wrap * q + (x % Wrap) BY <1>1, <1>2, <1>3
<1> QED BY <1>1, <1>4

LEMMA ModUnique ==
  ASSUME NEW q \in Int, NEW r \in 0 .. Wrap - 1 PROVE (Wrap * q + r) % Wrap = r
OBVIOUS

\* Two times look the same to a counter of this range.
Same(a, b) == Delta(a, b) = 0

LEMMA SameForm ==
  ASSUME NEW a \in Int, NEW b \in Int
  PROVE  Same(a, b) <=> \E k \in Int : a - b = Wrap * k
<1>1. ASSUME Same(a, b) PROVE \E k \in Int : a - b = Wrap * k
  <2>1. PICK x \in Int : x = a - b OBVIOUS
  <2>2. PICK q \in Int : x = Wrap * q + (x % Wrap) BY ModForm
  <2>3. x % Wrap = 0 BY <1>1, <2>1 DEF Same, Delta
  <2>4. PICK w \in Int : w = Wrap * q OBVIOUS
  <2>5. x = Wrap * q BY <2>2, <2>3, <2>4
  <2> QED BY <2>1, <2>5
<1>2. ASSUME NEW k \in Int, a - b = Wrap * k PROVE Same(a, b)
  <2>1. 0 \in 0 .. Wrap - 1 /\ a - b = Wrap * k + 0 BY <1>2
  <2>2. (Wrap * k + 0) % Wrap = 0 BY <2>1, ModUnique
  <2> QED BY <2>1, <2>2 DEF Same, Delta
<1> QED BY <1>1, <1>2

LEMMA SameItself == ASSUME NEW a \in Int PROVE Same(a, a)
<1>1. a - a = Wrap * 0 /\ 0 \in Int OBVIOUS
<1> QED BY <1>1, SameForm

LEMMA SameBack ==
  ASSUME NEW a \in Int, NEW b \in Int, Same(a, b) PROVE Same(b, a)
<1>1. PICK k \in Int : a - b = Wrap * k BY SameForm
<1>2. -k \in Int /\ b - a = Wrap * (-k) BY <1>1
<1> QED BY <1>2, SameForm

LEMMA SameChain ==
  ASSUME NEW a \in Int, NEW b \in Int, NEW c \in Int, Same(a, b), Same(b, c)
  PROVE  Same(a, c)
<1>1. PICK k \in Int : a - b = Wrap * k BY SameForm
<1>2. PICK m \in Int : b - c = Wrap * m BY SameForm
<1>3. a - c = Wrap * (k + m) /\ k + m \in Int BY <1>1, <1>2
<1> QED BY <1>3, SameForm

LEMMA SameSum ==
  ASSUME NEW a \in Int, NEW b \in Int, NEW c \in Int, NEW d \in Int, Same(a, b), Same(c, d)
  PROVE  Same(a + c, b + d)
<1>1. PICK k \in Int : a - b = Wrap * k BY SameForm
<1>2. PICK m \in Int : c - d = Wrap * m BY SameForm
<1>3. (a + c) - (b + d) = Wrap * (k + m) /\ k + m \in Int BY <1>1, <1>2
<1>4. a + c \in Int /\ b + d \in Int OBVIOUS
<1> QED BY <1>3, <1>4, SameForm

LEMMA SameDifference ==
  ASSUME NEW a \in Int, NEW b \in Int, NEW c \in Int, NEW d \in Int, Same(a, b), Same(c, d)
  PROVE  Same(a - c, b - d)
<1>1. PICK k \in Int : a - b = Wrap * k BY SameForm
<1>2. PICK m \in Int : c - d = Wrap * m BY SameForm
<1>3. (a - c) - (b - d) = Wrap * (k - m) /\ k - m \in Int BY <1>1, <1>2
<1>4. a - c \in Int /\ b - d \in Int OBVIOUS
<1> QED BY <1>3, <1>4, SameForm

\* The counter shows its time, up to whole wraps.
LEMMA CounterShows ==
  ASSUME NEW t \in Int PROVE Counter(t) \in 0 .. Wrap - 1 /\ Same(Counter(t), t)
<1>1. PICK q \in Int : t = Wrap * q + (t % Wrap) BY ModForm
<1>2. PICK r \in 0 .. Wrap - 1 : r = t % Wrap OBVIOUS
<1>3. r - t = Wrap * (-q) /\ -q \in Int BY <1>1, <1>2
<1> QED BY <1>2, <1>3, SameForm DEF Counter

\* A difference is in range, and the same as the difference of the times.
LEMMA DeltaShows ==
  ASSUME NEW a \in Int, NEW b \in Int
  PROVE  Delta(a, b) \in 0 .. Wrap - 1 /\ Same(Delta(a, b), a - b)
<1>1. PICK d \in Int : d = a - b OBVIOUS
<1> QED BY <1>1, CounterShows DEF Counter, Delta

\* What is the same and less than a wrap apart is equal.
LEMMA SameInRange ==
  ASSUME NEW a \in 0 .. Wrap - 1, NEW b \in 0 .. Wrap - 1, Same(a, b) PROVE a = b
<1> a \in Int /\ b \in Int OBVIOUS
<1>1. PICK k \in Int : a - b = Wrap * k BY SameForm
<1>2. CASE k >= 1
  <2>1. Wrap * k >= Wrap BY <1>2
  <2> QED BY <1>1, <2>1
<1>3. CASE k <= -1
  <2>1. Wrap * (-k) >= Wrap BY <1>3
  <2> QED BY <1>1, <2>1
<1>4. CASE k = 0 BY <1>1, <1>4
<1> QED BY <1>2, <1>3, <1>4

\* From the counter at one time to the counter less than a wrap later it is that long.
LEMMA Elapsed ==
  ASSUME NEW s \in Int, NEW t \in Int, s <= t, t < s + Wrap
  PROVE  Delta(Counter(t), Counter(s)) = t - s
<1>1. PICK c \in Int : c = Counter(t) /\ Same(c, t) BY CounterShows
<1>2. PICK d \in Int : d = Counter(s) /\ Same(d, s) BY CounterShows
<1>3. Same(c - d, t - s) BY <1>1, <1>2, SameDifference
<1>4. PICK e \in 0 .. Wrap - 1 : e = Delta(c, d) /\ Same(e, c - d) BY DeltaShows
<1>5. PICK x \in 0 .. Wrap - 1 : x = t - s OBVIOUS
<1>6. PICK y \in Int : y = c - d OBVIOUS
<1>7. Same(e, x)
  <2> e \in Int /\ x \in Int OBVIOUS
  <2> QED BY <1>3, <1>4, <1>5, <1>6, SameChain
<1> QED BY <1>1, <1>2, <1>4, <1>5, <1>7, SameInRange

-----------------------------------------------------------------------------
(***************************************************************************)
(* The inductive invariant.                                                *)
(***************************************************************************)

\* No two times that the counter is asked to relate are half a wrap apart.
Near ==
    /\ start <= lastAt /\ now <= lastAt + Delay + Late
    /\ worker = "answered" => lastAt <= answer.at
    /\ frame # NoFrame => now <= frame + Latency

\* While every reading succeeds, the timecounter has counted every tick.
Counted ==
    failed = FALSE =>
        /\ nsec = lastAt - start /\ cycle_last = Counter(lastAt)
        /\ worker = "answered" => answer.value = Counter(answer.at)
        /\ stamp.got = stamp.time - start

\* Whatever happens, it is wrong by whole wraps and the skew only.
WholeWraps ==
    /\ Same(nsec, cycle_last - start + skew)
    /\ Same(stamp.got, stamp.time - start + skew)

TimeInv == TypeOK /\ Near /\ Counted /\ WholeWraps

LEMMA TimeInit == Init => TimeInv
<1> SUFFICES ASSUME Init PROVE TimeInv
  OBVIOUS
<1> USE TimesAssumption, ReadFailsAssumption DEF Init
<1>1. /\ now \in 0 .. Wrap - 1 /\ start = now /\ lastAt = now /\ nsec = 0 /\ frame = NoFrame
      /\ worker = "idle" /\ answer = [value |-> 0, at |-> 0]
      /\ stamp = [time |-> now, got |-> skew]
      /\ \/ cycle_last = now /\ skew = 0 /\ failed = FALSE
         \/ cycle_last = 0 /\ skew = now /\ failed = TRUE
  OBVIOUS
<1>2. PICK t \in 0 .. Wrap - 1 : t = now OBVIOUS
<1>3. TypeOK
  <2>1. skew \in 0 .. Wrap - 1 /\ cycle_last \in 0 .. Wrap - 1 /\ failed \in BOOLEAN
    <3>1. failed \in BOOLEAN BY <1>1
    <3>2. 0 \in 0 .. Wrap - 1 OBVIOUS
    <3>3. skew \in {0, t} /\ cycle_last \in {0, t} BY <1>1, <1>2
    <3> QED BY <3>1, <3>2, <3>3
  <2>2. 0 \in 0 .. t /\ t \in 0 .. t /\ 0 \in 0 .. Wrap - 1 /\ t \in Int BY <1>2
  <2>3. answer \in [value : 0 .. Wrap - 1, at : 0 .. t] BY <1>1, <2>2
  <2>4. stamp \in [time : 0 .. t, got : Int] BY <1>1, <1>2, <2>1, <2>2
  <2> QED BY <1>1, <1>2, <2>1, <2>2, <2>3, <2>4 DEF TypeOK
<1>4. Near BY <1>1, <1>2 DEF Near
<1>5. Counter(t) = t
  <2>1. t \in Int /\ 0 \in Int OBVIOUS
  <2>2. Wrap * 0 + t = t BY <2>1
  <2> QED BY <2>2, ModUnique DEF Counter
<1>6. Counted BY <1>1, <1>2, <1>5 DEF Counted
<1>7. WholeWraps
  <2>1. 0 = cycle_last - start + skew BY <1>1, <1>2
  <2>2. stamp.got = stamp.time - start + skew BY <1>1, <1>2
  <2>3. Same(0, 0) /\ \A x \in Int : Same(x, x) BY SameItself
  <2>4. stamp.got \in Int BY <1>1, <1>2
  <2> QED BY <1>1, <2>1, <2>2, <2>3, <2>4 DEF WholeWraps
<1> QED BY <1>3, <1>4, <1>6, <1>7 DEF TimeInv

\* The timecounter advances to the reading.
LEMMA AdvanceStep == ASSUME TimeInv, Advance PROVE TimeInv'
<1> USE TimesAssumption
<1>1. PICK v \in 0 .. Wrap - 1, a \in 0 .. now : answer.value = v /\ answer.at = a
  BY DEF TimeInv, TypeOK
<1>2. PICK c \in 0 .. Wrap - 1, m \in Nat, l \in 0 .. now, s \in 0 .. Wrap - 1, k \in 0 .. Wrap - 1 :
        c = cycle_last /\ m = nsec /\ l = lastAt /\ s = start /\ k = skew
  BY DEF TimeInv, TypeOK
<1> v \in Int /\ c \in Int OBVIOUS
<1>3. PICK e \in 0 .. Wrap - 1 : e = Delta(v, c) /\ Same(e, v - c) BY DeltaShows
<1>4. /\ worker = "answered" /\ worker' = "idle"
      /\ nsec' = m + e /\ cycle_last' = v /\ lastAt' = a
      /\ UNCHANGED <<now, start, failed, skew, answer, frame, stamp>>
  BY <1>1, <1>2, <1>3 DEF Advance
<1>5. now \in Nat BY DEF TimeInv, TypeOK
<1>6. s <= l /\ l <= a /\ a <= now /\ now <= l + Delay + Late
  BY <1>1, <1>2, <1>4, <1>5 DEF TimeInv, Near
<1>7. TypeOK'
  <2>1. m + e \in Nat /\ v \in 0 .. Wrap - 1 /\ a \in 0 .. now OBVIOUS
  <2> QED BY <1>4, <2>1 DEF TimeInv, TypeOK
<1>8. Near'
  <2>1. s <= a /\ now <= a + Delay + Late BY <1>5, <1>6
  <2>2. frame # NoFrame => now <= frame + Latency BY DEF TimeInv, Near
  <2> QED BY <1>2, <1>4, <2>1, <2>2 DEF Near
<1>9. Counted'
  <2> SUFFICES ASSUME failed = FALSE
               PROVE  m + e = a - s /\ v = Counter(a) /\ stamp.got = stamp.time - start
    BY <1>2, <1>4 DEF Counted
  <2>1. /\ m = l - s /\ c = Counter(l) /\ v = Counter(a)
        /\ stamp.got = stamp.time - start
    BY <1>1, <1>2, <1>4 DEF TimeInv, Counted
  <2>2. Delay + Late < Half /\ Wrap = 2 * Half /\ Half \in Nat BY Halves DEF Half
  <2>3. l \in Int /\ a \in Int /\ l <= a /\ a < l + Wrap BY <1>5, <1>6, <2>2
  <2>4. e = a - l BY <1>3, <2>1, <2>3, Elapsed
  <2> QED BY <2>1, <2>4
<1>10. WholeWraps'
  <2>1. PICK x \in Int : x = c - s + k /\ Same(m, x) BY <1>2 DEF TimeInv, WholeWraps
  <2>2. PICK y \in Int : y = v - c OBVIOUS
  <2>3. m \in Int /\ e \in Int OBVIOUS
  <2>4. Same(m + e, x + y) BY <1>3, <2>1, <2>2, <2>3, SameSum
  <2>5. x + y = v - s + k BY <2>1, <2>2
  <2>6. Same(stamp.got, stamp.time - start + skew) BY DEF TimeInv, WholeWraps
  <2>7. Same(nsec', cycle_last' - start' + skew') BY <1>2, <1>4, <2>4, <2>5
  <2>8. Same(stamp'.got, stamp'.time - start' + skew') BY <1>4, <2>6
  <2>9. WholeWraps' = (Same(nsec', cycle_last' - start' + skew')
                       /\ Same(stamp'.got, stamp'.time - start' + skew'))
    BY DEF WholeWraps, Same, Delta
  <2> QED BY <2>7, <2>8, <2>9
<1> QED BY <1>7, <1>8, <1>9, <1>10 DEF TimeInv

\* A stamp is converted to a time that looks the same.
LEMMA ConversionShows ==
  ASSUME NEW t \in 0 .. Wrap - 1, NEW c \in 0 .. Wrap - 1, NEW m \in Nat,
         c = cycle_last, m = nsec
  PROVE  Cyc2Time(t) \in Int /\ Same(Cyc2Time(t), m + (t - c))
<1> t \in Int /\ c \in Int OBVIOUS
<1>1. PICK e \in 0 .. Wrap - 1 : e = Delta(t, c) /\ Same(e, t - c) BY DeltaShows
<1>2. PICK d \in 0 .. Wrap - 1 : d = Delta(c, t) /\ Same(d, c - t) BY DeltaShows
<1>3. PICK y \in Int : y = t - c OBVIOUS
<1>4. PICK z \in Int : z = c - t OBVIOUS
<1>5. m \in Int /\ e \in Int /\ d \in Int /\ Same(m, m) BY SameItself
<1>6. Same(m + e, m + y) BY <1>1, <1>3, <1>5, SameSum
<1>7. Same(m - d, m - z) BY <1>2, <1>4, <1>5, SameDifference
<1>8. m - z = m + y BY <1>3, <1>4
<1>9. Cyc2Time(t) = m - d \/ Cyc2Time(t) = m + e BY <1>1, <1>2 DEF Cyc2Time
<1> QED BY <1>3, <1>5, <1>6, <1>7, <1>8, <1>9

\* A stamp less than half a wrap from the last reading is converted exactly.
LEMMA ConversionExact ==
  ASSUME NEW t \in Nat, NEW l \in Nat, NEW m \in Nat,
         cycle_last = Counter(l), m = nsec, t < l + Half, l < t + Half
  PROVE  Cyc2Time(Counter(t)) = m + (t - l)
<1>1. Wrap = 2 * Half /\ (Wrap - 1) \div 2 = Half - 1 /\ Half \in Nat BY Halves
<1>2. t \in Int /\ l \in Int OBVIOUS
<1>3. PICK e \in 0 .. Wrap - 1 : e = Delta(Counter(t), Counter(l)) /\ Same(e, t - l)
  <2>1. PICK p \in Int : p = Counter(t) /\ Same(p, t) BY <1>2, CounterShows
  <2>2. PICK q \in Int : q = Counter(l) /\ Same(q, l) BY <1>2, CounterShows
  <2>3. PICK e \in 0 .. Wrap - 1 : e = Delta(p, q) /\ Same(e, p - q) BY DeltaShows
  <2>4. Same(p - q, t - l) BY <1>2, <2>1, <2>2, SameDifference
  <2>5. PICK x \in Int : x = p - q OBVIOUS
  <2>6. PICK y \in Int : y = t - l OBVIOUS
  <2>7. e \in Int OBVIOUS
  <2>8. Same(e, y) BY <2>3, <2>4, <2>5, <2>6, <2>7, SameChain
  <2> QED BY <2>1, <2>2, <2>3, <2>6, <2>8
<1>4. Cyc2Time(Counter(t)) = IF e > Half - 1 THEN m - Delta(Counter(l), Counter(t)) ELSE m + e
  BY <1>1, <1>3 DEF Cyc2Time
<1>5. CASE l <= t
  <2>1. e = t - l BY <1>1, <1>2, <1>3, <1>5, Elapsed
  <2>2. ~(e > Half - 1) BY <1>1, <2>1
  <2> QED BY <1>4, <2>1, <2>2
<1>6. CASE t < l
  <2>1. Delta(Counter(l), Counter(t)) = l - t BY <1>1, <1>2, <1>6, Elapsed
  <2>2. e > Half - 1
    <3>1. PICK r \in 0 .. Wrap - 1 : r = t - l + Wrap BY <1>1, <1>6
    <3>2. PICK y \in Int : y = t - l OBVIOUS
    <3>3. r - y = Wrap * 1 /\ r \in Int BY <3>1, <3>2
    <3>4. Same(r, y) BY <3>3, SameForm
    <3>5. e \in Int OBVIOUS
    <3>6. Same(y, r) BY <3>3, <3>4, SameBack
    <3>7. Same(e, r) BY <1>3, <3>2, <3>3, <3>5, <3>6, SameChain
    <3>8. e = r BY <3>7, SameInRange
    <3> QED BY <1>1, <1>6, <3>1, <3>8
  <2> QED BY <1>4, <2>1, <2>2
<1> QED BY <1>5, <1>6

\* The receive callback converts the stamp of the frame under way.
LEMMA ReceiveStep == ASSUME TimeInv, Receive PROVE TimeInv'
<1> USE TimesAssumption
<1>1. PICK t \in 0 .. now : frame = t BY DEF TimeInv, TypeOK, Receive
<1>2. PICK c \in 0 .. Wrap - 1, m \in Nat, l \in 0 .. now, s \in 0 .. Wrap - 1, k \in 0 .. Wrap - 1 :
        c = cycle_last /\ m = nsec /\ l = lastAt /\ s = start /\ k = skew
  BY DEF TimeInv, TypeOK
<1>3. PICK r \in 0 .. Wrap - 1 : r = Counter(t) /\ Same(r, t)
  <2>1. t \in Int OBVIOUS
  <2> QED BY <2>1, CounterShows
<1>4. PICK g \in Int : g = Cyc2Time(r) /\ Same(g, m + (r - c)) BY <1>2, ConversionShows
<1>5. /\ stamp' = [time |-> t, got |-> g] /\ frame' = NoFrame
      /\ UNCHANGED <<now, start, failed, skew, cycle_last, nsec, lastAt, worker, answer>>
  BY <1>1, <1>3, <1>4 DEF Receive
<1>6. now \in Nat BY DEF TimeInv, TypeOK
<1>7. TypeOK' BY <1>1, <1>5 DEF TimeInv, TypeOK
<1>8. Near' BY <1>5 DEF TimeInv, Near
<1>9. Counted'
  <2> SUFFICES ASSUME failed = FALSE
               PROVE  m = l - s /\ c = Counter(l) /\ (worker = "answered" => answer.value = Counter(answer.at))
                      /\ g = t - s
    BY <1>2, <1>5 DEF Counted
  <2>1. /\ m = l - s /\ c = Counter(l)
        /\ worker = "answered" => answer.value = Counter(answer.at)
    BY <1>2 DEF TimeInv, Counted
  <2>2. now <= l + Delay + Late /\ now <= t + Latency
    <3>1. frame # NoFrame BY DEF Receive
    <3> QED BY <1>1, <1>2, <3>1 DEF TimeInv, Near
  <2>3. Delay + Late < Half /\ Latency < Half /\ Half \in Nat BY Halves DEF Half
  <2>4. t \in Nat /\ l \in Nat /\ t < l + Half /\ l < t + Half BY <1>6, <2>2, <2>3
  <2>5. g = m + (t - l) BY <1>2, <1>3, <1>4, <2>1, <2>4, ConversionExact
  <2> QED BY <2>1, <2>5
<1>10. WholeWraps'
  <2>1. PICK x \in Int : x = c - s + k /\ Same(m, x) BY <1>2 DEF TimeInv, WholeWraps
  <2>2. r \in Int /\ t \in Int /\ c \in Int /\ m \in Int OBVIOUS
  <2>3. PICK y \in Int : y = r - c OBVIOUS
  <2>4. PICK z \in Int : z = t - c OBVIOUS
  <2>5. Same(y, z) BY <1>3, <2>2, <2>3, <2>4, SameItself, SameDifference
  <2>6. Same(m + y, x + z) BY <2>1, <2>2, <2>3, <2>4, <2>5, SameSum
  <2>7. PICK u \in Int : u = m + y OBVIOUS
  <2>8. PICK w \in Int : w = x + z OBVIOUS
  <2>9. Same(g, w) BY <1>4, <2>3, <2>6, <2>7, <2>8, SameChain
  <2>10. w = t - s + k BY <2>1, <2>4, <2>8
  <2>11. Same(stamp'.got, stamp'.time - start' + skew') BY <1>2, <1>5, <2>9, <2>10
  <2>12. Same(nsec', cycle_last' - start' + skew') BY <1>5 DEF TimeInv, WholeWraps
  <2>13. WholeWraps' = (Same(nsec', cycle_last' - start' + skew')
                       /\ Same(stamp'.got, stamp'.time - start' + skew'))
    BY DEF WholeWraps, Same, Delta
  <2> QED BY <2>11, <2>12, <2>13
<1> QED BY <1>7, <1>8, <1>9, <1>10 DEF TimeInv

LEMMA TimeStep == ASSUME TimeInv, [Next]_vars PROVE TimeInv'
<1> USE TimesAssumption DEF TimeInv
<1>1. CASE Ask
  <2> USE <1>1 DEF Ask
  <2>1. TypeOK' BY DEF TypeOK
  <2>2. Near' BY DEF Near
  <2>3. Counted' BY DEF Counted
  <2>4. WholeWraps' BY DEF WholeWraps, Same, Delta
  <2> QED BY <2>1, <2>2, <2>3, <2>4
<1>2. CASE Answer \/ AnswerFails
  <2>1. PICK v \in 0 .. Wrap - 1 :
          /\ answer' = [value |-> v, at |-> now]
          /\ \/ v = Counter(now) /\ failed' = failed
             \/ failed' = TRUE
    <3>1. now \in Int BY DEF TypeOK
    <3>2. Counter(now) \in 0 .. Wrap - 1 /\ 0 \in 0 .. Wrap - 1 BY <3>1, CounterShows
    <3> QED BY <1>2, <3>2 DEF Answer, AnswerFails
  <2>2. /\ worker' = "answered"
        /\ UNCHANGED <<now, start, skew, cycle_last, nsec, lastAt, frame, stamp>>
    BY <1>2 DEF Answer, AnswerFails
  <2>3. now \in Nat /\ lastAt <= now BY DEF TypeOK
  <2>4. TypeOK'
    <3>1. now \in 0 .. now BY <2>3
    <3>2. answer' \in [value : 0 .. Wrap - 1, at : 0 .. now] BY <2>1, <3>1
    <3>3. failed' \in BOOLEAN BY <2>1 DEF TypeOK
    <3> QED BY <2>2, <3>2, <3>3 DEF TypeOK
  <2>5. Near' BY <2>1, <2>2, <2>3 DEF Near
  <2>6. Counted' BY <2>1, <2>2 DEF Counted
  <2>7. WholeWraps' BY <2>2 DEF WholeWraps, Same, Delta
  <2> QED BY <2>4, <2>5, <2>6, <2>7
<1>3. CASE Stamp
  <2> USE <1>3 DEF Stamp
  <2>1. now \in Nat BY DEF TypeOK
  <2>2. TypeOK' BY <2>1 DEF TypeOK
  <2>3. Near' BY <2>1 DEF Near
  <2>4. Counted' BY DEF Counted
  <2>5. WholeWraps' BY DEF WholeWraps, Same, Delta
  <2> QED BY <2>2, <2>3, <2>4, <2>5
<1>4. CASE Tick
  <2>1. PICK t \in Nat : t = now BY DEF TypeOK
  <2>2. /\ now' = t + 1 /\ t < MaxNow /\ t < lastAt + Delay + Late
        /\ frame # NoFrame => t < frame + Latency
        /\ UNCHANGED <<start, failed, skew, cycle_last, nsec, lastAt, worker, answer, frame, stamp>>
    BY <1>4, <2>1 DEF Tick
  <2>3. TypeOK'
    <3>1. now' \in 0 .. MaxNow /\ 0 .. t \subseteq 0 .. now' BY <2>2
    <3>2. lastAt \in 0 .. now' /\ frame \in (0 .. now') \cup {NoFrame}
      BY <2>1, <3>1 DEF TypeOK
    <3>3. answer \in [value : 0 .. Wrap - 1, at : 0 .. now'] /\ stamp \in [time : 0 .. now', got : Int]
      BY <2>1, <3>1 DEF TypeOK
    <3> QED BY <2>2, <3>1, <3>2, <3>3 DEF TypeOK
  <2>4. Near'
    <3>1. PICK l \in Nat : l = lastAt BY DEF TypeOK
    <3>2. t + 1 <= l + Delay + Late BY <2>2, <3>1
    <3>3. ASSUME frame # NoFrame PROVE t + 1 <= frame + Latency
      <4>1. PICK f \in Nat : f = frame BY <3>3 DEF TypeOK
      <4> QED BY <2>2, <3>3, <4>1
    <3> QED BY <2>2, <3>1, <3>2, <3>3 DEF Near
  <2>5. Counted' BY <2>2 DEF Counted
  <2>6. WholeWraps' BY <2>2 DEF WholeWraps, Same, Delta
  <2> QED BY <2>3, <2>4, <2>5, <2>6
<1>5. CASE UNCHANGED vars
  BY <1>5 DEF vars, TypeOK, Near, Counted, WholeWraps, Same, Delta
<1> HIDE DEF TimeInv
<1> QED BY <1>1, <1>2, <1>3, <1>4, <1>5, AdvanceStep, ReceiveStep DEF Next

THEOREM TimeInvariant == Spec => []TimeInv
BY TimeInit, TimeStep, PTL DEF Spec

\* The type invariant.
THEOREM TypeCorrect == Spec => []TypeOK
<1>1. TimeInv => TypeOK BY DEF TimeInv
<1> QED BY <1>1, TimeInvariant, PTL

\* A frame gets the time that has passed since the initialisation, however often the
\* counter has wrapped and whether it was stamped before or after the last reading; a
\* failed reading makes it wrong by whole wraps and the skew of a failed first one only.
THEOREM TimesAreExact == Spec => []TimestampsExact
<1>1. TimeInv => TimestampsExact
  <2> SUFFICES ASSUME TimeInv PROVE TimestampsExact
    OBVIOUS
  <2>1. ~failed => failed = FALSE BY DEF TimeInv, TypeOK
  <2> QED BY <2>1 DEF TimeInv, Counted, WholeWraps, Same, TimestampsExact
<1> QED BY <1>1, TimeInvariant, PTL
=============================================================================
