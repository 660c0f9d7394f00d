----------------------------- MODULE SntpProofs -----------------------------
(***************************************************************************)
(* Theorems about Sntp, for clocks and timestamps of any resolution and    *)
(* any number of seconds after which they wrap.                            *)
(***************************************************************************)
EXTENDS Sntp, TLAPS

-----------------------------------------------------------------------------
(* Division and remainder *)

\* What \div and % are.
LEMMA DivMod ==
  ASSUME NEW n \in Nat \ {0}, NEW a \in Int
  PROVE  a \div n \in Int /\ a % n \in 0 .. n - 1 /\ a = n * (a \div n) + (a % n)
OBVIOUS

\* A positive multiple is not smaller.
LEMMA MulMono ==
  ASSUME NEW n \in Nat \ {0}, NEW d \in Int, d >= 1
  PROVE  n * d >= n
OBVIOUS

\* Quotient and remainder are unique.
LEMMA DivModUnique ==
  ASSUME NEW n \in Nat \ {0}, NEW q \in Int, NEW r \in 0 .. n - 1,
         NEW a \in Int, a = n * q + r
  PROVE  a % n = r /\ a \div n = q
<1> DEFINE d == a \div n
           m == a % n
<1>1. d \in Int /\ m \in 0 .. n - 1 /\ a = n * d + m BY DivMod
<1> HIDE DEF d, m
<1>2. n * d - n * q = r - m BY <1>1
<1>3. CASE d - q >= 1
  <2>1. n * (d - q) >= n BY <1>1, <1>3, MulMono
  <2>2. n * (d - q) = n * d - n * q BY <1>1
  <2>3. QED BY <2>1, <2>2, <1>1, <1>2
<1>4. CASE q - d >= 1
  <2>1. n * (q - d) >= n BY <1>1, <1>4, MulMono
  <2>2. n * (q - d) = n * q - n * d BY <1>1
  <2>3. QED BY <2>1, <2>2, <1>1, <1>2
<1>5. CASE d = q
  <2>1. m = r BY <1>1, <1>2, <1>5
  <2>2. QED BY <2>1, <1>5 DEF d, m
<1>6. QED BY <1>1, <1>3, <1>4, <1>5

\* Multiples of the modulus do not count.
LEMMA ModMultiple ==
  ASSUME NEW n \in Nat \ {0}, NEW a \in Int, NEW k \in Int
  PROVE  (a + n * k) % n = a % n
<1>1. a \div n \in Int /\ a % n \in 0 .. n - 1 /\ a = n * (a \div n) + (a % n) BY DivMod
<1> DEFINE b == a + n * k
           q == (a \div n) + k
<1>2. n * q = n * (a \div n) + n * k BY <1>1
<1>3. b \in Int /\ q \in Int /\ b = n * q + (a % n) BY <1>1, <1>2
<1> HIDE DEF b, q
<1>4. b % n = a % n BY <1>1, <1>3, DivModUnique
<1>5. QED BY <1>4 DEF b

\* Sums and differences modulo n.
LEMMA ModSum ==
  ASSUME NEW n \in Nat \ {0}, NEW a \in Int, NEW b \in Int
  PROVE  /\ (a + (b % n)) % n = (a + b) % n
         /\ ((a % n) + b) % n = (a + b) % n
         /\ ((a % n) - (b % n)) % n = (a - b) % n
<1>1. a \div n \in Int /\ a % n \in 0 .. n - 1 /\ a = n * (a \div n) + (a % n) BY DivMod
<1>2. b \div n \in Int /\ b % n \in 0 .. n - 1 /\ b = n * (b \div n) + (b % n) BY DivMod
<1> DEFINE i == a \div n
           j == b \div n
           r == a % n
           s == b % n
<1>3. i \in Int /\ j \in Int /\ r \in Int /\ s \in Int /\ a = n * i + r /\ b = n * j + s
  BY <1>1, <1>2
<1> HIDE DEF i, j, r, s
<1>4. ASSUME NEW x \in Int, NEW y \in Int, NEW k \in Int, y = x + n * k
      PROVE  x % n = y % n
  BY <1>4, ModMultiple
<1>5. (a + s) % n = (a + b) % n
  <2>1. a + s \in Int /\ a + b \in Int /\ a + b = (a + s) + n * j BY <1>3
  <2>2. QED BY <1>3, <1>4, <2>1
<1>6. (r + b) % n = (a + b) % n
  <2>1. r + b \in Int /\ a + b \in Int /\ a + b = (r + b) + n * i BY <1>3
  <2>2. QED BY <1>3, <1>4, <2>1
<1>7. (r - s) % n = (a - b) % n
  <2>1. n * (i - j) = n * i - n * j BY <1>3
  <2>2. r - s \in Int /\ a - b \in Int /\ i - j \in Int /\ a - b = (r - s) + n * (i - j)
    BY <1>3, <2>1
  <2>3. QED BY <1>4, <2>2
<1>8. QED BY <1>5, <1>6, <1>7 DEF r, s

\* A remainder of a multiple.
LEMMA ModScaled ==
  ASSUME NEW k \in Nat \ {0}, NEW n \in Nat \ {0}, NEW a \in Int, NEW r \in 0 .. k - 1
  PROVE  /\ (k * a + r) % (k * n) = k * (a % n) + r
         /\ ((k * a + r) % (k * n)) \div k = a % n
         /\ k * n \in Nat \ {0}
<1> DEFINE q == a \div n
           m == a % n
           N == k * n
           x == k * a + r
           y == k * m + r
<1>1. q \in Int /\ m \in 0 .. n - 1 /\ a = n * q + m BY DivMod
<1> HIDE DEF q, m
<1>2. N \in Nat \ {0} OBVIOUS
<1>3. x \in Int /\ y \in Int BY <1>1
<1>4. k * a = k * (n * q) + k * m BY <1>1
<1>5. k * (n * q) = N * q BY <1>1
<1>6. x = N * q + y
  <2>1. N * q \in Int /\ k * m \in Int /\ k * a \in Int BY <1>1, <1>2
  <2>2. k * a = N * q + k * m BY <1>4, <1>5
  <2> HIDE DEF N
  <2>3. QED BY <2>1, <2>2
<1>7. y \in 0 .. N - 1
  <2>1. k * m \in Nat /\ y >= 0 BY <1>1
  <2>2. k * (n - m) >= k BY <1>1, MulMono
  <2>3. k * (n - m) = N - k * m BY <1>1
  <2>4. QED BY <1>2, <1>3, <2>1, <2>2, <2>3
<1> HIDE DEF N, x
<1>8. x % N = y BY <1>1, <1>2, <1>3, <1>6, <1>7, DivModUnique
<1>9. y \div k = m
  <2>1. y = k * m + r OBVIOUS
  <2> HIDE DEF y
  <2>2. QED BY <1>1, <1>3, <2>1, DivModUnique
<1>10. QED BY <1>2, <1>8, <1>9 DEF N, x, m

-----------------------------------------------------------------------------
(* Timestamps *)

\* Parts of a second in a tick.
Part == Frac \div Tps

\* The constants, and how they depend on each other.
LEMMA ConstantFacts ==
  /\ Tps \in Nat \ {0} /\ Era \in Nat \ {0} /\ Part \in Nat \ {0} /\ Epoch \in Nat
  /\ Ticks \in Nat \ {0} /\ Span \in Nat \ {0} /\ Frac \in Nat \ {0}
  /\ Frac = Part * Tps /\ Ticks = Era * Tps /\ Span = Part * Ticks
  /\ Span \div 2 \in Int /\ 2 * (Span \div 2) = Span
<1> USE SntpAssumption
<1>1. Part \in Int /\ Frac = Part * Tps
  <2>1. Frac \div Tps \in Int /\ Frac = Tps * (Frac \div Tps) + (Frac % Tps) BY DivMod
  <2>2. QED BY <2>1 DEF Part
<1>2. Part \in Nat \ {0} BY <1>1
<1>3. Ticks \in Nat \ {0} BY DEF Ticks
<1>4. Span = Part * Ticks
  <2>1. Era * (Part * Tps) = Part * (Era * Tps) BY <1>2
  <2>2. QED BY <1>1, <2>1 DEF Span, Ticks
<1>5. Span \in Nat \ {0}
  <2>1. Part * Ticks \in Nat \ {0} BY <1>2, <1>3
  <2>2. QED BY <1>4, <2>1
<1>6. Span \div 2 \in Int /\ 2 * (Span \div 2) = Span
  <2>1. Era \div 2 \in Int /\ Era = 2 * (Era \div 2) + (Era % 2) BY DivMod
  <2> DEFINE h == Era \div 2
  <2>2. h \in Int /\ Era = 2 * h BY <2>1
  <2> HIDE DEF h
  <2>3. Era * Frac = 2 * (h * Frac) /\ h * Frac \in Int BY <2>2
  <2>4. Span % 2 = 0 /\ Span \div 2 = h * Frac BY <1>5, <2>3, DivModUnique DEF Span
  <2>5. QED BY <2>3, <2>4 DEF Span
<1>7. QED BY <1>1, <1>2, <1>3, <1>4, <1>5, <1>6 DEF Ticks

\* A clock read into a timestamp is short of the time, by less than the part
\* of it that is below the second.
LEMMA SysTime ==
  ASSUME NEW t \in 0 .. Ticks - 1
  PROVE  \E f \in 0 .. Tps - 1 : SntpGetSysTime(t) = Part * t - (Part - 1) * f
<1> USE ConstantFacts
<1>1. Shown(t) = t
  <2>1. t = Ticks * 0 + t OBVIOUS
  <2>2. QED BY <2>1, DivModUnique DEF Shown
<1> DEFINE X == t \div Tps
           f == t % Tps
<1>2. X \in Int /\ f \in 0 .. Tps - 1 /\ t = Tps * X + f BY DivMod
<1>3. SntpGetSysTime(t) = X * Frac + f BY <1>1 DEF SntpGetSysTime
<1> HIDE DEF X, f
<1>4. X * (Part * Tps) = Part * (Tps * X) BY <1>2
<1>5. Part * (Tps * X) = Part * t - Part * f
  <2>1. Part * (Tps * X + f) = Part * (Tps * X) + Part * f BY <1>2
  <2>2. Part * (Tps * X) \in Int /\ Part * f \in Int BY <1>2
  <2>3. QED BY <1>2, <2>1, <2>2
<1>6. (Part - 1) * f = Part * f - f BY <1>2
<1>7. Part * t \in Int /\ Part * f \in Int BY <1>2
<1>8. SntpGetSysTime(t) = Part * t - (Part - 1) * f
  BY <1>2, <1>3, <1>4, <1>5, <1>6, <1>7
<1>9. QED BY <1>2, <1>8

\* A server's timestamp, from 1970.
LEMMA UnixNtpTime ==
  ASSUME NEW t \in Nat
  PROVE  /\ Unix(NtpTime(t)) = (Part * t) % Span
         /\ NtpTime(t) \in Int /\ Part * t \in Int
<1> USE ConstantFacts
<1> DEFINE X == t \div Tps
           f == t % Tps
           j == (X + Epoch) \div Era
           e == (X + Epoch) % Era
<1>1. X \in Int /\ f \in 0 .. Tps - 1 /\ t = Tps * X + f BY DivMod
<1>2. j \in Int /\ e \in 0 .. Era - 1 /\ X + Epoch = Era * j + e
  <2>1. X + Epoch \in Int BY <1>1
  <2> HIDE DEF X
  <2>2. QED BY <2>1, DivMod
<1>3. NtpTime(t) = e * Frac + f * Part BY DEF NtpTime, Part
<1> HIDE DEF X, f, j, e
<1>4. e * Frac = X * Frac + Epoch * Frac - Span * j
  <2>1. e = X + Epoch - Era * j BY <1>1, <1>2
  <2>2. (X + Epoch - Era * j) * Frac = X * Frac + Epoch * Frac - (Era * j) * Frac
    BY <1>1, <1>2
  <2>3. (Era * j) * Frac = (Era * Frac) * j BY <1>2
  <2>4. QED BY <2>1, <2>2, <2>3 DEF Span
<1>5. X * Frac + f * Part = Part * t
  <2>1. X * (Part * Tps) = Part * (Tps * X) BY <1>1
  <2>2. Part * (Tps * X + f) = Part * (Tps * X) + Part * f BY <1>1
  <2>3. QED BY <1>1, <2>1, <2>2
<1>6. /\ X * Frac \in Int /\ Epoch * Frac \in Int /\ Span * j \in Int
      /\ f * Part \in Int /\ Part * t \in Int /\ e * Frac \in Int
  BY <1>1, <1>2
<1> DEFINE a == NtpTime(t) - Epoch * Frac
           b == Part * t
<1>7. NtpTime(t) \in Int BY <1>3, <1>6
<1>8. a \in Int /\ b \in Int /\ -j \in Int BY <1>2, <1>6, <1>7
<1>9. Span * (-j) = -(Span * j) BY <1>2
<1>10. a = b + Span * (-j) BY <1>3, <1>4, <1>5, <1>6, <1>9
<1>11. Unix(NtpTime(t)) = a % Span BY DEF Unix, TS_SUB
<1> HIDE DEF a, b
<1>12. a % Span = b % Span BY <1>8, <1>10, ModMultiple
<1>13. QED BY <1>6, <1>7, <1>11, <1>12 DEF b

\* The conversion to seconds and microseconds.
LEMMA TimeValDiv ==
  ASSUME NEW a \in Nat
  PROVE  TimeVal(a) = a \div Part
<1>0. ASSUME NEW n \in Nat \ {0}
      PROVE  a \div n \in Int /\ a % n \in 0 .. n - 1 /\ a = n * (a \div n) + (a % n)
  BY DivMod
<1> USE ConstantFacts
<1> DEFINE A == a \div Frac
           B == a % Frac
           q == B \div Part
           r == B % Part
<1>1. A \in Int /\ B \in 0 .. Frac - 1 /\ a = Frac * A + B BY <1>0
<1>2. q \in Int /\ r \in 0 .. Part - 1 /\ B = Part * q + r
  <2>1. B \in Int BY <1>1
  <2> HIDE DEF B
  <2>2. QED BY <2>1, DivMod
<1>3. TimeVal(a) = A * Tps + ((B * Tps) \div Frac) BY DEF TimeVal
<1> HIDE DEF A, B, q, r
<1>4. (B * Tps) \div Frac = q
  <2> DEFINE x == B * Tps
             y == r * Tps
  <2>1. x = Frac * q + y
    <3>1. (Part * q + r) * Tps = (Part * q) * Tps + r * Tps BY <1>2
    <3>2. (Part * q) * Tps = (Part * Tps) * q BY <1>2
    <3>3. QED BY <1>2, <3>1, <3>2
  <2>2. y \in 0 .. Frac - 1
    <3>1. y >= 0 /\ y \in Int BY <1>2
    <3>2. Tps * (Part - r) >= Tps BY <1>2, MulMono
    <3>3. Tps * (Part - r) = Part * Tps - r * Tps BY <1>2
    <3>4. QED BY <3>1, <3>2, <3>3
  <2>3. x \in Int BY <1>1
  <2> HIDE DEF x, y
  <2>4. x \div Frac = q BY <1>2, <2>1, <2>2, <2>3, DivModUnique
  <2>5. QED BY <2>4 DEF x
<1>5. a \div Part = A * Tps + q
  <2> DEFINE d == A * Tps + q
  <2>1. d \in Int BY <1>1, <1>2
  <2>2. a = Part * d + r
    <3>1. Part * (A * Tps + q) = Part * (A * Tps) + Part * q BY <1>1, <1>2
    <3>2. Part * (A * Tps) = (Part * Tps) * A BY <1>1
    <3>3. /\ Part * (A * Tps) \in Int /\ Part * q \in Int /\ Frac * A \in Int
      BY <1>1, <1>2
    <3>4. QED BY <1>1, <1>2, <3>1, <3>2, <3>3
  <2> HIDE DEF d
  <2>3. a \div Part = d BY <1>2, <2>1, <2>2, DivModUnique
  <2>4. QED BY <2>3 DEF d
<1>6. QED BY <1>3, <1>4, <1>5

-----------------------------------------------------------------------------
(* The time an answer sets the clock to *)

\* The signed half of a number of timestamp width.
LEMMA HalfOf ==
  ASSUME NEW v \in Int, 2 * v < Span, -Span <= 2 * v
  PROVE  TS_RSHIFT(v % Span) = (v \div 2) % Span
<1> USE ConstantFacts
<1>1. Signed(v % Span) = v
  <2>1. CASE v >= 0
    <3>1. v = Span * 0 + v /\ v \in 0 .. Span - 1 BY <2>1
    <3>2. v % Span = v BY <3>1, DivModUnique
    <3>3. QED BY <3>2 DEF Signed
  <2>2. CASE v < 0
    <3> DEFINE u == v + Span
    <3>1. v = Span * (-1) + u /\ u \in 0 .. Span - 1 BY <2>2
    <3>2. v % Span = u BY <3>1, DivModUnique
    <3>3. QED BY <3>2 DEF Signed
  <2>3. QED BY <2>1, <2>2
<1>2. QED BY <1>1 DEF TS_RSHIFT

\* T4 - T1 on the client's clock, which d ticks have gone by.  Part is lost
\* because microseconds are put into the fraction as they are.
LEMMA Elapsed ==
  ASSUME NEW c \in 0 .. Ticks - 1, NEW d \in Nat, NEW cl, cl = (c + d) % Ticks
  PROVE  \E f \in -(Tps - 1) .. Tps - 1 :
           TS_SUB(SntpGetSysTime(cl), SntpGetSysTime(c)) = (Part * d - (Part - 1) * f) % Span
<1> USE ConstantFacts
<1> DEFINE j == (c + d) \div Ticks
<1>1. j \in Int /\ cl \in 0 .. Ticks - 1 /\ c + d = Ticks * j + cl
  <2>1. c + d \in Int OBVIOUS
  <2>2. QED BY <2>1, DivMod
<1>2. PICK f1 \in 0 .. Tps - 1 : SntpGetSysTime(c) = Part * c - (Part - 1) * f1
  BY SysTime
<1>3. PICK f4 \in 0 .. Tps - 1 : SntpGetSysTime(cl) = Part * cl - (Part - 1) * f4
  BY <1>1, SysTime
<1> HIDE DEF j
<1> DEFINE f == f4 - f1
           a == SntpGetSysTime(cl) - SntpGetSysTime(c)
           b == Part * d - (Part - 1) * f
<1>4. f \in -(Tps - 1) .. Tps - 1 OBVIOUS
<1>5. (Part - 1) * f = (Part - 1) * f4 - (Part - 1) * f1 OBVIOUS
<1>6. Part * cl = Part * c + Part * d - Span * j
  <2>1. cl = c + d - Ticks * j BY <1>1
  <2>2. Part * (c + d - Ticks * j) = Part * c + Part * d - Part * (Ticks * j) BY <1>1
  <2>3. Part * (Ticks * j) = (Part * Ticks) * j BY <1>1
  <2>4. QED BY <2>1, <2>2, <2>3
<1>7. /\ Part * c \in Int /\ Part * d \in Int /\ Span * j \in Int /\ Part * cl \in Int
      /\ (Part - 1) * f4 \in Int /\ (Part - 1) * f1 \in Int
  BY <1>1
<1>8. Span * (-j) = -(Span * j) BY <1>1
<1>9. a = b + Span * (-j) BY <1>2, <1>3, <1>5, <1>6, <1>7, <1>8
<1>10. a \in Int /\ b \in Int /\ -j \in Int BY <1>1, <1>2, <1>3, <1>5, <1>7
<1>11. TS_SUB(SntpGetSysTime(cl), SntpGetSysTime(c)) = a % Span BY DEF TS_SUB
<1> HIDE DEF a, b, f
<1>12. a % Span = b % Span BY <1>9, <1>10, ModMultiple
<1>13. QED BY <1>4, <1>11, <1>12 DEF b

\* Sums and differences of timestamps.
LEMMA TimestampSum ==
  ASSUME NEW a \in Int, NEW b \in Int
  PROVE  /\ TS_ADD(a % Span, b % Span) = (a + b) % Span
         /\ TS_SUB(a % Span, b % Span) = (a - b) % Span
         /\ a % Span \in Nat
<1>1. Span \in Nat \ {0} BY ConstantFacts
<1> HIDE DEF Span
<1> DEFINE p == a % Span
<1>2. p \in Nat BY <1>1, DivMod
<1>3. (p - (b % Span)) % Span = (a - b) % Span BY <1>1, ModSum
<1>4. (p + b) % Span = (a + b) % Span BY <1>1, ModSum
<1> HIDE DEF p
<1>5. p \in Int BY <1>2
<1>6. (p + (b % Span)) % Span = (p + b) % Span BY <1>1, <1>5, ModSum
<1>7. QED BY <1>2, <1>3, <1>4, <1>6 DEF TS_ADD, TS_SUB, p

\* The difference Interval halves: the two ways, and what the fractions lose.
Measured(w, f) == Part * w - (Part - 1) * f

\* It is less than half the timestamps' range.
LEMMA MeasuredRange ==
  ASSUME NEW w \in 0 .. 2 * MaxDelay, NEW f \in -(Tps - 1) .. Tps - 1
  PROVE  /\ Measured(w, f) \in Int
         /\ 2 * Measured(w, f) < Span /\ -Span <= 2 * Measured(w, f)
<1> USE ConstantFacts, SntpAssumption
<1> DEFINE g == (Part - 1) * f
           x == Part * w
           M == Part * (2 * MaxDelay)
           S == Part * Tps
<1>1. g \in Int /\ x \in Nat /\ M \in Nat /\ S \in Nat OBVIOUS
<1>2. g < S /\ -S < g
  <2>1. (Part - 1) * (Tps - 1 - f) >= 0 /\ (Part - 1) * (Tps - 1 + f) >= 0 OBVIOUS
  <2>2. (Part - 1) * (Tps - 1 - f) = (Part - 1) * (Tps - 1) - g OBVIOUS
  <2>3. (Part - 1) * (Tps - 1 + f) = (Part - 1) * (Tps - 1) + g OBVIOUS
  <2>4. (Part - 1) * (Tps - 1) = S - Part - Tps + 1 OBVIOUS
  <2>5. QED BY <1>1, <2>1, <2>2, <2>3, <2>4
<1>3. x <= M
  <2>1. Part * (2 * MaxDelay - w) >= 0 OBVIOUS
  <2>2. Part * (2 * MaxDelay - w) = M - x OBVIOUS
  <2>3. QED BY <1>1, <2>1, <2>2
<1>4. 2 * M + 2 * S <= Span
  <2>1. Ticks - 2 * (2 * MaxDelay + Tps) >= 0 BY SntpDelays
  <2>2. Part * (Ticks - 2 * (2 * MaxDelay + Tps)) >= 0 BY <2>1
  <2>3. Part * (Ticks - 2 * (2 * MaxDelay + Tps)) = Part * Ticks - 2 * M - 2 * S OBVIOUS
  <2>4. QED BY <1>1, <2>2, <2>3
<1>5. Measured(w, f) = x - g BY DEF Measured
<1> HIDE DEF g, x, M, S
<1>6. QED BY <1>1, <1>2, <1>3, <1>4, <1>5

\* Half of it, in ticks.
LEMMA MeasuredHalf ==
  ASSUME NEW w1 \in 0 .. MaxDelay, NEW w2 \in 0 .. MaxDelay, NEW f \in -(Tps - 1) .. Tps - 1,
         NEW v, v = Measured(w1 + w2, f)
  PROVE  LET h == (v \div 2) \div Part IN
         /\ v \div 2 \in Int /\ h \in Int
         /\ \E r \in 0 .. Part - 1 : v \div 2 = Part * h + r
         /\ 2 * (h - w2) <= (w1 - w2) + Tps
         /\ (w1 - w2) - Tps <= 2 * (h - w2)
<1> USE ConstantFacts, SntpAssumption
<1> DEFINE H == v \div 2
           h == H \div Part
           r == H % Part
<1>1. v \in Int
  <2>1. w1 + w2 \in 0 .. 2 * MaxDelay OBVIOUS
  <2>2. QED BY <2>1, MeasuredRange
<1>2. H \in Int /\ 2 * H <= v /\ v <= 2 * H + 1 BY <1>1, DivMod
<1>3. h \in Int /\ r \in 0 .. Part - 1 /\ H = Part * h + r
  <2> HIDE DEF H
  <2>1. QED BY <1>2, DivMod
<1> HIDE DEF H, h, r
<1> DEFINE g == (Part - 1) * f
           y == Part * h
           S == Part * Tps
           x1 == Part * w1
           x2 == Part * w2
<1>4. g \in Int /\ y \in Int /\ S \in Int /\ x1 \in Int /\ x2 \in Int BY <1>3
<1>5. g <= S - Part - Tps + 1 /\ -(S - Part - Tps + 1) <= g
  <2>1. (Part - 1) * (Tps - 1 - f) >= 0 /\ (Part - 1) * (Tps - 1 + f) >= 0 OBVIOUS
  <2>2. (Part - 1) * (Tps - 1 - f) = (Part - 1) * (Tps - 1) - g OBVIOUS
  <2>3. (Part - 1) * (Tps - 1 + f) = (Part - 1) * (Tps - 1) + g OBVIOUS
  <2>4. (Part - 1) * (Tps - 1) = S - Part - Tps + 1 OBVIOUS
  <2>5. QED BY <1>4, <2>1, <2>2, <2>3, <2>4
<1>6. v = x1 + x2 - g
  <2>1. Part * (w1 + w2) = x1 + x2 OBVIOUS
  <2>2. QED BY <2>1 DEF Measured
<1>7. 2 * (h - w2) <= (w1 - w2) + Tps
  <2> DEFINE z == (w1 - w2) + Tps - 2 * (h - w2)
  <2>1. z \in Int BY <1>3
  <2>2. Part * z = x1 + x2 + S - 2 * y BY <1>3
  <2>3. Part * z > 0
    <3> HIDE DEF g, y, S, x1, x2, z
    <3>1. 2 * y <= x1 + x2 - g BY <1>2, <1>3, <1>4, <1>6 DEF y
    <3>2. QED BY <2>2, <3>1, <1>4, <1>5
  <2> HIDE DEF z
  <2>4. z > 0 BY <2>1, <2>3
  <2>5. QED BY <1>3, <2>4 DEF z
<1>8. (w1 - w2) - Tps <= 2 * (h - w2)
  <2> DEFINE z == 2 * (h - w2) - (w1 - w2) + Tps + 1
  <2>1. z \in Int BY <1>3
  <2>2. Part * z = 2 * y - x1 - x2 + S + Part BY <1>3
  <2>3. Part * z > 0
    <3> HIDE DEF g, y, S, x1, x2, z
    <3>1. x1 + x2 - g <= 2 * y + 2 * (Part - 1) + 1 BY <1>2, <1>3, <1>4, <1>6 DEF y
    <3>2. QED BY <2>2, <3>1, <1>4, <1>5
  <2> HIDE DEF z
  <2>4. z > 0 BY <2>1, <2>3
  <2>5. QED BY <1>3, <2>4 DEF z
<1>9. QED BY <1>2, <1>3, <1>7, <1>8 DEF H, h

\* An answer to a request that was sent at time c of the client's clock, was
\* received at t2 and answered at t3, and took w1 there and w2 back; cl is what
\* the client's clock shows when it comes.
Answers(m, cl, c, t2, t3, w1, w2) ==
  /\ c \in 0 .. Ticks - 1 /\ t2 \in Nat /\ t3 \in Nat /\ t2 <= t3
  /\ w1 \in 0 .. MaxDelay /\ w2 \in 0 .. MaxDelay
  /\ cl = (c + (w1 + (t3 - t2) + w2)) % Ticks
  /\ m.tOrig = SntpGetSysTime(c) /\ m.tRecv = NtpTime(t2) /\ m.tXmt = NtpTime(t3)

\* It sets the clock to the time, which is t3 + w2, up to half the difference
\* of the ways and half a second.
LEMMA AnswerTime ==
  ASSUME NEW m, NEW cl, NEW c, NEW t2, NEW t3, NEW w1, NEW w2,
         Answers(m, cl, c, t2, t3, w1, w2)
  PROVE  \E h \in Int :
           /\ SetFrom(m, SntpGetSysTime(cl)) = (t3 + h) % Ticks
           /\ 2 * (h - w2) <= (w1 - w2) + Tps
           /\ (w1 - w2) - Tps <= 2 * (h - w2)
<1>0. /\ c \in 0 .. Ticks - 1 /\ t2 \in Nat /\ t3 \in Nat /\ t2 <= t3
      /\ w1 \in 0 .. MaxDelay /\ w2 \in 0 .. MaxDelay
      /\ cl = (c + (w1 + (t3 - t2) + w2)) % Ticks
      /\ m.tOrig = SntpGetSysTime(c) /\ m.tRecv = NtpTime(t2) /\ m.tXmt = NtpTime(t3)
  BY DEF Answers
<1> USE <1>0
<1> DEFINE d == w1 + (t3 - t2) + w2
<1>1. d \in Nat BY SntpAssumption
<1>2. PICK f \in -(Tps - 1) .. Tps - 1 :
        TS_SUB(SntpGetSysTime(cl), SntpGetSysTime(c)) = (Part * d - (Part - 1) * f) % Span
  <2> HIDE DEF d
  <2>1. cl = (c + d) % Ticks BY DEF d
  <2>2. QED BY <1>1, <2>1, Elapsed
<1> DEFINE v == Measured(w1 + w2, f)
           H == v \div 2
           h == H \div Part
           x == Part * d - (Part - 1) * f
           y == Part * t3 - Part * t2
           T2 == Unix(NtpTime(t2))
           T3 == Unix(NtpTime(t3))
<1>3. /\ H \in Int /\ h \in Int /\ \E r \in 0 .. Part - 1 : H = Part * h + r
      /\ 2 * (h - w2) <= (w1 - w2) + Tps /\ (w1 - w2) - Tps <= 2 * (h - w2)
  BY MeasuredHalf
<1>4. /\ v \in Int /\ 2 * v < Span /\ -Span <= 2 * v
  <2>1. w1 + w2 \in 0 .. 2 * MaxDelay BY SntpAssumption
  <2>2. QED BY <2>1, MeasuredRange
<1>5. T2 = (Part * t2) % Span /\ T3 = (Part * t3) % Span BY UnixNtpTime
<1>6. Part * t2 \in Int /\ Part * t3 \in Int /\ x \in Int /\ y \in Int BY <1>1, ConstantFacts
<1>7. TS_SUB(T3, T2) = y % Span
  <2> DEFINE p3 == Part * t3
             p2 == Part * t2
  <2>1. p3 \in Int /\ p2 \in Int BY <1>6
  <2>2. T3 = p3 % Span /\ T2 = p2 % Span /\ y = p3 - p2 BY <1>5
  <2> HIDE DEF p2, p3, T2, T3, y
  <2>3. QED BY <2>1, <2>2, TimestampSum
<1>8. x - y = v
  <2>1. /\ Part * (w1 + (t3 - t2) + w2) = Part * (w1 + w2) + Part * t3 - Part * t2
    BY SntpAssumption, ConstantFacts
  <2>2. Part * (w1 + w2) \in Int /\ (Part - 1) * f \in Int BY SntpAssumption, ConstantFacts
  <2>3. QED BY <1>6, <2>1, <2>2 DEF Measured
<1> HIDE DEF v, x, y, d, H, h
<1>9. TS_SUB(x % Span, y % Span) = v % Span BY <1>6, <1>8, TimestampSum
<1>10. Interval(m.tOrig, T2, T3, SntpGetSysTime(cl)) = H % Span
  <2>1. Interval(m.tOrig, T2, T3, SntpGetSysTime(cl)) = TS_RSHIFT(v % Span)
    BY <1>2, <1>7, <1>9 DEF Interval, x
  <2>2. QED BY <1>4, <2>1, HalfOf DEF H
<1>11. SetFrom(m, SntpGetSysTime(cl)) = TimeVal((Part * t3 + H) % Span)
  <2>1. SetFrom(m, SntpGetSysTime(cl)) = TimeVal(TS_ADD(T3, H % Span))
    BY <1>10 DEF SetFrom
  <2> DEFINE p == Part * t3
  <2>2. T3 = p % Span /\ p \in Int BY <1>5, <1>6
  <2> HIDE DEF p, T3
  <2>3. TS_ADD(T3, H % Span) = (p + H) % Span BY <1>3, <2>2, TimestampSum
  <2>4. QED BY <2>1, <2>3 DEF p
<1>12. PICK r \in 0 .. Part - 1 : H = Part * h + r BY <1>3
<1>13. Part * t3 + H = Part * (t3 + h) + r
  <2>1. Part * (t3 + h) = Part * t3 + Part * h BY <1>3, ConstantFacts
  <2>2. Part * h \in Int BY <1>3, ConstantFacts
  <2>3. QED BY <1>6, <1>12, <2>1, <2>2
<1>14. /\ ((Part * (t3 + h) + r) % Span) \div Part = (t3 + h) % Ticks
       /\ (Part * (t3 + h) + r) % Span \in Nat
  <2> DEFINE a == t3 + h
  <2>1. a \in Int BY <1>3
  <2> HIDE DEF a
  <2>2. ((Part * a + r) % Span) \div Part = a % Ticks
    <3>1. Part \in Nat \ {0} /\ Ticks \in Nat \ {0} /\ Span = Part * Ticks BY ConstantFacts
    <3> HIDE DEF Part, Ticks, Span
    <3>2. QED BY <2>1, <3>1, ModScaled
  <2>3. Part * a + r \in Int BY <2>1, ConstantFacts
  <2>4. (Part * a + r) % Span \in Nat
    <3> DEFINE q == Part * a + r
    <3>1. q \in Int BY <2>3
    <3> HIDE DEF q
    <3>2. QED BY <3>1, TimestampSum DEF q
  <2>5. QED BY <2>2, <2>4 DEF a
<1>15. SetFrom(m, SntpGetSysTime(cl)) = (t3 + h) % Ticks
  <2> DEFINE a == (Part * (t3 + h) + r) % Span
  <2>1. SetFrom(m, SntpGetSysTime(cl)) = TimeVal(a) BY <1>11, <1>13
  <2>2. a \in Nat /\ a \div Part = (t3 + h) % Ticks BY <1>14
  <2> HIDE DEF a
  <2>3. QED BY <2>1, <2>2, TimeValDiv
<1>16. QED BY <1>3, <1>15

-----------------------------------------------------------------------------
(* The inductive invariant *)

Datagram ==
  [to : {"server", "busy", "client"}, round : Nat, since : Nat, copy : Nat,
   way : 0 .. MaxDelay, tOrig : Int, tRecv : Int, tXmt : Int]

TypeOK ==
  /\ now \in Nat /\ clock \in 0 .. Ticks - 1
  /\ iCnt \in Nat /\ faults \in Nat /\ skew \in Int
  /\ net \subseteq Datagram

\* No datagram is of a later round than the client's, or overdue.
InTime == \A m \in net : m.round <= iCnt /\ now - m.since \in 0 .. MaxDelay

\* What a datagram of this round says: when the request was sent, by the
\* client's clock, which has run on since; when the server got it; and when it
\* answered.
Tells(m) ==
  CASE m.to = "server" ->
         \E c \in 0 .. Ticks - 1 :
           /\ m.tXmt = SntpGetSysTime(c)
           /\ clock = (c + (now - m.since)) % Ticks
    [] m.to = "busy" ->
         \E c \in 0 .. Ticks - 1 :
           /\ m.tOrig = SntpGetSysTime(c) /\ m.tRecv = NtpTime(m.since)
           /\ clock = (c + (m.way + (now - m.since))) % Ticks
    [] m.to = "client" ->
         \E c \in 0 .. Ticks - 1, t \in 0 .. m.since :
           /\ m.tOrig = SntpGetSysTime(c) /\ m.tRecv = NtpTime(t)
           /\ m.tXmt = NtpTime(m.since)
           /\ clock = (c + (m.way + (m.since - t) + (now - m.since))) % Ticks

TellTheTruth == server = "ntp" => \A m \in net : m.round = iCnt => Tells(m)

IInv == TypeOK /\ InTime /\ TellTheTruth /\ RightToHalfASecond

-----------------------------------------------------------------------------
(* The invariant is inductive *)

\* Clocks and timestamps are numbers.
LEMMA StampType ==
  ASSUME NEW t \in Nat
  PROVE  Stamp(t) \in Int /\ SntpGetSysTime(t) \in Int /\ Shown(t) \in 0 .. Ticks - 1
<1>1. Ticks \in Nat \ {0} /\ Tps \in Nat \ {0} /\ Frac \in Nat BY ConstantFacts
<1>2. Shown(t) \in 0 .. Ticks - 1
  <2> HIDE DEF Ticks
  <2>1. QED BY <1>1, DivMod DEF Shown
<1> DEFINE x == Shown(t)
<1>3. x \div Tps \in Int /\ x % Tps \in Int
  <2>1. x \in Int BY <1>2
  <2> HIDE DEF x
  <2>2. QED BY <1>1, <2>1, DivMod
<1>4. SntpGetSysTime(t) \in Int BY <1>1, <1>3 DEF SntpGetSysTime
<1>5. NtpTime(t) \in Int BY UnixNtpTime
<1>6. QED BY <1>2, <1>4, <1>5 DEF Stamp

\* Whatever the fields of a datagram, the client sets its clock to a time.
LEMMA SetFromType ==
  ASSUME NEW m \in Datagram, NEW T4 \in Int
  PROVE  SetFrom(m, T4) \in 0 .. Ticks - 1
<1>1. Span \in Nat \ {0} /\ Span \div 2 \in Int /\ Epoch * Frac \in Int BY ConstantFacts
<1>2. \A a \in Int, b \in Int : TS_SUB(a, b) \in Int
  <2> HIDE DEF Span
  <2>1. SUFFICES ASSUME NEW a \in Int, NEW b \in Int PROVE (a - b) % Span \in Int
    BY DEF TS_SUB
  <2>2. a - b \in Int OBVIOUS
  <2>3. QED BY <1>1, <2>2, DivMod
<1> DEFINE T2 == Unix(m.tRecv)
           T3 == Unix(m.tXmt)
           v == TS_SUB(TS_SUB(T4, m.tOrig), TS_SUB(T3, T2))
           H == Signed(v) \div 2
<1>3. m.tOrig \in Int /\ m.tRecv \in Int /\ m.tXmt \in Int BY DEF Datagram
<1>4. T2 \in Int /\ T3 \in Int BY <1>1, <1>2, <1>3 DEF Unix
<1>5. v \in Int
  <2> HIDE DEF T2, T3
  <2>1. TS_SUB(T4, m.tOrig) \in Int /\ TS_SUB(T3, T2) \in Int BY <1>2, <1>3, <1>4
  <2>2. QED BY <1>2, <2>1
<1> HIDE DEF v
<1>6. Signed(v) \in Int BY <1>1, <1>5 DEF Signed
<1>7. H \in Int BY <1>6, DivMod
<1>8. SetFrom(m, T4) = TimeVal((T3 + (H % Span)) % Span)
  BY DEF SetFrom, Interval, TS_RSHIFT, TS_ADD, v
<1> HIDE DEF H, T3
<1> DEFINE b == T3 + (H % Span)
           a == b % Span
           n == Ticks
           q == a \div Part
           r == a % Part
<1>9. a \in 0 .. Span - 1
  <2> HIDE DEF Span
  <2>1. H % Span \in Int BY <1>1, <1>7, DivMod
  <2>2. b \in Int BY <1>4, <2>1
  <2> HIDE DEF b
  <2>3. QED BY <1>1, <2>2, DivMod
<1> HIDE DEF a, b
<1>10. a \in Nat BY <1>1, <1>9
<1>11. TimeVal(a) = q BY <1>10, TimeValDiv
<1>12. Part \in Nat \ {0} /\ n \in Nat \ {0} /\ Span = Part * n BY ConstantFacts
<1> HIDE DEF n, q, r
<1>13. q \in Int /\ r \in 0 .. Part - 1 /\ a = Part * q + r
  BY <1>10, <1>12, DivMod DEF q, r
<1>14. q \in 0 .. n - 1
  <2>1. q >= 0
    <3>1. ASSUME q <= -1 PROVE FALSE
      <4>1. Part * (-q) >= Part BY <1>12, <1>13, <3>1, MulMono
      <4>2. Part * (-q) = -(Part * q) BY <1>12, <1>13
      <4>3. QED BY <1>9, <1>10, <1>12, <1>13, <4>1, <4>2
    <3>2. QED BY <1>13, <3>1
  <2>2. q < n
    <3>1. ASSUME q >= n PROVE FALSE
      <4>1. Part * (q - n) >= 0 BY <1>12, <1>13, <3>1
      <4>2. Part * (q - n) = Part * q - Part * n BY <1>12, <1>13
      <4>3. Part * q \in Int /\ Part * n \in Int BY <1>12, <1>13
      <4>4. QED BY <1>9, <1>12, <1>13, <4>1, <4>2, <4>3
    <3>2. QED BY <1>12, <1>13, <3>1
  <2>3. QED BY <1>12, <1>13, <2>1, <2>2
<1>15. QED BY <1>8, <1>11, <1>14 DEF a, b, n

\* A number modulo Ticks, taken to the nearest side of 0, is not farther from 0.
LEMMA Nearest ==
  ASSUME NEW e \in Int
  PROVE  LET d == e % Ticks
         IN  Abs(IF d > Ticks \div 2 THEN d - Ticks ELSE d) <= Abs(e)
<1> DEFINE n == Ticks
           q == e \div n
           d == e % n
           h == n \div 2
<1>1. n \in Nat \ {0} BY ConstantFacts
<1> HIDE DEF n
<1>2. q \in Int /\ d \in 0 .. n - 1 /\ e = n * q + d BY <1>1, DivMod
<1>3. h \in Int /\ 2 * h <= n /\ n <= 2 * h + 1 BY <1>1, DivMod
<1> HIDE DEF q, d, h
<1>4. CASE q = 0 BY <1>1, <1>2, <1>3, <1>4 DEF Abs, d, h, n
<1>5. CASE q >= 1
  <2>1. n * q >= n BY <1>1, <1>2, <1>5, MulMono
  <2>2. QED BY <1>1, <1>2, <1>3, <2>1 DEF Abs, d, h, n
<1>6. CASE q = -1
  <2>1. n * q = -n BY <1>1, <1>6
  <2>2. QED BY <1>1, <1>2, <1>3, <2>1 DEF Abs, d, h, n
<1>7. CASE q <= -2
  <2>1. n * (-q - 1) >= n BY <1>1, <1>2, <1>7, MulMono
  <2>2. n * (-q - 1) = -(n * q) - n BY <1>1, <1>2
  <2>3. n * q \in Int BY <1>1, <1>2
  <2>4. QED BY <1>1, <1>2, <1>3, <2>1, <2>2, <2>3 DEF Abs, d, h, n
<1>8. QED BY <1>2, <1>4, <1>5, <1>6, <1>7

\* The clock goes on as real time does.
LEMMA ClockRuns ==
  ASSUME NEW x \in Int, NEW c, c = x % Ticks
  PROVE  Shown(c + 1) = (x + 1) % Ticks
<1> DEFINE n == Ticks
<1>1. n \in Nat \ {0} BY ConstantFacts
<1> HIDE DEF n
<1>2. \A b \in Int : ((x % n) + b) % n = (x + b) % n BY <1>1, ModSum
<1>3. QED BY <1>2 DEF n, Shown

\* Nothing changes what a datagram tells but time and the clock.
LEMMA TellsStill ==
  ASSUME UNCHANGED <<now, clock>>, NEW m, Tells(m)
  PROVE  Tells(m)'
BY DEF Tells

\* An error within bounds stays there until the clock is set.
LEMMA RightStill ==
  ASSUME RightToHalfASecond, UNCHANGED <<server, now, clock, skew>>,
         stale => stale', wild => wild'
  PROVE  RightToHalfASecond'
BY DEF RightToHalfASecond, Error

\* A step that sets no clock keeps the invariant if the datagrams it puts on
\* their way tell the truth.
LEMMA NetIInv ==
  ASSUME IInv, TypeOK', UNCHANGED <<server, now, clock, skew, wild>>, stale => stale',
         iCnt' >= iCnt,
         \A m \in net' \ net :
           /\ m.round <= iCnt /\ now - m.since \in 0 .. MaxDelay
           /\ server = "ntp" /\ m.round = iCnt => Tells(m)
  PROVE  IInv'
<1>1. InTime'
  <2>1. SUFFICES ASSUME NEW m \in net'
                 PROVE  m.round <= iCnt' /\ now' - m.since \in 0 .. MaxDelay
    BY DEF InTime
  <2>2. m.round \in Nat /\ iCnt \in Nat /\ iCnt' \in Nat BY DEF TypeOK, Datagram, IInv
  <2>3. QED BY <2>2 DEF IInv, InTime
<1>2. TellTheTruth'
  <2>1. SUFFICES ASSUME NEW m \in net', server = "ntp", m.round = iCnt'
                 PROVE  Tells(m)'
    BY DEF TellTheTruth
  <2>2. m.round <= iCnt BY DEF IInv, InTime
  <2>3. m.round = iCnt BY <2>1, <2>2 DEF IInv, TypeOK
  <2>4. Tells(m) BY <2>1, <2>3 DEF IInv, TellTheTruth
  <2>5. QED BY <2>4, TellsStill
<1>3. RightToHalfASecond' BY RightStill DEF IInv
<1>4. QED BY <1>1, <1>2, <1>3 DEF IInv

\* The invariant holds before the first request.
LEMMA InitIInv == Init => IInv
<1> SUFFICES ASSUME Init PROVE IInv OBVIOUS
<1>1. now \in Nat BY SntpAssumption DEF Init
<1>2. clock \in 0 .. Ticks - 1
  <2>1. PICK o \in Offsets : clock = Shown(now + o) BY DEF Init
  <2>2. now + o \in Nat BY <1>1, SntpAssumption
  <2>3. QED BY <2>1, <2>2, StampType
<1>3. skew = Unset /\ Unset \in Int BY ConstantFacts DEF Init, Unset
<1>4. QED BY <1>1, <1>2, <1>3
         DEF Init, IInv, TypeOK, InTime, TellTheTruth, RightToHalfASecond

\* Time passes.
LEMMA TickIInv == IInv /\ Tick => IInv'
<1> SUFFICES ASSUME IInv, Tick PROVE IInv' OBVIOUS
<1>1. /\ now' = now + 1 /\ clock' = Shown(clock + 1)
      /\ UNCHANGED <<server, pc, iCnt, net, faults, failed, stale, wild, skew>>
      /\ \A m \in net : now - m.since < MaxDelay
  BY DEF Tick
<1>2. now \in Nat /\ clock \in 0 .. Ticks - 1 /\ net \subseteq Datagram
  BY DEF IInv, TypeOK
<1>3. TypeOK'
  <2>1. clock + 1 \in Nat BY <1>2, ConstantFacts
  <2>2. QED BY <1>1, <1>2, <2>1, StampType DEF IInv, TypeOK
<1>4. InTime'
  <2>1. \A m \in net : m.since \in Nat BY <1>2 DEF Datagram
  <2>2. QED BY <1>1, <1>2, <2>1, SntpAssumption DEF IInv, InTime
<1>5. TellTheTruth'
  <2> SUFFICES ASSUME NEW m \in net, server = "ntp", m.round = iCnt PROVE Tells(m)'
    BY <1>1 DEF TellTheTruth
  <2>1. Tells(m) BY DEF IInv, TellTheTruth
  <2>2. m.since \in Nat /\ m.way \in Nat /\ m.to \in {"server", "busy", "client"}
    BY <1>2, SntpAssumption DEF Datagram
  <2>3. \A x \in Int : clock = x % Ticks => clock' = (x + 1) % Ticks
    BY <1>1, ClockRuns
  <2>4. CASE m.to = "server"
    <3>1. PICK c \in 0 .. Ticks - 1 :
            m.tXmt = SntpGetSysTime(c) /\ clock = (c + (now - m.since)) % Ticks
      BY <2>1, <2>4 DEF Tells
    <3>2. clock' = (c + (now - m.since) + 1) % Ticks BY <1>2, <2>2, <2>3, <3>1
    <3>3. c + (now - m.since) + 1 = c + (now' - m.since) BY <1>1, <1>2, <2>2
    <3>4. QED BY <2>4, <3>1, <3>2, <3>3 DEF Tells
  <2>5. CASE m.to = "busy"
    <3>1. PICK c \in 0 .. Ticks - 1 :
            /\ m.tOrig = SntpGetSysTime(c) /\ m.tRecv = NtpTime(m.since)
            /\ clock = (c + (m.way + (now - m.since))) % Ticks
      BY <2>1, <2>5 DEF Tells
    <3>2. clock' = (c + (m.way + (now - m.since)) + 1) % Ticks BY <1>2, <2>2, <2>3, <3>1
    <3>3. c + (m.way + (now - m.since)) + 1 = c + (m.way + (now' - m.since))
      BY <1>1, <1>2, <2>2
    <3>4. QED BY <2>5, <3>1, <3>2, <3>3 DEF Tells
  <2>6. CASE m.to = "client"
    <3>1. PICK c \in 0 .. Ticks - 1, t \in 0 .. m.since :
            /\ m.tOrig = SntpGetSysTime(c) /\ m.tRecv = NtpTime(t)
            /\ m.tXmt = NtpTime(m.since)
            /\ clock = (c + (m.way + (m.since - t) + (now - m.since))) % Ticks
      BY <2>1, <2>6 DEF Tells
    <3>2. clock' = (c + (m.way + (m.since - t) + (now - m.since)) + 1) % Ticks
      BY <1>2, <2>2, <2>3, <3>1
    <3>3. c + (m.way + (m.since - t) + (now - m.since)) + 1
            = c + (m.way + (m.since - t) + (now' - m.since))
      <4>1. t \in Int /\ c \in Int /\ m.since \in Int /\ m.way \in Int /\ now' \in Int /\ now' = now + 1
        BY <1>1, <1>2, <2>2
      <4>2. QED BY <1>2, <4>1
    <3>4. QED BY <2>6, <3>1, <3>2, <3>3 DEF Tells
  <2>7. QED BY <2>2, <2>4, <2>5, <2>6
<1>6. RightToHalfASecond'
  <2>1. (clock' - now') % Ticks = (clock - now) % Ticks
    <3> DEFINE n == Ticks
    <3>1. n \in Nat \ {0} BY ConstantFacts
    <3> DEFINE b == -(now + 1)
    <3>2. b \in Int /\ clock + 1 \in Int BY <1>2
    <3> HIDE DEF n
    <3>3. (((clock + 1) % n) + b) % n = (clock + 1 + b) % n BY <3>1, <3>2, ModSum
    <3>4. clock' + b = clock' - now' /\ clock + 1 + b = clock - now
      <4>1. clock' \in Int BY <1>3 DEF TypeOK
      <4>2. QED BY <1>1, <1>2, <4>1
    <3>5. clock' = (clock + 1) % n BY <1>1 DEF Shown, n
    <3>6. QED BY <3>3, <3>4, <3>5 DEF n
  <2>2. Error' = Error BY <2>1 DEF Error
  <2>3. QED BY <1>1, <2>2 DEF IInv, RightToHalfASecond
<1>7. QED BY <1>3, <1>4, <1>5, <1>6 DEF IInv

\* An answer of this round sets the clock right.
LEMMA AnswerRight ==
  ASSUME IInv, NEW m \in net, m.to = "client", server = "ntp", m.round = iCnt,
         clock' = SetFrom(m, SntpGetSysTime(clock)), now' = now,
         skew' = m.way - (now - m.since)
  PROVE  2 * Abs(Error') <= Abs(skew') + Tps
<1>1. m \in Datagram /\ now \in Nat /\ now - m.since \in 0 .. MaxDelay /\ Tells(m)
  BY DEF IInv, TypeOK, InTime, TellTheTruth
<1>2. m.since \in Nat /\ m.way \in 0 .. MaxDelay BY <1>1 DEF Datagram
<1> DEFINE w1 == m.way
           w2 == now - m.since
           t3 == m.since
<1>3. PICK c \in 0 .. Ticks - 1, t \in 0 .. m.since :
        /\ m.tOrig = SntpGetSysTime(c) /\ m.tRecv = NtpTime(t)
        /\ m.tXmt = NtpTime(m.since)
        /\ clock = (c + (w1 + (m.since - t) + w2)) % Ticks
  BY <1>1 DEF Tells
<1>4. t \in Nat /\ t3 \in Nat /\ t <= t3 BY <1>2
<1>5. w1 \in 0 .. MaxDelay /\ w2 \in 0 .. MaxDelay BY <1>1, <1>2
<1>6. now = m.since + w2 BY <1>1, <1>2
<1> HIDE DEF w1, w2, t3
<1>3a. m.tXmt = NtpTime(t3) /\ clock = (c + (w1 + (t3 - t) + w2)) % Ticks BY <1>3 DEF t3
<1>7. PICK h \in Int :
        /\ SetFrom(m, SntpGetSysTime(clock)) = (m.since + h) % Ticks
        /\ 2 * (h - w2) <= (w1 - w2) + Tps
        /\ (w1 - w2) - Tps <= 2 * (h - w2)
  <2>1. \E h \in Int :
          /\ SetFrom(m, SntpGetSysTime(clock)) = (t3 + h) % Ticks
          /\ 2 * (h - w2) <= (w1 - w2) + Tps
          /\ (w1 - w2) - Tps <= 2 * (h - w2)
    <3>1. Answers(m, clock, c, t, t3, w1, w2) BY <1>3, <1>3a, <1>4, <1>5 DEF Answers
    <3>2. QED BY <3>1, AnswerTime
  <2>2. QED BY <2>1 DEF t3
<1> DEFINE e == h - w2
<1>8. e \in Int /\ w1 - w2 \in Int BY <1>5, <1>7, SntpAssumption
<1>9. (clock' - now') % Ticks = e % Ticks
  <2> DEFINE n == Ticks
             x == m.since + h
             b == -now
  <2>1. n \in Nat \ {0} BY ConstantFacts
  <2>2. x \in Int /\ b \in Int BY <1>1, <1>2, <1>7
  <2> HIDE DEF n, x, b
  <2>3. x % n \in Int BY <2>1, <2>2, DivMod
  <2>3a. ((x % n) + b) % n = (x + b) % n BY <2>1, <2>2, ModSum
  <2>4. clock' = x % n BY <1>7 DEF x, n
  <2>5. x + b = e BY <1>1, <1>2, <1>5, <1>6, <1>7, SntpAssumption DEF x, b
  <2>6. clock' + b = clock' - now' BY <1>1, <2>3, <2>4 DEF b
  <2>7. QED BY <2>3a, <2>4, <2>5, <2>6 DEF n
<1> HIDE DEF e
<1>10. Abs(Error') <= Abs(e)
  <2> DEFINE d == (clock' - now') % Ticks
  <2>1. Error' = IF d > Ticks \div 2 THEN d - Ticks ELSE d BY DEF Error
  <2>2. QED BY <1>8, <1>9, <2>1, Nearest
<1>11. 2 * Abs(e) <= Abs(w1 - w2) + Tps
  BY <1>7, <1>8, ConstantFacts DEF Abs, e
<1>12. Abs(Error') \in Int
  <2>1. Error' \in Int
    <3>1. Ticks \in Nat \ {0} BY ConstantFacts
    <3>2. e % Ticks \in Int
      <4> HIDE DEF Ticks
      <4>1. QED BY <1>8, <3>1, DivMod
    <3>3. QED BY <1>9, <3>1, <3>2 DEF Error
  <2>2. QED BY <2>1 DEF Abs
<1>13. skew' = w1 - w2 BY DEF w1, w2
<1>14. Abs(e) \in Int /\ Abs(w1 - w2) \in Int BY <1>8 DEF Abs
<1>15. QED BY <1>10, <1>11, <1>12, <1>13, <1>14, ConstantFacts

\* Every step preserves the invariant.
LEMMA NextIInv == IInv /\ [Next]_vars => IInv'
<1> SUFFICES ASSUME IInv, [Next]_vars PROVE IInv' OBVIOUS
<1>1. /\ now \in Nat /\ clock \in 0 .. Ticks - 1 /\ iCnt \in Nat /\ faults \in Nat
      /\ skew \in Int /\ net \subseteq Datagram
      /\ \A m \in net : m.round <= iCnt /\ now - m.since \in 0 .. MaxDelay
  BY DEF IInv, TypeOK, InTime
<1>2. CASE SendRequest
  <2> DEFINE m == [to |-> "server", round |-> iCnt, since |-> now, copy |-> 0,
                   way |-> 0, tOrig |-> 0, tRecv |-> 0, tXmt |-> SntpGetSysTime(clock)]
  <2>1. /\ net' = net \cup {m}
        /\ UNCHANGED <<server, now, clock, iCnt, faults, failed, stale, wild, skew>>
    BY <1>2 DEF SendRequest
  <2>2. SntpGetSysTime(clock) \in Int BY <1>1, StampType
  <2>3. m \in Datagram BY <1>1, <2>2, SntpAssumption DEF Datagram
  <2>4. TypeOK' BY <1>1, <2>1, <2>3 DEF TypeOK
  <2>5. Tells(m)
    <3>1. clock = (clock + (now - m.since)) % Ticks
      <4>1. clock = Ticks * 0 + clock /\ Ticks \in Nat \ {0} /\ clock \in Int
        BY <1>1, ConstantFacts
      <4>2. clock % Ticks = clock
        <5> HIDE DEF Ticks
        <5>1. QED BY <1>1, <4>1, DivModUnique
      <4>3. clock + (now - m.since) = clock BY <1>1, <4>1
      <4>4. QED BY <4>2, <4>3
    <3>2. QED BY <1>1, <3>1 DEF Tells
  <2>6. m.round <= iCnt /\ now - m.since \in 0 .. MaxDelay BY <1>1, SntpAssumption
  <2>7. QED BY <1>1, <2>1, <2>4, <2>5, <2>6, NetIInv
<1>3. CASE SendFails
  <2>1. TypeOK' BY <1>1, <1>3 DEF SendFails, TypeOK
  <2>2. QED BY <1>1, <1>3, <2>1, NetIInv DEF SendFails
<1>4. CASE RecvFails
  <2>1. TypeOK' BY <1>1, <1>4 DEF RecvFails, TypeOK
  <2>2. QED BY <1>1, <1>4, <2>1, NetIInv DEF RecvFails
<1>r. ASSUME NEW m \in net, Taken(m), Refused(m) PROVE IInv'
  <2>1. net' = net \ {m} /\ UNCHANGED <<server, now, clock, iCnt, faults, stale, wild, skew>>
    BY <1>r DEF Taken, Refused
  <2>2. pc' = pc BY <1>r DEF Refused
  <2>3. TypeOK' BY <1>1, <2>1, <2>2 DEF TypeOK
  <2>4. net' \ net = {} BY <2>1
  <2>5. QED BY <1>1, <2>1, <2>3, <2>4, NetIInv
<1>5. CASE UseAnswer
  <2>1. PICK m \in net :
          /\ m.to = "client" /\ Taken(m)
          /\ \/ Set(m, SetFrom(m, SntpGetSysTime(clock)))
                /\ skew' = m.way - (now - m.since) /\ UNCHANGED wild
             \/ Refused(m)
    BY <1>5 DEF UseAnswer
  <2>2. CASE Refused(m) BY <1>r, <2>1, <2>2
  <2>3. CASE /\ Set(m, SetFrom(m, SntpGetSysTime(clock)))
             /\ skew' = m.way - (now - m.since) /\ UNCHANGED wild
    <3>1. /\ m \in Datagram
          /\ clock' = SetFrom(m, SntpGetSysTime(clock))
          /\ skew' = m.way - (now - m.since) /\ iCnt' = iCnt + 1
          /\ net' = net \ {m} /\ stale' = (stale \/ m.round # iCnt)
          /\ UNCHANGED <<server, now, faults, wild>>
      BY <1>1, <2>1, <2>3 DEF Set, Taken
    <3>2. TypeOK'
      <4>1. skew' \in Int BY <1>1, <3>1, SntpAssumption DEF Datagram
      <4>2. clock' \in 0 .. Ticks - 1
        BY <3>1, SetFromType, <1>1, StampType DEF Datagram
      <4>3. QED BY <1>1, <3>1, <4>1, <4>2 DEF TypeOK
    <3>3. \A x \in net' : x.round <= iCnt /\ x.round \in Nat BY <1>1, <3>1 DEF Datagram
    <3>4. InTime' BY <1>1, <3>1, <3>3 DEF InTime
    <3>5. TellTheTruth' BY <1>1, <3>1, <3>3 DEF TellTheTruth
    <3>6. RightToHalfASecond'
      <4>1. SUFFICES ASSUME server = "ntp", ~stale' PROVE 2 * Abs(Error') <= Abs(skew') + Tps
        BY <3>1 DEF RightToHalfASecond
      <4>2. m.round = iCnt BY <3>1, <4>1
      <4>3. QED BY <2>1, <3>1, <4>1, <4>2, AnswerRight
    <3>7. QED BY <3>2, <3>4, <3>5, <3>6 DEF IInv
  <2>4. QED BY <2>1, <2>2, <2>3
<1>6. CASE UseUnset
  <2>1. PICK m \in net :
          /\ Taken(m)
          /\ \/ (\E g \in Garbage : Set(m, g)) /\ wild' = TRUE /\ UNCHANGED skew
             \/ Refused(m)
    BY <1>6 DEF UseUnset
  <2>2. CASE Refused(m) BY <1>r, <2>1, <2>2
  <2>3. ASSUME NEW g \in Garbage, Set(m, g), wild' = TRUE, UNCHANGED skew PROVE IInv'
    <3>1. /\ clock' = g /\ iCnt' = iCnt + 1 /\ net' = net \ {m}
          /\ UNCHANGED <<server, now, faults>>
      BY <2>1, <2>3 DEF Set, Taken
    <3>2. g \in 0 .. Ticks - 1 BY SntpAssumption DEF Ticks
    <3>3. TypeOK' BY <1>1, <2>3, <3>1, <3>2 DEF TypeOK
    <3>4. \A x \in net' : x.round <= iCnt /\ x.round \in Nat BY <1>1, <3>1 DEF Datagram
    <3>5. InTime' BY <1>1, <3>1, <3>4 DEF InTime
    <3>6. TellTheTruth' BY <1>1, <3>1, <3>4 DEF TellTheTruth
    <3>7. RightToHalfASecond' BY <2>3 DEF RightToHalfASecond
    <3>8. QED BY <3>3, <3>5, <3>6, <3>7 DEF IInv
  <2>4. QED BY <2>1, <2>2, <2>3
<1>7. CASE Receive
  <2>1. PICK m \in net :
          /\ m.to = "server"
          /\ net' = (net \ {m}) \cup
                {[m EXCEPT !.to = "busy", !.since = now, !.way = now - m.since,
                           !.tRecv = Stamp(now),
                           !.tOrig = IF server = "ntp" THEN m.tXmt ELSE m.tOrig]}
          /\ UNCHANGED <<server, now, clock, pc, iCnt, faults, failed, stale, wild, skew>>
    BY <1>7 DEF Receive
  <2> DEFINE r == [m EXCEPT !.to = "busy", !.since = now, !.way = now - m.since,
                            !.tRecv = Stamp(now),
                            !.tOrig = IF server = "ntp" THEN m.tXmt ELSE m.tOrig]
  <2>2. m \in Datagram /\ now - m.since \in 0 .. MaxDelay /\ m.round <= iCnt BY <1>1
  <2>3. net' = (net \ {m}) \cup {r} BY <2>1
  <2>4. Stamp(now) \in Int BY <1>1, StampType
  <2>5. r \in Datagram
    <3>1. m.tXmt \in Int /\ m.tOrig \in Int BY <2>2 DEF Datagram
    <3>2. (IF server = "ntp" THEN m.tXmt ELSE m.tOrig) \in Int BY <3>1
    <3>3. QED BY <1>1, <2>2, <2>4, <3>2 DEF Datagram
  <2>5a. /\ r.to = "busy" /\ r.round = m.round /\ r.since = now /\ r.way = now - m.since
         /\ r.tRecv = Stamp(now)
         /\ r.tOrig = IF server = "ntp" THEN m.tXmt ELSE m.tOrig
    BY <2>2 DEF Datagram
  <2> HIDE DEF r
  <2>6. TypeOK' BY <1>1, <2>1, <2>3, <2>5 DEF TypeOK
  <2>7. ASSUME server = "ntp", r.round = iCnt PROVE Tells(r)
    <3>1. Tells(m) BY <2>5a, <2>7 DEF IInv, TellTheTruth
    <3>2. PICK c \in 0 .. Ticks - 1 :
            m.tXmt = SntpGetSysTime(c) /\ clock = (c + (now - m.since)) % Ticks
      BY <2>1, <3>1 DEF Tells
    <3>3. r.way + (now - r.since) = now - m.since
      BY <1>1, <2>2, <2>5a DEF Datagram
    <3>4. r.tOrig = SntpGetSysTime(c) /\ r.tRecv = NtpTime(r.since)
      BY <2>5a, <2>7, <3>2 DEF Stamp
    <3>5. QED BY <2>5a, <3>2, <3>3, <3>4 DEF Tells
  <2>8. r.round <= iCnt /\ now - r.since \in 0 .. MaxDelay BY <1>1, <2>2, <2>5a, SntpAssumption
  <2>9. QED BY <1>1, <2>1, <2>3, <2>6, <2>7, <2>8, NetIInv
<1>8. CASE sntp_send_packet
  <2>1. PICK m \in net :
          /\ m.to = "busy"
          /\ net' = (net \ {m}) \cup {[m EXCEPT !.to = "client", !.since = now, !.tXmt = Stamp(now)]}
          /\ UNCHANGED <<server, now, clock, pc, iCnt, faults, failed, stale, wild, skew>>
    BY <1>8 DEF sntp_send_packet
  <2> DEFINE r == [m EXCEPT !.to = "client", !.since = now, !.tXmt = Stamp(now)]
  <2>2. m \in Datagram /\ now - m.since \in 0 .. MaxDelay /\ m.round <= iCnt BY <1>1
  <2>3. net' = (net \ {m}) \cup {r} BY <2>1
  <2>4. Stamp(now) \in Int BY <1>1, StampType
  <2>5. r \in Datagram BY <1>1, <2>2, <2>4 DEF Datagram
  <2>5a. /\ r.to = "client" /\ r.round = m.round /\ r.since = now /\ r.way = m.way
         /\ r.tRecv = m.tRecv /\ r.tOrig = m.tOrig /\ r.tXmt = Stamp(now)
    BY <2>2 DEF Datagram
  <2> HIDE DEF r
  <2>6. TypeOK' BY <1>1, <2>1, <2>3, <2>5 DEF TypeOK
  <2>7. ASSUME server = "ntp", r.round = iCnt PROVE Tells(r)
    <3>1. Tells(m) BY <2>5a, <2>7 DEF IInv, TellTheTruth
    <3>2. PICK c \in 0 .. Ticks - 1 :
            /\ m.tOrig = SntpGetSysTime(c) /\ m.tRecv = NtpTime(m.since)
            /\ clock = (c + (m.way + (now - m.since))) % Ticks
      BY <2>1, <3>1 DEF Tells
    <3>3. m.since \in 0 .. r.since BY <1>1, <2>2, <2>5a DEF Datagram
    <3>4. r.way + (r.since - m.since) + (now - r.since) = m.way + (now - m.since)
      BY <1>1, <2>2, <2>5a, SntpAssumption DEF Datagram
    <3>5. r.tXmt = NtpTime(r.since) BY <2>5a, <2>7 DEF Stamp
    <3>6. QED BY <2>5a, <3>2, <3>3, <3>4, <3>5 DEF Tells
  <2>8. r.round <= iCnt /\ now - r.since \in 0 .. MaxDelay BY <1>1, <2>2, <2>5a, SntpAssumption
  <2>9. QED BY <1>1, <2>1, <2>3, <2>6, <2>7, <2>8, NetIInv
<1>9. CASE Tick BY <1>9, TickIInv
<1>10. CASE Lose
  <2>1. /\ net' \subseteq net /\ faults' = faults + 1
        /\ UNCHANGED <<server, now, clock, pc, iCnt, stale, wild, skew>>
    BY <1>10 DEF Lose
  <2>2. TypeOK' BY <1>1, <2>1 DEF TypeOK
  <2>3. QED BY <1>1, <2>1, <2>2, NetIInv
<1>11. CASE Duplicate
  <2>1. PICK m \in net :
          /\ net' = net \cup {[m EXCEPT !.copy = faults + 1]} /\ faults' = faults + 1
          /\ UNCHANGED <<server, now, clock, pc, iCnt, failed, stale, wild, skew>>
    BY <1>11 DEF Duplicate
  <2> DEFINE r == [to |-> m.to, round |-> m.round, since |-> m.since, copy |-> faults + 1,
                   way |-> m.way, tRecv |-> m.tRecv, tXmt |-> m.tXmt, tOrig |-> m.tOrig]
  <2>2. m \in Datagram /\ now - m.since \in 0 .. MaxDelay /\ m.round <= iCnt BY <1>1
  <2>3. net' = net \cup {r} BY <2>1, <2>2 DEF Datagram
  <2>4. r \in Datagram BY <1>1, <2>2 DEF Datagram
  <2>5. TypeOK' BY <1>1, <2>1, <2>3, <2>4 DEF TypeOK
  <2>6. ASSUME server = "ntp", r.round = iCnt PROVE Tells(r)
    <3>1. Tells(m) BY <2>6 DEF IInv, TellTheTruth
    <3>2. m.to \in {"server", "busy", "client"} BY <2>2 DEF Datagram
    <3>3. CASE m.to = "server" BY <3>1, <3>3 DEF Tells
    <3>4. CASE m.to = "busy" BY <3>1, <3>4 DEF Tells
    <3>5. CASE m.to = "client" BY <3>1, <3>5 DEF Tells
    <3>6. QED BY <3>2, <3>3, <3>4, <3>5
  <2>7. QED BY <1>1, <2>1, <2>2, <2>3, <2>5, <2>6, NetIInv
<1>12. CASE UNCHANGED vars
  <2>1. TypeOK' BY <1>1, <1>12 DEF vars, TypeOK
  <2>2. QED BY <1>1, <1>12, <2>1, NetIInv DEF vars
<1>13. QED BY <1>2, <1>3, <1>4, <1>5, <1>6, <1>7, <1>8, <1>9, <1>10, <1>11, <1>12 DEF Next

\* The invariant holds throughout.
THEOREM Invariance == Spec => []IInv
<1>1. QED BY InitIInv, NextIInv, PTL DEF Spec

\* Times, counters and datagrams keep their types, and the clock shows a time.
THEOREM TypeCorrect == Spec => []TypeOK
<1>1. IInv => TypeOK BY DEF IInv
<1>2. QED BY <1>1, Invariance, PTL

\* The answer a server gives to the client's request sets the clock right to
\* half the difference of the two ways and half a second, wherever the seconds
\* and the era turn over on the way, however wrong the clock was and whatever
\* the network loses, repeats and delays.
THEOREM ClockIsRight == Spec => []RightToHalfASecond
<1>1. IInv => RightToHalfASecond BY DEF IInv
<1>2. QED BY <1>1, Invariance, PTL

=============================================================================
