----------------------------- MODULE PlatformsProofs -----------------------------
(***************************************************************************)
(* Facts about the scales, the requests of a call and what running them    *)
(* does, for any device; CommandsProofs and ControlsProofs rest on them.   *)
(***************************************************************************)
EXTENDS Platforms, TLAPS, SequenceTheorems

(***************************************************************************)
(* The scales.                                                             *)
(***************************************************************************)
(* Division with remainder. *)
LEMMA Quotient ==
  ASSUME NEW n \in Int, NEW d \in Nat \ {0}
  PROVE  /\ n \div d \in Int /\ n % d \in 0..(d - 1)
         /\ n = d * (n \div d) + (n % d)
  OBVIOUS

(* Rounding is off by half at most... *)
LEMMA RoundBound ==
  ASSUME NEW n \in Int, NEW d \in Nat \ {0}
  PROVE  Round(n, d) \in Int /\ 2 * (d * Round(n, d) - n) \in -d..d
<1> DEFINE q == n \div d
           r == n % d
<1>1. q \in Int /\ r \in 0..(d-1) /\ n = d * q + r
  BY Quotient
<1>2. Round(n, d) = q \/ Round(n, d) = q + 1
  BY DEF Round
<1>3. Round(n,d) = q => 2 * r <= d
  BY <1>1 DEF Round
<1>4. Round(n,d) = q + 1 => 2 * r >= d
  BY <1>1 DEF Round
<1> HIDE DEF q, r
<1>5. d * (q + 1) = d * q + d
  BY <1>1
<1> QED BY <1>1, <1>2, <1>3, <1>4, <1>5

(* ... and what is nearer than half is what it rounds to. *)
LEMMA RoundUnique ==
  ASSUME NEW n \in Int, NEW d \in Nat \ {0}, NEW k \in Int, 2 * (d * k - n) \in (1-d)..(d-1)
  PROVE  Round(n, d) = k
<1>1. Round(n, d) \in Int /\ 2 * (d * Round(n, d) - n) \in -d..d
  BY RoundBound
<1> DEFINE m == Round(n, d)
<1> HIDE DEF m
<1>2. m \in Int /\ 2 * (d * m - n) \in -d..d
  BY <1>1 DEF m
<1>3. m > k => d * m >= d * k + d
  BY <1>2
<1>4. m < k => d * k >= d * m + d
  BY <1>2
<1>5. m = k
  <2> DEFINE x == d * m
             y == d * k
  <2>1. x \in Int /\ y \in Int
    BY <1>2
  <2>2. /\ 2 * (x - n) \in -d..d /\ 2 * (y - n) \in (1-d)..(d-1)
        /\ (m > k => x >= y + d) /\ (m < k => y >= x + d)
    BY <1>2, <1>3, <1>4
  <2> HIDE DEF x, y
  <2> QED BY <1>2, <2>1, <2>2
<1> QED BY <1>5 DEF m

(* A percentage is rounded up to a speed of the fan (fan.py:118). *)
LEMMA SpeedBound ==
  ASSUME NEW props, props.max_speed \in Nat \ {0}, NEW p \in 1..100
  PROVE  /\ BondSpeed(props, p) \in 1..props.max_speed
         /\ 100 * BondSpeed(props, p) - props.max_speed * p \in 0..99
<1> DEFINE m == props.max_speed
<1>1. m * p \in Int /\ m * p >= 1 /\ m * p <= 100 * m
  OBVIOUS
<1> DEFINE n == m * p
           s == BondSpeed(props, p)
<1>2. s = -((-n) \div 100)
  BY DEF BondSpeed, Ceiling
<1> HIDE DEF n, s
<1>3. n \in Int /\ n >= 1 /\ n <= 100 * m
  BY <1>1 DEF n
<1>4. 100 * s - n \in 0..99 /\ s \in Int
  BY <1>2, <1>3
<1>5. s \in 1..m
  BY <1>3, <1>4
<1> QED BY <1>4, <1>5 DEF s, n

(* A speed is rounded down to a percentage (fan.py:91). *)
LEMMA PercentBound ==
  ASSUME NEW props, props.max_speed \in Nat \ {0}, NEW s \in 1..props.max_speed
  PROVE  /\ HassSpeed(props, s) \in 0..100
         /\ 100 * s - props.max_speed * HassSpeed(props, s) \in 0..(props.max_speed - 1)
<1> DEFINE m == props.max_speed
           n == 100 * s
           q == n \div m
           x == m * q
<1>1. m \in Nat \ {0} /\ n \in Int /\ n \in 1..(100 * m)
  OBVIOUS
<1>2. q \in Int /\ x \in Int /\ n - x \in 0..(m - 1)
  <2> HIDE DEF n, m
  <2> QED BY <1>1, Quotient
<1>3. q > 100 => x >= 100 * m + m
  <2> HIDE DEF q, n, m
  <2> QED BY <1>1, <1>2
<1>4. q < 0 => x <= -m
  <2> HIDE DEF q, n, m
  <2> QED BY <1>1, <1>2
<1>5. q \in 0..100
  <2> HIDE DEF x, q, n, m
  <2> QED BY <1>1, <1>2, <1>3, <1>4
<1> QED BY <1>2, <1>5 DEF HassSpeed

(* What is shown is at least what was asked, and less than a speed more. *)
LEMMA SpeedShown ==
  ASSUME NEW props, props.max_speed \in Nat \ {0}, NEW p \in 1..100
  PROVE  LET h == HassSpeed(props, BondSpeed(props, p))
         IN h \in p..100 /\ (h - p) * props.max_speed < 100
<1> DEFINE m == props.max_speed
           s == BondSpeed(props, p)
           h == HassSpeed(props, s)
<1>1. s \in 1..m /\ 100 * s - m * p \in 0..99
  BY SpeedBound
<1>2. h \in 0..100 /\ 100 * s - m * h \in 0..(m - 1)
  BY <1>1, PercentBound
<1> HIDE DEF s, h
<1> DEFINE x == m * h
           y == m * p
<1>3. x \in Int /\ y \in Int /\ (h - p) * m = x - y
  BY <1>2
<1>4. h < p => y >= x + m
  <2> SUFFICES ASSUME h < p PROVE y >= x + m
    OBVIOUS
  <2>1. m \in Nat \ {0} /\ h \in Int /\ h + 1 <= p
    BY <1>2
  <2>2. m * (h + 1) <= m * p
    <3> HIDE DEF m
    <3> QED BY <2>1
  <2>3. m * (h + 1) = x + m
    <3> HIDE DEF m
    <3> QED BY <2>1
  <2> QED BY <2>2, <2>3
<1> HIDE DEF x, y
<1>5. m \in Nat \ {0} /\ 100 * s - y \in 0..99 /\ 100 * s - x \in 0..(m - 1) /\ s \in Int
  BY <1>1, <1>2 DEF x, y
<1>6. x - y < 100 /\ ~(h < p)
  <2> HIDE DEF m
  <2> QED BY <1>3, <1>4, <1>5
<1>7. h \in p..100 /\ (h - p) * m < 100
  BY <1>2, <1>3, <1>6
<1> QED BY <1>7 DEF h, s

(* Setting the percentage shown shows the same. *)
LEMMA SpeedSettles ==
  ASSUME NEW props, props.max_speed \in Nat \ {0}, NEW s \in 1..props.max_speed,
         NEW p \in 1..100, p = HassSpeed(props, s)
  PROVE  HassSpeed(props, BondSpeed(props, p)) = p
<1> DEFINE m == props.max_speed
           t == BondSpeed(props, p)
           h == HassSpeed(props, t)
<1>1. t \in 1..m /\ 100 * t - m * p \in 0..99
  BY SpeedBound
<1>2. h \in p..100 /\ 100 * t - m * h \in 0..(m - 1)
  BY <1>1, PercentBound, SpeedShown
<1>3. 100 * s - m * p \in 0..(m - 1)
  BY PercentBound
<1> HIDE DEF t, h
<1> DEFINE x == m * h
           y == m * p
<1>4. x \in Int /\ y \in Int /\ (h > p => x >= y + m)
  BY <1>2
<1>5. /\ m \in Nat \ {0} /\ t \in Int /\ s \in Int
      /\ 100 * t - y \in 0..99 /\ 100 * t - x \in 0..(m - 1) /\ 100 * s - y \in 0..(m - 1)
  BY <1>1, <1>2, <1>3
<1> HIDE DEF x, y, m
<1>6. ~(h > p)
  BY <1>4, <1>5
<1> QED BY <1>2, <1>6 DEF h, t

(* A higher percentage is no lower speed. *)
LEMMA SpeedMonotone ==
  ASSUME NEW props, props.max_speed \in Nat \ {0}, NEW p \in 1..100, NEW q \in 1..100, p <= q
  PROVE  BondSpeed(props, p) <= BondSpeed(props, q)
<1> DEFINE m == props.max_speed
           s == BondSpeed(props, p)
           t == BondSpeed(props, q)
           x == m * p
           y == m * q
<1>0. m \in Nat \ {0}
  OBVIOUS
<1>1. s \in Int /\ 100 * s - x \in 0..99
  <2>1. s \in 1..m /\ 100 * s - x \in 0..99
    BY SpeedBound
  <2> HIDE DEF s, x, m
  <2> QED BY <1>0, <2>1
<1>4. t \in Int /\ 100 * t - y \in 0..99
  <2>1. t \in 1..m /\ 100 * t - y \in 0..99
    BY SpeedBound
  <2> HIDE DEF t, y, m
  <2> QED BY <1>0, <2>1
<1>2. x \in Int /\ y \in Int /\ x <= y
  OBVIOUS
<1> HIDE DEF s, t, x, y
<1>3. s <= t
  BY <1>1, <1>2, <1>4
<1> QED BY <1>3 DEF s, t

Tilting(props) ==
  props.min_tilt \in Int /\ props.max_tilt \in Int /\ props.min_tilt <= props.max_tilt
Lowest(props) == TiltRange(props)[1]

(* The range of tilt starts at its lowest angle and is not empty. *)
LEMMA TiltDegreesType ==
  ASSUME NEW props, Tilting(props)
  PROVE  /\ Lowest(props) \in Int /\ TiltDegrees(props) \in Nat \ {0}
         /\ TiltRange(props)[2] = Lowest(props) + TiltDegrees(props)
BY DEF Tilting, Lowest, TiltDegrees, TiltRange

(* An angle is within its range, and half a degree off at most. *)
LEMMA BondTiltBound ==
  ASSUME NEW props, Tilting(props), NEW h \in 0..100
  PROVE  /\ BondTilt(props, h) \in TiltRange(props)[1]..TiltRange(props)[2]
         /\ 2 * (100 * (BondTilt(props, h) - Lowest(props)) - h * TiltDegrees(props)) \in -100..100
<1> DEFINE r == TiltDegrees(props)
           l == Lowest(props)
           x == h * r
           t == BondTilt(props, h)
<1>1. l \in Int /\ r \in Nat \ {0} /\ TiltRange(props)[2] = l + r
  BY TiltDegreesType
<1>2. t = Round(100 * l + x, 100)
  BY DEF BondTilt, Lowest
<1> HIDE DEF r, l, t
<1>3. x \in 0..(100 * r)
  BY <1>1
<1> HIDE DEF x
<1>4. t \in Int /\ 2 * (100 * t - (100 * l + x)) \in -100..100
  <2> DEFINE n == 100 * l + x
  <2>1. n \in Int
    BY <1>1, <1>3
  <2> HIDE DEF n
  <2>2. Round(n, 100) \in Int /\ 2 * (100 * Round(n, 100) - n) \in -100..100
    <3> DEFINE d == 100
    <3>1. d \in Nat \ {0}
      OBVIOUS
    <3> HIDE DEF d
    <3>2. Round(n, d) \in Int /\ 2 * (d * Round(n, d) - n) \in -d..d
      BY <2>1, <3>1, RoundBound
    <3> QED BY <3>2 DEF d
  <2> QED BY <1>2, <2>2 DEF n
<1>5. t \in l..(l + r)
  BY <1>1, <1>3, <1>4
<1>6. 2 * (100 * (t - l) - x) \in -100..100
  BY <1>1, <1>3, <1>4
<1> QED BY <1>1, <1>5, <1>6 DEF t, l, r, x, Lowest

(* So is what is shown of it, half a per cent off at most. *)
LEMMA HassTiltBound ==
  ASSUME NEW props, Tilting(props), NEW t \in TiltRange(props)[1]..TiltRange(props)[2]
  PROVE  /\ HassTilt(props, t) \in 0..100
         /\ 2 * (HassTilt(props, t) * TiltDegrees(props) - 100 * (t - Lowest(props)))
              \in -TiltDegrees(props)..TiltDegrees(props)
<1> DEFINE r == TiltDegrees(props)
           l == Lowest(props)
           h == HassTilt(props, t)
           n == (t - l) * 100
           x == h * r
<1>1. l \in Int /\ r \in Nat \ {0} /\ t \in l..(l + r)
  BY TiltDegreesType DEF Lowest
<1>2. h = Round(n, r)
  BY DEF HassTilt, Lowest
<1> HIDE DEF r, l, h
<1>3. n \in 0..(100 * r) /\ n = 100 * (t - l)
  BY <1>1
<1> HIDE DEF n
<1>4. h \in Int /\ 2 * (r * h - n) \in -r..r
  BY <1>1, <1>2, <1>3, RoundBound
<1>5. r * h = x
  BY <1>1, <1>4
<1>6. x \in Int /\ (h > 100 => x >= 100 * r + r) /\ (h < 0 => x <= -r)
  BY <1>1, <1>4
<1> HIDE DEF x
<1>7. h \in 0..100 /\ 2 * (x - n) \in -r..r
  BY <1>1, <1>3, <1>4, <1>5, <1>6
<1> QED BY <1>3, <1>7 DEF h, r, l, x

(* The tilt shown is off by half a degree and half a per cent. *)
LEMMA TiltShown ==
  ASSUME NEW props, Tilting(props), NEW h \in 0..100
  PROVE  LET off == HassTilt(props, BondTilt(props, h)) - h
             degrees == TiltDegrees(props)
         IN 2 * off * degrees \in -(100 + degrees)..(100 + degrees)
<1> DEFINE r == TiltDegrees(props)
           l == Lowest(props)
           t == BondTilt(props, h)
           g == HassTilt(props, t)
           x == h * r
           y == g * r
<1>0. l \in Int /\ r \in Nat \ {0} /\ TiltRange(props)[1] = l /\ TiltRange(props)[2] = l + r
  BY TiltDegreesType DEF Lowest
<1>5. t \in TiltRange(props)[1]..TiltRange(props)[2] /\ 2 * (100 * (t - l) - x) \in -100..100
  BY BondTiltBound
<1>6. t \in Int
  <2> HIDE DEF t, l, r
  <2> QED BY <1>0, <1>5
<1>1. /\ t \in TiltRange(props)[1]..TiltRange(props)[2] /\ l \in Int /\ r \in Nat \ {0} /\ t \in Int
      /\ 2 * (100 * (t - l) - x) \in -100..100
  BY <1>0, <1>5, <1>6
<1>2. g \in 0..100 /\ 2 * (y - 100 * (t - l)) \in -r..r
  BY <1>1, HassTiltBound
<1> HIDE DEF r, l, t, g
<1>3. x \in Int /\ y \in Int /\ 2 * (g - h) * r = 2 * (y - x)
  BY <1>1, <1>2
<1> HIDE DEF x, y
<1>4. 2 * (y - x) \in -(100 + r)..(100 + r)
  BY <1>1, <1>2, <1>3
<1> QED BY <1>3, <1>4 DEF g, t, r

(* Setting the tilt shown a second time changes nothing. *)
LEMMA TiltSettles ==
  ASSUME NEW props, Tilting(props), NEW t \in TiltRange(props)[1]..TiltRange(props)[2]
  PROVE  LET u == BondTilt(props, HassTilt(props, t)) IN BondTilt(props, HassTilt(props, u)) = u
<1> DEFINE r == TiltDegrees(props)
           l == Lowest(props)
           h == HassTilt(props, t)
           u == BondTilt(props, h)
           g == HassTilt(props, u)
           x == h * r
           y == g * r
<1>1. l \in Int /\ r \in Nat \ {0} /\ h \in 0..100
  BY HassTiltBound, TiltDegreesType
<1>0. TiltRange(props)[1] = l /\ TiltRange(props)[2] = l + r
  BY TiltDegreesType DEF Lowest
<1>8. u \in TiltRange(props)[1]..TiltRange(props)[2] /\ 2 * (100 * (u - l) - x) \in -100..100
  <2> HIDE DEF h
  <2> QED BY <1>1, BondTiltBound
<1>2. /\ u \in TiltRange(props)[1]..TiltRange(props)[2] /\ u \in Int
      /\ 2 * (100 * (u - l) - x) \in -100..100
  <2> HIDE DEF u, l, r, h
  <2> QED BY <1>0, <1>1, <1>8
<1>3. g \in 0..100 /\ 2 * (y - 100 * (u - l)) \in -r..r
  BY <1>2, HassTiltBound
<1>4. g = Round((u - l) * 100, r) /\ BondTilt(props, g) = Round(100 * l + y, 100)
  BY DEF HassTilt, BondTilt, Lowest
<1> HIDE DEF r, l, h, g
<1>5. x \in Int /\ y \in Int /\ x = r * h
  BY <1>1, <1>3
<1>6. CASE r > 100
  <2>1. 2 * (r * h - (u - l) * 100) \in (1 - r)..(r - 1)
    <3> HIDE DEF x, u
    <3> QED BY <1>1, <1>2, <1>5, <1>6
  <2>2. g = h
    <3> HIDE DEF u
    <3> QED BY <1>1, <1>2, <1>4, <2>1, RoundUnique
  <2> QED BY <2>2 DEF g, h
<1>7. CASE r <= 100
  <2>1. 2 * (100 * u - (100 * l + y)) \in -99..99
    <3> HIDE DEF y, u
    <3>1. 2 * (y - 100 * (u - l)) \in -99..99 \/ r = 100
      BY <1>1, <1>2, <1>3, <1>5, <1>7
    <3>2. r = 100 => y = 100 * (u - l)
      BY <1>1, <1>2, <1>3, <1>5 DEF y
    <3> QED BY <1>1, <1>2, <1>5, <3>1, <3>2
  <2>2. BondTilt(props, g) = u
    <3> HIDE DEF y, u
    <3> QED BY <1>1, <1>2, <1>4, <1>5, <2>1, RoundUnique
  <2> QED BY <2>2 DEF g, h
<1> QED BY <1>1, <1>6, <1>7

(* A higher tilt is no lower angle. *)
LEMMA TiltMonotone ==
  ASSUME NEW props, Tilting(props), NEW h \in 0..100, NEW g \in 0..100, h <= g
  PROVE  BondTilt(props, h) <= BondTilt(props, g)
<1> DEFINE r == TiltDegrees(props)
           l == Lowest(props)
           x == h * r
           y == g * r
<1>1. l \in Int /\ r \in Nat \ {0}
  BY TiltDegreesType
<1>2. BondTilt(props, h) = Round(100 * l + x, 100) /\ BondTilt(props, g) = Round(100 * l + y, 100)
  BY DEF BondTilt, Lowest
<1> HIDE DEF l, r
<1>3. x \in Int /\ y \in Int /\ x <= y
  BY <1>1
<1> HIDE DEF x, y
<1>4. Round(100 * l + x, 100) <= Round(100 * l + y, 100)
  BY <1>1, <1>3 DEF Round
<1> QED BY <1>2, <1>4

(* Brightness is a percentage on the bridge; only 1 of 255 becomes 0. *)
LEMMA BrightnessBound ==
  ASSUME NEW b \in 1..255
  PROVE  BondBrightness(b) \in 1..100 \/ (BondBrightness(b) = 0 /\ b = 1)
<1>1. CASE b = 1
  BY <1>1 DEF BondBrightness, Round
<1>2. CASE b > 1
  BY <1>2 DEF BondBrightness, Round
<1> QED BY <1>1, <1>2

LEMMA BrightnessMonotone ==
  ASSUME NEW b \in 1..255, NEW c \in 1..255, b <= c
  PROVE  BondBrightness(b) <= BondBrightness(c)
BY DEF BondBrightness, Round

(* A number in tenths is rounded to the nearest of its steps. *)
LEMMA TenthsBound ==
  ASSUME NEW v \in 0..1000
  PROVE  /\ Round(v, 10) \in 0..100 /\ 10 * Round(v, 10) - v \in -5..5
         /\ Round(v, 10) = 0 <=> v <= 5
BY DEF Round

LEMMA TenthsMonotone ==
  ASSUME NEW x \in Int, NEW y \in Int, 0 <= x, x <= y, y <= 1000
  PROVE  Round(x, 10) <= Round(y, 10)
BY DEF Round

LEMMA TenthsOfStep ==
  ASSUME NEW v \in Int, 0 <= v, v <= 100
  PROVE  Round(10 * v, 10) = v
BY DEF Round

(* The percentage shown as a brightness is set again as it is. *)
LEMMA BrightnessSettles ==
  ASSUME NEW p \in 1..100
  PROVE  HassBrightness(p) \in 3..255 /\ BondBrightness(HassBrightness(p)) = p
BY DEF BondBrightness, HassBrightness, Round

(* The brightness shown is at most two of 255 off. *)
LEMMA BrightnessShown ==
  ASSUME NEW b \in 2..255
  PROVE  HassBrightness(BondBrightness(b)) - b \in -2..2
BY DEF BondBrightness, HassBrightness, Round

(* Kelvins are rounded to hundreds, once. *)
LEMMA Kelvin ==
  ASSUME NEW k \in Int
  PROVE  /\ RoundKelvin(k) \in Int /\ RoundKelvin(k) % 100 = 0
         /\ RoundKelvin(RoundKelvin(k)) = RoundKelvin(k)
         /\ k >= 100 => RoundKelvin(k) >= 100
BY DEF RoundKelvin, Round

(***************************************************************************)
(* Requests.                                                               *)
(***************************************************************************)
(* One or two requests, or none. *)
Short(rs) == rs = <<>> \/ (\E r : rs = <<r>>) \/ (\E r, q : rs = <<r, q>>)

LEMMA ShortLength ==
  ASSUME NEW rs, Short(rs)
  PROVE  Len(rs) \in 0..2 /\ (Len(rs) = 0 => rs = <<>>)
BY DEF Short

LEMMA Joined ==
  ASSUME NEW r, NEW q
  PROVE  /\ <<r>> \o <<q>> = <<r, q>> /\ <<r>> \o <<>> = <<r>>
         /\ <<>> \o <<q>> = <<q>> /\ <<>> \o <<>> = <<>>
<1>1. <<r>> \o <<q>> = <<r, q>>
  <2>1. <<r>> \o <<q>> \in Seq({r, q}) /\ <<r, q>> \in Seq({r, q})
    OBVIOUS
  <2>2. Len(<<r>> \o <<q>>) = 2 /\ (<<r>> \o <<q>>)[1] = r /\ (<<r>> \o <<q>>)[2] = q
    OBVIOUS
  <2>3. \A i \in 1..2 : (<<r>> \o <<q>>)[i] = <<r, q>>[i]
    BY <2>2
  <2> QED BY <2>1, <2>2, <2>3, SeqEqual
<1> QED BY <1>1

(* The states a short list of requests goes through. *)
LEMMA RanUnfolds ==
  ASSUME NEW state, NEW rs, Len(rs) \in 0..2
  PROVE  /\ Ran(state, rs)[0] = state
         /\ Len(rs) > 0 => Ran(state, rs)[1] = Effect(state, rs[1])
         /\ Len(rs) > 1 => Ran(state, rs)[2] = Effect(Effect(state, rs[1]), rs[2])
<1> DEFINE Solves(f) ==
             f = [n \in 0..Len(rs) |-> IF n = 0 THEN state ELSE Effect(f[n - 1], rs[n])]
           states == [n \in 0..Len(rs) |-> IF n = 0 THEN state
                                           ELSE IF n = 1 THEN Effect(state, rs[1])
                                           ELSE Effect(Effect(state, rs[1]), rs[2])]
           ran == CHOOSE f : Solves(f)
<1>1. Solves(states)
  OBVIOUS
<1>2. Solves(ran)
  <2> HIDE DEF Solves, states
  <2> QED BY <1>1
<1>3. Ran(state, rs) = ran
  BY DEF Ran
<1> HIDE DEF ran
<1> QED BY <1>2, <1>3

LEMMA FinalOne ==
  ASSUME NEW state, NEW r PROVE Final(state, <<r>>) = Effect(state, r)
<1>1. Len(<<r>>) = 1 /\ <<r>>[1] = r
  OBVIOUS
<1> QED BY <1>1, RanUnfolds DEF Final

LEMMA FinalTwo ==
  ASSUME NEW state, NEW r, NEW q
  PROVE  Final(state, <<r, q>>) = Effect(Effect(state, r), q)
<1>1. Len(<<r, q>>) = 2 /\ <<r, q>>[1] = r /\ <<r, q>>[2] = q
  OBVIOUS
<1> QED BY <1>1, RanUnfolds DEF Final

Classes == Lights \cup {"BondSwitch", "BondFan", "BondCover", "BondLayerCover",
                        "BondFlameNumber", "BondHeatNumber", "BondButtonEntity"}

LEMMA EntityClass ==
  ASSUME NEW d, NEW e \in Entities(d) PROVE e.class \in Classes
<1> DEFINE plain == LightClasses(d)
                    \cup {c \in {"BondFan"} : is_fan(d)}
                    \cup {c \in {"BondSwitch"} : is_generic(d)}
                    \cup {c \in {"BondCover"} : is_shades(d)}
                    \cup {c \in {"BondFlameNumber"} : is_fireplace(d) /\ supports_set_flame(d)}
                    \cup {c \in {"BondHeatNumber"} : has_action(d, "SetHeat")}
           keyed == {k \in DOMAIN LAYERS : is_shades(d) /\ has_action(d, LAYERS[k].set)}
<1>1. e \in {[class |-> c, key |-> ""] : c \in plain}
            \cup {[class |-> "BondLayerCover", key |-> k] : k \in keyed}
            \cup {[class |-> "BondButtonEntity", key |-> a] : a \in Buttons(d)}
  BY Zenon DEF Entities
<1>2. plain \subseteq Classes
  BY DEF LightClasses, Lights, Classes
<1>3. {"BondLayerCover", "BondButtonEntity"} \subseteq Classes
  BY DEF Classes
<1> HIDE DEF plain, keyed
<1>4. CASE e \in {[class |-> c, key |-> ""] : c \in plain}
  <2>1. PICK c \in plain : e = [class |-> c, key |-> ""]
    BY <1>4
  <2> QED BY <1>2, <2>1
<1>5. CASE e \in {[class |-> "BondLayerCover", key |-> k] : k \in keyed}
  <2>1. PICK k \in keyed : e = [class |-> "BondLayerCover", key |-> k]
    BY <1>5
  <2> QED BY <1>3, <2>1
<1>6. CASE e \in {[class |-> "BondButtonEntity", key |-> a] : a \in Buttons(d)}
  <2>1. PICK a \in Buttons(d) : e = [class |-> "BondButtonEntity", key |-> a]
    BY <1>6
  <2> QED BY <1>3, <2>1
<1> QED BY <1>1, <1>4, <1>5, <1>6, Zenon

LEMMA LightShort ==
  ASSUME NEW d, NEW c, NEW call,
         call.service \in {"TURN_ON", "TURN_OFF", "power_belief", "brightness_belief"}
  PROVE  Short(LightRequests(d, c, call))
<1>1. Short(turn_on(c, call))
  <2> DEFINE r == ActionOf(IF c = "BondLight" THEN "SetBrightness" ELSE "SetFlame",
                           BondBrightness(call.brightness))
             q == ActionOf("SetColorTemp", RoundKelvin(call.color_temp))
             level == IF Truthy(call, "brightness") /\ c \in {"BondLight", "BondFireplace"}
                      THEN <<r>> ELSE <<>>
             color == IF Truthy(call, "color_temp") /\ c = "BondLight" THEN <<q>> ELSE <<>>
  <2>1. turn_on(c, call) =
          IF level \o color = <<>> THEN <<Action(OnAction(c))>> ELSE level \o color
    BY DEF turn_on
  <2>2. level \in {<<r>>, <<>>} /\ color \in {<<q>>, <<>>}
    OBVIOUS
  <2> HIDE DEF level, color, r, q
  <2>3. Short(level \o color)
    <3>1. level \o color \in {<<r, q>>, <<r>>, <<q>>, <<>>}
      BY <2>2, Joined, Zenon
    <3> QED BY <3>1 DEF Short
  <2> QED BY <2>1, <2>3 DEF Short
<1>2. Short(turn_off(c))
  BY DEF turn_off, Short
<1>3. Short(set_power_belief(c, call.value))
  BY DEF set_power_belief, Short
<1>4. Short(set_brightness_belief(d, c, call.value))
  BY DEF set_brightness_belief, set_power_belief, Short
<1> QED BY <1>1, <1>2, <1>3, <1>4 DEF LightRequests

LEMMA FanShort ==
  ASSUME NEW d, NEW call, NEW breeze \in BOOLEAN,
         call.service \in {"TURN_ON", "TURN_OFF", "SET_SPEED", "PRESET_MODE", "DIRECTION", "speed_belief"}
  PROVE  Short(FanRequests(d, call, breeze))
<1>1. Short(FanTurnOff(breeze))
  BY Joined DEF FanTurnOff, Short
<1>2. \A p : Short(set_percentage(d, p, breeze))
  BY <1>1 DEF set_percentage, Short
<1>3. \A p : Short(set_speed_belief(d, p))
  BY Joined DEF set_speed_belief, set_power_belief, Short
<1>4. \A r : Short(<<r>>)
  BY DEF Short
<1> QED BY <1>1, <1>2, <1>3, <1>4 DEF FanRequests

(* No call of a service makes more than two requests. *)
LEMMA RequestsShort ==
  ASSUME NEW d, NEW e \in Entities(d), NEW call, Callable(d, e, call), NEW breeze \in BOOLEAN
  PROVE  Short(Requests(d, e, call, breeze))
<1>1. call.service \in Offered(d, e) /\ e.class \in Classes
  BY EntityClass DEF Callable
<1>2. \A r : Short(<<r>>)
  BY DEF Short
<1>3. CASE e.class \in Lights \cup {"BondSwitch"}
  <2>1. call.service \in {"TURN_ON", "TURN_OFF", "power_belief", "brightness_belief"}
    BY <1>1, <1>3 DEF Offered, Lights
  <2> QED BY <1>3, <2>1, LightShort DEF Requests, Lights
<1>4. CASE e.class = "BondFan"
  <2>1. call.service \in {"TURN_ON", "TURN_OFF", "SET_SPEED", "PRESET_MODE", "DIRECTION", "speed_belief"}
    BY <1>1, <1>4 DEF Offered, Lights, FanFeatures
  <2> QED BY <1>4, <2>1, FanShort DEF Requests, Lights
<1>5. CASE e.class = "BondCover"
  <2>1. call.service \in {"OPEN", "CLOSE", "STOP", "STOP_TILT", "OPEN_TILT", "CLOSE_TILT",
                          "SET_POSITION", "SET_TILT_POSITION"}
    BY <1>1, <1>5 DEF Offered, Lights, CoverFeatures
  <2>2. Short(CoverRequests(d, call))
    BY <1>2, <2>1 DEF CoverRequests
  <2> QED BY <1>5, <2>2 DEF Requests, Lights
<1>6. CASE e.class = "BondLayerCover"
  <2>1. call.service \in {"SET_POSITION", "OPEN", "CLOSE"}
    BY <1>1, <1>6 DEF Offered, Lights, LayerFeatures
  <2>2. Short(LayerRequests(e.key, call))
    BY <1>2, <2>1 DEF LayerRequests
  <2> QED BY <1>6, <2>2 DEF Requests, Lights
<1>7. CASE e.class \in {"BondFlameNumber", "BondHeatNumber"}
  BY <1>2, <1>7 DEF Requests, Lights, FlameRequests, HeatRequests
<1>8. CASE e.class = "BondButtonEntity"
  BY <1>2, <1>8 DEF Requests, Lights, press
<1> QED BY <1>1, <1>3, <1>4, <1>5, <1>6, <1>7, <1>8 DEF Classes

(***************************************************************************)
(* What the requests of a call make of a device.                           *)
(***************************************************************************)
(* turn_on of a light: its levels are set, one after the other, or it is   *)
(* just turned on. *)
LEMMA TurnOnCases ==
  ASSUME NEW call,
         Given(call, "brightness") => call.brightness \in 1..255,
         Given(call, "color_temp") => call.color_temp \in Nat \ {0}
  PROVE  LET b == ActionOf("SetBrightness", BondBrightness(call.brightness))
             k == ActionOf("SetColorTemp", RoundKelvin(call.color_temp))
         IN turn_on("BondLight", call) =
              IF Given(call, "brightness")
              THEN IF Given(call, "color_temp") THEN <<b, k>> ELSE <<b>>
              ELSE IF Given(call, "color_temp") THEN <<k>> ELSE <<Action("TurnLightOn")>>
<1> DEFINE b == ActionOf("SetBrightness", BondBrightness(call.brightness))
           k == ActionOf("SetColorTemp", RoundKelvin(call.color_temp))
           level == IF Given(call, "brightness") THEN <<b>> ELSE <<>>
           color == IF Given(call, "color_temp") THEN <<k>> ELSE <<>>
<1>1. Given(call, "brightness") <=> Truthy(call, "brightness")
  BY DEF Truthy, Null
<1>2. Given(call, "color_temp") <=> Truthy(call, "color_temp")
  BY DEF Truthy, Null
<1>3. turn_on("BondLight", call) =
        IF level \o color = <<>> THEN <<Action("TurnLightOn")>> ELSE level \o color
  BY <1>1, <1>2 DEF turn_on, OnAction
<1>4. level \o color = IF Given(call, "brightness")
                       THEN IF Given(call, "color_temp") THEN <<b, k>> ELSE <<b>>
                       ELSE IF Given(call, "color_temp") THEN <<k>> ELSE <<>>
  <2> HIDE DEF b, k
  <2> QED BY Joined
<1>5. <<b>> # <<>> /\ <<k>> # <<>> /\ <<b, k>> # <<>>
  OBVIOUS
<1> HIDE DEF level, color, b, k
<1>6. turn_on("BondLight", call) =
              IF Given(call, "brightness")
              THEN IF Given(call, "color_temp") THEN <<b, k>> ELSE <<b>>
              ELSE IF Given(call, "color_temp") THEN <<k>> ELSE <<Action("TurnLightOn")>>
  BY <1>3, <1>4, <1>5
<1> QED BY <1>6 DEF b, k

LEMMA LightTurnedOn ==
  ASSUME NEW call, NEW state,
         Given(call, "brightness") => call.brightness \in 1..255,
         Given(call, "color_temp") => call.color_temp \in Nat \ {0}
  PROVE  LET st == Final(state, turn_on("BondLight", call))
         IN /\ st.light = 1
            /\ Given(call, "brightness") =>
                 Given(st, "brightness") /\ st.brightness = BondBrightness(call.brightness)
            /\ Given(call, "color_temp") => st.color_temp = RoundKelvin(call.color_temp)
<1> DEFINE b == ActionOf("SetBrightness", BondBrightness(call.brightness))
           k == ActionOf("SetColorTemp", RoundKelvin(call.color_temp))
           st == Final(state, turn_on("BondLight", call))
<1>1. CASE Given(call, "brightness") /\ Given(call, "color_temp")
  <2>1. turn_on("BondLight", call) = <<b, k>>
    BY <1>1, TurnOnCases
  <2>2. st = Effect(Effect(state, b), k)
    <3> HIDE DEF b, k
    <3> QED BY <2>1, FinalTwo
  <2>3. /\ "brightness" \in DOMAIN Effect(state, b)
        /\ Effect(state, b).brightness = BondBrightness(call.brightness)
    BY DEF Effect, ActionOf, Updated
  <2>4. st = Updated(Effect(state, b), [light |-> 1, color_temp |-> RoundKelvin(call.color_temp)])
    BY <2>2 DEF Effect, ActionOf
  <2> HIDE DEF st, b
  <2>5. /\ st.light = 1 /\ st.color_temp = RoundKelvin(call.color_temp)
        /\ Given(st, "brightness") /\ st.brightness = BondBrightness(call.brightness)
    BY <2>3, <2>4 DEF Updated, Given
  <2> QED BY <2>5 DEF st
<1>2. CASE Given(call, "brightness") /\ ~Given(call, "color_temp")
  <2>1. st = Effect(state, b)
    BY <1>2, TurnOnCases, FinalOne
  <2> QED BY <1>2, <2>1 DEF Effect, ActionOf, Updated, Given
<1>3. CASE ~Given(call, "brightness") /\ Given(call, "color_temp")
  <2>1. st = Effect(state, k)
    BY <1>3, TurnOnCases, FinalOne
  <2> QED BY <1>3, <2>1 DEF Effect, ActionOf, Updated, Given
<1>4. CASE ~Given(call, "brightness") /\ ~Given(call, "color_temp")
  <2>1. turn_on("BondLight", call) = <<Action("TurnLightOn")>>
    BY <1>4, TurnOnCases
  <2>2. st = Effect(state, Action("TurnLightOn"))
    BY <2>1, FinalOne
  <2> QED BY <1>4, <2>2 DEF Effect, Action, Updated
<1> QED BY <1>1, <1>2, <1>3, <1>4

(* Turning a fan off, and the breeze if it is shown. *)
LEMMA FanTurnedOff ==
  ASSUME NEW breeze \in BOOLEAN, NEW state
  PROVE  LET st == Final(state, FanTurnOff(breeze))
         IN st.power = 0 /\ (breeze => st.breeze = 0)
            /\ (~breeze /\ "breeze" \in DOMAIN state => st.breeze = state.breeze)
<1> DEFINE st == Final(state, FanTurnOff(breeze))
<1>1. CASE breeze
  <2>1. FanTurnOff(breeze) = <<Action("BreezeOff"), Action("TurnOff")>>
    BY <1>1, Joined DEF FanTurnOff
  <2>2. st = Effect(Effect(state, Action("BreezeOff")), Action("TurnOff"))
    BY <2>1, FinalTwo
  <2> QED BY <1>1, <2>2 DEF Effect, Action, Updated
<1>2. CASE ~breeze
  <2>1. FanTurnOff(breeze) = <<Action("TurnOff")>>
    BY <1>2, Joined DEF FanTurnOff
  <2>2. st = Effect(state, Action("TurnOff"))
    BY <2>1, FinalOne
  <2> QED BY <1>2, <2>2 DEF Effect, Action, Updated
<1> QED BY <1>1, <1>2

(* A speed that is set or believed: the fan runs at it, or is off at 0. *)
RunsAt(d, st, p) ==
  /\ st.power = (IF p = 0 THEN 0 ELSE 1)
  /\ p > 0 => Given(st, "speed") /\ st.speed = BondSpeed(d.props, p)

LEMMA FanSpeedSet ==
  ASSUME NEW d, NEW p \in 0..100, NEW breeze \in BOOLEAN, NEW state
  PROVE  /\ RunsAt(d, Final(state, set_percentage(d, p, breeze)), p)
         /\ RunsAt(d, Final(state, set_speed_belief(d, p)), p)
<1> DEFINE s == ActionOf("SetSpeed", BondSpeed(d.props, p))
           on == ActionOf("state.power", 1)
           off == ActionOf("state.power", 0)
           v == ActionOf("state.speed", BondSpeed(d.props, p))
<1>1. CASE p = 0
  <2>1. RunsAt(d, Final(state, set_percentage(d, p, breeze)), p)
    BY <1>1, FanTurnedOff DEF set_percentage, RunsAt
  <2>2. set_speed_belief(d, p) = <<off>>
    BY <1>1 DEF set_speed_belief, set_power_belief
  <2>3. Final(state, set_speed_belief(d, p)) = Effect(state, off)
    BY <2>2, FinalOne
  <2>4. Effect(state, off).power = 0
    BY DEF Effect, ActionOf, Updated
  <2> QED BY <1>1, <2>1, <2>3, <2>4 DEF RunsAt
<1>2. CASE p > 0
  <2>1. set_percentage(d, p, breeze) = <<s>> /\ set_speed_belief(d, p) = <<on, v>>
    BY <1>2, Joined DEF set_percentage, set_speed_belief, set_power_belief
  <2>2. /\ Final(state, set_percentage(d, p, breeze)) = Effect(state, s)
        /\ Final(state, set_speed_belief(d, p)) = Effect(Effect(state, on), v)
    <3> HIDE DEF s, on, v
    <3> QED BY <2>1, FinalOne, FinalTwo
  <2>3. Effect(state, on).power = 1 /\ "power" \in DOMAIN Effect(state, on)
    BY DEF Effect, ActionOf, Updated
  <2>4. Effect(Effect(state, on), v).power = Effect(state, on).power
    <3> HIDE DEF on
    <3> QED BY <2>3 DEF Effect, ActionOf, Updated
  <2>5. /\ Given(Effect(Effect(state, on), v), "speed")
        /\ Effect(Effect(state, on), v).speed = BondSpeed(d.props, p)
    <3> HIDE DEF on
    <3> QED BY DEF Effect, ActionOf, Updated, Given
  <2>6. /\ Effect(state, s).power = 1
        /\ Given(Effect(state, s), "speed") /\ Effect(state, s).speed = BondSpeed(d.props, p)
    BY DEF Effect, ActionOf, Updated, Given
  <2> HIDE DEF s, on, v
  <2> QED BY <1>2, <2>2, <2>3, <2>4, <2>5, <2>6 DEF RunsAt
<1> QED BY <1>1, <1>2
================================================================================
