----------------------------- MODULE MarketProofs ------------------------------
(***************************************************************************)
(* The market memory for every set of symbols, price range, window and     *)
(* threshold: what the breadth counts, that a better market is never       *)
(* judged the worse, and that the indicators are those of all candles.     *)
(***************************************************************************)
EXTENDS MarketMemory, SumLemmas

(* Fractions, rounding and the score.                                      *)

LEMMA MulMono ==
  ASSUME NEW x \in Int, NEW y \in Int, NEW c \in Nat, x <= y
  PROVE  x * c <= y * c
OBVIOUS

LEMMA MulCancel ==
  ASSUME NEW x \in Int, NEW y \in Int, NEW c \in Nat, c > 0, x * c <= y * c
  PROVE  x <= y
OBVIOUS

LEMMA Division ==
  ASSUME NEW p \in Int, NEW q \in Nat, q > 0
  PROVE  /\ p \div q \in Int /\ p % q \in Nat /\ p % q < q
         /\ p = q * (p \div q) + (p % q)
OBVIOUS

\* Rounding half to even keeps the order of fractions.
LEMMA RoundMonotone ==
  ASSUME NEW p \in Int, NEW q \in Nat, NEW r \in Int, NEW s \in Nat,
         q > 0, s > 0, p * s <= r * q
  PROVE  Round([num |-> p, den |-> q]) <= Round([num |-> r, den |-> s])
<1> DEFINE f == p \div q
           g == r \div s
           a == p % q
           b == r % s
<1>1. f \in Int /\ a \in Nat /\ a < q /\ p = q * f + a
  BY Division
<1>2. g \in Int /\ b \in Nat /\ b < s /\ r = s * g + b
  BY Division
<1>3. /\ Round([num |-> p, den |-> q]) =
           IF 2 * a < q \/ (2 * a = q /\ f % 2 = 0) THEN f ELSE f + 1
      /\ Round([num |-> r, den |-> s]) =
           IF 2 * b < s \/ (2 * b = s /\ g % 2 = 0) THEN g ELSE g + 1
  BY DEF Round
<1> HIDE DEF f, g, a, b
<1>4. f <= g
  <2>1. CASE g + 1 <= f
    <3>1. r < s * (g + 1)
      BY <1>2
    <3>2. (g + 1) * s <= f * s
      BY <1>1, <1>2, <2>1, MulMono
    <3>3. r < f * s
      BY <1>1, <1>2, <3>1, <3>2
    <3>4. f * s - r \in Nat /\ f * s - r > 0
      BY <1>1, <3>3
    <3>5. (f * s - r) * q > 0
      BY <3>4
    <3>6. (f * s - r) * q = (q * f) * s - r * q
      BY <1>1
    <3>7. (q * f) * s <= p * s
      <4>1. q * f <= p /\ q * f \in Int
        BY <1>1
      <4>2. QED
        BY <4>1, MulMono
    <3>8. p * s \in Int /\ r * q \in Int /\ (q * f) * s \in Int
      BY <1>1
    <3>9. QED
      BY <3>5, <3>6, <3>7, <3>8
  <2>2. QED
    BY <1>1, <1>2, <2>1
<1>5. ASSUME f = g PROVE a * s <= b * q
  <2>1. p * s = (q * f) * s + a * s /\ r * q = (s * f) * q + b * q
    BY <1>1, <1>2, <1>5
  <2>2. (q * f) * s = (s * f) * q
    BY <1>1
  <2>3. (q * f) * s \in Int /\ a * s \in Int /\ b * q \in Int
    BY <1>1, <1>2
  <2>4. QED
    BY <2>1, <2>2, <2>3
<1>6. ASSUME f = g, 2 * a >= q PROVE 2 * b >= s
  <2>1. q * s <= (2 * a) * s
    BY <1>1, <1>6, MulMono
  <2>2. (2 * a) * s = 2 * (a * s) /\ (2 * b) * q = 2 * (b * q) /\ q * s = s * q
    BY <1>1, <1>2
  <2>3. a * s \in Int /\ b * q \in Int /\ s * q \in Int /\ (2 * b) * q \in Int
    BY <1>1, <1>2
  <2>4. s * q <= (2 * b) * q
    BY <1>5, <1>6, <2>1, <2>2, <2>3
  <2>5. QED
    BY <1>2, <2>4, MulCancel
<1>7. ASSUME f = g, 2 * a > q PROVE 2 * b > s
  <2>1. 2 * a - q \in Nat /\ 2 * a - q > 0
    BY <1>1, <1>7
  <2>2. (2 * a - q) * s > 0
    BY <2>1
  <2>3. (2 * a - q) * s = 2 * (a * s) - s * q /\ (2 * b - s) * q = 2 * (b * q) - s * q
    BY <1>1, <1>2
  <2>4. a * s \in Int /\ b * q \in Int /\ s * q \in Int
    BY <1>1, <1>2
  <2>5. (2 * b - s) * q > 0
    BY <1>5, <1>7, <2>2, <2>3, <2>4
  <2>6. 2 * b >= s
    BY <1>6, <1>7, <1>1
  <2>7. 2 * b # s
    BY <2>5, <1>2
  <2>8. QED
    BY <1>2, <2>6, <2>7
<1>8. QED
  BY <1>1, <1>2, <1>3, <1>4, <1>6, <1>7

LEMMA LesserOfTwo ==
  ASSUME NEW x \in Int, NEW y \in Int
  PROVE  /\ Min({x, y}) \in Int /\ Min({x, y}) <= x /\ Min({x, y}) <= y
         /\ Min({x, y}) = x \/ Min({x, y}) = y
<1>1. \E m \in {x, y} : \A z \in {x, y} : m <= z
  <2>1. CASE x <= y
    BY <2>1
  <2>2. CASE y <= x
    BY <2>2
  <2>3. QED
    BY <2>1, <2>2
<1>2. Min({x, y}) \in {x, y} /\ \A z \in {x, y} : Min({x, y}) <= z
  BY <1>1 DEF Min
<1>3. QED
  BY <1>2

LEMMA GreaterOfTwo ==
  ASSUME NEW x \in Int, NEW y \in Int
  PROVE  Max({x, y}) = IF x >= y THEN x ELSE y
<1>1. CASE x >= y
  <2>1. \A m \in {x, y} : (\A z \in {x, y} : m >= z) <=> m = x
    BY <1>1
  <2>2. QED
    BY <1>1, <2>1 DEF Max
<1>2. CASE ~(x >= y)
  <2>1. \A m \in {x, y} : (\A z \in {x, y} : m >= z) <=> m = y
    BY <1>2
  <2>2. QED
    BY <1>2, <2>1 DEF Max
<1>3. QED
  BY <1>1, <1>2

\* The share of the advance-decline ratio: more advancers and fewer decliners
\* never make it smaller, at the cap of two neither.
LEMMA AdShareMonotone ==
  ASSUME NEW a \in Nat, NEW a2 \in Nat, NEW d \in Nat, NEW d2 \in Nat,
         a <= a2, d2 <= d, d2 > 0
  PROVE  Min({20 * a, 40 * d}) * d2 <= Min({20 * a2, 40 * d2}) * d
<1> DEFINE x == 20 * a
           x2 == 20 * a2
           y == 40 * d
           y2 == 40 * d2
           m == Min({x, y})
           m2 == Min({x2, y2})
<1>1. x \in Nat /\ x2 \in Nat /\ y \in Int /\ y2 \in Int /\ x <= x2 /\ y * d2 = y2 * d
  OBVIOUS
<1> HIDE DEF x, x2, y, y2
<1>2. m \in Int /\ m <= x /\ m <= y
  BY <1>1, LesserOfTwo
<1>3. m2 = x2 \/ m2 = y2
  <2>1. x2 \in Int /\ y2 \in Int
    BY <1>1
  <2>2. Min({x2, y2}) = x2 \/ Min({x2, y2}) = y2
    BY <2>1, LesserOfTwo
  <2>3. QED
    BY <2>2
<1> HIDE DEF m, m2
<1>4. ASSUME m2 = x2 PROVE m * d2 <= m2 * d
  <2>1. m * d2 <= x * d2
    BY <1>1, <1>2, MulMono
  <2>2. d2 * x <= d * x
    BY <1>1, MulMono
  <2>3. x * d <= x2 * d
    BY <1>1, MulMono
  <2>4. x * d2 = d2 * x /\ x * d = d * x
    BY <1>1
  <2>5. m * d2 \in Int /\ x * d2 \in Int /\ x * d \in Int /\ x2 * d \in Int
    BY <1>1, <1>2
  <2>6. QED
    BY <1>4, <2>1, <2>2, <2>3, <2>4, <2>5
<1>5. ASSUME m2 = y2 PROVE m * d2 <= m2 * d
  <2>1. m * d2 <= y * d2
    BY <1>1, <1>2, MulMono
  <2>2. QED
    BY <1>1, <1>5, <2>1
<1>6. QED
  BY <1>3, <1>4, <1>5 DEF m, m2, x, x2, y, y2

\* The score as a fraction: each share grows on its own, the bonus is the same.
LEMMA SharesMonotone ==
  ASSUME NEW m \in Int, NEW m2 \in Int, NEW d \in Nat, NEW d2 \in Nat,
         NEW t \in Int, NEW t2 \in Int, NEW u \in Int, NEW u2 \in Int,
         NEW total \in Nat, NEW n \in Nat, NEW bonus \in Int,
         m * d2 <= m2 * d, t <= t2, u <= u2
  PROVE  (m * total * n + 30 * t * d * n + 30 * u * d * total + bonus * d * total * n)
            * (d2 * total * n)
         <= (m2 * total * n + 30 * t2 * d2 * n + 30 * u2 * d2 * total + bonus * d2 * total * n)
            * (d * total * n)
<1> DEFINE w == (total * n) * (total * n)
           dd == d * d2
           k == 30 * dd * n * total * n
           l == 30 * dd * total * total * n
           b == bonus * dd * w
<1>1. /\ total * n \in Nat /\ d * d2 \in Nat /\ m * d2 \in Int /\ m2 * d \in Int
  OBVIOUS
<1>2. w \in Nat /\ k \in Nat /\ l \in Nat /\ b \in Int
  BY <1>1
<1>3. (m * d2) * w <= (m2 * d) * w
  BY <1>1, <1>2, MulMono
<1>4. t * k <= t2 * k
  BY <1>2, MulMono
<1>5. u * l <= u2 * l
  BY <1>2, MulMono
<1>6. (m * total * n + 30 * t * d * n + 30 * u * d * total + bonus * d * total * n)
        * (d2 * total * n)
      = (m * d2) * w + t * k + u * l + b
  OBVIOUS
<1>7. (m2 * total * n + 30 * t2 * d2 * n + 30 * u2 * d2 * total + bonus * d2 * total * n)
        * (d * total * n)
      = (m2 * d) * w + t2 * k + u2 * l + b
  OBVIOUS
<1>8. /\ (m * d2) * w \in Int /\ (m2 * d) * w \in Int /\ t * k \in Int /\ t2 * k \in Int
      /\ u * l \in Int /\ u2 * l \in Int
  BY <1>1, <1>2
<1> HIDE DEF w, k, l, b, dd
<1>9. (m * d2) * w + t * k + u * l + b <= (m2 * d) * w + t2 * k + u2 * l + b
  BY <1>2, <1>3, <1>4, <1>5, <1>8
<1>10. QED
  BY <1>6, <1>7, <1>9

--------------------------------------------------------------------------------
(* A better market.                                                        *)

Tally ==
  [total : Nat, advancers : Nat, decliners : Nat, above : Nat, highs : Nat, lows : Nat]

\* c is a market that is at least as good as b.
NoWorse(b, c) ==
  /\ c.total = b.total
  /\ b.advancers <= c.advancers /\ c.decliners <= b.decliners /\ b.above <= c.above

LEMMA Ratio ==
  ASSUME NEW b \in Tally
  PROVE  /\ AdRatio(b).num = b.advancers /\ AdRatio(b).num \in Nat
         /\ AdRatio(b).den = (IF b.decliners >= 1 THEN b.decliners ELSE 1)
         /\ AdRatio(b).den \in Nat /\ AdRatio(b).den > 0
<1>1. b.decliners \in Nat /\ b.advancers \in Nat
  BY DEF Tally
<1>2. Max({b.decliners, 1}) = IF b.decliners >= 1 THEN b.decliners ELSE 1
  BY <1>1, GreaterOfTwo
<1>3. QED
  BY <1>1, <1>2 DEF AdRatio

LEMMA RatioMonotone ==
  ASSUME NEW b \in Tally, NEW c \in Tally, NoWorse(b, c)
  PROVE  AdRatio(b).num <= AdRatio(c).num /\ AdRatio(c).den <= AdRatio(b).den
<1>1. b.decliners \in Nat /\ c.decliners \in Nat
  BY DEF Tally
<1>2. QED
  BY <1>1, Ratio DEF NoWorse

LEMMA ClassNoWorse ==
  ASSUME NEW b \in Tally, NEW c \in Tally, NoWorse(b, c),
         NEW up \in Nat, NEW u \in Nat, NEW down \in Nat, NEW d \in Nat, up <= u, d <= down
  PROVE  Rank(Classify(c, u, d)) >= Rank(Classify(b, up, down))
<1>1. /\ b.total \in Nat /\ b.above \in Nat /\ c.above \in Nat
      /\ c.total = b.total /\ b.above <= c.above
  BY DEF Tally, NoWorse
<1>2. /\ AdRatio(b).num \in Nat /\ AdRatio(b).den \in Nat
      /\ AdRatio(c).num \in Nat /\ AdRatio(c).den \in Nat
      /\ AdRatio(b).num <= AdRatio(c).num /\ AdRatio(c).den <= AdRatio(b).den
  BY Ratio, RatioMonotone
<1>3. RiskOn(b, up, down) => RiskOn(c, u, d)
  BY <1>1, <1>2 DEF RiskOn
<1>4. RiskOff(c, u, d) => RiskOff(b, up, down)
  BY <1>1, <1>2 DEF RiskOff
<1>5. /\ Rank("risk_on") = 2 /\ Rank("rotational") = 1 /\ Rank("risk_off") = 0
  BY DEF Rank
<1>6. QED
  BY <1>3, <1>4, <1>5 DEF Classify

\* A score clamped and rounded.
Clamp(p, q) ==
  IF p <= 0 THEN 0 ELSE IF p >= 100 * q THEN 100 ELSE Round([num |-> p, den |-> q])

LEMMA ClampMonotone ==
  ASSUME NEW p \in Int, NEW q \in Nat, NEW r \in Int, NEW s \in Nat,
         q > 0, s > 0, p * s <= r * q
  PROVE  Clamp(r, s) >= Clamp(p, q)
<1> DEFINE old == Round([num |-> p, den |-> q])
           new == Round([num |-> r, den |-> s])
<1>1. /\ Clamp(p, q) = (IF p <= 0 THEN 0 ELSE IF p >= 100 * q THEN 100 ELSE old)
      /\ Clamp(r, s) = (IF r <= 0 THEN 0 ELSE IF r >= 100 * s THEN 100 ELSE new)
  BY DEF Clamp
<1>2. old \in Int /\ (p >= 0 => old >= 0)
  <2>1. p \div q \in Int /\ (p >= 0 => p \div q >= 0)
    BY Division
  <2>2. QED
    BY <2>1 DEF Round
<1>3. new \in Int /\ (r >= 0 => new >= 0)
  <2>1. r \div s \in Int /\ (r >= 0 => r \div s >= 0)
    BY Division
  <2>2. QED
    BY <2>1 DEF Round
<1>4. old <= new
  BY RoundMonotone
<1>5. p < 100 * q => old <= 100
  <2> SUFFICES ASSUME p < 100 * q PROVE old <= 100
    OBVIOUS
  <2>1. p * 1 <= 100 * q
    OBVIOUS
  <2>2. old <= Round([num |-> 100, den |-> 1])
    BY <2>1, RoundMonotone
  <2>3. Round([num |-> 100, den |-> 1]) = 100
    BY DEF Round
  <2>4. QED
    BY <2>2, <2>3
<1>6. r <= 0 => p <= 0
  <2> SUFFICES ASSUME r <= 0, p >= 1 PROVE FALSE
    OBVIOUS
  <2>1. r * q <= 0 * q /\ 1 * s <= p * s
    BY MulMono
  <2>2. r * q \in Int /\ p * s \in Int
    OBVIOUS
  <2>3. QED
    BY <2>1, <2>2
<1>7. p >= 100 * q => r >= 100 * s
  <2> SUFFICES ASSUME p >= 100 * q PROVE r >= 100 * s
    OBVIOUS
  <2>1. (100 * q) * s <= p * s
    BY MulMono
  <2>2. (100 * q) * s = (100 * s) * q /\ (100 * q) * s \in Int /\ p * s \in Int /\ r * q \in Int
    OBVIOUS
  <2>3. (100 * s) * q <= r * q
    BY <2>1, <2>2
  <2>4. QED
    BY <2>3, MulCancel
<1> HIDE DEF old, new
<1>8. QED
  BY <1>1, <1>2, <1>3, <1>4, <1>5, <1>6, <1>7

\* The bonus of a volatility.
Bonus(vol) == CASE vol = "high" -> -15 [] vol = "low" -> 5 [] OTHER -> 0

Share(b) == Min({20 * AdRatio(b).num, 40 * AdRatio(b).den})
Size(b) == IF b.total >= 1 THEN b.total ELSE 1

LEMMA ScoreFacts ==
  ASSUME NEW b \in Tally, NEW up \in Nat, NEW n \in Nat, n > 0, NEW vol
  PROVE  /\ Share(b) \in Int /\ Size(b) \in Nat /\ Bonus(vol) \in Int
         /\ Score(b, up, n, vol).num =
              Share(b) * Size(b) * n + 30 * b.above * AdRatio(b).den * n
                + 30 * up * AdRatio(b).den * Size(b) + Bonus(vol) * AdRatio(b).den * Size(b) * n
         /\ Score(b, up, n, vol).den = AdRatio(b).den * Size(b) * n
         /\ Score(b, up, n, vol).num \in Int
         /\ Score(b, up, n, vol).den \in Nat /\ Score(b, up, n, vol).den > 0
         /\ Score(b, up, n, vol) =
              [num |-> Score(b, up, n, vol).num, den |-> Score(b, up, n, vol).den]
<1> DEFINE ad == Min({20 * AdRatio(b).num, 40 * AdRatio(b).den})
           d == AdRatio(b).den
           total == IF b.total >= 1 THEN b.total ELSE 1
<1>1. b.total \in Nat /\ b.above \in Nat /\ total \in Nat /\ total > 0
  BY DEF Tally
<1>2. AdRatio(b).num \in Nat /\ d \in Nat /\ d > 0
  BY Ratio
<1>3. ad \in Int
  <2>1. 20 * AdRatio(b).num \in Int /\ 40 * AdRatio(b).den \in Int
    BY <1>2
  <2>2. QED
    BY <2>1, LesserOfTwo
<1>4. Bonus(vol) \in Int
  BY DEF Bonus
<1>5. Max({b.total, 1}) = total
  BY <1>1, GreaterOfTwo
<1>6. Score(b, up, n, vol) =
        [num |-> ad * total * n + 30 * b.above * d * n + 30 * up * d * total
                   + Bonus(vol) * d * total * n,
         den |-> d * total * n]
  BY <1>5 DEF Score, Bonus
<1> HIDE DEF ad, d, total
<1>7. /\ ad * total * n + 30 * b.above * d * n + 30 * up * d * total
           + Bonus(vol) * d * total * n \in Int
      /\ d * total * n \in Nat /\ d * total * n > 0
  <2>1. d * total \in Nat /\ d * total > 0
    BY <1>1, <1>2
  <2>2. (d * total) * n \in Nat /\ (d * total) * n > 0
    BY <2>1
  <2>3. /\ ad * total * n \in Int /\ 30 * b.above * d * n \in Int
        /\ 30 * up * d * total \in Int /\ Bonus(vol) * d * total * n \in Int
    BY <1>1, <1>2, <1>3, <1>4
  <2>4. QED
    BY <2>2, <2>3
<1>8. ad = Share(b) /\ total = Size(b) /\ d = AdRatio(b).den
  BY DEF ad, d, total, Share, Size
<1>9. QED
  BY <1>1, <1>3, <1>4, <1>6, <1>7, <1>8

LEMMA HealthNoWorse ==
  ASSUME NEW b \in Tally, NEW c \in Tally, NoWorse(b, c),
         NEW up \in Nat, NEW u \in Nat, NEW n \in Nat, n > 0, up <= u, NEW vol
  PROVE  Health(c, u, n, vol) >= Health(b, up, n, vol)
<1> DEFINE m == Share(b)
           m2 == Share(c)
           d == AdRatio(b).den
           d2 == AdRatio(c).den
           total == Size(b)
           old == Score(b, up, n, vol)
           new == Score(c, u, n, vol)
<1>1. /\ b.above \in Nat /\ c.above \in Nat /\ b.above <= c.above /\ total = Size(c)
  BY DEF Tally, NoWorse, Size
<1>2. /\ d \in Nat /\ d2 \in Nat /\ d2 <= d /\ d2 > 0
      /\ AdRatio(b).num \in Nat /\ AdRatio(c).num \in Nat /\ AdRatio(b).num <= AdRatio(c).num
  BY Ratio, RatioMonotone
<1>3. m * d2 <= m2 * d
  BY <1>2, AdShareMonotone DEF Share
<1>4. /\ m \in Int /\ total \in Nat /\ Bonus(vol) \in Int
      /\ old.num = m * total * n + 30 * b.above * d * n + 30 * up * d * total
                     + Bonus(vol) * d * total * n
      /\ old.den = d * total * n
      /\ old.num \in Int /\ old.den \in Nat /\ old.den > 0
      /\ old = [num |-> old.num, den |-> old.den]
  BY ScoreFacts
<1>5. /\ m2 \in Int
      /\ new.num = m2 * total * n + 30 * c.above * d2 * n + 30 * u * d2 * total
                     + Bonus(vol) * d2 * total * n
      /\ new.den = d2 * total * n
      /\ new.num \in Int /\ new.den \in Nat /\ new.den > 0
      /\ new = [num |-> new.num, den |-> new.den]
  <2> HIDE DEF new
  <2>1. /\ Share(c) \in Int
        /\ new.num = Share(c) * Size(c) * n + 30 * c.above * AdRatio(c).den * n
                       + 30 * u * AdRatio(c).den * Size(c)
                       + Bonus(vol) * AdRatio(c).den * Size(c) * n
        /\ new.den = AdRatio(c).den * Size(c) * n
        /\ new.num \in Int /\ new.den \in Nat /\ new.den > 0
        /\ new = [num |-> new.num, den |-> new.den]
    BY ScoreFacts DEF new
  <2>2. Size(c) = total
    BY <1>1
  <2>3. QED
    BY <2>1, <2>2
<1> HIDE DEF m, m2, d, d2, total, old, new
<1>6. old.num * new.den <= new.num * old.den
  <2> DEFINE bonus == Bonus(vol)
             t == b.above
             t2 == c.above
  <2>1. /\ m \in Int /\ m2 \in Int /\ d \in Nat /\ d2 \in Nat /\ t \in Int /\ t2 \in Int
        /\ total \in Nat /\ bonus \in Int /\ t <= t2
    BY <1>1, <1>2, <1>4, <1>5
  <2> HIDE DEF bonus, t, t2
  <2>2. (m * total * n + 30 * t * d * n + 30 * up * d * total + bonus * d * total * n)
           * (d2 * total * n)
        <= (m2 * total * n + 30 * t2 * d2 * n + 30 * u * d2 * total + bonus * d2 * total * n)
           * (d * total * n)
    BY <1>3, <2>1, SharesMonotone
  <2>3. /\ old.num = m * total * n + 30 * t * d * n + 30 * up * d * total + bonus * d * total * n
        /\ old.den = d * total * n /\ new.den = d2 * total * n
        /\ new.num = m2 * total * n + 30 * t2 * d2 * n + 30 * u * d2 * total
                       + bonus * d2 * total * n
    BY <1>4, <1>5 DEF bonus, t, t2
  <2>4. QED
    BY <2>2, <2>3
<1>7. Health(b, up, n, vol) = Clamp(old.num, old.den)
  BY <1>4 DEF Health, Clamp, old
<1>8. Health(c, u, n, vol) = Clamp(new.num, new.den)
  BY <1>5 DEF Health, Clamp, new
<1>9. Clamp(new.num, new.den) >= Clamp(old.num, old.den)
  BY <1>4, <1>5, <1>6, ClampMonotone
<1>10. QED
  BY <1>7, <1>8, <1>9

--------------------------------------------------------------------------------
(* A price against the window before it.                                   *)

LEMMA WindowFacts ==
  ASSUME NEW h \in Seq(Int), NEW x \in Int
  PROVE  /\ h # <<>> <=> ToSet(h) # {}
         /\ NewHigh(x, h) <=> ToSet(h) # {} /\ \A q \in ToSet(h) : x > q
         /\ NewLow(x, h) <=> ToSet(h) # {} /\ \A q \in ToSet(h) : x < q
         /\ NewHigh(x, h) => Above(x, h)
         /\ Above(x, h) => ToSet(h) # {} /\ \E q \in ToSet(h) : x > q
<1>1. /\ Len(h) \in Nat /\ ToSet(h) = {h[k] : k \in 1..Len(h)}
      /\ \A k \in 1..Len(h) : h[k] \in Int
  BY LenProperties DEF ToSet
<1>2. h # <<>> <=> ToSet(h) # {}
  <2>1. h # <<>> <=> Len(h) # 0
    BY EmptySeq
  <2>2. QED
    BY <1>1, <2>1
<1>3. ToSet(h) \subseteq Int
  BY <1>1
<1>4. h # <<>> => /\ Max(ToSet(h)) \in ToSet(h) /\ \A q \in ToSet(h) : Max(ToSet(h)) >= q
                  /\ Min(ToSet(h)) \in ToSet(h) /\ \A q \in ToSet(h) : Min(ToSet(h)) <= q
  BY WindowExtremes
<1>5. NewHigh(x, h) <=> ToSet(h) # {} /\ \A q \in ToSet(h) : x > q
  BY <1>2, <1>3, <1>4 DEF NewHigh
<1>6. NewLow(x, h) <=> ToSet(h) # {} /\ \A q \in ToSet(h) : x < q
  BY <1>2, <1>3, <1>4 DEF NewLow
<1>7. /\ Total(h) = SeqSum(h) /\ SeqSum(h) \in Int
      /\ x * Len(h) = Len(h) * x /\ Len(h) * x \in Int
  <2>1. SeqSum(h) \in Int
    BY SumFacts
  <2>2. Total(h) = SeqSum(h)
    BY DEF Total, SeqSum
  <2>3. QED
    BY <1>1, <2>1, <2>2
<1>8. ASSUME NewHigh(x, h) PROVE Above(x, h)
  <2>1. \A k \in 1..Len(h) : h[k] < x
    BY <1>1, <1>5, <1>8
  <2>2. h # <<>>
    BY <1>8 DEF NewHigh
  <2>3. SeqSum(h) < Len(h) * x
    BY <2>1, <2>2, SumBounds
  <2>4. x * Len(h) > Total(h)
    BY <1>7, <2>3
  <2>5. QED
    BY <2>2, <2>4 DEF Above
<1>9. ASSUME Above(x, h) PROVE \E q \in ToSet(h) : x > q
  <2> SUFFICES ASSUME \A q \in ToSet(h) : ~(x > q) PROVE FALSE
    OBVIOUS
  <2>1. ASSUME NEW k \in 1..Len(h) PROVE h[k] >= x
    <3>1. h[k] \in ToSet(h) /\ h[k] \in Int
      BY <1>1
    <3>2. QED
      BY <3>1
  <2>2. SeqSum(h) >= Len(h) * x
    BY <2>1, SumBounds
  <2>3. QED
    BY <1>7, <1>9, <2>2 DEF Above
<1>10. QED
  BY <1>2, <1>5, <1>6, <1>8, <1>9 DEF Above

--------------------------------------------------------------------------------
(* The last BreadthWindow quotes.                                          *)

Kept(q) == IF Len(q) < BreadthWindow THEN Len(q) ELSE BreadthWindow
Recent(q) == [i \in 1..Kept(q) |-> q[Len(q) - Kept(q) + i]]

LEMMA SameElements ==
  ASSUME NEW s \in Seq(Int), NEW t \in Seq(Int), Len(s) = Len(t),
         \A i \in 1..Len(s) : s[i] = t[i]
  PROVE  s = t
<1>1. PICK S : S = Int
  OBVIOUS
<1>2. s \in Seq(S) /\ t \in Seq(S)
  BY <1>1
<1>3. QED
  BY <1>2, SeqEqual

LEMMA RecentFacts ==
  ASSUME NEW q \in Seq(Int)
  PROVE  /\ Kept(q) \in Nat /\ Kept(q) <= Len(q)
         /\ Recent(q) \in Seq(Int) /\ Len(Recent(q)) = Kept(q)
         /\ \A i \in 1..Kept(q) : Recent(q)[i] = q[Len(q) - Kept(q) + i]
<1>1. Len(q) \in Nat /\ Kept(q) \in Nat /\ Kept(q) <= Len(q)
  BY BreadthAssumption, LenProperties DEF Kept
<1>2. \A i \in 1..Kept(q) : Len(q) - Kept(q) + i \in 1..Len(q)
  BY <1>1
<1>3. \A i \in 1..Kept(q) : q[Len(q) - Kept(q) + i] \in Int
  BY <1>2
<1>4. Recent(q) \in Seq(Int) /\ Len(Recent(q)) = Kept(q)
  <2> DEFINE k == Kept(q)
             r == [i \in 1..k |-> q[Len(q) - k + i]]
  <2>1. k \in Nat /\ \A i \in 1..k : q[Len(q) - k + i] \in Int
    BY <1>1, <1>3
  <2> HIDE DEF k
  <2>2. r \in Seq(Int) /\ Len(r) = k
    BY <2>1
  <2>3. QED
    BY <2>2 DEF Recent, k
<1>5. QED
  BY <1>1, <1>4 DEF Recent

\* A deque with maxlen holds the last so many of all that was appended.
LEMMA SlideKeepsRecent ==
  ASSUME NEW q \in Seq(Int), NEW x \in Int
  PROVE  Slide(Recent(q), x, BreadthWindow) = Recent(Append(q, x))
<1> DEFINE r == Recent(q)
           t == Append(q, x)
           n == Len(q)
           z == Slide(r, x, BreadthWindow)
<1>1. /\ r \in Seq(Int) /\ Len(r) = Kept(q) /\ Kept(q) \in Nat /\ Kept(q) <= n
      /\ \A i \in 1..Kept(q) : r[i] = q[n - Kept(q) + i]
  BY RecentFacts
<1>2. /\ t \in Seq(Int) /\ Len(t) = n + 1 /\ n \in Nat /\ t[n + 1] = x
      /\ \A i \in 1..n : t[i] = q[i]
  BY AppendProperties, LenProperties
<1>3. BreadthWindow \in Nat /\ BreadthWindow >= 2
  BY BreadthAssumption
<1> HIDE DEF r, t
<1> DEFINE last == Recent(t)
<1>4. /\ last \in Seq(Int) /\ Len(last) = Kept(t) /\ Kept(t) \in Nat
      /\ \A i \in 1..Kept(t) : last[i] = t[n + 1 - Kept(t) + i]
  <2>1. /\ last \in Seq(Int) /\ Len(last) = Kept(t) /\ Kept(t) \in Nat
        /\ \A i \in 1..Kept(t) : last[i] = t[Len(t) - Kept(t) + i]
    BY <1>2, RecentFacts
  <2>2. Len(t) = n + 1 /\ n \in Nat
    BY <1>2
  <2> HIDE DEF last, n, z
  <2>3. ASSUME NEW i \in 1..Kept(t) PROVE last[i] = t[n + 1 - Kept(t) + i]
    <3>1. last[i] = t[Len(t) - Kept(t) + i]
      BY <2>1
    <3>2. Len(t) - Kept(t) + i = n + 1 - Kept(t) + i
      BY <2>1, <2>2
    <3>3. QED
      BY <3>1, <3>2
  <2>4. QED
    BY <2>1, <2>3
<1> HIDE DEF last, z, n
<1>5. ASSUME n < BreadthWindow PROVE z = last
  <2>1. Kept(q) = n /\ Kept(t) = n + 1
    BY <1>2, <1>3, <1>5 DEF Kept, n
  <2>2. z = Append(r, x)
    BY <1>1, <1>5, <2>1 DEF Slide, z
  <2> DEFINE y == Append(r, x)
  <2>3. /\ y \in Seq(Int) /\ Len(y) = n + 1
        /\ \A i \in 1..n : y[i] = r[i]
        /\ y[n + 1] = x
    BY <1>1, <2>1, AppendProperties
  <2> HIDE DEF y
  <2>4. ASSUME NEW i \in 1..(n + 1) PROVE y[i] = last[i]
    <3>1. last[i] = t[i]
      BY <1>2, <1>4, <2>1
    <3>2. CASE i = n + 1
      BY <1>2, <2>3, <3>1, <3>2
    <3>3. CASE i \in 1..n
      <4>1. r[i] = q[n - Kept(q) + i] /\ n - Kept(q) + i = i
        BY <1>1, <1>2, <2>1, <3>3
      <4>2. QED
        BY <1>2, <2>3, <3>1, <3>3, <4>1
    <3>4. QED
      BY <1>2, <3>2, <3>3
  <2>5. y = last
    BY <1>4, <2>1, <2>3, <2>4, SameElements
  <2>6. QED
    BY <2>2, <2>5 DEF y
<1>6. ASSUME ~(n < BreadthWindow) PROVE z = last
  <2>1. Kept(q) = BreadthWindow /\ Kept(t) = BreadthWindow
    BY <1>2, <1>3, <1>6 DEF Kept, n
  <2>2. z = Append(Tail(r), x) /\ r # <<>>
    BY <1>1, <1>3, <2>1 DEF Slide, z
  <2> DEFINE u == Tail(r)
             y == Append(u, x)
  <2>3. /\ u \in Seq(Int) /\ Len(u) = BreadthWindow - 1
        /\ \A i \in 1..(BreadthWindow - 1) : u[i] = r[i + 1]
    BY <1>1, <1>3, <2>1, <2>2, HeadTailProperties
  <2> HIDE DEF u
  <2>4. /\ y \in Seq(Int) /\ Len(y) = BreadthWindow
        /\ \A i \in 1..(BreadthWindow - 1) : y[i] = u[i]
        /\ y[BreadthWindow] = x
    <3>1. /\ y \in Seq(Int) /\ Len(y) = Len(u) + 1
          /\ \A i \in 1..Len(u) : y[i] = u[i]
          /\ y[Len(u) + 1] = x
      BY <2>3, AppendProperties
    <3> HIDE DEF y
    <3>2. Len(u) + 1 = BreadthWindow
      BY <1>3, <2>3
    <3>3. QED
      BY <2>3, <3>1, <3>2
  <2> HIDE DEF y
  <2>5. ASSUME NEW i \in 1..BreadthWindow PROVE y[i] = last[i]
    <3>1. last[i] = t[n + 1 - BreadthWindow + i]
      BY <1>4, <2>1
    <3>2. CASE i = BreadthWindow
      <4>1. n + 1 - BreadthWindow + i = n + 1
        BY <1>2, <1>3, <3>2
      <4>2. QED
        BY <1>2, <2>4, <3>1, <3>2, <4>1
    <3>3. CASE i \in 1..(BreadthWindow - 1)
      <4>1. i + 1 \in 1..Kept(q)
        BY <1>3, <2>1, <3>3
      <4>2. y[i] = r[i + 1]
        BY <2>3, <2>4, <3>3
      <4>3. r[i + 1] = q[n - Kept(q) + (i + 1)]
        BY <1>1, <4>1
      <4>4. /\ n - Kept(q) + (i + 1) = n + 1 - BreadthWindow + i
            /\ n + 1 - BreadthWindow + i \in 1..n
        BY <1>2, <1>3, <1>6, <2>1, <3>3
      <4>5. QED
        BY <1>2, <3>1, <4>2, <4>3, <4>4
    <3>4. QED
      BY <1>3, <3>2, <3>3
  <2>6. y = last
    BY <1>4, <2>1, <2>4, <2>5, SameElements
  <2>7. QED
    BY <2>2, <2>6 DEF y, u
<1>7. QED
  BY <1>5, <1>6 DEF r, t, z, last

\* The quotes before a new one that the breadth is compared with.
LEMMA BeforeIsRecent ==
  ASSUME NEW q \in Seq(Int), NEW x \in Int
  PROVE  LET t == Append(q, x)
             n == Len(t)
         IN /\ SubSeq(t, Max({1, n - BreadthWindow}), n - 1) = Recent(q)
            /\ Last(t) = x
<1> DEFINE t == Append(q, x)
           n == Len(t)
           lo == Max({1, n - BreadthWindow})
<1>1. /\ t \in Seq(Int) /\ n = Len(q) + 1 /\ Len(q) \in Nat /\ t[n] = x
      /\ \A i \in 1..Len(q) : t[i] = q[i]
  BY AppendProperties, LenProperties
<1>2. lo = Len(q) - Kept(q) + 1
  <2>1. n - BreadthWindow \in Int
    BY <1>1, BreadthAssumption
  <2>2. lo = IF 1 >= n - BreadthWindow THEN 1 ELSE n - BreadthWindow
    BY <2>1, GreaterOfTwo
  <2>3. BreadthWindow \in Nat /\ Len(q) \in Nat /\ n = Len(q) + 1
    BY <1>1, BreadthAssumption
  <2> HIDE DEF lo, t, n
  <2>4. CASE Len(q) < BreadthWindow
    BY <2>2, <2>3, <2>4 DEF Kept
  <2>5. CASE ~(Len(q) < BreadthWindow)
    BY <2>2, <2>3, <2>5 DEF Kept
  <2>6. QED
    BY <2>4, <2>5
<1>3. /\ Recent(q) \in Seq(Int) /\ Len(Recent(q)) = Kept(q)
      /\ Kept(q) \in Nat /\ Kept(q) <= Len(q)
      /\ \A i \in 1..Kept(q) : Recent(q)[i] = q[Len(q) - Kept(q) + i]
  BY RecentFacts
<1>4. Last(t) = x
  BY <1>1 DEF Last
<1> DEFINE z == SubSeq(t, lo, n - 1)
<1> HIDE DEF t, lo
<1>5. lo \in Int /\ n - 1 \in Int /\ \A i \in lo..(n - 1) : t[i] \in Int
  <2>1. \A i \in lo..(n - 1) : i \in 1..Len(t)
    BY <1>1, <1>2, <1>3
  <2>2. QED
    BY <1>1, <1>2, <1>3, <2>1
<1>6. /\ z \in Seq(Int) /\ Len(z) = Kept(q)
      /\ \A i \in 1..Kept(q) : z[i] = t[lo + i - 1]
  <2> DEFINE m == n - 1
  <2>1. PICK S : S = Int
    OBVIOUS
  <2>2. /\ SubSeq(t, lo, m) \in Seq(S)
        /\ Len(SubSeq(t, lo, m)) = IF lo <= m THEN m - lo + 1 ELSE 0
        /\ \A i \in 1..(m - lo + 1) : SubSeq(t, lo, m)[i] = t[lo + i - 1]
    <3>1. lo \in Int /\ m \in Int /\ \A i \in lo..m : t[i] \in S
      BY <1>5, <2>1
    <3> HIDE DEF m
    <3>2. QED
      BY <3>1, SubSeqProperties
  <2>3. m - lo + 1 = Kept(q)
    BY <1>1, <1>2, <1>3
  <2>4. QED
    BY <1>3, <1>5, <2>1, <2>2, <2>3
<1> HIDE DEF z
<1>7. z = Recent(q)
  <2>1. ASSUME NEW i \in 1..Kept(q) PROVE z[i] = Recent(q)[i]
    <3>1. Len(q) \in Nat /\ Kept(q) \in Nat /\ Kept(q) <= Len(q)
      BY <1>1, <1>3
    <3>2. lo + i - 1 = Len(q) - Kept(q) + i
      BY <1>2, <3>1
    <3>3. Len(q) - Kept(q) + i \in 1..Len(q)
      BY <3>1
    <3>4. z[i] = t[Len(q) - Kept(q) + i]
      BY <1>6, <3>2
    <3>5. t[Len(q) - Kept(q) + i] = q[Len(q) - Kept(q) + i]
      BY <1>1, <3>3
    <3>6. QED
      BY <1>3, <3>4, <3>5
  <2>2. QED
    BY <1>3, <1>6, <2>1, SameElements
<1>8. QED
  BY <1>4, <1>7 DEF t, lo, z

--------------------------------------------------------------------------------
(* The inductive invariant.                                                *)

\* The window of each symbol holds its last quotes; a breadth is a tally that
\* agrees with the quotes.
QuotesInStep ==
  /\ hist \in [Sym -> Seq(Int)] /\ quotes \in [Sym -> Seq(Int)]
  /\ shown \subseteq Sym
  /\ \A s \in Sym : hist[s] = Recent(quotes[s])

BreadthIsTally == breadth # None => breadth \in Tally

MarketInv == QuotesInStep /\ BreadthIsTally /\ BreadthMatchesQuotes

LEMMA SnapshotFacts ==
  ASSUME NEW rows \in Snapshot
  PROVE  /\ DOMAIN rows \subseteq Sym
         /\ \A s \in DOMAIN rows : rows[s].price \in Int
<1>1. PICK symbols \in SUBSET Sym :
        rows \in [symbols -> [price : {2^e : e \in Exponent}, change : {-1, 0, 1}]]
  BY DEF Snapshot
<1>2. \A e \in Exponent : 2^e \in Int
  BY ExponentAssumption
<1>3. \A s \in symbols : rows[s].price \in {2^e : e \in Exponent}
  BY <1>1
<1>4. QED
  BY <1>1, <1>2, <1>3

LEMMA BreadthFields ==
  ASSUME NEW rows, NEW h
  PROVE  Breadth(rows, h) =
           [total |-> Cardinality(DOMAIN rows),
            advancers |-> Cardinality({s \in DOMAIN rows : rows[s].change > 0}),
            decliners |-> Cardinality({s \in DOMAIN rows : rows[s].change < 0}),
            above |-> Cardinality({s \in DOMAIN rows : Above(rows[s].price, h[s])}),
            highs |-> Cardinality({s \in DOMAIN rows : NewHigh(rows[s].price, h[s])}),
            lows |-> Cardinality({s \in DOMAIN rows : NewLow(rows[s].price, h[s])})]
BY DEF Breadth

LEMMA SnapshotTally ==
  ASSUME NEW rows \in Snapshot, NEW h
  PROVE  Breadth(rows, h) \in Tally
<1>1. \A T \in SUBSET Sym : Cardinality(T) \in Nat
  BY SymbolAssumption, FS_Subset, FS_CardinalityType
<1>2. DOMAIN rows \subseteq Sym
  BY SnapshotFacts
<1> DEFINE D == DOMAIN rows
<1>3. /\ Cardinality(D) \in Nat
      /\ Cardinality({s \in D : rows[s].change > 0}) \in Nat
      /\ Cardinality({s \in D : rows[s].change < 0}) \in Nat
      /\ Cardinality({s \in D : Above(rows[s].price, h[s])}) \in Nat
      /\ Cardinality({s \in D : NewHigh(rows[s].price, h[s])}) \in Nat
      /\ Cardinality({s \in D : NewLow(rows[s].price, h[s])}) \in Nat
  <2> HIDE DEF D
  <2>1. D \subseteq Sym
    BY <1>2 DEF D
  <2>2. QED
    BY <1>1, <2>1
<1>4. QED
  BY <1>3, BreadthFields DEF Tally

\* What one snapshot counts, in terms of the windows before it.
Counted(rows, h) ==
  LET seen == {s \in DOMAIN rows : ToSet(h[s]) # {}}
      highs == {s \in seen : \A q \in ToSet(h[s]) : rows[s].price > q}
      lows == {s \in seen : \A q \in ToSet(h[s]) : rows[s].price < q}
      some == {s \in seen : \E q \in ToSet(h[s]) : rows[s].price > q}
  IN /\ Breadth(rows, h).highs = Cardinality(highs)
     /\ Breadth(rows, h).lows = Cardinality(lows)
     /\ Breadth(rows, h).above \in Cardinality(highs)..Cardinality(some)
     /\ Breadth(rows, h).total = Cardinality(DOMAIN rows)

LEMMA SnapshotCounts ==
  ASSUME NEW rows \in Snapshot, NEW h \in [Sym -> Seq(Int)]
  PROVE  Counted(rows, h)
<1> DEFINE D == DOMAIN rows
           seen == {s \in D : ToSet(h[s]) # {}}
           highs == {s \in seen : \A q \in ToSet(h[s]) : rows[s].price > q}
           lows == {s \in seen : \A q \in ToSet(h[s]) : rows[s].price < q}
           some == {s \in seen : \E q \in ToSet(h[s]) : rows[s].price > q}
           above == {s \in D : Above(rows[s].price, h[s])}
<1>1. D \subseteq Sym /\ \A s \in D : rows[s].price \in Int /\ h[s] \in Seq(Int)
  BY SnapshotFacts
<1> HIDE DEF D
<1>2. \A s \in D :
        /\ NewHigh(rows[s].price, h[s]) <=>
             ToSet(h[s]) # {} /\ \A q \in ToSet(h[s]) : rows[s].price > q
        /\ NewLow(rows[s].price, h[s]) <=>
             ToSet(h[s]) # {} /\ \A q \in ToSet(h[s]) : rows[s].price < q
        /\ NewHigh(rows[s].price, h[s]) => Above(rows[s].price, h[s])
        /\ Above(rows[s].price, h[s]) =>
             ToSet(h[s]) # {} /\ \E q \in ToSet(h[s]) : rows[s].price > q
  BY <1>1, WindowFacts
<1>3. highs = {s \in D : NewHigh(rows[s].price, h[s])}
  BY <1>2
<1>4. lows = {s \in D : NewLow(rows[s].price, h[s])}
  BY <1>2
<1>5. highs \subseteq above /\ above \subseteq some
  BY <1>2, <1>3
<1>6. highs \subseteq Sym /\ above \subseteq Sym /\ some \subseteq Sym
  BY <1>1
<1>7. /\ Breadth(rows, h).highs = Cardinality({s \in D : NewHigh(rows[s].price, h[s])})
      /\ Breadth(rows, h).lows = Cardinality({s \in D : NewLow(rows[s].price, h[s])})
      /\ Breadth(rows, h).above = Cardinality(above)
      /\ Breadth(rows, h).total = Cardinality(D)
  BY BreadthFields DEF D
<1> HIDE DEF highs, lows, above, some
<1>8. /\ Cardinality(highs) \in Nat /\ Cardinality(above) \in Nat /\ Cardinality(some) \in Nat
      /\ Cardinality(highs) <= Cardinality(above) /\ Cardinality(above) <= Cardinality(some)
  BY <1>5, <1>6, SymbolAssumption, FS_Subset, FS_CardinalityType
<1>9. /\ Breadth(rows, h).highs = Cardinality(highs)
      /\ Breadth(rows, h).lows = Cardinality(lows)
      /\ Breadth(rows, h).above \in Cardinality(highs)..Cardinality(some)
      /\ Breadth(rows, h).total = Cardinality(D)
  BY <1>3, <1>4, <1>7, <1>8
<1>10. QED
  BY <1>9 DEF Counted, D, highs, lows, some

--------------------------------------------------------------------------------
(* The invariant holds, step by step.                                      *)

LEMMA RecentOfNothing == Recent(<<>>) = <<>>
<1> DEFINE e == <<>>
<1>1. e \in Seq(Int) /\ Len(e) = 0
  OBVIOUS
<1>2. Kept(e) = 0
  BY <1>1, BreadthAssumption DEF Kept
<1> HIDE DEF e
<1>3. Len(Recent(e)) = 0 /\ Recent(e) \in Seq(Int)
  BY <1>1, <1>2, RecentFacts
<1>4. Recent(e) = <<>>
  BY <1>3, EmptySeq
<1>5. QED
  BY <1>4 DEF e

LEMMA InitOK == Init => MarketInv
<1> SUFFICES ASSUME Init PROVE MarketInv
  OBVIOUS
<1>1. \A s \in Sym : hist[s] = Recent(quotes[s])
  BY RecentOfNothing DEF Init
<1>2. QED
  BY <1>1 DEF Init, MarketInv, QuotesInStep, BreadthIsTally, BreadthMatchesQuotes

LEMMA StartOK == Clean => MarketInv'
<1> SUFFICES ASSUME Clean PROVE MarketInv'
  OBVIOUS
<1>1. \A s \in Sym : hist'[s] = Recent(quotes'[s])
  BY RecentOfNothing DEF Clean
<1>2. breadth' = None /\ shown' = {} /\ hist' \in [Sym -> Seq(Int)] /\ quotes' \in [Sym -> Seq(Int)]
  BY DEF Clean
<1>3. QED
  BY <1>1, <1>2 DEF MarketInv, QuotesInStep, BreadthIsTally, BreadthMatchesQuotes

LEMMA KeepUntouched ==
  ASSUME MarketInv, UNCHANGED <<hist, breadth, quotes, shown>>
  PROVE  MarketInv'
BY DEF MarketInv, QuotesInStep, BreadthIsTally, BreadthMatchesQuotes

LEMMA KeepSnapshot ==
  ASSUME MarketInv, NEW rows \in Snapshot, HandleSnapshot(rows)
  PROVE  MarketInv'
<1>1. /\ hist \in [Sym -> Seq(Int)] /\ quotes \in [Sym -> Seq(Int)]
      /\ \A s \in Sym : hist[s] = Recent(quotes[s])
  BY DEF MarketInv, QuotesInStep
<1>2. DOMAIN rows \subseteq Sym /\ \A s \in DOMAIN rows : rows[s].price \in Int
  BY SnapshotFacts
<1>3. /\ breadth' = Breadth(rows, hist) /\ shown' = DOMAIN rows
      /\ hist' = [s \in Sym |-> IF s \in DOMAIN rows
                                THEN Slide(hist[s], rows[s].price, BreadthWindow) ELSE hist[s]]
      /\ quotes' = [s \in Sym |-> IF s \in DOMAIN rows THEN Append(quotes[s], rows[s].price)
                                  ELSE quotes[s]]
  BY <1>1 DEF HandleSnapshot, Remember
<1>4. ASSUME NEW s \in Sym
      PROVE  quotes'[s] \in Seq(Int) /\ hist'[s] \in Seq(Int) /\ hist'[s] = Recent(quotes'[s])
  <2>1. CASE s \in DOMAIN rows
    <3>1. quotes[s] \in Seq(Int) /\ rows[s].price \in Int /\ hist[s] = Recent(quotes[s])
      BY <1>1, <1>2, <2>1
    <3>2. quotes'[s] = Append(quotes[s], rows[s].price) /\ quotes'[s] \in Seq(Int)
      BY <1>3, <2>1, <3>1, AppendProperties
    <3>3. hist'[s] = Recent(quotes'[s])
      BY <1>3, <2>1, <3>1, <3>2, SlideKeepsRecent
    <3>4. QED
      BY <3>2, <3>3, RecentFacts
  <2>2. CASE s \notin DOMAIN rows
    BY <1>1, <1>3, <2>2
  <2>3. QED
    BY <2>1, <2>2
<1>5. QuotesInStep'
  BY <1>2, <1>3, <1>4 DEF QuotesInStep
<1>6. BreadthIsTally'
  BY <1>3, SnapshotTally DEF BreadthIsTally
<1>7. BreadthMatchesQuotes'
  <2> DEFINE Before(s) == LET n == Len(quotes'[s]) IN
               ToSet(SubSeq(quotes'[s], Max({1, n - BreadthWindow}), n - 1))
             seen == {s \in shown' : Before(s) # {}}
             highs == {s \in seen : \A q \in Before(s) : Last(quotes'[s]) > q}
             lows == {s \in seen : \A q \in Before(s) : Last(quotes'[s]) < q}
             some == {s \in seen : \E q \in Before(s) : Last(quotes'[s]) > q}
  <2>1. ASSUME NEW s \in DOMAIN rows
        PROVE  Before(s) = ToSet(hist[s]) /\ Last(quotes'[s]) = rows[s].price
    <3>1. /\ s \in Sym /\ quotes[s] \in Seq(Int) /\ rows[s].price \in Int
          /\ hist[s] = Recent(quotes[s]) /\ quotes'[s] = Append(quotes[s], rows[s].price)
      BY <1>1, <1>2, <1>3
    <3>2. QED
      BY <3>1, BeforeIsRecent
  <2> DEFINE seen0 == {s \in DOMAIN rows : ToSet(hist[s]) # {}}
             highs0 == {s \in seen0 : \A q \in ToSet(hist[s]) : rows[s].price > q}
             lows0 == {s \in seen0 : \A q \in ToSet(hist[s]) : rows[s].price < q}
             some0 == {s \in seen0 : \E q \in ToSet(hist[s]) : rows[s].price > q}
  <2>2. /\ breadth'.highs = Cardinality(highs0) /\ breadth'.lows = Cardinality(lows0)
        /\ breadth'.above \in Cardinality(highs0)..Cardinality(some0)
        /\ breadth'.total = Cardinality(DOMAIN rows)
    <3>1. /\ Breadth(rows, hist).highs = Cardinality(highs0)
          /\ Breadth(rows, hist).lows = Cardinality(lows0)
          /\ Breadth(rows, hist).above \in Cardinality(highs0)..Cardinality(some0)
          /\ Breadth(rows, hist).total = Cardinality(DOMAIN rows)
      <4>1. Counted(rows, hist)
        BY <1>1, SnapshotCounts
      <4>2. QED
        BY <4>1 DEF Counted
    <3> HIDE DEF highs0, lows0, some0
    <3>2. QED
      BY <1>3, <3>1
  <2> HIDE DEF Before
  <2>3. highs = highs0 /\ lows = lows0 /\ some = some0
    <3>1. shown' = DOMAIN rows
      BY <1>3
    <3>2. highs = highs0
      BY <2>1, <3>1
    <3>3. lows = lows0
      BY <2>1, <3>1
    <3>4. some = some0
      BY <2>1, <3>1
    <3>5. QED
      BY <3>2, <3>3, <3>4
  <2> HIDE DEF highs, lows, some, highs0, lows0, some0
  <2>4. /\ breadth'.highs = Cardinality(highs) /\ breadth'.lows = Cardinality(lows)
        /\ breadth'.above \in Cardinality(highs)..Cardinality(some)
        /\ breadth'.total = Cardinality(shown')
    BY <1>3, <2>2, <2>3
  <2>5. QED
    BY <2>4 DEF BreadthMatchesQuotes, Before, highs, lows, some
<1>8. QED
  BY <1>5, <1>6, <1>7 DEF MarketInv

LEMMA StepOK == MarketInv /\ [Next]_vars => MarketInv'
<1> SUFFICES ASSUME MarketInv, [Next]_vars PROVE MarketInv'
  OBVIOUS
<1>1. ASSUME NEW s \in Sym, NEW c \in Candle, HandleCandle(s, c) PROVE MarketInv'
  BY <1>1, KeepUntouched DEF HandleCandle
<1>2. ASSUME NEW rows \in Snapshot, HandleSnapshot(rows) PROVE MarketInv'
  BY <1>2, KeepSnapshot
<1>3. CASE LoopStep
  BY <1>3, KeepUntouched DEF LoopStep, Refresh, Inserted, InsertFails, engine, history
<1>4. CASE Start
  BY <1>4, StartOK DEF Start
<1>5. CASE Stop
  BY <1>5, KeepUntouched DEF Stop, engine, history
<1>6. CASE UNCHANGED vars
  BY <1>6, KeepUntouched DEF vars, engine, history
<1>7. QED
  BY <1>1, <1>2, <1>3, <1>4, <1>5, <1>6 DEF Next

--------------------------------------------------------------------------------
(* The theorems.                                                           *)

\* handle_snapshot: the windows hold the last quotes of each symbol, through
\* snapshots that leave symbols out, restarts, and refreshes in between.
THEOREM Invariance == Spec => []MarketInv
<1>1. QED
  BY InitOK, StepOK, PTL DEF Spec

\* BreadthEngine.update compares a price with those before it and never with
\* itself, whatever the window and the prices: the highs and lows it counts are
\* those over the last quotes, and a symbol above its mean is above one of them.
THEOREM BreadthOfQuotes == Spec => []BreadthMatchesQuotes
<1>1. MarketInv => BreadthMatchesQuotes
  BY DEF MarketInv
<1>2. QED
  BY <1>1, Invariance, PTL

\* RegimeEngine.evaluate and compute_health_score are monotone: with more
\* advancers, fewer decliners, more symbols above trend or more trends up, the
\* regime is no nearer to risk_off and the clamped, rounded score no lower.
THEOREM BetterIsNoWorse == Spec => []ImprovementNeverHurts
<1>1. MarketInv => ImprovementNeverHurts
  <2> DEFINE vol == VolRegime(AverageVol)
             up == Pointing("up")
             down == Pointing("down")
  <2> SUFFICES ASSUME MarketInv, breadth # None, Trends > 0,
                      NEW b \in Better(breadth), NEW u \in up..Trends, NEW d \in 0..down
               PROVE  /\ Rank(Classify(b, u, d)) >= Rank(Classify(breadth, up, down))
                      /\ Health(b, u, Trends, vol) >= Health(breadth, up, Trends, vol)
    BY DEF ImprovementNeverHurts
  <2>1. breadth \in Tally
    BY DEF MarketInv, BreadthIsTally
  <2>2. up \in Nat /\ down \in Nat /\ Trends \in Nat
    <3>1. \A T \in SUBSET Sym : Cardinality(T) \in Nat
      BY SymbolAssumption, FS_Subset, FS_CardinalityType
    <3>2. QED
      BY <3>1 DEF Pointing, Trends
  <2>3. b \in Tally /\ NoWorse(breadth, b)
    <3>1. PICK m \in (breadth.advancers..breadth.total) \X (0..breadth.decliners)
                       \X (breadth.above..breadth.total) :
            b = [breadth EXCEPT !.advancers = m[1], !.decliners = m[2], !.above = m[3]]
      BY DEF Better
    <3>2. /\ breadth.advancers \in Nat /\ breadth.decliners \in Nat
          /\ breadth.above \in Nat /\ breadth.total \in Nat
      BY <2>1 DEF Tally
    <3>3. /\ m[1] \in Nat /\ m[2] \in Nat /\ m[3] \in Nat
          /\ breadth.advancers <= m[1] /\ m[2] <= breadth.decliners /\ breadth.above <= m[3]
      BY <3>1, <3>2
    <3>4. /\ b \in Tally /\ b.total = breadth.total
          /\ b.advancers = m[1] /\ b.decliners = m[2] /\ b.above = m[3]
      BY <2>1, <3>1, <3>3 DEF Tally
    <3>5. QED
      BY <3>3, <3>4 DEF NoWorse
  <2>4. u \in Nat /\ up <= u /\ d \in Nat /\ d <= down
    BY <2>2
  <2> HIDE DEF vol, up, down
  <2>5. Rank(Classify(b, u, d)) >= Rank(Classify(breadth, up, down))
    BY <2>1, <2>2, <2>3, <2>4, ClassNoWorse
  <2>6. Health(b, u, Trends, vol) >= Health(breadth, up, Trends, vol)
    BY <2>1, <2>2, <2>3, <2>4, HealthNoWorse
  <2>7. QED
    BY <2>5, <2>6 DEF vol, up, down
<1>2. QED
  BY <1>1, Invariance, PTL

--------------------------------------------------------------------------------
(* Powers.                                                                 *)

\* The powers of a base exist and are what their recursion says.
LEMMA PowersFacts ==
  ASSUME NEW b \in Int
  PROVE  /\ Powers(b)[0] = 1
         /\ \A k \in Nat : Powers(b)[k] \in Int /\ Powers(b)[k + 1] = b * Powers(b)[k]
<1> DEFINE Recursion(f) == f = [k \in Nat |-> IF k = 0 THEN 1 ELSE b * f[k - 1]]
           UpTo(F, n) == /\ F \in [0..n -> Int] /\ F[0] = 1
                         /\ \A k \in 1..n : F[k] = b * F[k - 1]
<1>1. \A n \in Nat : \E F : UpTo(F, n)
  <2> DEFINE Reached == {n \in Nat : \E F : UpTo(F, n)}
  <2>1. 0 \in Reached
    <3>1. UpTo([k \in 0..0 |-> 1], 0)
      OBVIOUS
    <3>2. QED
      BY <3>1
  <2>2. ASSUME NEW n \in Nat, n \in Reached PROVE n + 1 \in Reached
    <3>1. PICK F : UpTo(F, n)
      BY <2>2
    <3> DEFINE x == b * F[n]
               G == [k \in 0..(n + 1) |-> IF k = n + 1 THEN x ELSE F[k]]
    <3>2. /\ F \in [0..n -> Int] /\ F[0] = 1 /\ n \in 0..n /\ 0 \in 0..(n + 1)
          /\ 0 # n + 1 /\ n # n + 1
      BY <3>1
    <3>3. x \in Int
      BY <3>2
    <3>4. G[0] = 1 /\ G[n + 1] = x /\ \A k \in 0..n : G[k] = F[k]
      BY <3>2
    <3>5. G \in [0..(n + 1) -> Int]
      <4> HIDE DEF x
      <4>1. \A k \in 0..(n + 1) : k # n + 1 => k \in 0..n
        OBVIOUS
      <4>2. QED
        BY <3>2, <3>3, <4>1
    <3>6. ASSUME NEW k \in 1..(n + 1) PROVE G[k] = b * G[k - 1]
      <4> HIDE DEF G
      <4>1. CASE k = n + 1
        <5>1. k - 1 = n
          BY <4>1
        <5>2. QED
          BY <3>2, <3>4, <4>1, <5>1
      <4>2. CASE k # n + 1
        <5>1. k \in 1..n /\ k \in 0..n /\ k - 1 \in 0..n
          BY <4>2
        <5>2. QED
          BY <3>1, <3>4, <5>1
      <4>3. QED
        BY <4>1, <4>2
    <3>7. n + 1 \in Nat
      OBVIOUS
    <3> HIDE DEF G
    <3>8. UpTo(G, n + 1)
      BY <3>2, <3>4, <3>5, <3>6
    <3> HIDE DEF UpTo
    <3>9. QED
      BY <3>7, <3>8
  <2> HIDE DEF Reached
  <2>3. Nat \subseteq Reached
    BY <2>1, <2>2, NatAll
  <2>4. QED
    BY <2>3 DEF Reached
<1>2. ASSUME NEW F, NEW n \in Nat, UpTo(F, n), NEW G, NEW m \in Nat, UpTo(G, m), n <= m
      PROVE  F[n] = G[n]
  <2> DEFINE Agreed == {k \in Nat : k <= n => F[k] = G[k]}
  <2>1. 0 \in Agreed
    BY <1>2
  <2>2. ASSUME NEW k \in Nat, k \in Agreed PROVE k + 1 \in Agreed
    <3> SUFFICES ASSUME k + 1 <= n PROVE F[k + 1] = G[k + 1]
      OBVIOUS
    <3>1. k + 1 \in 1..n /\ k + 1 \in 1..m /\ (k + 1) - 1 = k
      BY <1>2
    <3>2. F[k + 1] = b * F[(k + 1) - 1] /\ G[k + 1] = b * G[(k + 1) - 1]
      BY <1>2, <3>1
    <3>3. F[k] = G[k]
      BY <2>2
    <3>4. QED
      BY <3>1, <3>2, <3>3
  <2> HIDE DEF Agreed
  <2>3. Nat \subseteq Agreed
    BY <2>1, <2>2, NatAll
  <2>4. QED
    BY <2>3 DEF Agreed
<1> DEFINE Best(n) == CHOOSE F : UpTo(F, n)
           P == [n \in Nat |-> Best(n)[n]]
<1>3. \A n \in Nat : UpTo(Best(n), n)
  BY <1>1
<1> HIDE DEF Best
<1>4. P[0] = 1
  BY <1>3
<1>6. ASSUME NEW n \in Nat PROVE P[n + 1] = b * P[n]
  <2>1. n + 1 \in Nat /\ n <= n + 1
    OBVIOUS
  <2> HIDE DEF UpTo
  <2>2. UpTo(Best(n), n) /\ UpTo(Best(n + 1), n + 1)
    BY <1>3, <2>1
  <2>3. Best(n)[n] = Best(n + 1)[n]
    BY <1>2, <2>1, <2>2
  <2>4. Best(n + 1)[n + 1] = b * Best(n + 1)[(n + 1) - 1]
    <3>1. n + 1 \in 1..(n + 1)
      OBVIOUS
    <3>2. QED
      BY <2>2, <3>1 DEF UpTo
  <2>5. (n + 1) - 1 = n
    OBVIOUS
  <2>6. P[n] = Best(n)[n] /\ P[n + 1] = Best(n + 1)[n + 1]
    BY <2>1
  <2>7. QED
    BY <2>3, <2>4, <2>5, <2>6
<1>7. Recursion(P)
  <2>1. P = [n \in Nat |-> P[n]]
    OBVIOUS
  <2> HIDE DEF P
  <2>2. ASSUME NEW n \in Nat PROVE P[n] = IF n = 0 THEN 1 ELSE b * P[n - 1]
    <3>1. CASE n = 0
      BY <1>4, <3>1
    <3>2. CASE n # 0
      <4>1. n - 1 \in Nat /\ (n - 1) + 1 = n
        BY <3>2
      <4>2. P[(n - 1) + 1] = b * P[n - 1]
        BY <1>6, <4>1
      <4>3. QED
        BY <3>2, <4>1, <4>2
    <3>3. QED
      BY <3>1, <3>2
  <2>3. QED
    BY <2>1, <2>2
<1>8. Powers(b) = CHOOSE f : Recursion(f)
  BY DEF Powers
<1> HIDE DEF P, Recursion
<1>9. Recursion(Powers(b))
  BY <1>7, <1>8
<1> DEFINE W == Powers(b)
<1>10. W[0] = 1 /\ \A k \in Nat : W[k + 1] = b * W[k]
  <2>1. W = [k \in Nat |-> IF k = 0 THEN 1 ELSE b * W[k - 1]]
    BY <1>9 DEF Recursion
  <2> HIDE DEF W
  <2>2. W[0] = 1
    BY <2>1
  <2>3. ASSUME NEW k \in Nat PROVE W[k + 1] = b * W[k]
    <3>1. k + 1 \in Nat /\ k + 1 # 0 /\ (k + 1) - 1 = k
      OBVIOUS
    <3>2. W[k + 1] = b * W[(k + 1) - 1]
      BY <2>1, <3>1
    <3>3. QED
      BY <3>1, <3>2
  <2>4. QED
    BY <2>2, <2>3
<1> HIDE DEF W
<1> DEFINE Whole0 == {k \in Nat : W[k] \in Int}
<1>11. 0 \in Whole0
  BY <1>10
<1>12. ASSUME NEW k \in Nat, k \in Whole0 PROVE k + 1 \in Whole0
  BY <1>10, <1>12
<1> HIDE DEF Whole0
<1>13. Nat \subseteq Whole0
  BY <1>11, <1>12, NatAll
<1>14. \A k \in Nat : W[k] \in Int
  BY <1>13 DEF Whole0
<1>15. QED
  BY <1>10, <1>14 DEF W

--------------------------------------------------------------------------------
(* The averages in closed form.                                            *)

\* The powers that weigh the inputs of an average over p candles.
LEMMA PeriodPowers ==
  ASSUME NEW p \in Nat
  PROVE  /\ Powers(p - 1)[0] = 1 /\ Powers(p)[0] = 1 /\ Powers(p + 1)[0] = 1
         /\ \A k \in Nat : /\ Powers(p - 1)[k] \in Int /\ Powers(p)[k] \in Int
                           /\ Powers(p + 1)[k] \in Int
                           /\ Powers(p - 1)[k + 1] = (p - 1) * Powers(p - 1)[k]
                           /\ Powers(p)[k + 1] = p * Powers(p)[k]
                           /\ Powers(p + 1)[k + 1] = (p + 1) * Powers(p + 1)[k]
<1> DEFINE less == p - 1
           more == p + 1
<1>1. less \in Int /\ p \in Int /\ more \in Int
  OBVIOUS
<1> HIDE DEF less, more
<1>2. /\ Powers(less)[0] = 1 /\ Powers(p)[0] = 1 /\ Powers(more)[0] = 1
      /\ \A k \in Nat : /\ Powers(less)[k] \in Int /\ Powers(p)[k] \in Int
                        /\ Powers(more)[k] \in Int
                        /\ Powers(less)[k + 1] = less * Powers(less)[k]
                        /\ Powers(p)[k + 1] = p * Powers(p)[k]
                        /\ Powers(more)[k + 1] = more * Powers(more)[k]
  BY <1>1, PowersFacts
<1>3. QED
  BY <1>2 DEF less, more

\* What each input behind the seed adds to Wilder's average.
WilderTerms(inputs) ==
  [i \in 1..(Len(inputs) - WilderPeriod) |->
     Powers(WilderPeriod - 1)[Len(inputs) - WilderPeriod - i] * Powers(WilderPeriod)[i]
       * inputs[WilderPeriod + i]]

LEMMA WilderTermsFacts ==
  ASSUME NEW inputs \in Seq(Int), Len(inputs) >= WilderPeriod
  PROVE  /\ WilderTerms(inputs) \in Seq(Int)
         /\ Len(WilderTerms(inputs)) = Len(inputs) - WilderPeriod
<1> DEFINE n == Len(inputs)
           p == WilderPeriod
           m == n - p
           A == Powers(p - 1)
           B == Powers(p)
           term(i) == A[n - p - i] * B[i] * inputs[p + i]
<1>1. n \in Nat /\ p \in Nat /\ p - 1 \in Int /\ m \in Nat /\ p >= 1
  BY LenProperties, PeriodAssumption
<1>0. \A k \in Nat : A[k] \in Int /\ B[k] \in Int
  BY <1>1, PeriodPowers
<1>2. \A i \in 1..m : term(i) \in Int
  <2> SUFFICES ASSUME NEW i \in 1..m PROVE term(i) \in Int
    OBVIOUS
  <2>1. n - p - i \in Nat /\ i \in Nat /\ p + i \in 1..n
    BY <1>1
  <2>2. A[n - p - i] \in Int /\ B[i] \in Int
    BY <1>0, <2>1
  <2>3. inputs[p + i] \in Int
    BY <2>1
  <2> DEFINE a == A[n - p - i]
             b == B[i]
             y == inputs[p + i]
  <2>4. a \in Int /\ b \in Int /\ y \in Int
    BY <2>2, <2>3
  <2>5. term(i) = a * b * y
    OBVIOUS
  <2> HIDE DEF a, b, y, term
  <2>6. a * b * y \in Int
    BY <2>4
  <2>7. QED
    BY <2>5, <2>6
<1>3. WilderTerms(inputs) = [i \in 1..m |-> term(i)]
  BY DEF WilderTerms
<1> HIDE DEF term, m, A, B
<1>4. WilderTerms(inputs) \in Seq(Int) /\ Len(WilderTerms(inputs)) = m
  BY <1>1, <1>2, <1>3, IsASeq
<1>5. QED
  BY <1>4 DEF m

LEMMA WilderTermsAppend ==
  ASSUME NEW inputs \in Seq(Int), NEW x \in Int, Len(inputs) >= WilderPeriod
  PROVE  SeqSum(WilderTerms(Append(inputs, x)))
           = (WilderPeriod - 1) * SeqSum(WilderTerms(inputs))
               + Powers(WilderPeriod)[Len(inputs) - WilderPeriod + 1] * x
<1> DEFINE n == Len(inputs)
           p == WilderPeriod
           more == Append(inputs, x)
           s == WilderTerms(inputs)
           t == WilderTerms(more)
           A == Powers(p - 1)
           B == Powers(p)
<1>1. n \in Nat /\ p \in Nat /\ p - 1 \in Int /\ p >= 1 /\ n - p \in Nat
  BY LenProperties, PeriodAssumption
<1>0. /\ A[0] = 1
      /\ \A k \in Nat : A[k] \in Int /\ A[k + 1] = (p - 1) * A[k] /\ B[k] \in Int
  BY <1>1, PeriodPowers
<1>2. /\ more \in Seq(Int) /\ Len(more) = n + 1 /\ more[n + 1] = x
      /\ \A k \in 1..n : more[k] = inputs[k] /\ inputs[k] \in Int
  BY AppendProperties
<1>3. s \in Seq(Int) /\ Len(s) = n - p
  BY WilderTermsFacts
<1> HIDE DEF more, n, A, B
<1>4. t \in Seq(Int) /\ Len(t) = n + 1 - p
  <2>1. Len(more) >= WilderPeriod
    BY <1>1, <1>2
  <2>2. QED
    <3>1. t \in Seq(Int) /\ Len(t) = Len(more) - WilderPeriod
      BY <1>2, <2>1, WilderTermsFacts
    <3>2. QED
      BY <1>1, <1>2, <3>1
<1>5. ASSUME NEW k \in 1..(n - p) PROVE t[k] = (p - 1) * s[k]
  <2> DEFINE a == A[n - p - k]
             b == B[k]
             y == inputs[p + k]
  <2>1. /\ n - p - k \in Nat /\ (n - p - k) + 1 = n + 1 - p - k /\ k \in Nat
        /\ p + k \in 1..n /\ k \in 1..(n + 1 - p)
    BY <1>1
  <2>2. a \in Int /\ A[n + 1 - p - k] = (p - 1) * a /\ b \in Int
    BY <1>0, <2>1
  <2>3. y \in Int /\ more[p + k] = y
    BY <1>2, <2>1
  <2>4. s[k] = a * b * y
    BY DEF WilderTerms, n, A, B
  <2>5. t[k] = ((p - 1) * a) * b * y
    <3>1. t[k] = A[n + 1 - p - k] * b * more[p + k]
      <4>1. Len(more) - p = n + 1 - p
        BY <1>1, <1>2
      <4>2. k \in 1..(Len(more) - p)
        BY <2>1, <4>1
      <4>3. t[k] = Powers(p - 1)[Len(more) - p - k] * b * more[p + k]
        BY <4>2 DEF WilderTerms, B
      <4>4. QED
        BY <1>1, <1>2, <4>1, <4>3 DEF A
    <3>2. QED
      BY <2>2, <2>3, <3>1
  <2> HIDE DEF a, b, y
  <2>6. ((p - 1) * a) * b * y = (p - 1) * (a * b * y)
    BY <1>1, <2>2, <2>3
  <2>7. QED
    BY <2>4, <2>5, <2>6
<1>6. t[n + 1 - p] = Powers(p)[n - p + 1] * x
  <2>1. /\ n + 1 - p \in 1..(n + 1 - p) /\ n + 1 - p = n - p + 1 /\ p + (n + 1 - p) = n + 1
        /\ n + 1 - p - (n + 1 - p) = 0
    BY <1>1
  <2>2. B[n - p + 1] \in Int
    BY <1>0, <1>1
  <2>3. t[n + 1 - p] = A[n + 1 - p - (n + 1 - p)] * B[n + 1 - p] * more[p + (n + 1 - p)]
    <3> DEFINE k == n + 1 - p
    <3>1. k \in 1..(Len(more) - p) /\ Len(more) - p - k = n + 1 - p - k
      BY <1>1, <1>2
    <3> HIDE DEF k
    <3>2. t[k] = Powers(p - 1)[Len(more) - p - k] * Powers(p)[k] * more[p + k]
      BY <3>1 DEF WilderTerms
    <3>3. QED
      BY <3>1, <3>2 DEF k, A, B
  <2>4. t[n + 1 - p] = A[0] * B[n - p + 1] * x
    BY <1>2, <2>1, <2>3
  <2>5. QED
    BY <1>0, <2>2, <2>4 DEF B
<1> HIDE DEF s, t
<1>7. SeqSum(t) = (p - 1) * SeqSum(s) + t[Len(t)]
  <2>1. Len(t) = Len(s) + 1
    BY <1>1, <1>3, <1>4
  <2>2. QED
    BY <1>1, <1>3, <1>4, <1>5, <2>1, ScaledSum
<1>8. QED
  BY <1>4, <1>6, <1>7 DEF s, t, more, n

\* A calculator with Wilder's smoothing that has been fed some inputs.
Averaged(w, inputs) ==
  /\ w \in Averager /\ w.avg = WilderMean(inputs)
  /\ Len(inputs) < WilderPeriod => w.seed = inputs

LEMMA SeedSum ==
  ASSUME NEW inputs \in Seq(Int), NEW x \in Int
  PROVE  /\ Len(inputs) >= WilderPeriod =>
              SubSeq(Append(inputs, x), 1, WilderPeriod) = SubSeq(inputs, 1, WilderPeriod)
         /\ Len(inputs) + 1 = WilderPeriod =>
              SubSeq(Append(inputs, x), 1, WilderPeriod) = Append(inputs, x)
         /\ Len(inputs) >= WilderPeriod => SeqSum(SubSeq(inputs, 1, WilderPeriod)) \in Int
<1> DEFINE n == Len(inputs)
           p == WilderPeriod
           more == Append(inputs, x)
<1>1. n \in Nat /\ p \in Nat /\ p >= 1
  BY LenProperties, PeriodAssumption
<1>2. /\ more \in Seq(Int) /\ Len(more) = n + 1
      /\ \A k \in 1..n : more[k] = inputs[k]
  BY AppendProperties
<1> HIDE DEF n, more
<1>3. ASSUME n >= p
      PROVE  SubSeq(more, 1, p) = SubSeq(inputs, 1, p) /\ SubSeq(inputs, 1, p) \in Seq(Int)
  <2> DEFINE s == SubSeq(more, 1, p)
             t == SubSeq(inputs, 1, p)
  <2>1. 1 \in 1..(Len(more) + 1) /\ p \in 0..Len(more) /\ 1 \in 1..(n + 1) /\ p \in 0..n
    BY <1>1, <1>2, <1>3
  <2>2. s \in Seq(Int) /\ Len(s) = p /\ \A k \in 1..p : s[k] = more[k]
    BY <1>1, <1>2, <1>3, <2>1, SubSeqProperties
  <2>3. t \in Seq(Int) /\ Len(t) = p /\ \A k \in 1..p : t[k] = inputs[k]
    BY <1>1, <1>3, <2>1, SubSeqProperties DEF n
  <2> HIDE DEF s, t
  <2>4. \A k \in 1..p : s[k] = t[k]
    <3>1. \A k \in 1..p : k \in 1..n
      BY <1>1, <1>3
    <3>2. QED
      BY <1>2, <2>2, <2>3, <3>1
  <2>5. s = t
    BY <2>2, <2>3, <2>4, SeqEqual
  <2>6. QED
    BY <2>3, <2>5 DEF s, t
<1>4. ASSUME n + 1 = p PROVE SubSeq(more, 1, p) = more
  BY <1>1, <1>2, <1>4, SubSeqFull
<1>5. ASSUME n >= p PROVE SeqSum(SubSeq(inputs, 1, p)) \in Int
  BY <1>3, <1>5, SumFacts
<1>6. QED
  BY <1>3, <1>4, <1>5 DEF n, more

\* Wilder's average in closed form takes one more input as the code does.
LEMMA WilderMeanStep ==
  ASSUME NEW inputs \in Seq(Int), NEW x \in Int
  PROVE  /\ Len(inputs) < WilderPeriod => WilderMean(inputs) = None
         /\ Len(inputs) + 1 = WilderPeriod =>
              WilderMean(Append(inputs, x))
                = [num |-> SeqSum(Append(inputs, x)), den |-> WilderPeriod]
         /\ Len(inputs) >= WilderPeriod =>
              /\ WilderMean(inputs) \in Fraction
              /\ WilderMean(Append(inputs, x))
                   = [num |-> WilderMean(inputs).num * (WilderPeriod - 1)
                                + x * WilderMean(inputs).den,
                      den |-> WilderMean(inputs).den * WilderPeriod]
<1> DEFINE n == Len(inputs)
           p == WilderPeriod
           more == Append(inputs, x)
           A == Powers(p - 1)
           B == Powers(p)
           Closed(seq) == [num |-> A[Len(seq) - p] * SeqSum(SubSeq(seq, 1, p))
                                     + SeqSum(WilderTerms(seq)),
                           den |-> B[Len(seq) - p + 1]]
<1>1. n \in Nat /\ p \in Nat /\ p >= 1
  BY LenProperties, PeriodAssumption
<1>2. /\ A[0] = 1 /\ B[0] = 1
      /\ \A k \in Nat : /\ A[k] \in Int /\ A[k + 1] = (p - 1) * A[k]
                        /\ B[k] \in Int /\ B[k + 1] = p * B[k]
  BY <1>1, PeriodPowers
<1>3. more \in Seq(Int) /\ Len(more) = n + 1
  BY AppendProperties
<1>4. \A seq : WilderMean(seq) = IF Len(seq) < p THEN None ELSE Closed(seq)
  BY DEF WilderMean, WilderTerms, SeqSum, Total
<1>5. ASSUME n + 1 = p PROVE WilderMean(more) = [num |-> SeqSum(more), den |-> p]
  <2>1. Len(more) - p = 0 /\ Len(more) - p + 1 = 1 /\ ~(Len(more) < p)
    BY <1>1, <1>3, <1>5
  <2>2. SeqSum(SubSeq(more, 1, p)) = SeqSum(more) /\ SeqSum(more) \in Int
    BY <1>3, <1>5, SeedSum, SumFacts
  <2>3. SeqSum(WilderTerms(more)) = 0
    <3> HIDE DEF more
    <3>1. WilderTerms(more) \in Seq(Int) /\ Len(WilderTerms(more)) = 0
      <4>1. Len(more) >= WilderPeriod
        BY <1>1, <1>3, <1>5
      <4>2. /\ WilderTerms(more) \in Seq(Int)
            /\ Len(WilderTerms(more)) = Len(more) - WilderPeriod
        BY <1>3, <4>1, WilderTermsFacts
      <4>3. QED
        BY <2>1, <4>2
    <3>2. WilderTerms(more) = <<>>
      BY <3>1, EmptySeq
    <3>3. QED
      BY <3>2, SumFacts
  <2>4. B[1] = p
    <3> DEFINE z == 0
    <3> HIDE DEF B
    <3>1. z \in Nat /\ z + 1 = 1 /\ B[z] = 1
      BY <1>2
    <3> HIDE DEF z
    <3>2. B[z + 1] = p * B[z]
      BY <1>2, <3>1
    <3>3. p * 1 = p
      BY <1>1
    <3>4. QED
      BY <3>1, <3>2, <3>3
  <2>5. WilderMean(more) = Closed(more)
    BY <1>4, <2>1
  <2> HIDE DEF A, B, more
  <2>6. A[0] * SeqSum(more) + 0 = SeqSum(more)
    BY <1>2, <2>2
  <2>7. QED
    BY <2>1, <2>2, <2>3, <2>4, <2>5, <2>6
<1>6. ASSUME n >= p
      PROVE  /\ WilderMean(inputs) \in Fraction
             /\ WilderMean(more) = [num |-> WilderMean(inputs).num * (p - 1)
                                              + x * WilderMean(inputs).den,
                                    den |-> WilderMean(inputs).den * p]
  <2> DEFINE m == n - p
             seed == SeqSum(SubSeq(inputs, 1, p))
             rest == SeqSum(WilderTerms(inputs))
             a == A[m]
             b == B[m + 1]
  <2>1. m \in Nat /\ m + 1 \in Nat /\ Len(more) - p = m + 1 /\ ~(Len(more) < p) /\ ~(n < p)
    BY <1>1, <1>3, <1>6
  <2>2. seed \in Int /\ SeqSum(SubSeq(more, 1, p)) = seed
    BY <1>6, SeedSum
  <2>3. rest \in Int
    BY <1>6, WilderTermsFacts, SumFacts
  <2>4. SeqSum(WilderTerms(more)) = (p - 1) * rest + b * x
    BY <1>6, WilderTermsAppend
  <2>5. a \in Int /\ b \in Int /\ A[m + 1] = (p - 1) * a /\ B[(m + 1) + 1] = p * b
    BY <1>2, <2>1
  <2>6. WilderMean(inputs) = [num |-> a * seed + rest, den |-> b]
    BY <1>4, <2>1
  <2>7. WilderMean(more) = [num |-> A[m + 1] * seed + ((p - 1) * rest + b * x),
                            den |-> B[(m + 1) + 1]]
    BY <1>4, <2>1, <2>2, <2>4
  <2> HIDE DEF m, seed, rest, a, b, A, B, Closed, more
  <2>8. /\ a * seed + rest \in Int
        /\ ((p - 1) * a) * seed + ((p - 1) * rest + b * x) = (a * seed + rest) * (p - 1) + x * b
        /\ p * b = b * p
    BY <1>1, <2>2, <2>3, <2>5
  <2>9. QED
    BY <2>5, <2>6, <2>7, <2>8 DEF Fraction
<1>7. QED
  BY <1>1, <1>4, <1>5, <1>6

\* One more input to a calculator.
LEMMA AveragedStep ==
  ASSUME NEW w, NEW inputs \in Seq(Int), NEW x \in Int, Averaged(w, inputs)
  PROVE  Averaged(Wilder(w, x), Append(inputs, x))
<1> DEFINE n == Len(inputs)
           p == WilderPeriod
           more == Append(inputs, x)
           v == Wilder(w, x)
<1>1. n \in Nat /\ p \in Nat /\ p >= 1
  BY LenProperties, PeriodAssumption
<1>2. more \in Seq(Int) /\ Len(more) = n + 1
  BY AppendProperties
<1>3. /\ w \in [seed : Seq(Int), avg : Fraction \cup {None}] /\ w.avg = WilderMean(inputs)
      /\ n < p => w.seed = inputs
  BY DEF Averaged, Averager
<1>4. None \notin Fraction
  BY NoneAssumption
<1>5. CASE n >= p
  <2> DEFINE f == WilderMean(inputs)
  <2>1. /\ f \in Fraction /\ f # None
        /\ WilderMean(more) = [num |-> f.num * (p - 1) + x * f.den, den |-> f.den * p]
    BY <1>4, <1>5, WilderMeanStep
  <2>2. v = [seed |-> w.seed, avg |-> [num |-> f.num * (p - 1) + x * f.den, den |-> f.den * p]]
    <3> HIDE DEF f
    <3>1. w.avg = f
      BY <1>3 DEF f
    <3>2. QED
      BY <1>3, <2>1, <3>1 DEF Wilder
  <2>3. [num |-> f.num * (p - 1) + x * f.den, den |-> f.den * p] \in Fraction
    <3> HIDE DEF f
    <3>1. QED
      BY <1>1, <2>1 DEF Fraction
  <2>4. v \in Averager
    BY <1>3, <2>2, <2>3 DEF Averager
  <2>5. v.avg = WilderMean(more)
    BY <2>1, <2>2
  <2>6. ~(Len(more) < p)
    BY <1>1, <1>2, <1>5
  <2> HIDE DEF v, more, f
  <2>7. QED
    BY <2>4, <2>5, <2>6 DEF Averaged, v, more
<1>6. CASE n < p
  <2>1. w.avg = None /\ w.seed = inputs
    BY <1>3, <1>6, WilderMeanStep
  <2>2. v = [seed |-> more, avg |-> IF n + 1 < p THEN None ELSE [num |-> SeqSum(more), den |-> p]]
    <3>1. Append(w.seed, x) = more
      BY <2>1
    <3> HIDE DEF more
    <3>2. v = [seed |-> more, avg |-> IF Len(more) < p THEN None
                                      ELSE [num |-> Total(more), den |-> p]]
      BY <2>1, <3>1 DEF Wilder
    <3>3. QED
      BY <1>2, <3>2 DEF Total, SeqSum
  <2>3. [num |-> SeqSum(more), den |-> p] \in Fraction
    BY <1>1, <1>2, SumFacts DEF Fraction
  <2>4. WilderMean(more) = IF n + 1 < p THEN None ELSE [num |-> SeqSum(more), den |-> p]
    <3>1. CASE n + 1 < p
      <4>1. Len(more) < p
        BY <1>2, <3>1
      <4>2. QED
        BY <3>1, <4>1 DEF WilderMean
    <3>2. CASE n + 1 = p
      BY <1>1, <3>2, WilderMeanStep
    <3>3. QED
      BY <1>1, <1>6, <3>1, <3>2
  <2> HIDE DEF more, v
  <2>5. v \in Averager
    BY <1>2, <2>2, <2>3 DEF Averager
  <2>6. v.avg = WilderMean(more) /\ v.seed = more
    BY <2>2, <2>4
  <2>7. QED
    BY <2>5, <2>6 DEF Averaged, v, more
<1>7. QED
  BY <1>1, <1>5, <1>6

LEMMA AveragedNothing == Averaged(Unseeded, <<>>)
<1>1. WilderPeriod \in Nat /\ WilderPeriod >= 1 /\ Len(<<>>) = 0 /\ <<>> \in Seq(Int)
  BY PeriodAssumption
<1>2. Len(<<>>) < WilderPeriod
  BY <1>1
<1>3. WilderMean(<<>>) = None
  BY <1>2 DEF WilderMean
<1>4. QED
  BY <1>1, <1>3 DEF Averaged, Unseeded, Averager

\* What each close behind the first one adds to the exponential average.
EmaTerms(closes, p) ==
  [i \in 1..(Len(closes) - 1) |->
     2 * Powers(p - 1)[Len(closes) - 1 - i] * Powers(p + 1)[i - 1] * closes[i + 1]]

LEMMA EmaTermsFacts ==
  ASSUME NEW closes \in Seq(Int), Len(closes) >= 1, NEW p \in Nat
  PROVE  EmaTerms(closes, p) \in Seq(Int) /\ Len(EmaTerms(closes, p)) = Len(closes) - 1
<1> DEFINE n == Len(closes)
           m == n - 1
           A == Powers(p - 1)
           B == Powers(p + 1)
           term(i) == 2 * A[n - 1 - i] * B[i - 1] * closes[i + 1]
<1>1. n \in Nat /\ m \in Nat
  BY LenProperties
<1>2. \A k \in Nat : A[k] \in Int /\ B[k] \in Int
  BY PeriodPowers
<1>3. \A i \in 1..m : term(i) \in Int
  <2> SUFFICES ASSUME NEW i \in 1..m PROVE term(i) \in Int
    OBVIOUS
  <2>1. n - 1 - i \in Nat /\ i - 1 \in Nat /\ i + 1 \in 1..n
    BY <1>1
  <2>2. A[n - 1 - i] \in Int /\ B[i - 1] \in Int
    BY <1>2, <2>1
  <2>3. closes[i + 1] \in Int
    BY <2>1
  <2> DEFINE a == A[n - 1 - i]
             b == B[i - 1]
             y == closes[i + 1]
  <2>4. a \in Int /\ b \in Int /\ y \in Int
    BY <2>2, <2>3
  <2>5. term(i) = 2 * a * b * y
    OBVIOUS
  <2> HIDE DEF a, b, y, term
  <2>6. 2 * a * b * y \in Int
    BY <2>4
  <2>7. QED
    BY <2>5, <2>6
<1>4. EmaTerms(closes, p) = [i \in 1..m |-> term(i)]
  BY DEF EmaTerms
<1> HIDE DEF term, m, A, B
<1>5. EmaTerms(closes, p) \in Seq(Int) /\ Len(EmaTerms(closes, p)) = m
  BY <1>1, <1>3, <1>4, IsASeq
<1>6. QED
  BY <1>5 DEF m

LEMMA EmaTermsAppend ==
  ASSUME NEW closes \in Seq(Int), NEW x \in Int, Len(closes) >= 1, NEW p \in Nat
  PROVE  SeqSum(EmaTerms(Append(closes, x), p))
           = (p - 1) * SeqSum(EmaTerms(closes, p)) + 2 * Powers(p + 1)[Len(closes) - 1] * x
<1> DEFINE n == Len(closes)
           more == Append(closes, x)
           s == EmaTerms(closes, p)
           t == EmaTerms(more, p)
           A == Powers(p - 1)
           B == Powers(p + 1)
<1>1. n \in Nat /\ p - 1 \in Int /\ n >= 1
  BY LenProperties
<1>2. /\ A[0] = 1
      /\ \A k \in Nat : A[k] \in Int /\ A[k + 1] = (p - 1) * A[k] /\ B[k] \in Int
  BY PeriodPowers
<1>3. /\ more \in Seq(Int) /\ Len(more) = n + 1 /\ more[n + 1] = x
      /\ \A k \in 1..n : more[k] = closes[k] /\ closes[k] \in Int
  BY AppendProperties
<1>4. s \in Seq(Int) /\ Len(s) = n - 1
  BY EmaTermsFacts
<1> HIDE DEF more, n, A, B
<1>5. t \in Seq(Int) /\ Len(t) = n
  <2>1. Len(more) >= 1
    BY <1>1, <1>3
  <2>2. t \in Seq(Int) /\ Len(t) = Len(more) - 1
    BY <1>3, <2>1, EmaTermsFacts
  <2>3. QED
    BY <1>1, <1>3, <2>2
<1>6. ASSUME NEW k \in 1..(n - 1) PROVE t[k] = (p - 1) * s[k]
  <2> DEFINE a == A[n - 1 - k]
             b == B[k - 1]
             y == closes[k + 1]
  <2>1. /\ n - 1 - k \in Nat /\ (n - 1 - k) + 1 = n - k /\ k - 1 \in Nat
        /\ k + 1 \in 1..n /\ k \in 1..n
    BY <1>1
  <2>2. a \in Int /\ A[n - k] = (p - 1) * a /\ b \in Int
    BY <1>2, <2>1
  <2>3. y \in Int /\ more[k + 1] = y
    BY <1>3, <2>1
  <2>4. s[k] = 2 * a * b * y
    BY DEF EmaTerms, n, A, B
  <2>5. t[k] = 2 * ((p - 1) * a) * b * y
    <3>1. Len(more) - 1 = n
      BY <1>1, <1>3
    <3>2. k \in 1..(Len(more) - 1)
      BY <2>1, <3>1
    <3>3. t[k] = 2 * Powers(p - 1)[Len(more) - 1 - k] * b * more[k + 1]
      BY <3>2 DEF EmaTerms, B
    <3>4. t[k] = 2 * A[n - k] * b * more[k + 1]
      BY <3>1, <3>3 DEF A
    <3>5. QED
      BY <2>2, <2>3, <3>4
  <2> HIDE DEF a, b, y
  <2>6. 2 * ((p - 1) * a) * b * y = (p - 1) * (2 * a * b * y)
    BY <1>1, <2>2, <2>3
  <2>7. QED
    BY <2>4, <2>5, <2>6
<1>7. t[n] = 2 * B[n - 1] * x
  <2>1. /\ Len(more) - 1 = n /\ n \in 1..(Len(more) - 1) /\ Len(more) - 1 - n = 0 /\ n - 1 \in Nat
    BY <1>1, <1>3
  <2>2. t[n] = 2 * Powers(p - 1)[Len(more) - 1 - n] * Powers(p + 1)[n - 1] * more[n + 1]
    BY <2>1 DEF EmaTerms
  <2>3. t[n] = 2 * A[0] * B[n - 1] * x
    BY <1>3, <2>1, <2>2 DEF A, B
  <2>4. B[n - 1] \in Int
    BY <1>2, <2>1
  <2>5. QED
    BY <1>2, <2>3, <2>4
<1> HIDE DEF s, t
<1>8. SeqSum(t) = (p - 1) * SeqSum(s) + t[Len(t)]
  <2>1. Len(t) = Len(s) + 1
    BY <1>1, <1>4, <1>5
  <2>2. \A k \in 1..Len(s) : t[k] = (p - 1) * s[k]
    BY <1>4, <1>6
  <2>3. QED
    BY <1>1, <1>4, <1>5, <2>1, <2>2, ScaledSum
<1>9. QED
  BY <1>5, <1>7, <1>8 DEF s, t, more, n, B

\* The exponential average in closed form starts and goes on as the code does.
LEMMA EmaMeanStep ==
  ASSUME NEW x \in Int, NEW p \in Nat, None \notin Fraction
  PROVE  /\ EmaMean(<<x>>, p) = Ema(None, x, p) /\ Whole(x) \in Fraction
         /\ \A closes \in Seq(Int) : Len(closes) >= 1 =>
              /\ EmaMean(closes, p) \in Fraction
              /\ EmaMean(Append(closes, x), p) = Ema(EmaMean(closes, p), x, p)
<1> DEFINE A == Powers(p - 1)
           B == Powers(p + 1)
           Closed(seq) == [num |-> A[Len(seq) - 1] * seq[1] + SeqSum(EmaTerms(seq, p)),
                           den |-> B[Len(seq) - 1]]
<1>1. /\ A[0] = 1 /\ B[0] = 1
      /\ \A k \in Nat : /\ A[k] \in Int /\ A[k + 1] = (p - 1) * A[k]
                        /\ B[k] \in Int /\ B[k + 1] = (p + 1) * B[k]
  BY PeriodPowers
<1>2. \A seq : EmaMean(seq, p) = Closed(seq)
  BY DEF EmaMean, EmaTerms, SeqSum, Total
<1>3. EmaMean(<<x>>, p) = Ema(None, x, p) /\ Whole(x) \in Fraction
  <2> DEFINE one == <<x>>
  <2>1. one \in Seq(Int) /\ Len(one) = 1 /\ one[1] = x /\ Len(one) - 1 = 0
    OBVIOUS
  <2> HIDE DEF one
  <2>2. SeqSum(EmaTerms(one, p)) = 0
    <3>1. EmaTerms(one, p) \in Seq(Int) /\ Len(EmaTerms(one, p)) = 0
      <4>1. Len(one) >= 1
        BY <2>1
      <4>2. EmaTerms(one, p) \in Seq(Int) /\ Len(EmaTerms(one, p)) = Len(one) - 1
        BY <2>1, <4>1, EmaTermsFacts
      <4>3. QED
        BY <2>1, <4>2
    <3>2. EmaTerms(one, p) = <<>>
      BY <3>1, EmptySeq
    <3>3. QED
      BY <3>2, SumFacts
  <2>3. EmaMean(one, p) = [num |-> A[0] * x + 0, den |-> B[0]]
    BY <1>2, <2>1, <2>2
  <2>4. A[0] * x + 0 = x
    BY <1>1
  <2>5. EmaMean(one, p) = Whole(x)
    BY <1>1, <2>3, <2>4 DEF Whole
  <2>6. QED
    BY <2>5 DEF one, Ema, Whole, Fraction
<1>4. ASSUME NEW closes \in Seq(Int), Len(closes) >= 1
      PROVE  /\ EmaMean(closes, p) \in Fraction
             /\ EmaMean(Append(closes, x), p) = Ema(EmaMean(closes, p), x, p)
  <2> DEFINE n == Len(closes)
             more == Append(closes, x)
             m == n - 1
             first == closes[1]
             later == SeqSum(EmaTerms(closes, p))
             a == A[m]
             b == B[m]
             f == EmaMean(closes, p)
  <2>1. n \in Nat /\ n >= 1 /\ m \in Nat /\ 1 \in 1..n
    BY <1>4, LenProperties
  <2>2. Len(more) - 1 = m + 1 /\ more[1] = first /\ first \in Int
    <3>1. Len(more) = n + 1 /\ \A k \in 1..n : more[k] = closes[k] /\ closes[k] \in Int
      BY AppendProperties
    <3> HIDE DEF more, n
    <3>2. QED
      BY <2>1, <3>1
  <2>3. later \in Int
    BY <1>4, EmaTermsFacts, SumFacts
  <2>4. SeqSum(EmaTerms(more, p)) = (p - 1) * later + 2 * b * x
    BY <1>4, EmaTermsAppend
  <2>5. a \in Int /\ b \in Int /\ A[m + 1] = (p - 1) * a /\ B[m + 1] = (p + 1) * b
    BY <1>1, <2>1
  <2>6. f = [num |-> a * first + later, den |-> b]
    BY <1>2
  <2>7. EmaMean(more, p) = [num |-> A[m + 1] * first + ((p - 1) * later + 2 * b * x),
                            den |-> B[m + 1]]
    BY <1>2, <2>2, <2>4
  <2> HIDE DEF f, m, first, later, a, b, A, B, Closed, more
  <2>8. f \in Fraction /\ f # None
    <3>1. a * first + later \in Int
      BY <2>2, <2>3, <2>5
    <3>2. QED
      BY <2>5, <2>6, <3>1 DEF Fraction
  <2>9. Ema(f, x, p) = [num |-> 2 * x * b + (p - 1) * (a * first + later), den |-> (p + 1) * b]
    BY <2>6, <2>8 DEF Ema
  <2>10. ((p - 1) * a) * first + ((p - 1) * later + 2 * b * x)
            = 2 * x * b + (p - 1) * (a * first + later)
    BY <2>2, <2>3, <2>5
  <2>11. QED
    BY <2>5, <2>7, <2>8, <2>9, <2>10 DEF f, more
<1>5. QED
  BY <1>3, <1>4

--------------------------------------------------------------------------------
(* Windows and series.                                                     *)

LEMMA Extremes ==
  \A a, b, c \in Int : /\ Max({a, b}) \in Int /\ Max({a, b}) \in {a, b}
                       /\ Max({a, b}) >= a /\ Max({a, b}) >= b
                       /\ Max({a, b, c}) \in Int
<1> TAKE a, b, c \in Int
<1>1. \E m \in {a, b} : \A y \in {a, b} : m >= y
  <2>1. CASE a >= b
    BY <2>1
  <2>2. CASE ~(a >= b)
    BY <2>2
  <2>3. QED
    BY <2>1, <2>2
<1>2. Max({a, b}) \in {a, b} /\ \A y \in {a, b} : Max({a, b}) >= y
  BY <1>1 DEF Max
<1>3. PICK m \in {a, b} : \A y \in {a, b} : m >= y
  BY <1>1
<1>4. \E x \in {a, b, c} : \A y \in {a, b, c} : x >= y
  <2>1. CASE m >= c
    BY <1>3, <2>1
  <2>2. CASE ~(m >= c)
    BY <1>3, <2>2
  <2>3. QED
    BY <2>1, <2>2
<1>5. Max({a, b, c}) \in {a, b, c}
  BY <1>4 DEF Max
<1>6. QED
  BY <1>2, <1>5

\* w is the last elements of a sequence, at most size of them.
Newest(w, seq, size) ==
  /\ w \in Seq(Int)
  /\ Len(w) = IF Len(seq) < size THEN Len(seq) ELSE size
  /\ \A i \in 1..Len(w) : w[i] = seq[Len(seq) - Len(w) + i]

LEMMA NewestStep ==
  ASSUME NEW w, NEW seq \in Seq(Int), NEW size \in Nat \ {0}, NEW x \in Int, Newest(w, seq, size)
  PROVE  Newest(Slide(w, x, size), Append(seq, x), size)
<1> DEFINE n == Len(seq)
           m == Len(w)
           more == Append(seq, x)
           v == Slide(w, x, size)
<1>1. n \in Nat /\ m \in Nat /\ size \in Nat /\ size >= 1
  BY LenProperties DEF Newest
<1>2. w \in Seq(Int) /\ m = (IF n < size THEN n ELSE size) /\ \A i \in 1..m : w[i] = seq[n - m + i]
  BY DEF Newest
<1>3. /\ more \in Seq(Int) /\ Len(more) = n + 1 /\ more[n + 1] = x
      /\ \A k \in 1..n : more[k] = seq[k]
  BY AppendProperties
<1>4. CASE m < size
  <2>1. m = n
    BY <1>1, <1>2, <1>4
  <2>2. v = Append(w, x)
    BY <1>4 DEF Slide
  <2>3. v \in Seq(Int) /\ Len(v) = m + 1 /\ v[m + 1] = x /\ \A k \in 1..m : v[k] = w[k]
    BY <1>2, <2>2, AppendProperties
  <2> HIDE DEF v, more, m, n
  <2>4. Len(v) = IF Len(more) < size THEN Len(more) ELSE size
    BY <1>1, <1>3, <1>4, <2>1, <2>3
  <2>5. ASSUME NEW i \in 1..Len(v) PROVE v[i] = more[Len(more) - Len(v) + i]
    <3>1. Len(more) - Len(v) + i = i
      BY <1>1, <1>3, <2>1, <2>3
    <3>2. v[i] = more[i]
      <4>1. CASE i = n + 1
        BY <1>3, <2>1, <2>3, <4>1
      <4>2. CASE i \in 1..n
        <5>1. n - m + i = i
          BY <1>1, <2>1, <4>2
        <5>2. v[i] = w[i] /\ w[i] = seq[n - m + i] /\ more[i] = seq[i]
          BY <1>2, <1>3, <2>1, <2>3, <4>2
        <5>3. QED
          BY <5>1, <5>2
      <4>3. QED
        BY <1>1, <2>1, <2>3, <4>1, <4>2
    <3>3. QED
      BY <3>1, <3>2
  <2>6. QED
    BY <2>3, <2>4, <2>5 DEF Newest, v, more
<1>5. CASE ~(m < size)
  <2>1. m = size /\ n >= size
    BY <1>1, <1>2, <1>5
  <2> DEFINE u == Tail(w)
  <2>2. w # <<>>
    BY <1>1, <2>1, EmptySeq
  <2>3. u \in Seq(Int) /\ Len(u) = m - 1 /\ \A k \in 1..(m - 1) : u[k] = w[k + 1]
    BY <1>2, <2>2, HeadTailProperties
  <2>4. v = Append(u, x)
    BY <1>5 DEF Slide
  <2> HIDE DEF u
  <2>5. v \in Seq(Int) /\ Len(v) = Len(u) + 1 /\ v[Len(u) + 1] = x /\ \A k \in 1..Len(u) : v[k] = u[k]
    BY <2>3, <2>4, AppendProperties
  <2> HIDE DEF v, more, m, n
  <2>6. Len(v) = m /\ v[m] = x /\ \A k \in 1..(m - 1) : v[k] = w[k + 1]
    <3>1. (m - 1) + 1 = m
      BY <1>1
    <3>2. QED
      BY <2>3, <2>5, <3>1
  <2>7. Len(v) = IF Len(more) < size THEN Len(more) ELSE size
    BY <1>1, <1>3, <2>1, <2>6
  <2>8. ASSUME NEW i \in 1..Len(v) PROVE v[i] = more[Len(more) - Len(v) + i]
    <3>1. Len(more) - Len(v) + i = n + 1 - m + i
      BY <1>1, <1>3, <2>6
    <3>2. CASE i = m
      <4>1. n + 1 - m + i = n + 1
        BY <1>1, <3>2
      <4>2. QED
        BY <1>3, <2>6, <3>1, <3>2, <4>1
    <3>3. CASE i # m
      <4>1. i \in 1..(m - 1) /\ i + 1 \in 1..m
        BY <1>1, <2>6, <3>3
      <4>2. n + 1 - m + i = n - m + (i + 1) /\ n + 1 - m + i \in 1..n
        BY <1>1, <2>1, <4>1
      <4>3. v[i] = w[i + 1] /\ w[i + 1] = seq[n - m + (i + 1)]
        BY <1>2, <2>6, <4>1
      <4>4. more[n + 1 - m + i] = seq[n + 1 - m + i]
        BY <1>3, <4>2
      <4>5. QED
        BY <3>1, <4>2, <4>3, <4>4
    <3>4. QED
      BY <3>2, <3>3
  <2>9. QED
    BY <2>5, <2>7, <2>8 DEF Newest, v, more
<1>6. QED
  BY <1>4, <1>5

LEMMA NewestNothing ==
  ASSUME NEW size \in Nat \ {0}
  PROVE  Newest(<<>>, <<>>, size)
<1>1. Len(<<>>) = 0 /\ <<>> \in Seq(Int)
  OBVIOUS
<1>2. QED
  BY <1>1 DEF Newest

\* A sequence that starts as another one and is one longer.
LEMMA Extended ==
  ASSUME NEW s \in Seq(Int), NEW t \in Seq(Int), Len(t) = Len(s) + 1,
         \A k \in 1..Len(s) : t[k] = s[k]
  PROVE  t = Append(s, t[Len(t)])
<1> DEFINE n == Len(s)
           x == t[Len(t)]
           u == Append(s, x)
<1>1. n \in Nat /\ Len(t) \in 1..Len(t) /\ x \in Int
  <2>1. n \in Nat /\ Len(t) \in Nat /\ Len(t) >= 1
    BY LenProperties
  <2>2. QED
    BY <2>1
<1> HIDE DEF x
<1>2. u \in Seq(Int) /\ Len(u) = n + 1 /\ u[n + 1] = x /\ \A k \in 1..n : u[k] = s[k]
  BY <1>1, AppendProperties
<1> HIDE DEF u
<1>3. \A k \in 1..(n + 1) : k \in 1..n \/ k = n + 1
  BY <1>1
<1>4. \A k \in 1..Len(t) : t[k] = u[k]
  BY <1>2, <1>3 DEF x
<1>5. t = u
  BY <1>2, <1>4, SeqEqual
<1>6. QED
  BY <1>5 DEF u, x

LEMMA CandleFacts ==
  ASSUME NEW c \in Candle
  PROVE  /\ c.exp \in Int /\ CloseOf(c) \in Int /\ HighOf(c) \in Int /\ LowOf(c) \in Int
         /\ VolumeOf(c) \in Int /\ VolumeOf(c) >= 0
         /\ TrueRange(None, c) \in Int
         /\ \A b \in Candle : TrueRange(b, c) \in Int
<1>1. \A b \in Candle : /\ b.exp \in Int /\ CloseOf(b) \in Int
                        /\ HighOf(b) \in Int /\ LowOf(b) \in Int
  <2> TAKE b \in Candle
  <2>1. b.exp \in Nat
    BY ExponentAssumption DEF Candle
  <2>2. CloseOf(b) \in Int
    BY <2>1 DEF CloseOf
  <2>3. HighOf(b) \in Int /\ LowOf(b) \in Int
    <3> DEFINE x == CloseOf(b)
    <3>1. x \in Int
      BY <2>2
    <3> HIDE DEF x
    <3>2. 2 * x \in Int
      BY <3>1
    <3>3. QED
      BY <3>1, <3>2 DEF x, HighOf, LowOf
  <2>4. QED
    BY <2>1, <2>2, <2>3
<1>2. VolumeOf(c) \in Int /\ VolumeOf(c) >= 0
  BY DEF VolumeOf
<1>3. \A x, y \in Int : Distance(x, y) \in Int
  <2> TAKE x, y \in Int
  <2> DEFINE a == x - y
             b == y - x
  <2>1. a \in Int /\ b \in Int
    OBVIOUS
  <2> HIDE DEF a, b
  <2>2. Max({a, b}) \in Int
    BY <2>1, Extremes
  <2>3. QED
    BY <2>2 DEF a, b, Distance
<1> DEFINE high == HighOf(c)
           low == LowOf(c)
           spread == high - low
<1>4. high \in Int /\ low \in Int /\ spread \in Int
  BY <1>1
<1>5. TrueRange(None, c) \in Int
  BY <1>4 DEF TrueRange
<1>6. ASSUME NEW b \in Candle PROVE TrueRange(b, c) \in Int
  <2> DEFINE up == Distance(high, CloseOf(b))
             down == Distance(low, CloseOf(b))
  <2>1. CloseOf(b) \in Int
    BY <1>1
  <2>2. up \in Int /\ down \in Int
    <3> HIDE DEF high, low
    <3>1. QED
      BY <1>3, <1>4, <2>1
  <2>3. TrueRange(b, c) = IF b = None THEN spread ELSE Max({spread, up, down})
    BY DEF TrueRange
  <2> HIDE DEF up, down, spread
  <2>4. Max({spread, up, down}) \in Int
    BY <1>4, <2>2, Extremes
  <2>5. QED
    BY <1>4, <2>3, <2>4
<1>7. QED
  BY <1>1, <1>2, <1>5, <1>6

\* What the calculators take from a series of candles.
Closes(seen) == [i \in 1..Len(seen) |-> CloseOf(seen[i])]
Volumes(seen) == [i \in 1..Len(seen) |-> VolumeOf(seen[i])]
Ranges(seen) ==
  [i \in 1..Len(seen) |-> TrueRange(IF i = 1 THEN None ELSE seen[i - 1], seen[i])]
Gains(seen) == [i \in 1..(Len(seen) - 1) |-> Max({CloseOf(seen[i + 1]) - CloseOf(seen[i]), 0})]
Losses(seen) == [i \in 1..(Len(seen) - 1) |-> Max({CloseOf(seen[i]) - CloseOf(seen[i + 1]), 0})]
Returns(seen) == [i \in 1..(Len(seen) - 1) |-> seen[i + 1].exp - seen[i].exp]

LEMMA PositiveChange ==
  ASSUME NEW a \in Int, NEW b \in Int
  PROVE  Max({a - b, 0}) \in Int /\ -(a - b) = b - a
<1> DEFINE d == a - b
           z == 0
<1>1. d \in Int /\ z \in Int /\ -(a - b) = b - a
  OBVIOUS
<1> HIDE DEF d, z
<1>2. Max({d, z}) \in Int
  BY <1>1, Extremes
<1>3. QED
  BY <1>1, <1>2 DEF d, z

LEMMA SeriesFacts ==
  ASSUME NEW seen \in Seq(Candle), seen # <<>>
  PROVE  /\ Closes(seen) \in Seq(Int) /\ Len(Closes(seen)) = Len(seen)
         /\ Volumes(seen) \in Seq(Int) /\ Len(Volumes(seen)) = Len(seen)
         /\ Ranges(seen) \in Seq(Int) /\ Len(Ranges(seen)) = Len(seen)
         /\ Gains(seen) \in Seq(Int) /\ Len(Gains(seen)) = Len(seen) - 1
         /\ Losses(seen) \in Seq(Int) /\ Len(Losses(seen)) = Len(seen) - 1
         /\ Returns(seen) \in Seq(Int) /\ Len(Returns(seen)) = Len(seen) - 1
<1> DEFINE n == Len(seen)
           m == n - 1
           gain(i) == Max({CloseOf(seen[i + 1]) - CloseOf(seen[i]), 0})
           loss(i) == Max({CloseOf(seen[i]) - CloseOf(seen[i + 1]), 0})
<1>1. n \in Nat /\ m \in Nat /\ \A i \in 1..n : seen[i] \in Candle
  <2>1. n \in Nat /\ n # 0
    BY EmptySeq, LenProperties
  <2>2. QED
    BY <2>1
<1>2. \A i \in 1..m : i \in 1..n /\ i + 1 \in 1..n
  BY <1>1
<1>3. \A i \in 1..n : i # 1 => i - 1 \in 1..n
  BY <1>1
<1> HIDE DEF n
<1>4. \A i \in 1..n : CloseOf(seen[i]) \in Int /\ VolumeOf(seen[i]) \in Int /\ seen[i].exp \in Int
  BY <1>1, CandleFacts
<1>5. \A i \in 1..n : TrueRange(IF i = 1 THEN None ELSE seen[i - 1], seen[i]) \in Int
  BY <1>1, <1>3, CandleFacts
<1>6. \A i \in 1..m : gain(i) \in Int /\ loss(i) \in Int
  BY <1>2, <1>4, PositiveChange
<1>7. \A i \in 1..m : seen[i + 1].exp - seen[i].exp \in Int
  <2> TAKE i \in 1..m
  <2> DEFINE x == seen[i + 1].exp
             y == seen[i].exp
  <2>1. x \in Int /\ y \in Int
    BY <1>2, <1>4
  <2> HIDE DEF x, y
  <2>2. x - y \in Int
    BY <2>1
  <2>3. QED
    BY <2>2 DEF x, y
<1> HIDE DEF m, gain, loss
<1>8. Closes(seen) \in Seq(Int) /\ Len(Closes(seen)) = n
  <2>1. Closes(seen) = [i \in 1..n |-> CloseOf(seen[i])]
    BY DEF Closes, n
  <2>2. QED
    BY <1>1, <1>4, <2>1, IsASeq
<1>9. Volumes(seen) \in Seq(Int) /\ Len(Volumes(seen)) = n
  <2>1. Volumes(seen) = [i \in 1..n |-> VolumeOf(seen[i])]
    BY DEF Volumes, n
  <2>2. QED
    BY <1>1, <1>4, <2>1, IsASeq
<1>10. Ranges(seen) \in Seq(Int) /\ Len(Ranges(seen)) = n
  <2>1. Ranges(seen) = [i \in 1..n |-> TrueRange(IF i = 1 THEN None ELSE seen[i - 1], seen[i])]
    BY DEF Ranges, n
  <2>2. QED
    BY <1>1, <1>5, <2>1, IsASeq
<1>11. Gains(seen) \in Seq(Int) /\ Len(Gains(seen)) = m
  <2>1. Gains(seen) = [i \in 1..m |-> gain(i)]
    BY DEF Gains, m, n, gain
  <2>2. QED
    BY <1>1, <1>6, <2>1, IsASeq
<1>12. Losses(seen) \in Seq(Int) /\ Len(Losses(seen)) = m
  <2>1. Losses(seen) = [i \in 1..m |-> loss(i)]
    BY DEF Losses, m, n, loss
  <2>2. QED
    BY <1>1, <1>6, <2>1, IsASeq
<1>13. Returns(seen) \in Seq(Int) /\ Len(Returns(seen)) = m
  <2>1. Returns(seen) = [i \in 1..m |-> seen[i + 1].exp - seen[i].exp]
    BY DEF Returns, m, n
  <2>2. QED
    BY <1>1, <1>7, <2>1, IsASeq
<1>14. QED
  BY <1>8, <1>9, <1>10, <1>11, <1>12, <1>13 DEF m, n

\* One candle more is one element more of each.
LEMMA SeriesAppend ==
  ASSUME NEW seen \in Seq(Candle), seen # <<>>, NEW c \in Candle
  PROVE  LET more == Append(seen, c)
             b == Last(seen)
         IN /\ more \in Seq(Candle) /\ more # <<>> /\ b \in Candle /\ Last(more) = c
            /\ Closes(more) = Append(Closes(seen), CloseOf(c))
            /\ Volumes(more) = Append(Volumes(seen), VolumeOf(c))
            /\ Ranges(more) = Append(Ranges(seen), TrueRange(b, c))
            /\ Gains(more) = Append(Gains(seen), Max({CloseOf(c) - CloseOf(b), 0}))
            /\ Losses(more) = Append(Losses(seen), Max({CloseOf(b) - CloseOf(c), 0}))
            /\ Returns(more) = Append(Returns(seen), c.exp - b.exp)
<1> DEFINE n == Len(seen)
           more == Append(seen, c)
           b == Last(seen)
<1>1. n \in Nat /\ n >= 1
  <2>1. n \in Nat /\ n # 0
    BY EmptySeq, LenProperties
  <2>2. QED
    BY <2>1
<1>2. /\ more \in Seq(Candle) /\ Len(more) = n + 1 /\ more[n + 1] = c
      /\ \A k \in 1..n : more[k] = seen[k]
  BY AppendProperties
<1>3. b = seen[n]
  BY DEF Last
<1>4. b \in Candle
  BY <1>1, <1>3
<1> HIDE DEF n, more, b
<1>5. more # <<>> /\ Last(more) = c
  <2>1. Len(<<>>) = 0
    OBVIOUS
  <2>2. QED
    BY <1>1, <1>2, <2>1 DEF Last
<1>6. more[n] = b /\ (n + 1) - 1 = n /\ n + 1 # 1 /\ n + 1 \in 1..(n + 1) /\ n \in 1..n
  BY <1>1, <1>2, <1>3
<1>7. \A k \in 1..(n - 1) : k \in 1..n /\ k + 1 \in 1..n
  BY <1>1
<1>8. \A k \in 1..n : k \in 1..(n + 1) /\ (k # 1 => k - 1 \in 1..n)
  BY <1>1
<1>9. Closes(more) = Append(Closes(seen), CloseOf(c))
  <2> DEFINE s == Closes(seen)
             t == Closes(more)
  <2>1. s \in Seq(Int) /\ Len(s) = n /\ t \in Seq(Int) /\ Len(t) = n + 1
    BY <1>2, <1>5, SeriesFacts DEF n
  <2>2. t[n + 1] = CloseOf(c)
    BY <1>2, <1>6 DEF Closes
  <2>3. \A k \in 1..n : t[k] = s[k]
    BY <1>2, <1>8 DEF Closes, n
  <2> HIDE DEF s, t
  <2>4. QED
    BY <2>1, <2>2, <2>3, Extended DEF s, t
<1>10. Volumes(more) = Append(Volumes(seen), VolumeOf(c))
  <2> DEFINE s == Volumes(seen)
             t == Volumes(more)
  <2>1. s \in Seq(Int) /\ Len(s) = n /\ t \in Seq(Int) /\ Len(t) = n + 1
    BY <1>2, <1>5, SeriesFacts DEF n
  <2>2. t[n + 1] = VolumeOf(c)
    BY <1>2, <1>6 DEF Volumes
  <2>3. \A k \in 1..n : t[k] = s[k]
    BY <1>2, <1>8 DEF Volumes, n
  <2> HIDE DEF s, t
  <2>4. QED
    BY <2>1, <2>2, <2>3, Extended DEF s, t
<1>11. Ranges(more) = Append(Ranges(seen), TrueRange(b, c))
  <2> DEFINE s == Ranges(seen)
             t == Ranges(more)
  <2>1. s \in Seq(Int) /\ Len(s) = n /\ t \in Seq(Int) /\ Len(t) = n + 1
    BY <1>2, <1>5, SeriesFacts DEF n
  <2>2. t[n + 1] = TrueRange(b, c)
    BY <1>2, <1>6 DEF Ranges
  <2>3. \A k \in 1..n : t[k] = s[k]
    BY <1>2, <1>8 DEF Ranges, n
  <2> HIDE DEF s, t
  <2>4. QED
    BY <2>1, <2>2, <2>3, Extended DEF s, t
<1>12. Gains(more) = Append(Gains(seen), Max({CloseOf(c) - CloseOf(b), 0}))
  <2> DEFINE s == Gains(seen)
             t == Gains(more)
  <2>1. s \in Seq(Int) /\ Len(s) = n - 1 /\ t \in Seq(Int) /\ Len(t) = n
    <3>1. Len(more) - 1 = n
      BY <1>2, <1>6
    <3>2. QED
      BY <1>2, <1>5, <3>1, SeriesFacts DEF n
  <2>2. t[n] = Max({CloseOf(c) - CloseOf(b), 0})
    BY <1>2, <1>6 DEF Gains
  <2>3. \A k \in 1..(n - 1) : t[k] = s[k]
    <3>1. \A k \in 1..(n - 1) : t[k] = Max({CloseOf(more[k + 1]) - CloseOf(more[k]), 0})
      BY <1>2, <1>6, <1>7 DEF Gains
    <3>2. \A k \in 1..(n - 1) : s[k] = Max({CloseOf(seen[k + 1]) - CloseOf(seen[k]), 0})
      BY DEF Gains, n
    <3>3. QED
      BY <1>2, <1>7, <3>1, <3>2
  <2> HIDE DEF s, t
  <2>4. QED
    BY <1>1, <2>1, <2>2, <2>3, Extended DEF s, t
<1>13. Losses(more) = Append(Losses(seen), Max({CloseOf(b) - CloseOf(c), 0}))
  <2> DEFINE s == Losses(seen)
             t == Losses(more)
  <2>1. s \in Seq(Int) /\ Len(s) = n - 1 /\ t \in Seq(Int) /\ Len(t) = n
    <3>1. Len(more) - 1 = n
      BY <1>2, <1>6
    <3>2. QED
      BY <1>2, <1>5, <3>1, SeriesFacts DEF n
  <2>2. t[n] = Max({CloseOf(b) - CloseOf(c), 0})
    BY <1>2, <1>6 DEF Losses
  <2>3. \A k \in 1..(n - 1) : t[k] = s[k]
    <3>1. \A k \in 1..(n - 1) : t[k] = Max({CloseOf(more[k]) - CloseOf(more[k + 1]), 0})
      BY <1>2, <1>6, <1>7 DEF Losses
    <3>2. \A k \in 1..(n - 1) : s[k] = Max({CloseOf(seen[k]) - CloseOf(seen[k + 1]), 0})
      BY DEF Losses, n
    <3>3. QED
      BY <1>2, <1>7, <3>1, <3>2
  <2> HIDE DEF s, t
  <2>4. QED
    BY <1>1, <2>1, <2>2, <2>3, Extended DEF s, t
<1>14. Returns(more) = Append(Returns(seen), c.exp - b.exp)
  <2> DEFINE s == Returns(seen)
             t == Returns(more)
  <2>1. s \in Seq(Int) /\ Len(s) = n - 1 /\ t \in Seq(Int) /\ Len(t) = n
    <3>1. Len(more) - 1 = n
      BY <1>2, <1>6
    <3>2. QED
      BY <1>2, <1>5, <3>1, SeriesFacts DEF n
  <2>2. t[n] = c.exp - b.exp
    BY <1>2, <1>6 DEF Returns
  <2>3. \A k \in 1..(n - 1) : t[k] = s[k]
    <3>1. \A k \in 1..(n - 1) : t[k] = more[k + 1].exp - more[k].exp
      BY <1>2, <1>6, <1>7 DEF Returns
    <3>2. \A k \in 1..(n - 1) : s[k] = seen[k + 1].exp - seen[k].exp
      BY DEF Returns, n
    <3>3. QED
      BY <1>2, <1>7, <3>1, <3>2
  <2> HIDE DEF s, t
  <2>4. QED
    BY <1>1, <2>1, <2>2, <2>3, Extended DEF s, t
<1>15. QED
  BY <1>2, <1>4, <1>5, <1>9, <1>10, <1>11, <1>12, <1>13, <1>14 DEF more, b

--------------------------------------------------------------------------------
(* The indicators of a whole series.                                       *)

\* The volume of the last candle against the window before it.
Volumed(seen) ==
  LET n == Len(seen)
      past == [i \in 1..VolumeWindow |-> VolumeOf(seen[n - 1 - VolumeWindow + i])]
  IN IF n <= VolumeWindow \/ Total(past) = 0 THEN None
     ELSE [num |-> VolumeOf(seen[n]) * VolumeWindow, den |-> Total(past)]

\* The indicators that a series of candles has been folded into.
Folded(r, seen) ==
  /\ r \in Indicator /\ r.prev = Last(seen)
  /\ r.fast = EmaMean(Closes(seen), FastPeriod)
  /\ r.slow = EmaMean(Closes(seen), SlowPeriod)
  /\ Averaged(r.gain, Gains(seen)) /\ Averaged(r.loss, Losses(seen))
  /\ Averaged(r.range, Ranges(seen))
  /\ Newest(r.returns, Returns(seen), 2)
  /\ Newest(r.volumes, Volumes(seen), VolumeWindow)
  /\ r.volRel = Volumed(seen)

LEMMA Periods ==
  /\ FastPeriod \in Nat \ {0} /\ SlowPeriod \in Nat \ {0}
  /\ WilderPeriod \in Nat \ {0} /\ VolumeWindow \in Nat \ {0}
BY PeriodAssumption

\* The first candle.
LEMMA FoldedFirst ==
  ASSUME NEW c \in Candle
  PROVE  Folded(Update(Fresh, c), <<c>>)
<1> DEFINE one == <<c>>
           u == Update(Fresh, c)
           close == CloseOf(c)
           vol == VolumeOf(c)
           tr == TrueRange(None, c)
<1>1. one \in Seq(Candle) /\ one # <<>> /\ Len(one) = 1 /\ one[1] = c /\ Last(one) = c
  BY DEF Last
<1>2. close \in Int /\ vol \in Int /\ tr \in Int
  BY CandleFacts
<1>3. /\ u.prev = c /\ u.fast = Ema(None, close, FastPeriod) /\ u.slow = Ema(None, close, SlowPeriod)
      /\ u.gain = Unseeded /\ u.loss = Unseeded /\ u.range = Wilder(Unseeded, tr)
      /\ u.returns = <<>> /\ u.volumes = Slide(<<>>, vol, VolumeWindow)
      /\ u.volRel = Relative(<<>>, vol)
      /\ u = [prev |-> u.prev, fast |-> u.fast, slow |-> u.slow, gain |-> u.gain,
              loss |-> u.loss, range |-> u.range, returns |-> u.returns,
              volumes |-> u.volumes, volRel |-> u.volRel]
  BY DEF Update, Fresh
<1> HIDE DEF one, u, close, vol, tr
<1>4. Closes(one) = <<close>> /\ Volumes(one) = <<vol>> /\ Ranges(one) = <<tr>>
  BY <1>1 DEF Closes, Volumes, Ranges, close, vol, tr
<1>5. Gains(one) = <<>> /\ Losses(one) = <<>> /\ Returns(one) = <<>>
  <2>1. Len(one) - 1 = 0
    BY <1>1
  <2>2. /\ Gains(one) \in Seq(Int) /\ Len(Gains(one)) = 0
        /\ Losses(one) \in Seq(Int) /\ Len(Losses(one)) = 0
        /\ Returns(one) \in Seq(Int) /\ Len(Returns(one)) = 0
    BY <1>1, <2>1, SeriesFacts
  <2>3. QED
    BY <2>2, EmptySeq
<1>6. /\ Append(<<>>, tr) = <<tr>> /\ Append(<<>>, vol) = <<vol>> /\ <<>> \in Seq(Int)
  OBVIOUS
<1>7. None \notin Fraction
  BY NoneAssumption
<1>8. /\ u.fast = EmaMean(Closes(one), FastPeriod) /\ u.slow = EmaMean(Closes(one), SlowPeriod)
      /\ u.fast \in Fraction /\ u.slow \in Fraction
  <2>1. /\ EmaMean(<<close>>, FastPeriod) = Ema(None, close, FastPeriod)
        /\ EmaMean(<<close>>, SlowPeriod) = Ema(None, close, SlowPeriod)
        /\ Whole(close) \in Fraction
    BY <1>2, <1>7, Periods, EmaMeanStep
  <2>2. Ema(None, close, FastPeriod) = Whole(close) /\ Ema(None, close, SlowPeriod) = Whole(close)
    BY DEF Ema
  <2>3. QED
    BY <1>3, <1>4, <2>1, <2>2
<1>9. Averaged(u.gain, Gains(one)) /\ Averaged(u.loss, Losses(one))
  BY <1>3, <1>5, AveragedNothing
<1>10. Averaged(u.range, Ranges(one))
  BY <1>2, <1>3, <1>4, <1>6, AveragedNothing, AveragedStep
<1>11. Newest(u.returns, Returns(one), 2)
  <2>1. 2 \in Nat \ {0}
    OBVIOUS
  <2>2. QED
    BY <1>3, <1>5, <2>1, NewestNothing
<1>12. Newest(u.volumes, Volumes(one), VolumeWindow)
  BY <1>2, <1>3, <1>4, <1>6, Periods, NewestNothing, NewestStep
<1>13. u.volRel = None /\ Volumed(one) = None
  <2>1. Len(<<>>) < VolumeWindow /\ Len(one) <= VolumeWindow
    BY <1>1, Periods
  <2>2. QED
    BY <1>3, <2>1 DEF Relative, Volumed
<1>14. u \in Indicator
  <2>1. /\ u.prev \in Candle /\ u.gain \in Averager /\ u.loss \in Averager /\ u.range \in Averager
        /\ u.returns \in Seq(Int) /\ u.volumes \in Seq(Int) /\ u.volRel \in Fraction \cup {None}
    BY <1>3, <1>9, <1>10, <1>11, <1>12, <1>13 DEF Averaged, Newest
  <2>2. QED
    BY <1>3, <1>8, <2>1 DEF Indicator
<1>15. QED
  BY <1>1, <1>3, <1>8, <1>9, <1>10, <1>11, <1>12, <1>13, <1>14 DEF Folded, one, u

\* A candle more.
LEMMA FoldedNext ==
  ASSUME NEW seen \in Seq(Candle), seen # <<>>, NEW r, Folded(r, seen), NEW c \in Candle
  PROVE  Folded(Update(r, c), Append(seen, c))
<1> DEFINE more == Append(seen, c)
           n == Len(seen)
           u == Update(r, c)
           b == Last(seen)
           close == CloseOf(c)
           vol == VolumeOf(c)
           tr == TrueRange(b, c)
           gain == Max({close - CloseOf(b), 0})
           loss == Max({CloseOf(b) - close, 0})
           return == c.exp - b.exp
<1>1. /\ more \in Seq(Candle) /\ more # <<>> /\ b \in Candle /\ Last(more) = c
      /\ Closes(more) = Append(Closes(seen), close)
      /\ Volumes(more) = Append(Volumes(seen), vol)
      /\ Ranges(more) = Append(Ranges(seen), tr)
      /\ Gains(more) = Append(Gains(seen), gain)
      /\ Losses(more) = Append(Losses(seen), loss)
      /\ Returns(more) = Append(Returns(seen), return)
  BY SeriesAppend
<1>2. /\ close \in Int /\ CloseOf(b) \in Int /\ vol \in Int /\ tr \in Int /\ return \in Int
  <2> HIDE DEF b
  <2>1. b \in Candle
    BY <1>1
  <2>2. close \in Int /\ vol \in Int /\ tr \in Int
    BY <2>1, CandleFacts
  <2>3. CloseOf(b) \in Int /\ b.exp \in Int /\ c.exp \in Int
    BY <2>1, CandleFacts
  <2>4. QED
    BY <2>2, <2>3
<1>3. gain \in Int /\ loss \in Int /\ -(close - CloseOf(b)) = CloseOf(b) - close
  BY <1>2, PositiveChange
<1>4. r \in Indicator /\ r.prev = b /\ b # None
  BY <1>1, NoneAssumption DEF Folded
<1>5. /\ r.fast = EmaMean(Closes(seen), FastPeriod) /\ r.slow = EmaMean(Closes(seen), SlowPeriod)
      /\ Averaged(r.gain, Gains(seen)) /\ Averaged(r.loss, Losses(seen))
      /\ Averaged(r.range, Ranges(seen))
      /\ Newest(r.returns, Returns(seen), 2) /\ Newest(r.volumes, Volumes(seen), VolumeWindow)
  BY DEF Folded
<1>6. /\ u.prev = c /\ u.fast = Ema(r.fast, close, FastPeriod) /\ u.slow = Ema(r.slow, close, SlowPeriod)
      /\ u.gain = Wilder(r.gain, gain) /\ u.loss = Wilder(r.loss, loss)
      /\ u.range = Wilder(r.range, tr)
      /\ u.returns = Slide(r.returns, return, 2)
      /\ u.volumes = Slide(r.volumes, vol, VolumeWindow)
      /\ u.volRel = Relative(r.volumes, vol)
      /\ u = [prev |-> u.prev, fast |-> u.fast, slow |-> u.slow, gain |-> u.gain,
              loss |-> u.loss, range |-> u.range, returns |-> u.returns,
              volumes |-> u.volumes, volRel |-> u.volRel]
  <2>1. u = [prev |-> c,
             fast |-> Ema(r.fast, close, FastPeriod), slow |-> Ema(r.slow, close, SlowPeriod),
             gain |-> Wilder(r.gain, gain), loss |-> Wilder(r.loss, Max({-(close - CloseOf(b)), 0})),
             range |-> Wilder(r.range, tr), returns |-> Slide(r.returns, return, 2),
             volumes |-> Slide(r.volumes, vol, VolumeWindow), volRel |-> Relative(r.volumes, vol)]
    BY <1>4 DEF Update
  <2>2. Max({-(close - CloseOf(b)), 0}) = loss
    BY <1>3
  <2> HIDE DEF u, gain, loss, return, tr, close, vol
  <2>3. QED
    BY <2>1, <2>2
<1>7. /\ Closes(seen) \in Seq(Int) /\ Len(Closes(seen)) = n
      /\ Volumes(seen) \in Seq(Int) /\ Len(Volumes(seen)) = n
      /\ Ranges(seen) \in Seq(Int) /\ Gains(seen) \in Seq(Int)
      /\ Losses(seen) \in Seq(Int) /\ Returns(seen) \in Seq(Int)
  BY SeriesFacts
<1>8. n \in Nat /\ n >= 1
  <2>1. n \in Nat /\ n # 0
    BY EmptySeq, LenProperties
  <2>2. QED
    BY <2>1
<1>9. None \notin Fraction
  BY NoneAssumption
<1>10. /\ Len(more) = n + 1 /\ more[n + 1] = c /\ \A k \in 1..n : more[k] = seen[k]
  BY AppendProperties
<1> HIDE DEF more, n, u, b, close, vol, tr, gain, loss, return
<1>11. /\ u.fast = EmaMean(Closes(more), FastPeriod) /\ u.slow = EmaMean(Closes(more), SlowPeriod)
       /\ u.fast \in Fraction /\ u.slow \in Fraction
  <2>1. Closes(more) \in Seq(Int) /\ Len(Closes(more)) >= 1
    <3>1. Closes(more) \in Seq(Int) /\ Len(Closes(more)) = Len(more)
      BY <1>1, SeriesFacts
    <3>2. QED
      BY <1>8, <1>10, <3>1
  <2>2. /\ EmaMean(Closes(more), FastPeriod) = Ema(r.fast, close, FastPeriod)
        /\ EmaMean(Closes(more), SlowPeriod) = Ema(r.slow, close, SlowPeriod)
    <3> DEFINE s == Closes(seen)
    <3>1. /\ s \in Seq(Int) /\ Len(s) >= 1 /\ Closes(more) = Append(s, close)
          /\ r.fast = EmaMean(s, FastPeriod) /\ r.slow = EmaMean(s, SlowPeriod)
      BY <1>1, <1>5, <1>7, <1>8
    <3> HIDE DEF s
    <3>2. EmaMean(Append(s, close), FastPeriod) = Ema(EmaMean(s, FastPeriod), close, FastPeriod)
      BY <1>2, <1>9, <3>1, Periods, EmaMeanStep
    <3>3. EmaMean(Append(s, close), SlowPeriod) = Ema(EmaMean(s, SlowPeriod), close, SlowPeriod)
      BY <1>2, <1>9, <3>1, Periods, EmaMeanStep
    <3>4. QED
      BY <3>1, <3>2, <3>3
  <2>3. EmaMean(Closes(more), FastPeriod) \in Fraction /\ EmaMean(Closes(more), SlowPeriod) \in Fraction
    BY <1>2, <1>9, <2>1, Periods, EmaMeanStep
  <2>4. QED
    BY <1>6, <2>2, <2>3
<1>12. Averaged(u.gain, Gains(more))
  BY <1>1, <1>3, <1>5, <1>6, <1>7, AveragedStep
<1>13. Averaged(u.loss, Losses(more))
  BY <1>1, <1>3, <1>5, <1>6, <1>7, AveragedStep
<1>14. Averaged(u.range, Ranges(more))
  BY <1>1, <1>2, <1>5, <1>6, <1>7, AveragedStep
<1>15. Newest(u.returns, Returns(more), 2)
  <2>1. 2 \in Nat \ {0}
    OBVIOUS
  <2>2. QED
    BY <1>1, <1>2, <1>5, <1>6, <1>7, <2>1, NewestStep
<1>16. Newest(u.volumes, Volumes(more), VolumeWindow)
  BY <1>1, <1>2, <1>5, <1>6, <1>7, Periods, NewestStep
<1>17. u.volRel = Volumed(more) /\ u.volRel \in Fraction \cup {None}
  <2> DEFINE w == VolumeWindow
             past == [i \in 1..w |-> VolumeOf(more[Len(more) - 1 - w + i])]
             window == r.volumes
  <2>1. /\ w \in Nat /\ w >= 1 /\ window \in Seq(Int)
        /\ Len(window) = IF n < w THEN n ELSE w
        /\ \A i \in 1..Len(window) : window[i] = Volumes(seen)[n - Len(window) + i]
    BY <1>5, <1>7, Periods DEF Newest
  <2>2. CASE n < w
    <3>1. Len(window) < w /\ Len(more) <= w
      BY <1>8, <1>10, <2>1, <2>2
    <3>2. u.volRel = None
      BY <1>6, <3>1 DEF Relative
    <3>3. Volumed(more) = None
      BY <3>1 DEF Volumed
    <3>4. QED
      BY <3>2, <3>3
  <2>3. CASE ~(n < w)
    <3>1. Len(window) = w /\ ~(Len(more) <= w) /\ ~(Len(window) < w)
      BY <1>8, <1>10, <2>1, <2>3
    <3>2. ASSUME NEW i \in 1..w
          PROVE  window[i] = VolumeOf(more[Len(more) - 1 - w + i]) /\ window[i] \in Int /\ window[i] >= 0
      <4>1. n - w + i \in 1..n /\ Len(more) - 1 - w + i = n - w + i
        BY <1>8, <1>10, <2>1, <2>3
      <4>2. window[i] = Volumes(seen)[n - w + i]
        BY <2>1, <3>1
      <4>3. Volumes(seen)[n - w + i] = VolumeOf(seen[n - w + i])
        BY <4>1 DEF Volumes, n
      <4>4. seen[n - w + i] \in Candle /\ more[n - w + i] = seen[n - w + i]
        BY <1>10, <4>1 DEF n
      <4>5. QED
        BY <4>1, <4>2, <4>3, <4>4, CandleFacts
    <3>3. window = past
      <4>1. window \in [1..w -> Int]
        BY <2>1, <3>1, LenProperties
      <4> HIDE DEF window
      <4>2. QED
        BY <3>2, <4>1
    <3>4. SeqSum(window) \in Int /\ SeqSum(window) >= 0
      <4>1. 0 \in Int /\ \A k \in 1..Len(window) : window[k] >= 0
        BY <3>1, <3>2
      <4>2. SeqSum(window) >= Len(window) * 0
        BY <2>1, <4>1, SumBounds
      <4>3. Len(window) * 0 = 0 /\ SeqSum(window) \in Int
        BY <2>1, <3>1, SumFacts
      <4>4. QED
        BY <4>2, <4>3
    <3>5. u.volRel = IF SeqSum(window) <= 0 THEN None ELSE [num |-> vol * w, den |-> SeqSum(window)]
      <4> HIDE DEF window
      <4>1. u.volRel = Relative(window, vol)
        BY <1>6 DEF window
      <4>2. Total(window) = SeqSum(window)
        BY DEF Total, SeqSum
      <4>3. QED
        BY <3>1, <4>1, <4>2 DEF Relative
    <3>6. Volumed(more) = IF SeqSum(window) = 0 THEN None ELSE [num |-> vol * w, den |-> SeqSum(window)]
      <4>1. Total(past) = SeqSum(window)
        BY <3>3 DEF Total, SeqSum
      <4>2. VolumeOf(more[Len(more)]) = vol
        BY <1>10 DEF vol
      <4>3. Volumed(more) = IF Len(more) <= w \/ Total(past) = 0 THEN None
                            ELSE [num |-> VolumeOf(more[Len(more)]) * w, den |-> Total(past)]
        BY DEF Volumed
      <4> HIDE DEF past, window
      <4>4. QED
        BY <3>1, <4>1, <4>2, <4>3
    <3> HIDE DEF window
    <3>7. [num |-> vol * w, den |-> SeqSum(window)] \in Fraction
      <4>1. vol * w \in Int
        BY <1>2, <2>1
      <4>2. QED
        BY <3>4, <4>1 DEF Fraction
    <3>8. QED
      BY <3>4, <3>5, <3>6, <3>7
  <2>4. QED
    BY <2>2, <2>3
<1>18. u \in Indicator
  <2>1. /\ u.prev \in Candle /\ u.gain \in Averager /\ u.loss \in Averager /\ u.range \in Averager
        /\ u.returns \in Seq(Int) /\ u.volumes \in Seq(Int)
    BY <1>6, <1>12, <1>13, <1>14, <1>15, <1>16 DEF Averaged, Newest
  <2>2. QED
    BY <1>6, <1>11, <1>17, <2>1 DEF Indicator
<1>19. QED
  BY <1>1, <1>6, <1>11, <1>12, <1>13, <1>14, <1>15, <1>16, <1>17, <1>18 DEF Folded, more, u

\* The indicators and the trend of each symbol are those of its candles.
FoldedInStep ==
  /\ candles \in [Sym -> Seq(Candle)] /\ DOMAIN ind = Sym /\ DOMAIN trend = Sym
  /\ \A s \in Sym : IF candles[s] = <<>> THEN ind[s] = None
                    ELSE Folded(ind[s], candles[s]) /\ trend[s] = Direction(ind[s])

LEMMA FoldedInit == Init => FoldedInStep
<1>1. <<>> \in Seq(Candle)
  OBVIOUS
<1>2. QED
  BY <1>1 DEF Init, FoldedInStep

LEMMA FoldedStep == FoldedInStep /\ [Next]_vars => FoldedInStep'
<1> SUFFICES ASSUME FoldedInStep, [Next]_vars PROVE FoldedInStep'
  OBVIOUS
<1>1. ASSUME NEW s \in Sym, NEW c \in Candle, HandleCandle(s, c) PROVE FoldedInStep'
  <2> DEFINE old == candles[s]
             more == Append(old, c)
             r == ind[s]
             u == Update(IF r = None THEN Fresh ELSE r, c)
  <2>1. /\ candles \in [Sym -> Seq(Candle)] /\ DOMAIN ind = Sym /\ DOMAIN trend = Sym
        /\ old \in Seq(Candle)
        /\ IF old = <<>> THEN r = None ELSE Folded(r, old) /\ trend[s] = Direction(r)
    BY DEF FoldedInStep
  <2>2. /\ candles' = [candles EXCEPT ![s] = more] /\ ind' = [ind EXCEPT ![s] = u]
        /\ trend' = [trend EXCEPT ![s] = Direction(ind'[s])]
    BY <1>1 DEF HandleCandle
  <2> HIDE DEF u
  <2>3. candles'[s] = more /\ ind'[s] = u /\ trend'[s] = Direction(u)
    BY <2>1, <2>2
  <2>4. \A q \in Sym : q # s => candles'[q] = candles[q] /\ ind'[q] = ind[q] /\ trend'[q] = trend[q]
    BY <2>1, <2>2
  <2>5. more \in Seq(Candle) /\ more # <<>>
    <3>1. more \in Seq(Candle) /\ Len(more) = Len(old) + 1 /\ Len(old) \in Nat
      BY <2>1, AppendProperties, LenProperties
    <3>2. Len(<<>>) = 0
      OBVIOUS
    <3> HIDE DEF more
    <3>3. QED
      BY <3>1, <3>2
  <2>6. Folded(u, more)
    <3>1. CASE old = <<>>
      <4>1. u = Update(Fresh, c) /\ more = <<c>>
        BY <2>1, <3>1 DEF u
      <4>2. QED
        BY <4>1, FoldedFirst
    <3>2. CASE old # <<>>
      <4>1. Folded(r, old) /\ r # None
        BY <2>1, <3>2, NoneAssumption DEF Folded
      <4>2. u = Update(r, c)
        BY <4>1 DEF u
      <4>3. QED
        BY <2>1, <3>2, <4>1, <4>2, FoldedNext
    <3>3. QED
      BY <3>1, <3>2
  <2> HIDE DEF more, r, old
  <2>7. candles' \in [Sym -> Seq(Candle)] /\ DOMAIN ind' = Sym /\ DOMAIN trend' = Sym
    BY <2>1, <2>2, <2>5
  <2>8. ASSUME NEW q \in Sym
        PROVE  IF candles'[q] = <<>> THEN ind'[q] = None
               ELSE Folded(ind'[q], candles'[q]) /\ trend'[q] = Direction(ind'[q])
    <3>1. CASE q = s
      BY <2>3, <2>5, <2>6, <3>1
    <3>2. CASE q # s
      BY <2>4, <3>2 DEF FoldedInStep
    <3>3. QED
      BY <3>1, <3>2
  <2>9. QED
    BY <2>7, <2>8 DEF FoldedInStep, Folded, Indicator, Averaged, Newest, Volumed, Gains, Losses,
                      Ranges, Closes, Volumes, Returns, EmaMean, WilderMean, Direction, Averager
<1>2. CASE Clean
  BY <1>2 DEF Clean, FoldedInStep
<1>3. CASE UNCHANGED <<ind, trend, candles>>
  BY <1>3 DEF FoldedInStep
<1>4. QED
  BY <1>1, <1>2, <1>3 DEF Next, LoopStep, HandleSnapshot, Refresh, Inserted, InsertFails, Start,
                          Stop, vars, engine, history

\* The indicators of a series as IndicatorsMatchHistory has them.
LEMMA AgreeSelf == \A x : Agree(x, x)
BY DEF Agree, Same

LEMMA RsiOfHistory ==
  ASSUME NEW r, NEW seen \in Seq(Candle), seen # <<>>, Folded(r, seen)
  PROVE  LET up == WilderMean(Gains(seen))
             down == WilderMean(Losses(seen))
         IN Agree(Rsi(r), IF up = None THEN None
                          ELSE IF down.num = 0 THEN Whole(100)
                          ELSE [num |-> 100 * up.num, den |-> up.num + down.num])
<1> DEFINE gains == Gains(seen)
           losses == Losses(seen)
           up == WilderMean(gains)
           down == WilderMean(losses)
<1>1. /\ gains \in Seq(Int) /\ losses \in Seq(Int) /\ Len(gains) = Len(losses)
      /\ Len(gains) \in Nat /\ WilderPeriod \in Nat
  BY SeriesFacts, LenProperties, Periods
<1>2. r.gain.avg = up /\ r.loss.avg = down
  BY DEF Folded, Averaged
<1>3. 0 \in Int
  OBVIOUS
<1> HIDE DEF gains, losses
<1>4. CASE Len(gains) < WilderPeriod
  <2>1. up = None
    BY <1>1, <1>3, <1>4, WilderMeanStep
  <2>2. Rsi(r) = None
    BY <1>2, <2>1 DEF Rsi
  <2>3. QED
    BY <2>1, <2>2, AgreeSelf DEF gains
<1>5. CASE ~(Len(gains) < WilderPeriod)
  <2>1. up \in Fraction /\ down \in Fraction
    <3>1. Len(gains) >= WilderPeriod /\ Len(losses) >= WilderPeriod
      BY <1>1, <1>5
    <3>2. QED
      BY <1>1, <1>3, <3>1, WilderMeanStep
  <2>2. up.den = down.den
    BY <1>1, <1>5 DEF WilderMean
  <2>3. up # None
    BY <2>1, NoneAssumption
  <2> DEFINE g == up.num
             l == down.num
             D == up.den
  <2>4. g \in Int /\ l \in Int /\ D \in Int
    BY <2>1 DEF Fraction
  <2>5. Rsi(r) = IF l = 0 THEN Whole(100)
                 ELSE [num |-> 100 * g * D, den |-> g * D + l * D]
    BY <1>2, <2>2, <2>3 DEF Rsi
  <2>6. CASE l = 0
    <3> HIDE DEF up
    <3>1. Rsi(r) = Whole(100)
      BY <2>5, <2>6
    <3>2. Agree(Rsi(r), IF up = None THEN None ELSE IF down.num = 0 THEN Whole(100)
                        ELSE [num |-> 100 * up.num, den |-> up.num + down.num])
      BY <2>3, <2>6, <3>1, AgreeSelf
    <3>3. QED
      BY <3>2 DEF up, gains, losses
  <2>7. CASE l # 0
    <3> DEFINE x == [num |-> 100 * g * D, den |-> g * D + l * D]
               y == [num |-> 100 * g, den |-> g + l]
    <3>1. x \in Fraction /\ y \in Fraction
      <4> HIDE DEF g, l, D
      <4>1. 100 * g * D \in Int /\ g * D + l * D \in Int /\ 100 * g \in Int /\ g + l \in Int
        BY <2>4
      <4>2. QED
        BY <4>1 DEF Fraction
    <3>2. x # None /\ y # None
      <4> HIDE DEF x, y
      <4>1. QED
        BY <3>1, NoneAssumption
    <3>3. Same(x, y)
      <4> HIDE DEF g, l, D
      <4>1. (100 * g * D) * (g + l) = (100 * g) * (g * D + l * D)
        BY <2>4
      <4>2. QED
        BY <4>1 DEF Same
    <3>4. Agree(x, y)
      <4> HIDE DEF x, y
      <4>1. QED
        BY <3>2, <3>3 DEF Agree
    <3>5. Rsi(r) = x
      BY <2>5, <2>7
    <3> HIDE DEF up, x
    <3>6. Agree(Rsi(r), IF up = None THEN None ELSE IF down.num = 0 THEN Whole(100)
                        ELSE [num |-> 100 * up.num, den |-> up.num + down.num])
      BY <2>3, <2>7, <3>4, <3>5
    <3>7. QED
      BY <3>6 DEF up, gains, losses
  <2>8. QED
    BY <2>6, <2>7
<1>6. QED
  BY <1>4, <1>5

LEMMA DeviationOfHistory ==
  ASSUME NEW r, NEW seen \in Seq(Candle), seen # <<>>, Folded(r, seen)
  PROVE  LET n == Len(seen) IN
         Agree(Deviation(r),
               IF n < 3 THEN None
               ELSE [num |-> 50 * Distance(2 * seen[n - 1].exp, seen[n].exp + seen[n - 2].exp),
                     den |-> 1])
<1> DEFINE n == Len(seen)
           w == r.returns
<1>1. n \in Nat /\ n >= 1
  <2>1. n \in Nat /\ n # 0
    BY EmptySeq, LenProperties
  <2>2. QED
    BY <2>1
<1>2. /\ Len(w) = IF n - 1 < 2 THEN n - 1 ELSE 2
      /\ \A i \in 1..Len(w) : w[i] = Returns(seen)[n - 1 - Len(w) + i]
  <2>1. Len(Returns(seen)) = n - 1
    BY SeriesFacts
  <2> HIDE DEF n
  <2>2. QED
    BY <2>1 DEF Folded, Newest
<1>3. CASE n < 3
  <2>1. Len(w) < 2
    BY <1>1, <1>2, <1>3
  <2>2. Deviation(r) = None
    BY <2>1 DEF Deviation
  <2>3. QED
    BY <1>3, <2>2, AgreeSelf
<1>4. CASE ~(n < 3)
  <2> DEFINE a == seen[n - 2].exp
             b == seen[n - 1].exp
             c == seen[n].exp
  <2>1. n - 2 \in 1..n /\ n - 1 \in 1..n /\ n \in 1..n
    BY <1>1, <1>4
  <2>2. a \in Int /\ b \in Int /\ c \in Int
    <3>1. seen[n - 2] \in Candle /\ seen[n - 1] \in Candle /\ seen[n] \in Candle
      BY <2>1
    <3>2. QED
      BY <3>1, CandleFacts
  <2>3. w[1] = b - a /\ w[2] = c - b /\ ~(Len(w) < 2)
    <3>1. Len(w) = 2
      BY <1>1, <1>2, <1>4
    <3>2. /\ n - 1 - 2 + 1 = n - 2 /\ n - 1 - 2 + 2 = n - 1 /\ (n - 2) + 1 = n - 1 /\ (n - 1) + 1 = n
          /\ n - 2 \in 1..(n - 1) /\ n - 1 \in 1..(n - 1)
      BY <1>1, <1>4
    <3>3. w[1] = Returns(seen)[n - 2] /\ w[2] = Returns(seen)[n - 1]
      <4>1. 1 \in 1..Len(w) /\ 2 \in 1..Len(w)
        BY <3>1
      <4> HIDE DEF n, w
      <4>2. w[1] = Returns(seen)[n - 1 - 2 + 1] /\ w[2] = Returns(seen)[n - 1 - 2 + 2]
        BY <1>2, <3>1, <4>1
      <4>3. QED
        BY <3>2, <4>2
    <3>4. /\ Returns(seen)[n - 2] = seen[(n - 2) + 1].exp - seen[n - 2].exp
          /\ Returns(seen)[n - 1] = seen[(n - 1) + 1].exp - seen[n - 1].exp
      BY <3>2 DEF Returns
    <3> HIDE DEF w, n
    <3>5. QED
      BY <3>1, <3>2, <3>3, <3>4
  <2> HIDE DEF a, b, c, w
  <2> DEFINE x == (b - a) - (c - b)
             y == (c - b) - (b - a)
             d == Max({x, y})
  <2>4. x \in Int /\ y \in Int /\ x = 2 * b - (c + a) /\ y = (c + a) - 2 * b
    BY <2>2
  <2>5. Distance(w[1], w[2]) = d
    BY <2>3 DEF Distance
  <2>6. Distance(2 * b, c + a) = d
    <3>1. {2 * b - (c + a), (c + a) - 2 * b} = {x, y}
      BY <2>4
    <3>2. QED
      BY <3>1 DEF Distance
  <2>7. d \in Int
    <3> HIDE DEF x, y
    <3>1. QED
      BY <2>4, Extremes
  <2> HIDE DEF d
  <2> DEFINE f == [num |-> 100 * d, den |-> 2]
             g == [num |-> 50 * d, den |-> 1]
  <2>8. f \in Fraction /\ g \in Fraction /\ Same(f, g)
    BY <2>7 DEF Fraction, Same
  <2>9. Deviation(r) = f
    BY <2>3, <2>5 DEF Deviation, w
  <2> HIDE DEF f, g
  <2>10. Agree(f, g)
    BY <2>8, NoneAssumption DEF Agree
  <2>11. Agree(Deviation(r), g)
    BY <2>9, <2>10
  <2>12. g = [num |-> 50 * Distance(2 * seen[n - 1].exp, seen[n].exp + seen[n - 2].exp), den |-> 1]
    BY <2>6 DEF g, a, b, c
  <2>13. QED
    BY <1>4, <2>11, <2>12
<1>5. QED
  BY <1>3, <1>4

LEMMA VolumeOfHistory ==
  ASSUME NEW r, NEW seen \in Seq(Candle), seen # <<>>, Folded(r, seen)
  PROVE  LET n == Len(seen)
             past == [i \in 1..VolumeWindow |-> VolumeOf(seen[n - 1 - VolumeWindow + i])]
         IN Agree(r.volRel, IF n <= VolumeWindow \/ Total(past) = 0 THEN None
                            ELSE [num |-> VolumeWindow * VolumeOf(seen[n]), den |-> Total(past)])
<1> DEFINE n == Len(seen)
           past == [i \in 1..VolumeWindow |-> VolumeOf(seen[n - 1 - VolumeWindow + i])]
           v == VolumeOf(seen[n])
           w == VolumeWindow
<1>1. v \in Int /\ w \in Int
  <2>1. n \in Nat /\ n # 0
    BY EmptySeq, LenProperties
  <2>2. n \in 1..n
    BY <2>1
  <2>3. seen[n] \in Candle
    BY <2>2
  <2>4. QED
    BY <2>3, CandleFacts, Periods
<1>2. r.volRel = IF n <= w \/ Total(past) = 0 THEN None ELSE [num |-> v * w, den |-> Total(past)]
  BY DEF Folded, Volumed
<1> HIDE DEF past, v
<1>3. v * w = w * v
  BY <1>1
<1>4. Agree(r.volRel, IF n <= w \/ Total(past) = 0 THEN None
                      ELSE [num |-> w * v, den |-> Total(past)])
  BY <1>2, <1>3, AgreeSelf
<1>5. QED
  BY <1>4 DEF past, v

LEMMA FoldedMatches == FoldedInStep => IndicatorsMatchHistory
<1>1. ASSUME FoldedInStep, NEW s \in Sym, candles[s] # <<>>
      PROVE
    LET seen == candles[s]
        n == Len(seen)
        closes == [i \in 1..n |-> CloseOf(seen[i])]
        gains == [i \in 1..(n - 1) |-> Max({closes[i + 1] - closes[i], 0})]
        losses == [i \in 1..(n - 1) |-> Max({closes[i] - closes[i + 1], 0})]
        ranges == [i \in 1..n |-> TrueRange(IF i = 1 THEN None ELSE seen[i - 1], seen[i])]
        up == WilderMean(gains)
        down == WilderMean(losses)
        fast == EmaMean(closes, FastPeriod)
        slow == EmaMean(closes, SlowPeriod)
        past == [i \in 1..VolumeWindow |-> VolumeOf(seen[n - 1 - VolumeWindow + i])]
    IN /\ Agree(Rsi(ind[s]),
                IF up = None THEN None
                ELSE IF down.num = 0 THEN Whole(100)
                ELSE [num |-> 100 * up.num, den |-> up.num + down.num])
       /\ Agree(ind[s].range.avg, WilderMean(ranges))
       /\ Same(ind[s].fast, fast) /\ Same(ind[s].slow, slow)
       /\ trend[s] = Direction([fast |-> fast, slow |-> slow])
       /\ Agree(Deviation(ind[s]),
                IF n < 3 THEN None
                ELSE [num |-> 50 * Distance(2 * seen[n - 1].exp, seen[n].exp + seen[n - 2].exp),
                      den |-> 1])
       /\ Agree(ind[s].volRel,
                IF n <= VolumeWindow \/ Total(past) = 0 THEN None
                ELSE [num |-> VolumeWindow * VolumeOf(seen[n]), den |-> Total(past)])
  <2> DEFINE seen == candles[s]
             n == Len(seen)
             closes == [i \in 1..n |-> CloseOf(seen[i])]
             gains == [i \in 1..(n - 1) |-> Max({closes[i + 1] - closes[i], 0})]
             losses == [i \in 1..(n - 1) |-> Max({closes[i] - closes[i + 1], 0})]
             ranges == [i \in 1..n |-> TrueRange(IF i = 1 THEN None ELSE seen[i - 1], seen[i])]
             fast == EmaMean(closes, FastPeriod)
             slow == EmaMean(closes, SlowPeriod)
             r == ind[s]
  <2>1. seen \in Seq(Candle) /\ seen # <<>> /\ Folded(r, seen) /\ trend[s] = Direction(r)
    BY <1>1 DEF FoldedInStep
  <2>2. closes = Closes(seen) /\ ranges = Ranges(seen)
    BY DEF Closes, Ranges
  <2>3. gains = Gains(seen) /\ losses = Losses(seen)
    <3>1. \A i \in 1..(n - 1) : closes[i + 1] = CloseOf(seen[i + 1]) /\ closes[i] = CloseOf(seen[i])
      <4>1. n \in Nat
        BY <2>1, LenProperties
      <4> HIDE DEF n
      <4>2. \A i \in 1..(n - 1) : i \in 1..n /\ i + 1 \in 1..n
        BY <4>1
      <4>3. QED
        BY <4>2
    <3> HIDE DEF closes
    <3>2. QED
      BY <3>1 DEF Gains, Losses
  <2> HIDE DEF closes, gains, losses, ranges
  <2>4. Agree(Rsi(r), IF WilderMean(gains) = None THEN None
                      ELSE IF WilderMean(losses).num = 0 THEN Whole(100)
                      ELSE [num |-> 100 * WilderMean(gains).num,
                            den |-> WilderMean(gains).num + WilderMean(losses).num])
    BY <2>1, <2>3, RsiOfHistory
  <2>5. Agree(r.range.avg, WilderMean(ranges))
    BY <2>1, <2>2, AgreeSelf DEF Folded, Averaged
  <2>6. r.fast = fast /\ r.slow = slow
    BY <2>1, <2>2 DEF Folded
  <2>7. Same(r.fast, fast) /\ Same(r.slow, slow)
    BY <2>6 DEF Same
  <2>8. trend[s] = Direction([fast |-> fast, slow |-> slow])
    BY <2>1, <2>6 DEF Direction
  <2>9. Agree(Deviation(r),
              IF n < 3 THEN None
              ELSE [num |-> 50 * Distance(2 * seen[n - 1].exp, seen[n].exp + seen[n - 2].exp),
                    den |-> 1])
    BY <2>1, DeviationOfHistory
  <2> DEFINE past == [i \in 1..VolumeWindow |-> VolumeOf(seen[n - 1 - VolumeWindow + i])]
  <2>10. Agree(r.volRel, IF n <= VolumeWindow \/ Total(past) = 0 THEN None
                         ELSE [num |-> VolumeWindow * VolumeOf(seen[n]), den |-> Total(past)])
    BY <2>1, VolumeOfHistory
  <2>11. QED
    BY <2>4, <2>5, <2>7, <2>8, <2>9, <2>10 DEF closes, gains, losses, ranges
<1>2. QED
  BY <1>1 DEF IndicatorsMatchHistory

\* Whatever candles came, the indicators are those of the whole series in closed
\* form (analytics/indicators.py, trend.py), for any periods, windows and prices.
THEOREM IndicatorsOfHistory == Spec => []IndicatorsMatchHistory
<1>1. Init => FoldedInStep
  BY FoldedInit
<1>2. FoldedInStep /\ [Next]_vars => FoldedInStep'
  BY FoldedStep
<1>3. FoldedInStep => IndicatorsMatchHistory
  BY FoldedMatches
<1>4. QED
  BY <1>1, <1>2, <1>3, PTL DEF Spec

================================================================================
