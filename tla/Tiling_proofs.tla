----------------------------- MODULE Tiling_proofs ------------------------------
(***************************************************************************)
(* Proofs about the tiles, for images of any size, any alignment, overlap  *)
(* and network, and wherever the search for a tile size stops: the tiles   *)
(* cover the image exactly, with enough context, in phase, and an          *)
(* execution in place leaves the old image or the new one.                 *)
(***************************************************************************)
EXTENDS Tiling, FiniteSetTheorems, TLAPS

-------------------------------------------------------------------------------
LEMMA Monotone == ASSUME NEW n \in Nat, NEW a \in Int, NEW b \in Int, a <= b
                  PROVE  n * a <= n * b
OBVIOUS

LEMMA Cancel == ASSUME NEW n \in Nat \ {0}, NEW a \in Int, NEW b \in Int, n * a < n * b
                PROVE  a < b
<1>. SUFFICES ASSUME b <= a PROVE FALSE
  OBVIOUS
<1>. QED BY Monotone

\* What a quotient is.
LEMMA Quotient ==
  ASSUME NEW a \in Int, NEW n \in Nat \ {0}
  PROVE  a \div n \in Int /\ n * (a \div n) <= a /\ a < n * (a \div n) + n
OBVIOUS

LEMMA QuotientBounds ==
  ASSUME NEW a \in Int, NEW n \in Nat \ {0}, NEW k \in Int
  PROVE  (n * k <= a => k <= a \div n) /\ (a < n * k => a \div n < k)
<1>. DEFINE q == a \div n
<1>1. q \in Int /\ n * q <= a /\ a < n * q + n /\ n * (q + 1) = n * q + n
  BY Quotient
<1>. HIDE DEF q
<1>2. ASSUME n * k <= a PROVE k <= q
  <2>1. n * k < n * (q + 1)
    BY <1>1, <1>2
  <2>. QED BY <1>1, <2>1, Cancel
<1>3. ASSUME a < n * k PROVE q < k
  BY <1>1, <1>3, Cancel
<1>. QED BY <1>2, <1>3 DEF q

LEMMA Multiple ==
  ASSUME NEW n \in Nat \ {0}, NEW k \in Int
  PROVE  (n * k) % n = 0 /\ (n * k) \div n = k
<1>1. n * k \in Int /\ n * (k + 1) = n * k + n
  OBVIOUS
<1>2. (n * k) \div n = k
  <2>1. k <= (n * k) \div n
    BY <1>1, QuotientBounds
  <2>2. (n * k) \div n < k + 1
    BY <1>1, QuotientBounds
  <2>. QED BY <1>1, <2>1, <2>2, Quotient
<1>3. (n * k) % n = n * k - n * ((n * k) \div n)
  OBVIOUS
<1>. QED BY <1>1, <1>2, <1>3

LEMMA IsMultiple ==
  ASSUME NEW n \in Nat \ {0}, NEW a \in Int, a % n = 0
  PROVE  a = n * (a \div n) /\ a \div n \in Int
OBVIOUS

\* A sum of multiples.
LEMMA MultipleSum ==
  ASSUME NEW n \in Nat \ {0}, NEW a \in Int, NEW b \in Int, a % n = 0, b % n = 0, NEW k \in Int
  PROVE  (a + b) % n = 0 /\ (a - b) % n = 0 /\ (k * a) % n = 0
<1>. DEFINE x == a \div n  y == b \div n
<1>1. a = n * x /\ b = n * y /\ x \in Int /\ y \in Int
  BY IsMultiple
<1>. HIDE DEF x, y
<1>2. a + b = n * (x + y) /\ a - b = n * (x - y) /\ k * a = n * (k * x)
  BY <1>1
<1>. QED BY <1>1, <1>2, Multiple

LEMMA SumOfMultiples ==
  ASSUME NEW n \in Nat \ {0}, NEW a \in Int, NEW b \in Int, a % n = 0, b % n = 0
  PROVE  (a + b) % n = 0
BY MultipleSum

LEMMA TimesMultiple ==
  ASSUME NEW n \in Nat \ {0}, NEW a \in Int, a % n = 0, NEW k \in Int
  PROVE  (k * a) % n = 0
BY MultipleSum

LEMMA Ceiling ==
  ASSUME NEW a \in Int, NEW n \in Nat \ {0}
  PROVE  /\ CeilDiv(a, n) \in Int
         /\ n * CeilDiv(a, n) >= a /\ n * (CeilDiv(a, n) - 1) < a
         /\ \A k \in Int : CeilDiv(a, n) <= k <=> a <= n * k
<1>. DEFINE c == CeilDiv(a, n)
<1>1. c \in Int /\ n * c <= a + n - 1 /\ a + n - 1 < n * c + n
  BY Quotient DEF CeilDiv
<1>. HIDE DEF c
<1>2. n * (c - 1) = n * c - n
  BY <1>1
<1>3. n * c >= a /\ n * (c - 1) < a
  BY <1>1, <1>2
<1>4. ASSUME NEW k \in Int PROVE c <= k <=> a <= n * k
  <2>1. ASSUME c <= k PROVE a <= n * k
    BY <1>1, <1>3, <2>1, Monotone
  <2>2. ASSUME a <= n * k PROVE c <= k
    <3>1. n * (c - 1) < n * k
      BY <1>1, <1>3, <2>2
    <3>. QED BY <1>1, <3>1, Cancel
  <2>. QED BY <2>1, <2>2
<1>. QED BY <1>1, <1>3, <1>4 DEF c

LEMMA CeilingBound ==
  ASSUME NEW a \in Int, NEW n \in Nat \ {0}, NEW k \in Int
  PROVE  CeilDiv(a, n) <= k <=> a <= n * k
BY Ceiling, Zenon

LEMMA CeilingIs ==
  ASSUME NEW a \in Int, NEW n \in Nat \ {0}
  PROVE  /\ CeilDiv(a, n) \in Int
         /\ n * CeilDiv(a, n) >= a /\ n * (CeilDiv(a, n) - 1) < a
BY Ceiling, Zenon

LEMMA Rounding ==
  ASSUME NEW a \in Int, NEW n \in Nat \ {0}
  PROVE  /\ RoundUp(a, n) \in Int /\ a <= RoundUp(a, n) /\ RoundUp(a, n) < a + n
         /\ RoundUp(a, n) % n = 0
         /\ \A b \in Int : b % n = 0 => (RoundUp(a, n) <= b <=> a <= b)
<1>. DEFINE c == CeilDiv(a, n)
<1>1. /\ c \in Int /\ n * c >= a /\ n * (c - 1) < a
      /\ \A k \in Int : c <= k <=> a <= n * k
  BY Ceiling
<1>2. RoundUp(a, n) = c * n
  BY DEF RoundUp
<1>. HIDE DEF c
<1>3. c * n = n * c /\ n * (c - 1) = n * c - n
  BY <1>1
<1>4. (n * c) % n = 0
  BY <1>1, Multiple
<1>5. ASSUME NEW b \in Int, b % n = 0 PROVE n * c <= b <=> a <= b
  <2>. DEFINE k == b \div n
  <2>1. k \in Int /\ b = n * k
    BY <1>5, IsMultiple
  <2>. HIDE DEF k
  <2>2. c <= k => n * c <= n * k
    BY <1>1, <2>1, Monotone
  <2>. QED BY <1>1, <2>1, <2>2
<1>. QED BY <1>1, <1>2, <1>3, <1>4, <1>5

LEMMA RoundedBelow ==
  ASSUME NEW a \in Int, NEW n \in Nat \ {0}, NEW b \in Int, b % n = 0
  PROVE  RoundUp(a, n) <= b <=> a <= b
BY Rounding, Zenon
-------------------------------------------------------------------------------
\* One dimension while the tile size is searched: n pixels in count cuts.
Searched(n, tile, count) ==
  /\ tile \in Nat \ {0} /\ tile % Alignment = 0 /\ count \in Nat \ {0}
  /\ count = 1 => tile = RoundUp(n, Alignment)
  /\ count > 1 => n > minTileSize /\ tile = Cut(n, count)
  /\ count <= Larger(1, CeilDiv(n - 2 * Overlap, Overlap))

\* One dimension when the number of tiles is known.
Tiled(n, tile, count) ==
  /\ tile \in Nat \ {0} /\ tile % Alignment = 0 /\ count \in Nat \ {0}
  /\ count = 1 => n <= tile
  /\ count > 1 => /\ tile >= minTileSize
                  /\ (tile - 2 * Overlap) * (count - 1) < n - 2 * Overlap
                  /\ n - 2 * Overlap <= (tile - 2 * Overlap) * count
  /\ count <= Larger(1, CeilDiv(n - 2 * Overlap, Overlap))

LEMMA Sizes ==
  /\ Alignment \in Nat \ {0} /\ Overlap \in Nat \ {0}
  /\ Overlap % Alignment = 0 /\ (2 * Overlap) % Alignment = 0
  /\ minTileSize \in Nat /\ minTileSize % Alignment = 0 /\ minTileSize = 3 * Overlap
<1>1. Alignment \in Nat \ {0} /\ Overlap \in Nat \ {0} /\ Overlap % Alignment = 0
  BY TilingAssumption
<1>2. (2 * Overlap) % Alignment = 0 /\ (3 * Overlap) % Alignment = 0
  <2>1. Overlap \in Int /\ 2 \in Int /\ 3 \in Int
    BY <1>1
  <2>. QED BY <1>1, <2>1, TimesMultiple, Zenon
<1>. QED BY <1>1, <1>2 DEF minTileSize

LEMMA CutIs ==
  ASSUME NEW n \in Nat, n > minTileSize, NEW count \in Nat \ {0}
  PROVE  /\ Cut(n, count) \in Nat \ {0} /\ Cut(n, count) % Alignment = 0
         /\ Cut(n, count) >= minTileSize
         /\ Cut(n, count) > minTileSize => n - 2 * Overlap > Overlap * count
<1>. DEFINE c == CeilDiv(n - 2 * Overlap, count)  r == RoundUp(c, Alignment)
<1>1. n - 2 * Overlap \in Int
  BY Sizes
<1>2. c \in Int /\ \A k \in Int : c <= k <=> n - 2 * Overlap <= count * k
  BY <1>1, Ceiling
<1>. HIDE DEF c
<1>4. r \in Int /\ r % Alignment = 0 /\ (r <= Overlap <=> c <= Overlap)
  <2>1. Overlap \in Int
    BY Sizes
  <2>2. r \in Int /\ r % Alignment = 0
    BY <1>2, Sizes, Rounding, Zenon
  <2>3. r <= Overlap <=> c <= Overlap
    BY <1>2, <2>1, Sizes, RoundedBelow, Zenon
  <2>. QED BY <2>2, <2>3
<1>. HIDE DEF r
<1>5. Cut(n, count) = IF r + 2 * Overlap >= minTileSize THEN r + 2 * Overlap ELSE minTileSize
  BY DEF Cut, Larger, r, c
<1>6. (r + 2 * Overlap) % Alignment = 0 /\ r + 2 * Overlap \in Int
  <2>1. 2 * Overlap \in Int /\ r + 2 * Overlap \in Int
    BY <1>4, Sizes
  <2>. QED BY <1>4, <2>1, Sizes, SumOfMultiples, Zenon
<1>7. minTileSize \in Nat \ {0}
  BY Sizes
<1>8. Cut(n, count) > minTileSize => r > Overlap
  BY <1>4, <1>5, Sizes
<1>9. c > Overlap => n - 2 * Overlap > count * Overlap
  BY <1>1, <1>2, Sizes
<1>10. count * Overlap = Overlap * count
  BY Sizes
<1>. QED BY <1>4, <1>5, <1>6, <1>7, <1>8, <1>9, <1>10, <1>2, <1>1, Sizes

\* Another cut: the tile was larger than the least one, so there are pixels for it.
LEMMA CutKeeps ==
  ASSUME NEW n \in Nat \ {0}, NEW tile, NEW count, Searched(n, tile, count), tile > minTileSize
  PROVE  Searched(n, Cut(n, count + 1), count + 1)
<1>1. count \in Nat \ {0} /\ tile \in Nat
  BY DEF Searched
<1>2. n > minTileSize /\ n - 2 * Overlap > Overlap * count
  <2>1. CASE count = 1
    <3>1. tile = RoundUp(n, Alignment)
      BY <2>1 DEF Searched
    <3>2. tile <= minTileSize <=> n <= minTileSize
      <4>1. n \in Int /\ minTileSize \in Int
        BY Sizes
      <4>. QED BY <3>1, <4>1, Sizes, RoundedBelow, Zenon
    <3>. QED BY <1>1, <2>1, <3>2, Sizes
  <2>2. CASE count > 1
    <3>1. n > minTileSize /\ tile = Cut(n, count)
      BY <2>2 DEF Searched
    <3>. QED BY <1>1, <3>1, CutIs
  <2>. QED BY <1>1, <2>1, <2>2
<1>3. CeilDiv(n - 2 * Overlap, Overlap) \in Int /\ CeilDiv(n - 2 * Overlap, Overlap) > count
  <2>1. n - 2 * Overlap \in Int /\ ~ (n - 2 * Overlap <= Overlap * count)
    BY <1>1, <1>2, Sizes
  <2>2. count \in Int /\ Overlap \in Nat \ {0}
    BY <1>1, Sizes
  <2>3. CeilDiv(n - 2 * Overlap, Overlap) \in Int
    BY <2>1, <2>2, CeilingIs, Zenon
  <2>4. ~ (CeilDiv(n - 2 * Overlap, Overlap) <= count)
    BY <2>1, <2>2, CeilingBound, Zenon
  <2>. QED BY <2>2, <2>3, <2>4
<1>4. count + 1 <= Larger(1, CeilDiv(n - 2 * Overlap, Overlap))
  BY <1>1, <1>3 DEF Larger
<1>5. Cut(n, count + 1) \in Nat \ {0} /\ Cut(n, count + 1) % Alignment = 0
  BY <1>1, <1>2, CutIs
<1>. QED BY <1>1, <1>2, <1>4, <1>5 DEF Searched

LEMMA CountIs ==
  ASSUME NEW n \in Nat \ {0}, NEW tile, NEW count, Searched(n, tile, count)
  PROVE  Tiled(n, tile, CountOf(n, tile))
<1>1. tile \in Nat \ {0} /\ tile % Alignment = 0 /\ count \in Nat \ {0}
  BY DEF Searched
<1>2. CASE n <= tile
  <2>1. CountOf(n, tile) = 1
    BY <1>1, <1>2 DEF CountOf
  <2>2. CeilDiv(n - 2 * Overlap, Overlap) \in Int
    BY Ceiling, Sizes
  <2>. QED BY <1>1, <1>2, <2>1, <2>2 DEF Tiled, Larger
<1>3. CASE n > tile
  <2>1. count > 1
    <3>1. count = 1 => tile >= n
      BY Sizes, Rounding DEF Searched
    <3>. QED BY <1>1, <1>3, <3>1
  <2>2. tile >= minTileSize
    BY <1>1, <2>1, CutIs DEF Searched
  <2>. DEFINE s == tile - 2 * Overlap  m == n - 2 * Overlap
  <2>3. s \in Nat \ {0} /\ m \in Nat \ {0} /\ s >= Overlap /\ m > s
    BY <1>1, <1>3, <2>2, Sizes
  <2>4. CountOf(n, tile) = CeilDiv(m, s)
    BY <1>3, <1>1 DEF CountOf
  <2>. HIDE DEF s, m
  <2>5. CeilDiv(m, s) \in Int /\ s * CeilDiv(m, s) >= m /\ s * (CeilDiv(m, s) - 1) < m
    <3>1. m \in Int
      BY <2>3
    <3>. QED BY <2>3, <3>1, CeilingIs, Zenon
  <2>6. CeilDiv(m, s) > 1
    <3>1. ~ (m <= s * 1)
      BY <2>3
    <3>2. m \in Int /\ 1 \in Int
      BY <2>3
    <3>3. ~ (CeilDiv(m, s) <= 1)
      BY <2>3, <3>1, <3>2, CeilingBound, Zenon
    <3>. QED BY <2>5, <3>3
  <2>7. CeilDiv(m, Overlap) \in Int /\ CeilDiv(m, s) <= CeilDiv(m, Overlap)
    <3>. DEFINE k == CeilDiv(m, Overlap)
    <3>1. k \in Int /\ m <= Overlap * k
      <4>1. m \in Int /\ Overlap \in Nat \ {0}
        BY <2>3, Sizes
      <4>. QED BY <4>1, CeilingIs
    <3>. HIDE DEF k
    <3>2. k > 0
      <4>1. ~ (k <= 0)
        BY <2>3, <3>1, Monotone, Sizes
      <4>. QED BY <3>1, <4>1
    <3>3. Overlap * k <= s * k
      <4>1. k * Overlap <= k * s
        BY <2>3, <3>1, <3>2, Monotone, Sizes
      <4>. QED BY <2>3, <3>1, <4>1, Sizes
    <3>4. m <= s * k
      BY <2>3, <3>1, <3>3, Sizes
    <3>5. m \in Int
      BY <2>3
    <3>6. CeilDiv(m, s) <= k
      BY <2>3, <3>1, <3>4, <3>5, CeilingBound, Zenon
    <3>. QED BY <3>1, <3>6 DEF k
  <2>8. CeilDiv(m, s) <= Larger(1, CeilDiv(m, Overlap))
    BY <2>5, <2>7 DEF Larger
  <2>. QED BY <1>1, <2>2, <2>4, <2>5, <2>6, <2>8 DEF Tiled, s, m
<1>4. n \in Nat /\ tile \in Nat
  BY <1>1
<1>. QED BY <1>2, <1>3, <1>4
-------------------------------------------------------------------------------
\* The first pixel that tile t writes, in one dimension; n after the last tile.
Start(n, t, tile, count) ==
  IF t = 0 THEN 0 ELSE IF t = count THEN n ELSE Pos(t, tile) + Overlap

LEMMA TypeOfTiled ==
  ASSUME NEW n, NEW tile, NEW count, Tiled(n, tile, count)
  PROVE  tile \in Nat \ {0} /\ tile % Alignment = 0 /\ count \in Nat \ {0}
BY DEF Tiled

\* Where a tile lies: every one but the last is full and is followed by Overlap
\* pixels, the last one ends at the end of the image.
LEMMA Position ==
  ASSUME NEW n \in Nat \ {0}, NEW tile, NEW count, Tiled(n, tile, count),
         NEW t \in 0..count-1
  PROVE  /\ Pos(t, tile) \in Nat /\ (t = 0 => Pos(t, tile) = 0)
         /\ Pos(t + 1, tile) = Pos(t, tile) + tile - 2 * Overlap
         /\ t < count - 1 => /\ tile >= minTileSize
                             /\ Pos(t, tile) + tile < n
         /\ t = count - 1 => /\ n - Pos(t, tile) <= tile
                             /\ Pos(t, tile) < n
                             /\ t > 0 => Pos(t, tile) + 2 * Overlap < n
<1>1. tile \in Nat \ {0} /\ count \in Nat \ {0} /\ t \in Nat /\ Overlap \in Nat \ {0}
  BY TypeOfTiled, Sizes
<1>. DEFINE s == tile - 2 * Overlap  p == Pos(t, tile)
<1>2. s \in Int /\ p = t * s /\ Pos(t + 1, tile) = (t + 1) * s
  BY <1>1 DEF Pos
<1>3. (t + 1) * s = p + s /\ p \in Int /\ (t = 0 => p = 0)
  <2>. HIDE DEF s
  <2>. QED BY <1>1, <1>2
<1>4. CASE count = 1
  <2>1. t = 0 /\ n <= tile
    BY <1>1, <1>4 DEF Tiled
  <2>. HIDE DEF p, s
  <2>2. Pos(t + 1, tile) = p + s
    BY <1>2, <1>3
  <2>. QED BY <1>1, <1>2, <1>3, <1>4, <2>1, <2>2 DEF p, s
<1>5. CASE count > 1
  <2>1. tile >= minTileSize /\ s * (count - 1) < n - 2 * Overlap /\ n - 2 * Overlap <= s * count
    BY <1>1, <1>5 DEF Tiled
  <2>2. s \in Nat \ {0}
    BY <1>1, <2>1, Sizes
  <2>. HIDE DEF s, p
  <2>3. t * s = s * t /\ (t + 1) * s = s * (t + 1) /\ s * (t + 1) = s * t + s /\ s * t \in Nat
    BY <1>1, <2>2
  <2>4. ASSUME t < count - 1 PROVE s * (t + 1) <= s * (count - 1)
    BY <1>1, <2>2, <2>4, Monotone
  <2>5. t = count - 1 => t + 1 = count
    BY <1>1
  <2>6. n \in Nat /\ s * (t + 1) \in Int /\ s * (count - 1) \in Int /\ s * count \in Int
    BY <1>1, <2>2
  <2>7. tile = s + 2 * Overlap
    BY <1>1 DEF s
  <2>8. p \in Nat /\ Pos(t + 1, tile) = p + s
    BY <1>2, <1>3, <2>3
  <2>9. t < count - 1 => p + tile < n
    BY <1>1, <1>2, <2>1, <2>2, <2>3, <2>4, <2>6, <2>7
  <2>10. t = count - 1 => n - p <= tile /\ p + 2 * Overlap < n
    <3>1. t = count - 1 => count - 1 = t
      OBVIOUS
    <3>. QED BY <1>1, <1>2, <2>1, <2>2, <2>3, <2>5, <2>6, <2>7, <3>1
  <2>11. /\ t = 0 => p = 0
         /\ Pos(t + 1, tile) = p + tile - 2 * Overlap
    BY <1>1, <1>3, <2>7, <2>8, <2>2
  <2>12. t = count - 1 => p < n
    BY <1>1, <2>8, <2>10
  <2>. QED BY <2>1, <2>8, <2>9, <2>10, <2>11, <2>12 DEF p
<1>. QED BY <1>1, <1>4, <1>5

\* What a tile reads and writes: the outputs of the tiles follow one another.
LEMMA Placed ==
  ASSUME NEW n \in Nat \ {0}, NEW tile, NEW count, Tiled(n, tile, count),
         NEW t \in 0..count-1
  PROVE  /\ SizeIn(n, t, tile) = IF t < count - 1 THEN tile ELSE n - Pos(t, tile)
         /\ SizeIn(n, t, tile) \in 1..tile
         /\ SizeOut(n, t, tile, count) = Start(n, t + 1, tile, count) - Start(n, t, tile, count)
         /\ First(t, tile) = Start(n, t, tile, count)
         /\ Start(n, t, tile, count) \in Nat /\ Start(n, t + 1, tile, count) \in Nat
         /\ Start(n, t, tile, count) < Start(n, t + 1, tile, count)
         /\ Start(n, t + 1, tile, count) <= n
<1>. DEFINE p == Pos(t, tile)  q == Pos(t + 1, tile)
<1>1. tile \in Nat \ {0} /\ count \in Nat \ {0} /\ t \in Nat /\ Overlap \in Nat \ {0} /\ n \in Nat
      /\ minTileSize = 3 * Overlap
  BY TypeOfTiled, Sizes
<1>2. /\ p \in Nat /\ (t = 0 => p = 0)
      /\ q = p + tile - 2 * Overlap
      /\ t < count - 1 => tile >= minTileSize /\ p + tile < n
      /\ t = count - 1 => n - p <= tile /\ p < n /\ (t > 0 => p + 2 * Overlap < n)
  BY Position
<1>3. /\ SizeIn(n, t, tile) = IF n - p <= tile THEN n - p ELSE tile
      /\ First(t, tile) = p + (IF t > 0 THEN Overlap ELSE 0)
      /\ SizeOut(n, t, tile, count) = SizeIn(n, t, tile) - (IF t > 0 THEN Overlap ELSE 0)
                                        - (IF t < count - 1 THEN Overlap ELSE 0)
  BY DEF SizeIn, Smaller, First, SizeOut, OverlapBegin, OverlapEnd
<1>4. /\ Start(n, t, tile, count) = IF t = 0 THEN 0 ELSE p + Overlap
      /\ Start(n, t + 1, tile, count) = IF t = count - 1 THEN n ELSE q + Overlap
  BY <1>1 DEF Start
<1>. HIDE DEF p, q
<1>5. CASE t < count - 1
  BY <1>1, <1>2, <1>3, <1>4, <1>5 DEF p
<1>6. CASE t = count - 1
  BY <1>1, <1>2, <1>3, <1>4, <1>6 DEF p
<1>. QED BY <1>1, <1>5, <1>6

LEMMA OutIs ==
  ASSUME NEW n \in Nat \ {0}, NEW tile, NEW count, Tiled(n, tile, count),
         NEW t \in 0..count-1
  PROVE  Out(n, t, tile, count) = Start(n, t, tile, count) .. Start(n, t + 1, tile, count) - 1
<1>. DEFINE a == Start(n, t, tile, count)  b == Start(n, t + 1, tile, count)
<1>1. a \in Nat /\ b \in Nat /\ First(t, tile) = a /\ SizeOut(n, t, tile, count) = b - a
  BY Placed
<1>. HIDE DEF a, b
<1>2. a + (b - a) - 1 = b - 1
  BY <1>1
<1>. QED BY <1>1, <1>2 DEF Out, a, b

LEMMA HasContext ==
  ASSUME NEW n \in Nat \ {0}, NEW tile, NEW count, Tiled(n, tile, count),
         NEW t \in 0..count-1
  PROVE  Context(n, t, tile, count)
<1>. DEFINE a == Start(n, t, tile, count)  b == Start(n, t + 1, tile, count)
            p == Pos(t, tile)  s == SizeIn(n, t, tile)
<1>1. tile \in Nat \ {0} /\ count \in Nat \ {0} /\ t \in Nat /\ Overlap \in Nat \ {0} /\ n \in Nat
  BY TypeOfTiled, Sizes
<1>2. p \in Nat /\ (t = 0 => p = 0) /\ Pos(t + 1, tile) = p + tile - 2 * Overlap
  BY Position
<1>3. /\ s = IF t < count - 1 THEN tile ELSE n - p
      /\ a \in Nat /\ b \in Nat
  BY Placed
<1>4. /\ a = IF t = 0 THEN 0 ELSE p + Overlap
      /\ b = IF t = count - 1 THEN n ELSE p + tile - 2 * Overlap + Overlap
  BY <1>1, <1>2 DEF Start
<1>. SUFFICES ASSUME NEW r \in a .. b - 1
              PROVE  p <= Larger(0, r - Overlap) /\ p + s >= Smaller(n, r + Overlap + 1)
  BY OutIs, Zenon DEF Context
<1>. HIDE DEF a, b, p, s
<1>5. p <= Larger(0, r - Overlap)
  BY <1>1, <1>2, <1>3, <1>4 DEF Larger
<1>6. p + s >= Smaller(n, r + Overlap + 1)
  BY <1>1, <1>2, <1>3, <1>4 DEF Smaller
<1>. QED BY <1>5, <1>6

LEMMA FitsBuffer ==
  ASSUME NEW n \in Nat \ {0}, NEW tile, NEW count, Tiled(n, tile, count),
         NEW t \in 0..count-1
  PROVE  InBuffer(n, t, tile, count)
<1>. DEFINE p == Pos(t, tile)  s == SizeIn(n, t, tile)  r == RoundUp(s, Alignment)
<1>1. /\ tile \in Nat \ {0} /\ tile % Alignment = 0 /\ tile \in Int
      /\ t \in Int /\ 2 * Overlap \in Int /\ (2 * Overlap) % Alignment = 0
      /\ Alignment \in Nat \ {0}
  BY TypeOfTiled, Sizes
<1>2. p \in Nat
  BY Position
<1>3. s \in 1..tile /\ SizeOut(n, t, tile, count) > 0
  BY Placed
<1>. HIDE DEF s
<1>4. s \in Int /\ s <= tile
  BY <1>1, <1>3
<1>5. r \in Int /\ s <= r /\ r % Alignment = 0
  BY <1>1, <1>4, Rounding, Zenon
<1>6. r <= tile
  BY <1>1, <1>4, RoundedBelow, Zenon
<1>7. AlignOffset(n, t, tile) = tile - r
  BY DEF AlignOffset, s
<1>. HIDE DEF r
<1>8. (tile - r) % Alignment = 0 /\ (tile - 2 * Overlap) % Alignment = 0
  BY <1>1, <1>5, MultipleSum, Zenon
<1>9. p % Alignment = 0
  <2>1. tile - 2 * Overlap \in Int
    BY <1>1
  <2>. QED BY <1>1, <1>8, <2>1, TimesMultiple, Zenon DEF Pos
<1>. HIDE DEF p
<1>10. p >= 0 /\ s > 0 /\ tile - r >= 0 /\ tile - r + s <= tile
  BY <1>1, <1>2, <1>3, <1>4, <1>5, <1>6
<1>. QED BY <1>3, <1>7, <1>8, <1>9, <1>10 DEF InBuffer, p, s
-------------------------------------------------------------------------------
\* The blocks of the exposure's measurement, in one dimension: there are about as
\* many as pixels by K, and each starts where the one before it ends.
BlockStart(n, b) == (b * n) \div NumBlocks(n)

LEMMA NumberOfBlocks ==
  ASSUME NEW n \in Nat \ {0}
  PROVE  /\ NumBlocks(n) \in Nat /\ K \div 2 \in Nat \ {0}
         /\ NumBlocks(n) > 0 => /\ n >= NumBlocks(n) * (K \div 2)
                                /\ n < NumBlocks(n) * (3 * (K \div 2))
<1>. DEFINE h == K \div 2  N == NumBlocks(n)
<1>1. h \in Nat \ {0} /\ K = 2 * h /\ K \in Nat \ {0}
  BY TilingAssumption
<1>. HIDE DEF h
<1>2. N = (n + h) \div K
  BY DEF NumBlocks, h
<1>. HIDE DEF N
<1>3. n + h \in Int /\ 0 \in Int /\ K * 0 <= n + h
  BY <1>1
<1>4. N \in Int /\ K * N <= n + h /\ n + h < K * N + K
  BY <1>1, <1>2, <1>3, Quotient
<1>5. N >= 0
  <2>1. 0 <= N
    BY <1>1, <1>2, <1>3, QuotientBounds, Zenon
  <2>. QED BY <1>4, <2>1
<1>6. ASSUME N > 0 PROVE n >= N * h /\ n < N * (3 * h)
  <2>1. h * 1 <= h * N
    BY <1>1, <1>4, <1>6, Monotone
  <2>2. K * N = 2 * (h * N) /\ N * h = h * N /\ N * (3 * h) = 3 * (h * N) /\ h * N \in Int
    BY <1>1, <1>4
  <2>. QED BY <1>1, <1>4, <2>1, <2>2
<1>. QED BY <1>1, <1>4, <1>5, <1>6 DEF h, N

LEMMA BlockStarts ==
  ASSUME NEW n \in Nat \ {0}, NumBlocks(n) > 0
  PROVE  /\ \A b \in Nat : BlockStart(n, b) \in Nat
         /\ \A b, c \in Nat : b <= c => BlockStart(n, b) <= BlockStart(n, c)
         /\ BlockStart(n, 0) = 0 /\ BlockStart(n, NumBlocks(n)) = n
<1>. DEFINE N == NumBlocks(n)
<1>1. N \in Nat \ {0}
  BY NumberOfBlocks
<1>2. ASSUME NEW b \in Nat PROVE BlockStart(n, b) = (b * n) \div N
  BY DEF BlockStart
<1>. HIDE DEF N
<1>3. ASSUME NEW b \in Nat
      PROVE  /\ (b * n) \div N \in Int
             /\ N * ((b * n) \div N) <= b * n
             /\ (b * n) \div N >= 0
  <2>1. b * n \in Int /\ 0 \in Int /\ N * 0 <= b * n
    BY <1>1
  <2>2. 0 <= (b * n) \div N
    BY <1>1, <2>1, QuotientBounds, Zenon
  <2>. QED BY <1>1, <2>1, <2>2, Quotient
<1>4. ASSUME NEW b \in Nat, NEW c \in Nat, b <= c PROVE (b * n) \div N <= (c * n) \div N
  <2>. DEFINE q == (b * n) \div N
  <2>1. n * b <= n * c
    BY <1>4, Monotone
  <2>2. q \in Int /\ N * q <= b * n
    BY <1>3
  <2>. HIDE DEF q
  <2>3. c * n \in Int /\ N * q <= c * n
    BY <1>1, <2>1, <2>2
  <2>4. q <= (c * n) \div N
    BY <1>1, <2>2, <2>3, QuotientBounds, Zenon
  <2>. QED BY <2>4 DEF q
<1>5. (0 * n) \div N = 0
  <2>1. 0 * n = N * 0 /\ 0 \in Int
    BY <1>1
  <2>. QED BY <1>1, <2>1, Multiple, Zenon
<1>6. (N * n) \div N = n
  <2>1. n \in Int
    OBVIOUS
  <2>. QED BY <1>1, <2>1, Multiple, Zenon
<1>7. \A b \in Nat : (b * n) \div N \in Nat
  BY <1>3
<1>8. N \in Nat /\ 0 \in Nat
  BY <1>1
<1>. QED BY <1>2, <1>4, <1>5, <1>6, <1>7, <1>8 DEF N

LEMMA BlockIs ==
  ASSUME NEW n, NEW b
  PROVE  Block(n, b) = BlockStart(n, b) .. BlockStart(n, b + 1) - 1
BY DEF Block, BlockStart

\* The size of a block follows from those of the whole and the number of blocks.
LEMMA BlockSize ==
  ASSUME NEW n \in Nat \ {0}, NumBlocks(n) > 0, NEW b \in 0..NumBlocks(n)-1
  PROVE  BlockStart(n, b + 1) - BlockStart(n, b) \in K \div 2 .. 3 * (K \div 2)
<1>. DEFINE N == NumBlocks(n)  h == K \div 2  x == BlockStart(n, b)  y == BlockStart(n, b + 1)
<1>1. N \in Nat \ {0} /\ h \in Nat \ {0} /\ n >= N * h /\ n < N * (3 * h) /\ b \in Nat /\ n \in Nat
  BY NumberOfBlocks
<1>2. x = (b * n) \div N /\ y = ((b + 1) * n) \div N
  BY DEF BlockStart
<1>. HIDE DEF N, h, x, y
<1>3. b * n \in Int /\ (b + 1) * n \in Int /\ (b + 1) * n = b * n + n
  BY <1>1
<1>4. /\ x \in Int /\ N * x <= b * n /\ b * n < N * x + N
      /\ y \in Int /\ N * y <= (b + 1) * n /\ (b + 1) * n < N * y + N
  BY <1>1, <1>2, <1>3, Quotient
<1>5. N * (y - x) = N * y - N * x /\ N * (h - 1) = N * h - N /\ N * (3 * h + 1) = N * (3 * h) + N
      /\ N * y \in Int /\ N * x \in Int /\ N * h \in Int /\ N * (3 * h) \in Int
  BY <1>1, <1>4
<1>6. N * (h - 1) < N * (y - x) /\ N * (y - x) < N * (3 * h + 1)
  BY <1>1, <1>3, <1>4, <1>5
<1>7. h - 1 < y - x /\ y - x < 3 * h + 1
  <2>1. h - 1 \in Int /\ y - x \in Int /\ 3 * h + 1 \in Int
    BY <1>1, <1>4
  <2>. QED BY <1>1, <1>6, <2>1, Cancel, Zenon
<1>8. y - x \in h .. 3 * h
  BY <1>1, <1>4, <1>7
<1>. QED BY <1>8 DEF h, x, y

\* The block of a pixel.
LEMMA BlockOf ==
  ASSUME NEW n \in Nat \ {0}, NumBlocks(n) > 0, NEW r \in 0..n-1
  PROVE  \E b \in 0..NumBlocks(n)-1 : r \in Block(n, b)
<1>. DEFINE N == NumBlocks(n)  b == ((r + 1) * N - 1) \div n
<1>1. N \in Nat \ {0} /\ n \in Nat \ {0} /\ r \in Nat /\ r + 1 <= n
  BY NumberOfBlocks
<1>. HIDE DEF N
<1>2. N * 1 <= N * (r + 1) /\ N * (r + 1) <= N * n
  BY <1>1, Monotone
<1>3. /\ (r + 1) * N - 1 \in Int /\ n * 0 <= (r + 1) * N - 1 /\ (r + 1) * N - 1 < n * N
      /\ 0 \in Int /\ N \in Int
  BY <1>1, <1>2
<1>4. 0 <= b /\ b < N
  BY <1>1, <1>3, QuotientBounds, Zenon
<1>5. b \in Int /\ n * b <= (r + 1) * N - 1 /\ (r + 1) * N - 1 < n * b + n
  BY <1>1, <1>3, Quotient
<1>. HIDE DEF b
<1>6. b \in 0..N-1 /\ b \in Nat /\ b + 1 \in Nat
  BY <1>1, <1>4, <1>5
<1>7. /\ b * n \in Int /\ (b + 1) * n \in Int /\ r + 1 \in Int
      /\ b * n < N * (r + 1) /\ N * (r + 1) <= (b + 1) * n
  BY <1>1, <1>5, <1>6
<1>8. (b * n) \div N < r + 1 /\ r + 1 <= ((b + 1) * n) \div N
  BY <1>1, <1>7, QuotientBounds, Zenon
<1>9. BlockStart(n, b) < r + 1 /\ r + 1 <= BlockStart(n, b + 1)
  BY <1>8 DEF BlockStart, N
<1>10. BlockStart(n, b) \in Nat /\ BlockStart(n, b + 1) \in Nat
  BY <1>6, BlockStarts
<1>11. r \in BlockStart(n, b) .. BlockStart(n, b + 1) - 1
  BY <1>1, <1>9, <1>10
<1>. QED BY <1>6, <1>11, BlockIs DEF N

LEMMA BlocksAreEven == ASSUME NEW n \in Nat \ {0} PROVE EvenBlocks(n)
<1>. DEFINE N == NumBlocks(n)
<1>. SUFFICES ASSUME N > 0
     PROVE /\ UNION {Block(n, b) : b \in 0..N-1} = 0..n-1
           /\ \A b \in 0..N-1 :
                /\ Cardinality(Block(n, b)) \in K \div 2 .. 3 * (K \div 2)
                /\ \A c \in 0..b-1 : Block(n, b) \cap Block(n, c) = {}
  BY DEF EvenBlocks
<1>1. N \in Nat \ {0} /\ K \div 2 \in Nat \ {0}
  BY NumberOfBlocks
<1>2. /\ \A b \in Nat : BlockStart(n, b) \in Nat
      /\ \A b, c \in Nat : b <= c => BlockStart(n, b) <= BlockStart(n, c)
      /\ BlockStart(n, N) = n
  BY BlockStarts
<1>3. ASSUME NEW b \in 0..N-1 PROVE Block(n, b) \subseteq 0..n-1
  <2>1. b + 1 \in Nat /\ b \in Nat /\ N \in Nat /\ b + 1 <= N
    BY <1>1
  <2>2. BlockStart(n, b + 1) <= n /\ BlockStart(n, b) \in Nat /\ BlockStart(n, b + 1) \in Nat
    BY <1>2, <2>1
  <2>. QED BY <2>2, BlockIs
<1>4. UNION {Block(n, b) : b \in 0..N-1} = 0..n-1
  BY <1>3, BlockOf
<1>5. ASSUME NEW b \in 0..N-1 PROVE Cardinality(Block(n, b)) \in K \div 2 .. 3 * (K \div 2)
  <2>. DEFINE x == BlockStart(n, b)  y == BlockStart(n, b + 1)
  <2>1. x \in Nat /\ y \in Nat
    BY <1>1, <1>2
  <2>2. y - x \in K \div 2 .. 3 * (K \div 2)
    BY BlockSize
  <2>3. Block(n, b) = x .. y - 1
    BY BlockIs
  <2>. HIDE DEF x, y
  <2>4. Cardinality(x .. y - 1) = y - x
    <3>1. x \in Int /\ y - 1 \in Int /\ x <= y - 1
      BY <1>1, <2>1, <2>2
    <3>2. Cardinality(x .. y - 1) = IF x > y - 1 THEN 0 ELSE (y - 1) - x + 1
      BY <3>1, FS_Interval, Zenon
    <3>. QED BY <2>1, <3>1, <3>2
  <2>. QED BY <2>2, <2>3, <2>4
<1>6. ASSUME NEW b \in 0..N-1, NEW c \in 0..b-1 PROVE Block(n, b) \cap Block(n, c) = {}
  <2>1. b \in Nat /\ c + 1 \in Nat /\ c + 1 <= b /\ c \in Nat
    BY <1>1
  <2>2. /\ BlockStart(n, c + 1) <= BlockStart(n, b)
        /\ BlockStart(n, c + 1) \in Nat /\ BlockStart(n, b) \in Nat
    BY <1>2, <2>1
  <2>3. Block(n, b) = BlockStart(n, b) .. BlockStart(n, b + 1) - 1
    BY BlockIs
  <2>4. Block(n, c) = BlockStart(n, c) .. BlockStart(n, c + 1) - 1
    BY BlockIs
  <2>5. BlockStart(n, b + 1) \in Nat /\ BlockStart(n, c) \in Nat
    BY <1>2, <2>1
  <2>. QED BY <2>2, <2>3, <2>4, <2>5
<1>. QED BY <1>4, <1>5, <1>6
-------------------------------------------------------------------------------
\* Has a pixel been written by the tiles before tile <<a, b>>, is it in that tile?
DoneAt(p, a, b) ==
  \/ p[1] < Start(H, a, tileH, countH)
  \/ p[1] < Start(H, a + 1, tileH, countH) /\ p[2] < Start(W, b, tileW, countW)
InTile(p, a, b) ==
  p[1] \in Out(H, a, tileH, countH) /\ p[2] \in Out(W, b, tileW, countW)

\* Rows and columns of pixels and tiles.
Domains ==
  /\ pc \in {"search", "count", "begin", "scale", "tiles", "finish", "done", "cancelled"}
  /\ H \in 1..MaxH /\ W \in 1..MaxW
  /\ inplace \in BOOLEAN /\ outputTemp \in BOOLEAN /\ copied \in BOOLEAN
  /\ exposure \in {"unset", "given", "measured"}
  /\ i \in 0..countH /\ j \in 0..countW-1 /\ node \in 0..NetNodes-1
  /\ current \in 0..total
  /\ written \in [Pixels -> Nat]

\* The size and number of the tiles.
Cutting ==
  /\ pc \in {"search", "count"} =>
       Searched(H, tileH, countH) /\ Searched(W, tileW, countW) /\ outputTemp = FALSE
  /\ pc \notin {"search", "count"} =>
       /\ Tiled(H, tileH, countH) /\ Tiled(W, tileW, countW)
       /\ outputTemp = NeedsTemp(countH, countW)

\* How far the execution has come, what the monitor knows and what is written.
AtStart == i = 0 /\ j = 0 /\ node = 0 /\ current = 0
AtTile == i < countH /\ current = (i * countW + j) * NetNodes + node
AtEnd == i = countH /\ j = 0 /\ node = 0 /\ current = (countH * countW) * NetNodes

Progressing ==
  /\ pc \in {"search", "count", "begin", "scale"} => AtStart
  /\ pc = "tiles" => AtTile
  /\ pc = "finish" => AtEnd
  /\ pc \notin {"done", "cancelled"} => copied = FALSE

Written ==
  /\ pc \in {"search", "count", "begin", "scale"} => \A p \in Pixels : written[p] = 0
  /\ pc \in {"tiles", "finish"} =>
       \A p \in Pixels : written[p] = IF InImage(p) /\ DoneAt(p, i, j) THEN 1 ELSE 0

\* What an execution leaves behind, ended or cancelled.
Ended ==
  pc \in {"done", "cancelled"} =>
    /\ \A p \in Pixels : written[p] <= 1 /\ (written[p] = 1 => InImage(p))
    /\ pc = "done" => AllWritten /\ current = total
    /\ current = total => Complete
    /\ inplace => Untouched \/ Complete

Inv == Domains /\ Cutting /\ Progressing /\ Written /\ Ended
-------------------------------------------------------------------------------
LEMMA Counts ==
  ASSUME NEW c \in Nat \ {0}, NEW d \in Nat \ {0}
  PROVE  c * d \in Nat \ {0} /\ (c * d <= 1 => c = 1 /\ d = 1)
<1>1. c * 1 <= c * d
  BY Monotone
<1>2. d * 1 <= d * c
  BY Monotone
<1>. QED BY <1>1, <1>2

\* The loops over rows, columns and nodes count up to their product.
LEMMA Counting ==
  ASSUME NEW c \in Nat \ {0}, NEW d \in Nat \ {0}, NEW e \in Nat \ {0},
         NEW a \in 0..c-1, NEW b \in 0..d-1, NEW k \in 0..e-1
  PROVE  /\ (a * d + b) * e + k \in Nat /\ (c * d) * e \in Nat
         /\ (a * d + b) * e + k + 1 <= (c * d) * e
         /\ (a * d + b) * e + k + 1 = (c * d) * e => a + 1 = c /\ b + 1 = d /\ k + 1 = e
         /\ (a * d + b) * e + e = (a * d + (b + 1)) * e
         /\ a * d + d = (a + 1) * d + 0
<1>. DEFINE m == a * d + b  M == c * d
<1>1. a * d \in Nat /\ m \in Nat /\ M \in Nat /\ a * d + d = (a + 1) * d + 0
  OBVIOUS
<1>2. d * (a + 1) <= d * c /\ d * (a + 1) = a * d + d /\ d * c = M
  BY Monotone
<1>3. a + 1 < c => a * d + d + d <= M
  <2>1. ASSUME a + 1 < c PROVE d * (a + 2) <= d * c
    BY <2>1, Monotone
  <2>. QED BY <1>2, <2>1
<1>4. m + 1 <= M /\ (m + 1 = M => a + 1 = c /\ b + 1 = d)
  BY <1>1, <1>2, <1>3
<1>5. m * e + e = (a * d + (b + 1)) * e
  BY <1>1
<1>. HIDE DEF m, M
<1>6. e * (m + 1) <= e * M /\ e * (m + 1) = m * e + e /\ e * M = M * e /\ m * e \in Nat /\ M * e \in Nat
  BY <1>1, <1>4, Monotone
<1>7. m + 1 < M => m * e + e + e <= M * e
  <2>1. ASSUME m + 1 < M PROVE e * (m + 2) <= e * M
    BY <1>1, <2>1, Monotone
  <2>2. e * (m + 2) = m * e + e + e
    BY <1>1
  <2>. QED BY <1>6, <2>1, <2>2
<1>8. /\ m * e + k \in Nat /\ m * e + k + 1 <= M * e
      /\ m * e + k + 1 = M * e => k + 1 = e /\ m + 1 = M
  BY <1>1, <1>4, <1>6, <1>7
<1>. QED BY <1>1, <1>4, <1>5, <1>6, <1>8 DEF m, M

\* The tiles follow one another without a gap or an overlap, row by row.
LEMMA NextTile ==
  ASSUME H \in Nat \ {0}, W \in Nat \ {0}, Tiled(H, tileH, countH), Tiled(W, tileW, countW),
         NEW a \in 0..countH-1, NEW b \in 0..countW-1, NEW p \in Pixels
  PROVE  /\ InTile(p, a, b) => InImage(p) /\ ~DoneAt(p, a, b)
         /\ InImage(p) /\ b + 1 < countW =>
              (DoneAt(p, a, b + 1) <=> DoneAt(p, a, b) \/ InTile(p, a, b))
         /\ InImage(p) /\ b + 1 = countW =>
              (DoneAt(p, a + 1, 0) <=> DoneAt(p, a, b) \/ InTile(p, a, b))
<1>. DEFINE x == Start(H, a, tileH, countH)  y == Start(H, a + 1, tileH, countH)
            u == Start(W, b, tileW, countW)  v == Start(W, b + 1, tileW, countW)
<1>1. x \in Nat /\ y \in Nat /\ x < y /\ y <= H
  BY Placed
<1>2. u \in Nat /\ v \in Nat /\ u < v /\ v <= W
  BY Placed
<1>3. InTile(p, a, b) <=> p[1] \in x .. y - 1 /\ p[2] \in u .. v - 1
  <2>1. Out(H, a, tileH, countH) = x .. y - 1
    BY OutIs, Zenon
  <2>2. Out(W, b, tileW, countW) = u .. v - 1
    BY OutIs, Zenon
  <2>. QED BY <2>1, <2>2 DEF InTile
<1>4. /\ DoneAt(p, a, b) <=> p[1] < x \/ (p[1] < y /\ p[2] < u)
      /\ DoneAt(p, a, b + 1) <=> p[1] < x \/ (p[1] < y /\ p[2] < v)
  BY DEF DoneAt
<1>5. b + 1 = countW => v = W
  BY DEF Start
<1>. DEFINE z == Start(H, (a + 1) + 1, tileH, countH)
<1>6. DoneAt(p, a + 1, 0) <=> p[1] < y \/ (p[1] < z /\ p[2] < 0)
  BY DEF DoneAt, Start
<1>7. p[1] \in Nat /\ p[2] \in Nat
  BY TilingAssumption DEF Pixels
<1>8. InImage(p) <=> p[1] < H /\ p[2] < W
  BY DEF InImage
<1>. HIDE DEF x, y, z, u, v
<1>9. InTile(p, a, b) => InImage(p) /\ ~DoneAt(p, a, b)
  BY <1>1, <1>2, <1>3, <1>4, <1>7, <1>8
<1>10. InImage(p) => (DoneAt(p, a, b + 1) <=> DoneAt(p, a, b) \/ InTile(p, a, b))
  BY <1>1, <1>2, <1>3, <1>4, <1>7, <1>8
<1>11. InImage(p) /\ b + 1 = countW =>
         (DoneAt(p, a + 1, 0) <=> DoneAt(p, a, b) \/ InTile(p, a, b))
  BY <1>1, <1>2, <1>3, <1>4, <1>5, <1>6, <1>7, <1>8
<1>. QED BY <1>9, <1>10, <1>11

\* After the last row of tiles every pixel of the image is written; before the
\* first tile, none.
LEMMA FirstAndLast ==
  ASSUME NEW p \in Pixels, countH \in Nat \ {0}
  PROVE  ~DoneAt(p, 0, 0) /\ (InImage(p) => DoneAt(p, countH, 0))
<1>1. p[1] \in Nat /\ p[2] \in Nat
  BY TilingAssumption DEF Pixels
<1>2. Start(H, 0, tileH, countH) = 0 /\ Start(W, 0, tileW, countW) = 0
  BY DEF Start
<1>3. Start(H, countH, tileH, countH) = H
  BY DEF Start
<1>. DEFINE x == Start(H, 1, tileH, countH)
<1>4. ~DoneAt(p, 0, 0)
  <2>1. DoneAt(p, 0, 0) <=> p[1] < 0 \/ (p[1] < x /\ p[2] < 0)
    BY <1>2 DEF DoneAt
  <2>. HIDE DEF x
  <2>. QED BY <1>1, <2>1
<1>. QED BY <1>3, <1>4 DEF DoneAt, InImage
-------------------------------------------------------------------------------
LEMMA TotalIs ==
  ASSUME countH \in Nat \ {0}, countW \in Nat \ {0}
  PROVE  /\ (countH * countW) * NetNodes \in Nat \ {0}
         /\ total = (countH * countW) * NetNodes + (IF outputTemp THEN 1 ELSE 0)
         /\ total \in Nat \ {0}
<1>1. countH * countW \in Nat \ {0} /\ NetNodes \in Nat \ {0}
  BY Counts, TilingAssumption
<1>2. (countH * countW) * NetNodes \in Nat \ {0}
  BY <1>1, Counts, Zenon
<1>. QED BY <1>2 DEF total

\* A property of the sizes that no step but a cut and the count touches.
LEMMA Sized ==
  ASSUME Inv
  PROVE  /\ H \in Nat \ {0} /\ W \in Nat \ {0}
         /\ tileH \in Nat \ {0} /\ tileW \in Nat \ {0}
         /\ tileH % Alignment = 0 /\ tileW % Alignment = 0
         /\ countH \in Nat \ {0} /\ countW \in Nat \ {0}
<1>1. H \in Nat \ {0} /\ W \in Nat \ {0}
  BY DEF Inv, Domains
<1>2. CASE pc \in {"search", "count"}
  BY <1>1, <1>2 DEF Inv, Cutting, Searched
<1>3. CASE pc \notin {"search", "count"}
  BY <1>1, <1>3 DEF Inv, Cutting, Tiled
<1>. QED BY <1>2, <1>3

\* An untiled image is searched, as long as no cut has been made.
LEMMA Uncut ==
  ASSUME NEW n \in Nat \ {0}
  PROVE  Searched(n, RoundUp(n, Alignment), 1)
<1>1. Alignment \in Nat \ {0} /\ n \in Int /\ Overlap \in Nat \ {0} /\ n - 2 * Overlap \in Int
  BY Sizes
<1>2. /\ RoundUp(n, Alignment) \in Int /\ n <= RoundUp(n, Alignment)
      /\ RoundUp(n, Alignment) % Alignment = 0
  BY <1>1, Rounding, Zenon
<1>3. CeilDiv(n - 2 * Overlap, Overlap) \in Int
  BY <1>1, CeilingIs, Zenon
<1>. QED BY <1>1, <1>2, <1>3 DEF Searched, Larger

LEMMA InvInit == Init => Inv
<1>. SUFFICES ASSUME Init PROVE Inv
  OBVIOUS
<1>1. /\ H \in Nat \ {0} /\ W \in Nat \ {0} /\ countH = 1 /\ countW = 1
      /\ i = 0 /\ j = 0 /\ node = 0 /\ current = 0
  BY TilingAssumption DEF Init
<1>2. total \in Nat \ {0} /\ NetNodes \in Nat \ {0}
  BY <1>1, TotalIs, TilingAssumption
<1>3. Domains
  <2>1. written \in [Pixels -> Nat]
    BY DEF Init
  <2>2. i \in 0..countH /\ j \in 0..countW-1 /\ node \in 0..NetNodes-1 /\ current \in 0..total
    BY <1>1, <1>2
  <2>3. /\ pc = "search" /\ H \in 1..MaxH /\ W \in 1..MaxW /\ inplace \in BOOLEAN
        /\ outputTemp = FALSE /\ copied = FALSE /\ exposure = "unset"
    BY DEF Init
  <2>. QED BY <2>1, <2>2, <2>3 DEF Domains
<1>4. Cutting
  BY <1>1, Uncut DEF Init, Cutting
<1>5. Progressing
  BY DEF Init, Progressing, AtStart
<1>6. Written
  BY DEF Init, Written
<1>7. Ended
  BY DEF Init, Ended
<1>. QED BY <1>3, <1>4, <1>5, <1>6, <1>7 DEF Inv

LEMMA CutHKeepsInv == Inv /\ CutH => Inv'
<1>. SUFFICES ASSUME Inv, CutH PROVE Inv'
  OBVIOUS
<1>1. AtStart /\ pc = "search" /\ pc' = pc /\ outputTemp = FALSE
  BY DEF Inv, Progressing, CutH, Cutting
<1>2. /\ Searched(H, tileH, countH) /\ tileH > minTileSize /\ H \in Nat \ {0}
      /\ Searched(W, tileW, countW) /\ W \in Nat \ {0} /\ countH \in Nat \ {0} /\ countW \in Nat \ {0}
  BY <1>1, Sized DEF Inv, Cutting, CutH, HigherThanWide
<1>3. Searched(H, tileH', countH')
  <2>1. Searched(H, Cut(H, countH + 1), countH + 1)
    BY <1>2, CutKeeps, Zenon
  <2>. QED BY <2>1 DEF CutH
<1>4. Cutting'
  <2>1. H' = H /\ W' = W /\ tileW' = tileW /\ countW' = countW /\ outputTemp' = FALSE /\ pc' = "search"
    BY <1>1 DEF CutH, image
  <2>. QED BY <1>2, <1>3, <2>1 DEF Cutting
<1>5. Domains'
  <2>1. countH' = countH + 1 /\ countW' = countW /\ outputTemp' = outputTemp /\ H' = H /\ W' = W /\ inplace' = inplace
        /\ copied' = copied /\ exposure' = exposure /\ i' = 0 /\ j' = 0 /\ node' = 0 /\ current' = 0 /\ written' = written
    BY <1>1 DEF CutH, image, work, AtStart
  <2>2. total' \in Nat
    BY <1>1, <1>2, <2>1, TilingAssumption DEF total
  <2>3. NetNodes \in Nat \ {0}
    BY TilingAssumption
  <2>. QED BY <1>1, <1>2, <2>1, <2>2, <2>3 DEF Inv, Domains
<1>6. Progressing' /\ Written' /\ Ended'
  BY <1>1 DEF Inv, CutH, image, work, AtStart, Progressing, Written, Ended
<1>. QED BY <1>4, <1>5, <1>6 DEF Inv

LEMMA CutWKeepsInv == Inv /\ CutW => Inv'
<1>. SUFFICES ASSUME Inv, CutW PROVE Inv'
  OBVIOUS
<1>1. AtStart /\ pc = "search" /\ pc' = pc /\ outputTemp = FALSE
  BY DEF Inv, Progressing, CutW, Cutting
<1>2. /\ Searched(W, tileW, countW) /\ tileW > minTileSize /\ H \in Nat \ {0}
      /\ Searched(H, tileH, countH) /\ W \in Nat \ {0} /\ countH \in Nat \ {0} /\ countW \in Nat \ {0}
  BY <1>1, Sized DEF Inv, Cutting, CutW
<1>3. Searched(W, tileW', countW')
  <2>1. Searched(W, Cut(W, countW + 1), countW + 1)
    BY <1>2, CutKeeps, Zenon
  <2>. QED BY <2>1 DEF CutW
<1>4. Cutting'
  <2>1. H' = H /\ W' = W /\ tileH' = tileH /\ countH' = countH /\ outputTemp' = FALSE /\ pc' = "search"
    BY <1>1 DEF CutW, image
  <2>. QED BY <1>2, <1>3, <2>1 DEF Cutting
<1>5. Domains'
  <2>1. countW' = countW + 1 /\ countH' = countH /\ outputTemp' = outputTemp /\ H' = H /\ W' = W /\ inplace' = inplace
        /\ copied' = copied /\ exposure' = exposure /\ i' = 0 /\ j' = 0 /\ node' = 0 /\ current' = 0 /\ written' = written
    BY <1>1 DEF CutW, image, work, AtStart
  <2>2. total' \in Nat
    BY <1>1, <1>2, <2>1, TilingAssumption DEF total
  <2>3. NetNodes \in Nat \ {0}
    BY TilingAssumption
  <2>. QED BY <1>1, <1>2, <2>1, <2>2, <2>3 DEF Inv, Domains
<1>6. Progressing' /\ Written' /\ Ended'
  BY <1>1 DEF Inv, CutW, image, work, AtStart, Progressing, Written, Ended
<1>. QED BY <1>4, <1>5, <1>6 DEF Inv

LEMMA StopSearchKeepsInv == Inv /\ StopSearch => Inv'
<1>. SUFFICES ASSUME Inv, StopSearch PROVE Inv'
  OBVIOUS
<1>1. /\ pc = "search" /\ pc' = "count"
      /\ UNCHANGED <<H, W, inplace, tileH, tileW, countH, countW, outputTemp, exposure>>
      /\ UNCHANGED <<i, j, node, current, written, copied>>
  BY DEF StopSearch, image, size, work
<1>2. Domains'
  BY <1>1 DEF Inv, Domains, total
<1>3. Cutting'
  BY <1>1 DEF Inv, Cutting
<1>4. Progressing' /\ Written' /\ Ended'
  BY <1>1 DEF Inv, AtStart, Progressing, Written, Ended
<1>. QED BY <1>2, <1>3, <1>4 DEF Inv

LEMMA CountTilesKeepsInv == Inv /\ CountTiles => Inv'
<1>. SUFFICES ASSUME Inv, CountTiles PROVE Inv'
  OBVIOUS
<1>1. /\ pc = "count" /\ pc' = "begin" /\ AtStart /\ copied = FALSE
      /\ H \in Nat \ {0} /\ W \in Nat \ {0}
      /\ Searched(H, tileH, countH) /\ Searched(W, tileW, countW)
  BY Sized DEF Inv, Progressing, CountTiles, Cutting
<1>2. /\ H' = H /\ W' = W /\ tileH' = tileH /\ tileW' = tileW /\ inplace' = inplace /\ exposure' = exposure
      /\ i' = 0 /\ j' = 0 /\ node' = 0 /\ current' = 0 /\ written' = written /\ copied' = FALSE
      /\ countH' = CountOf(H, tileH) /\ countW' = CountOf(W, tileW)
      /\ outputTemp' = NeedsTemp(countH', countW')
  BY <1>1 DEF CountTiles, image, work, AtStart
<1>3. Tiled(H, tileH, countH') /\ Tiled(W, tileW, countW')
  <2>1. Tiled(H, tileH, CountOf(H, tileH)) /\ Tiled(W, tileW, CountOf(W, tileW))
    BY <1>1, CountIs, Zenon
  <2>. QED BY <1>2, <2>1
<1>4. countH' \in Nat \ {0} /\ countW' \in Nat \ {0}
  BY <1>3, TypeOfTiled
<1>5. inplace' = inplace /\ inplace \in BOOLEAN /\ outputTemp' \in BOOLEAN
  BY <1>2 DEF Inv, Domains, NeedsTemp
<1>6. Cutting'
  <2>1. Tiled(H', tileH', countH') /\ Tiled(W', tileW', countW')
    BY <1>2, <1>3
  <2>2. outputTemp' = NeedsTemp(countH, countW)'
    BY <1>2 DEF NeedsTemp
  <2>. QED BY <1>1, <2>1, <2>2 DEF Cutting
<1>7. Domains'
  <2>1. total' \in Nat
    <3>1. countH' * countW' \in Nat \ {0}
      BY <1>4, Counts
    <3>2. NetNodes \in Nat \ {0}
      BY TilingAssumption
    <3>3. (countH' * countW') * NetNodes \in Nat
      BY <3>1, <3>2
    <3>4. total' = (countH' * countW') * NetNodes + (IF outputTemp' THEN 1 ELSE 0)
      BY DEF total
    <3>. HIDE DEF total
    <3>. QED BY <3>3, <3>4
  <2>2. NetNodes \in Nat \ {0}
    BY TilingAssumption
  <2>3. i' \in 0..countH' /\ j' \in 0..countW'-1 /\ node' \in 0..NetNodes-1 /\ current' \in 0..total'
    BY <1>2, <1>4, <2>1, <2>2
  <2>4. /\ H \in 1..MaxH /\ W \in 1..MaxW /\ written \in [Pixels -> Nat]
        /\ exposure \in {"unset", "given", "measured"}
    BY DEF Inv, Domains
  <2>5. /\ H' \in 1..MaxH /\ W' \in 1..MaxW /\ written' \in [Pixels -> Nat]
        /\ exposure' \in {"unset", "given", "measured"}
        /\ pc' = "begin" /\ copied' \in BOOLEAN /\ inplace' \in BOOLEAN
    BY <1>1, <1>2, <1>5, <2>4
  <2>. QED BY <1>5, <2>3, <2>5 DEF Domains
<1>8. Progressing' /\ Written' /\ Ended'
  BY <1>1, <1>2 DEF Inv, AtStart, Progressing, Written, Ended
<1>. QED BY <1>6, <1>7, <1>8 DEF Inv

LEMMA BeginKeepsInv == Inv /\ Begin => Inv'
<1>. SUFFICES ASSUME Inv, Begin PROVE Inv'
  OBVIOUS
<1>1. /\ pc = "begin" /\ pc' \in {"scale", "cancelled"}
      /\ UNCHANGED <<H, W, inplace, tileH, tileW, countH, countW, outputTemp, exposure>>
      /\ UNCHANGED <<i, j, node, current, written, copied>>
  BY DEF Begin, image, size, work
<1>2. /\ AtStart /\ copied = FALSE /\ \A p \in Pixels : written[p] = 0
      /\ total \in Nat \ {0} /\ total' = total
  BY <1>1, Sized, TotalIs DEF Inv, Progressing, Written, total
<1>3. Domains'
  BY <1>1, <1>2 DEF Inv, Domains
<1>4. Cutting'
  <2>1. outputTemp = NeedsTemp(countH, countW) /\ Tiled(H, tileH, countH) /\ Tiled(W, tileW, countW)
    BY <1>1 DEF Inv, Cutting
  <2>2. NeedsTemp(countH, countW)' = NeedsTemp(countH, countW)
    BY <1>1 DEF NeedsTemp
  <2>. QED BY <1>1, <2>1, <2>2 DEF Cutting
<1>5. Progressing' /\ Written'
  BY <1>1, <1>2 DEF AtStart, Progressing, Written
<1>6. Ended'
  <2>1. current' # total'
    BY <1>1, <1>2 DEF AtStart
  <2>2. Untouched'
    BY <1>1, <1>2 DEF Untouched
  <2>3. \A p \in Pixels : written'[p] = 0
    BY <1>1, <1>2
  <2>. QED BY <1>1, <2>1, <2>2, <2>3 DEF Ended
<1>. QED BY <1>3, <1>4, <1>5, <1>6 DEF Inv

LEMMA SetInputScaleKeepsInv == Inv /\ SetInputScale => Inv'
<1>. SUFFICES ASSUME Inv, SetInputScale PROVE Inv'
  OBVIOUS
<1>1. /\ pc = "scale" /\ pc' = "tiles" /\ exposure' \in {"given", "measured"}
      /\ UNCHANGED <<H, W, inplace, tileH, tileW, countH, countW, outputTemp>>
      /\ UNCHANGED <<i, j, node, current, written, copied>>
  BY DEF SetInputScale, image, size, work
<1>2. /\ AtStart /\ copied = FALSE /\ \A p \in Pixels : written[p] = 0
      /\ countH \in Nat \ {0} /\ countW \in Nat \ {0} /\ NetNodes \in Nat
  BY <1>1, Sized, TilingAssumption DEF Inv, Progressing, Written
<1>3. Domains'
  BY <1>1 DEF Inv, Domains, total
<1>4. Cutting'
  <2>1. outputTemp = NeedsTemp(countH, countW) /\ Tiled(H, tileH, countH) /\ Tiled(W, tileW, countW)
    BY <1>1 DEF Inv, Cutting
  <2>2. NeedsTemp(countH, countW)' = NeedsTemp(countH, countW)
    BY <1>1 DEF NeedsTemp
  <2>. QED BY <1>1, <2>1, <2>2 DEF Cutting
<1>5. Progressing'
  <2>1. 0 < countH /\ 0 = (0 * countW + 0) * NetNodes + 0
    BY <1>2
  <2>2. AtTile'
    BY <1>1, <1>2, <2>1 DEF AtStart, AtTile
  <2>. QED BY <1>1, <1>2, <2>2 DEF Progressing
<1>6. Written'
  <2>1. ASSUME NEW p \in Pixels PROVE (written[p] = IF InImage(p) /\ DoneAt(p, i, j) THEN 1 ELSE 0)'
    <3>1. ~DoneAt(p, 0, 0) /\ i = 0 /\ j = 0
      BY <1>2, FirstAndLast DEF AtStart
    <3>2. ~DoneAt(p, i, j)'
      BY <1>1, <3>1 DEF DoneAt, Start, Pos
    <3>. QED BY <1>1, <1>2, <3>2
  <2>. QED BY <1>1, <2>1 DEF Written
<1>7. Ended'
  BY <1>1 DEF Ended
<1>. QED BY <1>3, <1>4, <1>5, <1>6, <1>7 DEF Inv

\* What a node leaves in the image, wherever it leads.
LEMMA NodeWrites ==
  ASSUME Inv, RunNode
  PROVE  /\ written' \in [Pixels -> Nat]
         /\ \A p \in Pixels :
              written'[p] = IF InImage(p) /\ (DoneAt(p, i, j) \/ (LastNode /\ InTile(p, i, j)))
                            THEN 1 ELSE 0
<1>1. /\ pc = "tiles" /\ AtTile
      /\ written' = [p \in Pixels |->
                      IF LastNode /\ p \in TilePixels THEN written[p] + 1 ELSE written[p]]
  BY DEF RunNode, Inv, Progressing
<1>2. \A p \in Pixels : written[p] = IF InImage(p) /\ DoneAt(p, i, j) THEN 1 ELSE 0
  BY <1>1 DEF Inv, Written
<1>3. /\ H \in Nat \ {0} /\ W \in Nat \ {0} /\ Tiled(H, tileH, countH) /\ Tiled(W, tileW, countW)
      /\ i \in 0..countH-1 /\ j \in 0..countW-1
  <2>1. i \in 0..countH /\ j \in 0..countW-1 /\ i < countH /\ countH \in Nat
    BY <1>1, Sized DEF Inv, Domains, AtTile
  <2>. QED BY <1>1, <2>1, Sized DEF Inv, Cutting
<1>4. ASSUME NEW p \in Pixels
      PROVE  /\ p \in TilePixels <=> InTile(p, i, j)
             /\ InTile(p, i, j) => InImage(p) /\ ~DoneAt(p, i, j)
  <2>1. InTile(p, i, j) => InImage(p) /\ ~DoneAt(p, i, j)
    BY <1>3, NextTile
  <2>. QED BY <2>1 DEF TilePixels, InTile
<1>5. ASSUME NEW p \in Pixels
      PROVE  written'[p] = IF InImage(p) /\ (DoneAt(p, i, j) \/ (LastNode /\ InTile(p, i, j)))
                           THEN 1 ELSE 0
  <2>1. written'[p] = IF LastNode /\ p \in TilePixels THEN written[p] + 1 ELSE written[p]
    BY <1>1
  <2>. QED BY <1>2, <1>4, <2>1
<1>6. written' \in [Pixels -> Nat]
  <2>1. written \in [Pixels -> Nat]
    BY DEF Inv, Domains
  <2>. QED BY <1>1, <2>1
<1>. QED BY <1>5, <1>6

\* How far a node gets: one on, which is the total only with the last of the last
\* tile and if no copy is to come.
LEMMA NodeCounts ==
  ASSUME Inv, RunNode
  PROVE  /\ i \in 0..countH-1 /\ j \in 0..countW-1 /\ node \in 0..NetNodes-1
         /\ countH \in Nat \ {0} /\ countW \in Nat \ {0} /\ NetNodes \in Nat \ {0}
         /\ current' = (i * countW + j) * NetNodes + node + 1
         /\ current' \in Nat /\ current' <= total /\ total' = total
         /\ current' = total =>
              LastNode /\ i + 1 = countH /\ j + 1 = countW /\ ~outputTemp
<1>1. /\ pc = "tiles" /\ AtTile /\ current' = Smaller(current + 1, total) /\ total' = total
  BY DEF RunNode, Inv, Progressing, total, image, size
<1>2. /\ countH \in Nat \ {0} /\ countW \in Nat \ {0} /\ NetNodes \in Nat \ {0}
      /\ j \in 0..countW-1 /\ node \in 0..NetNodes-1
  BY Sized, TilingAssumption DEF Inv, Domains
<1>3. i \in 0..countH-1
  BY <1>1, <1>2 DEF Inv, Domains, AtTile
<1>. DEFINE x == (i * countW + j) * NetNodes + node  t == (countH * countW) * NetNodes
<1>4. x \in Nat /\ t \in Nat /\ x + 1 <= t
      /\ (x + 1 = t => i + 1 = countH /\ j + 1 = countW /\ node + 1 = NetNodes)
  BY <1>2, <1>3, Counting
<1>5. current = x /\ total = t + (IF outputTemp THEN 1 ELSE 0) /\ outputTemp \in BOOLEAN
  BY <1>1, <1>2, TotalIs DEF AtTile, Inv, Domains
<1>. HIDE DEF x, t
<1>6. current' = x + 1
  BY <1>1, <1>4, <1>5 DEF Smaller
<1>7. current' \in Nat /\ current' <= total
  BY <1>4, <1>5, <1>6
<1>8. current' = total => x + 1 = t /\ ~outputTemp
  BY <1>4, <1>5, <1>6
<1>. QED BY <1>1, <1>2, <1>3, <1>4, <1>6, <1>7, <1>8 DEF x, LastNode

\* The last node of the last tile completes the image.
LEMMA LastWrites ==
  ASSUME Inv, RunNode, LastNode, i + 1 = countH, j + 1 = countW
  PROVE  \A p \in Pixels : InImage(p) => written'[p] = 1
<1>1. /\ H \in Nat \ {0} /\ W \in Nat \ {0} /\ Tiled(H, tileH, countH) /\ Tiled(W, tileW, countW)
      /\ countH \in Nat \ {0}
  BY Sized DEF Inv, Cutting, RunNode
<1>2. i \in 0..countH-1 /\ j \in 0..countW-1
  BY NodeCounts
<1>. SUFFICES ASSUME NEW p \in Pixels, InImage(p) PROVE written'[p] = 1
  OBVIOUS
<1>3. DoneAt(p, i + 1, 0) <=> DoneAt(p, i, j) \/ InTile(p, i, j)
  BY <1>1, <1>2, NextTile
<1>4. DoneAt(p, countH, 0)
  BY <1>1, FirstAndLast
<1>. QED BY <1>3, <1>4, NodeWrites

LEMMA RunNodeKeepsInv == Inv /\ RunNode => Inv'
<1>. SUFFICES ASSUME Inv, RunNode PROVE Inv'
  OBVIOUS
<1>1. /\ pc = "tiles" /\ copied' = FALSE
      /\ UNCHANGED <<H, W, inplace, tileH, tileW, countH, countW, outputTemp, exposure>>
      /\ Advance \/ (pc' = "cancelled" /\ UNCHANGED <<i, j, node>>)
  BY DEF RunNode, Inv, Progressing, image, size
<1>2. /\ i \in 0..countH-1 /\ j \in 0..countW-1 /\ node \in 0..NetNodes-1
      /\ countH \in Nat \ {0} /\ countW \in Nat \ {0} /\ NetNodes \in Nat \ {0}
      /\ current' = (i * countW + j) * NetNodes + node + 1
      /\ current' \in Nat /\ current' <= total /\ total' = total
  BY NodeCounts
<1>3. current' = total => LastNode /\ i + 1 = countH /\ j + 1 = countW /\ ~outputTemp
  BY NodeCounts
<1>4. /\ written' \in [Pixels -> Nat]
      /\ \A p \in Pixels :
           written'[p] = IF InImage(p) /\ (DoneAt(p, i, j) \/ (LastNode /\ InTile(p, i, j)))
                         THEN 1 ELSE 0
  BY NodeWrites
<1>5. /\ H \in Nat \ {0} /\ W \in Nat \ {0} /\ Tiled(H, tileH, countH) /\ Tiled(W, tileW, countW)
      /\ outputTemp = NeedsTemp(countH, countW) /\ outputTemp \in BOOLEAN
  BY <1>1, Sized DEF Inv, Cutting, Domains
<1>6. Cutting'
  <2>1. NeedsTemp(countH, countW)' = NeedsTemp(countH, countW)
    BY <1>1 DEF NeedsTemp
  <2>2. pc' \notin {"search", "count"}
    BY <1>1 DEF Advance
  <2>. QED BY <1>1, <1>5, <2>1, <2>2 DEF Cutting
<1>7. \A p \in Pixels : (InImage(p)' <=> InImage(p)) /\ (DoneAt(p, i, j)' <=> DoneAt(p, i', j'))
  BY <1>1 DEF InImage, DoneAt, Start, Pos
<1>8. current' \in 0..total' /\ total' \in Nat
  <2>1. total \in Nat
    BY <1>2, TotalIs
  <2>. QED BY <1>2, <2>1
<1>9. /\ H' \in 1..MaxH /\ W' \in 1..MaxW /\ inplace' \in BOOLEAN /\ outputTemp' \in BOOLEAN
      /\ copied' \in BOOLEAN /\ exposure' \in {"unset", "given", "measured"}
      /\ countH' = countH /\ countW' = countW
  BY <1>1 DEF Inv, Domains
<1>10. CASE pc' = "cancelled" /\ UNCHANGED <<i, j, node>>
  <2>1. Domains'
    BY <1>2, <1>4, <1>8, <1>9, <1>10 DEF Domains
  <2>2. Progressing' /\ Written'
    BY <1>10 DEF Progressing, Written
  <2>3. LastNode /\ i + 1 = countH /\ j + 1 = countW => AllWritten'
    BY <1>7, LastWrites DEF AllWritten
  <2>4. current' = total' => Complete'
    BY <1>1, <1>2, <1>3, <2>3 DEF Complete
  <2>5. inplace' => Untouched' \/ Complete'
    <3>1. CASE outputTemp
      BY <1>1, <3>1 DEF Untouched
    <3>2. CASE ~outputTemp /\ inplace
      <4>1. ~(countH * countW > 1)
        BY <1>5, <3>2 DEF NeedsTemp
      <4>2. countH = 1 /\ countW = 1
        <5>1. countH * countW <= 1
          BY <1>2, <4>1, Counts
        <5>. QED BY <1>2, <5>1, Counts
      <4>3. i = 0 /\ j = 0
        BY <1>2, <4>2
      <4>4. CASE LastNode
        BY <1>1, <2>3, <3>2, <4>2, <4>3, <4>4 DEF Complete
      <4>5. CASE ~LastNode
        <5>1. ASSUME NEW p \in Pixels PROVE written'[p] = 0
          BY <1>2, <1>4, <4>3, <4>5, FirstAndLast
        <5>. QED BY <1>1, <3>2, <5>1 DEF Untouched
      <4>. QED BY <4>4, <4>5
    <3>. QED BY <1>1, <1>5, <3>1, <3>2
  <2>6. \A p \in Pixels : written'[p] <= 1 /\ (written'[p] = 1 => InImage(p)')
    BY <1>4, <1>7
  <2>. QED BY <1>6, <1>10, <2>1, <2>2, <2>4, <2>5, <2>6 DEF Inv, Ended
<1>11. CASE Advance
  <2>. DEFINE m == i * countW + j
  <2>1. /\ node + 1 = NetNodes => current' = (i * countW + (j + 1)) * NetNodes + 0
        /\ i * countW + countW = (i + 1) * countW + 0
    <3>1. /\ m * NetNodes + NetNodes = (i * countW + (j + 1)) * NetNodes
          /\ i * countW + countW = (i + 1) * countW + 0 /\ m * NetNodes + node \in Nat
      BY <1>2, Counting
    <3>2. m * NetNodes \in Int
      BY <1>2
    <3>3. current' = m * NetNodes + node + 1
      BY <1>2
    <3>. HIDE DEF m
    <3>4. node + 1 = NetNodes => current' = m * NetNodes + NetNodes
      BY <1>2, <3>2, <3>3
    <3>. QED BY <1>2, <3>1, <3>4
  <2>2. CASE ~LastNode
    <3>1. node' = node + 1 /\ pc' = "tiles" /\ i' = i /\ j' = j /\ node' \in 0..NetNodes-1
      BY <1>2, <1>11, <2>2 DEF Advance, LastNode
    <3>2. Domains'
      BY <1>2, <1>4, <1>8, <1>9, <3>1 DEF Domains
    <3>3. AtTile'
      <4>1. m * NetNodes \in Int
        BY <1>2
      <4>2. current' = m * NetNodes + (node + 1)
        BY <1>2, <4>1
      <4>. QED BY <1>1, <1>2, <3>1, <4>2 DEF AtTile
    <3>4. Progressing' /\ Ended'
      BY <1>1, <3>1, <3>3 DEF Progressing, Ended
    <3>5. Written'
      BY <1>4, <1>7, <2>2, <3>1 DEF Written
    <3>. QED BY <1>6, <3>2, <3>4, <3>5 DEF Inv
  <2>3. CASE LastNode /\ j + 1 < countW
    <3>1. /\ node' = 0 /\ pc' = "tiles" /\ i' = i /\ j' = j + 1 /\ j' \in 0..countW-1
          /\ 0 \in 0..NetNodes-1
      BY <1>2, <1>11, <2>3 DEF Advance
    <3>2. Domains'
      BY <1>2, <1>4, <1>8, <1>9, <3>1 DEF Domains
    <3>3. AtTile'
      BY <1>1, <1>2, <2>1, <2>3, <3>1 DEF AtTile, LastNode
    <3>4. Progressing' /\ Ended'
      BY <1>1, <3>1, <3>3 DEF Progressing, Ended
    <3>5. \A p \in Pixels : InImage(p) => (DoneAt(p, i', j') <=> DoneAt(p, i, j) \/ InTile(p, i, j))
      BY <1>2, <1>5, <2>3, <3>1, NextTile
    <3>6. Written'
      BY <1>4, <1>7, <2>3, <3>1, <3>5 DEF Written
    <3>. QED BY <1>6, <3>2, <3>4, <3>6 DEF Inv
  <2>4. CASE LastNode /\ j + 1 = countW
    <3>1. /\ node' = 0 /\ i' = i + 1 /\ j' = 0 /\ 0 \in 0..NetNodes-1 /\ 0 \in 0..countW-1
          /\ i' \in 0..countH
          /\ pc' = IF i + 1 < countH THEN "tiles" ELSE "finish"
      <4>1. ~(j + 1 < countW)
        BY <1>2, <2>4
      <4>. QED BY <1>2, <1>11, <2>4, <4>1 DEF Advance
    <3>2. Domains'
      BY <1>2, <1>4, <1>8, <1>9, <3>1 DEF Domains
    <3>3. current' = (i' * countW + 0) * NetNodes + 0
      <4>1. i * countW + (j + 1) = (i + 1) * countW + 0
        BY <1>2, <2>1, <2>4
      <4>. QED BY <2>1, <2>4, <3>1, <4>1 DEF LastNode
    <3>4. ASSUME i + 1 < countH PROVE Progressing'
      <4>1. AtTile'
        BY <1>1, <1>2, <3>1, <3>3, <3>4 DEF AtTile
      <4>2. pc' = "tiles"
        BY <3>1, <3>4
      <4>. QED BY <1>1, <4>1, <4>2 DEF Progressing
    <3>5. ASSUME ~(i + 1 < countH) PROVE Progressing'
      <4>1. i' = countH
        BY <1>2, <3>1, <3>5
      <4>2. countH * countW \in Int /\ (countH * countW) * NetNodes \in Int
        BY <1>2
      <4>3. current' = (countH * countW) * NetNodes
        BY <3>3, <4>1, <4>2
      <4>4. AtEnd'
        BY <1>1, <3>1, <4>1, <4>3 DEF AtEnd
      <4>5. pc' = "finish"
        BY <3>1, <3>5
      <4>. QED BY <1>1, <4>4, <4>5 DEF Progressing
    <3>6. \A p \in Pixels : InImage(p) => (DoneAt(p, i', j') <=> DoneAt(p, i, j) \/ InTile(p, i, j))
      BY <1>2, <1>5, <2>4, <3>1, NextTile
    <3>7. Written' /\ Ended'
      BY <1>4, <1>7, <2>4, <3>1, <3>6 DEF Written, Ended
    <3>. QED BY <1>6, <3>2, <3>4, <3>5, <3>7 DEF Inv
  <2>. QED BY <1>2, <2>2, <2>3, <2>4
<1>. QED BY <1>1, <1>10, <1>11

LEMMA FinishKeepsInv == Inv /\ Finish => Inv'
<1>. SUFFICES ASSUME Inv, Finish PROVE Inv'
  OBVIOUS
<1>1. /\ pc = "finish" /\ pc' \in {"done", "cancelled"} /\ AtEnd
      /\ copied' = outputTemp /\ current' = total
      /\ UNCHANGED <<H, W, inplace, tileH, tileW, countH, countW, outputTemp, exposure>>
      /\ UNCHANGED <<i, j, node, written>>
  BY DEF Finish, image, size, Inv, Progressing
<1>2. total \in Nat \ {0} /\ total' = total /\ countH \in Nat \ {0}
  BY <1>1, Sized, TotalIs DEF total
<1>3. /\ outputTemp = NeedsTemp(countH, countW) /\ outputTemp \in BOOLEAN
      /\ Tiled(H, tileH, countH) /\ Tiled(W, tileW, countW)
  BY <1>1 DEF Inv, Cutting, Domains
<1>4. Domains'
  BY <1>1, <1>2, <1>3 DEF Inv, Domains
<1>5. Cutting'
  <2>1. NeedsTemp(countH, countW)' = NeedsTemp(countH, countW)
    BY <1>1 DEF NeedsTemp
  <2>. QED BY <1>1, <1>3, <2>1 DEF Cutting
<1>6. \A p \in Pixels : written[p] = IF InImage(p) THEN 1 ELSE 0
  <2>. SUFFICES ASSUME NEW p \in Pixels PROVE written[p] = IF InImage(p) THEN 1 ELSE 0
    OBVIOUS
  <2>1. written[p] = IF InImage(p) /\ DoneAt(p, i, j) THEN 1 ELSE 0
    BY <1>1 DEF Inv, Written
  <2>2. i = countH /\ j = 0
    BY <1>1 DEF AtEnd
  <2>. QED BY <1>2, <2>1, <2>2, FirstAndLast
<1>7. \A p \in Pixels : (InImage(p)' <=> InImage(p)) /\ written'[p] = written[p]
  BY <1>1 DEF InImage
<1>8. AllWritten' /\ Complete'
  BY <1>1, <1>6, <1>7 DEF AllWritten, Complete
<1>9. Ended'
  BY <1>1, <1>2, <1>6, <1>7, <1>8 DEF Ended
<1>10. Progressing' /\ Written'
  BY <1>1 DEF Progressing, Written
<1>. QED BY <1>4, <1>5, <1>9, <1>10 DEF Inv

LEMMA InvNext == Inv /\ [Next]_vars => Inv'
<1>. SUFFICES ASSUME Inv, [Next]_vars PROVE Inv'
  OBVIOUS
<1>1. ASSUME CutH PROVE Inv'
  BY <1>1, CutHKeepsInv
<1>2. ASSUME CutW PROVE Inv'
  BY <1>2, CutWKeepsInv
<1>3. ASSUME StopSearch PROVE Inv'
  BY <1>3, StopSearchKeepsInv
<1>4. ASSUME CountTiles PROVE Inv'
  BY <1>4, CountTilesKeepsInv
<1>5. ASSUME Begin PROVE Inv'
  BY <1>5, BeginKeepsInv
<1>6. ASSUME SetInputScale PROVE Inv'
  BY <1>6, SetInputScaleKeepsInv
<1>7. ASSUME RunNode PROVE Inv'
  BY <1>7, RunNodeKeepsInv
<1>8. ASSUME Finish PROVE Inv'
  BY <1>8, FinishKeepsInv
<1>9. ASSUME UNCHANGED vars PROVE Inv'
  <2>1. UNCHANGED <<pc, H, W, inplace, tileH, tileW, countH, countW, outputTemp, exposure>>
    BY <1>9 DEF vars, image, size
  <2>2. UNCHANGED <<i, j, node, current, written, copied>>
    BY <1>9 DEF vars, work
  <2>3. total' = total
    BY <2>1 DEF total
  <2>4. Domains'
    BY <2>1, <2>2, <2>3 DEF Inv, Domains
  <2>5. Cutting'
    <3>1. NeedsTemp(countH, countW)' = NeedsTemp(countH, countW)
      BY <2>1 DEF NeedsTemp
    <3>. QED BY <2>1, <3>1 DEF Inv, Cutting
  <2>6. Progressing'
    BY <2>1, <2>2 DEF Inv, Progressing, AtStart, AtTile, AtEnd
  <2>7. \A p \in Pixels : (InImage(p)' <=> InImage(p)) /\ (DoneAt(p, i, j)' <=> DoneAt(p, i, j))
    BY <2>1, <2>2 DEF InImage, DoneAt, Start, Pos
  <2>8. Written'
    BY <2>1, <2>2, <2>7 DEF Inv, Written
  <2>9. (Complete' <=> Complete) /\ (Untouched' <=> Untouched) /\ (AllWritten' <=> AllWritten)
    BY <2>1, <2>2, <2>7 DEF Complete, Untouched, AllWritten
  <2>10. Ended'
    BY <2>1, <2>2, <2>3, <2>7, <2>9 DEF Inv, Ended
  <2>. QED BY <2>4, <2>5, <2>6, <2>8, <2>10 DEF Inv
<1>. QED BY <1>1, <1>2, <1>3, <1>4, <1>5, <1>6, <1>7, <1>8, <1>9 DEF Next

LEMMA Invariant == Spec => []Inv
BY InvInit, InvNext, PTL DEF Spec
-------------------------------------------------------------------------------
\* Every variable has its type in all reachable states: there is at least one tile in
\* each dimension, a tile's size is a multiple of the alignment and execute() never
\* leaves its loops (unet.cpp:146-149, 199-230).
THEOREM TypeCorrect == Spec => []TypeOK
<1>1. Inv => TypeOK
  BY Sized DEF Inv, Domains, TypeOK
<1>. QED BY <1>1, Invariant, PTL

\* The search for a tile size ends whatever the limit on memory is: neither dimension
\* is cut more often than Overlap fits between its two outer overlaps (unet.cpp:211-226).
THEOREM SearchEnds == Spec => []CutsBounded
<1>1. Inv => CutsBounded
  <2>. SUFFICES ASSUME Inv PROVE CutsBounded
    OBVIOUS
  <2>1. CASE pc \in {"search", "count"}
    BY <2>1 DEF Inv, Cutting, Searched, CutsBounded
  <2>2. CASE pc \notin {"search", "count"}
    BY <2>2 DEF Inv, Cutting, Tiled, CutsBounded
  <2>. QED BY <2>1, <2>2
<1>. QED BY <1>1, Invariant, PTL

\* While a tile is filtered, its row and its column are tiles of the image.
LEMMA CurrentTile ==
  ASSUME Inv, pc = "tiles"
  PROVE  /\ H \in Nat \ {0} /\ W \in Nat \ {0}
         /\ Tiled(H, tileH, countH) /\ Tiled(W, tileW, countW)
         /\ i \in 0..countH-1 /\ j \in 0..countW-1
<1>1. i \in 0..countH /\ j \in 0..countW-1 /\ i < countH /\ countH \in Nat
  BY Sized DEF Inv, Domains, Progressing, AtTile
<1>. QED BY <1>1, Sized DEF Inv, Cutting

\* Every pixel a tile writes has Overlap pixels of the image around it in the tile, or
\* all there are (unet.cpp:151-155).
THEOREM TilesHaveContext == Spec => []EnoughContext
<1>1. Inv => EnoughContext
  BY CurrentTile, HasContext DEF EnoughContext
<1>. QED BY <1>1, Invariant, PTL

\* What is read for a tile lies in the image, fits the tile buffer and keeps its phase
\* under the network's halvings (unet.cpp:154-175).
THEOREM TilesFitTheBuffer == Spec => []PlacedInBuffer
<1>1. Inv => PlacedInBuffer
  BY CurrentTile, FitsBuffer DEF PlacedInBuffer
<1>. QED BY <1>1, Invariant, PTL

\* The blocks of the exposure's measurement partition every image that has any, and
\* none is empty or larger than 3K/2 (color.cpp:37-65).
THEOREM ExposureIsMeasuredOnce == Spec => []MeasuredOnce
<1>1. Inv => MeasuredOnce
  BY Sized, BlocksAreEven DEF MeasuredOnce
<1>. QED BY <1>1, Invariant, PTL

\* The tiles' outputs partition the image: no pixel is written twice, none outside of
\* the image, and at the end none is left out (unet.cpp:146-186).
THEOREM PixelsAreWrittenOnce == Spec => []WrittenOnce
<1>1. Inv => WrittenOnce
  <2>. SUFFICES ASSUME Inv PROVE WrittenOnce
    OBVIOUS
  <2>1. CASE pc \in {"done", "cancelled"}
    BY <2>1 DEF Inv, Ended, WrittenOnce
  <2>2. CASE pc \in {"tiles", "finish"}
    BY <2>2 DEF Inv, Written, WrittenOnce
  <2>3. CASE pc \in {"search", "count", "begin", "scale"}
    BY <2>3 DEF Inv, Written, WrittenOnce
  <2>. QED BY <2>1, <2>2, <2>3 DEF Inv, Domains
<1>. QED BY <1>1, Invariant, PTL

\* Filtering in place, no tile reads what another one has written: there is a temporary
\* image, or there is one tile (unet.cpp:180, 457-461).
THEOREM TilesReadTheSource == Spec => []ReadsSource
<1>1. Inv => ReadsSource
  <2>. SUFFICES ASSUME Inv, pc = "tiles", inplace PROVE Untouched
    BY DEF ReadsSource
  <2>1. /\ copied = FALSE /\ outputTemp = NeedsTemp(countH, countW)
        /\ \A p \in Pixels : written[p] = IF InImage(p) /\ DoneAt(p, i, j) THEN 1 ELSE 0
    BY DEF Inv, Progressing, Cutting, Written
  <2>2. CASE outputTemp
    BY <2>1, <2>2 DEF Untouched
  <2>3. CASE ~outputTemp
    <3>1. countH \in Nat \ {0} /\ countW \in Nat \ {0} /\ i \in 0..countH-1 /\ j \in 0..countW-1
      BY CurrentTile, Sized
    <3>2. ~(countH * countW > 1)
      BY <2>1, <2>3 DEF NeedsTemp
    <3>3. countH = 1 /\ countW = 1
      <4>1. countH * countW <= 1
        BY <3>1, <3>2, Counts
      <4>. QED BY <3>1, <4>1, Counts
    <3>4. i = 0 /\ j = 0
      BY <3>1, <3>3
    <3>. QED BY <2>1, <2>3, <3>1, <3>4, FirstAndLast DEF Untouched
  <2>. QED BY <2>2, <2>3
<1>. QED BY <1>1, Invariant, PTL

\* Wherever the monitor cancels, an image filtered in place is the old one or the new
\* one as a whole (progress.h:19-27, unet.cpp:187-192).
THEOREM CancelLeavesAWhole == Spec => []CancelledWhole
<1>1. Inv => CancelledWhole
  BY DEF Inv, Ended, CancelledWhole
<1>. QED BY <1>1, Invariant, PTL

\* The monitor is told the total when, and only when, the result is complete
\* (progress.h:47-52).
THEOREM TotalIsTheEnd == Spec => []TotalMeansComplete
<1>1. Inv => TotalMeansComplete
  <2>. SUFFICES ASSUME Inv PROVE TotalMeansComplete
    OBVIOUS
  <2>1. total \in Nat \ {0} /\ countH \in Nat \ {0} /\ countW \in Nat \ {0} /\ outputTemp \in BOOLEAN
    BY Sized, TotalIs DEF Inv, Domains
  <2>2. CASE pc \in {"done", "cancelled"}
    BY <2>2 DEF Inv, Ended, TotalMeansComplete
  <2>3. CASE pc \in {"search", "count", "begin", "scale"}
    BY <2>1, <2>3 DEF Inv, Progressing, AtStart, TotalMeansComplete
  <2>. DEFINE t == (countH * countW) * NetNodes
  <2>4. t \in Nat /\ total = t + (IF outputTemp THEN 1 ELSE 0)
    BY <2>1, TotalIs
  <2>5. CASE pc = "tiles"
    <3>1. /\ i \in 0..countH-1 /\ j \in 0..countW-1 /\ node \in 0..NetNodes-1
          /\ NetNodes \in Nat \ {0}
      BY <2>5, CurrentTile, TilingAssumption DEF Inv, Domains
    <3>2. current \in Nat /\ current + 1 <= t
      BY <2>1, <2>5, <3>1, Counting DEF Inv, Progressing, AtTile
    <3>. HIDE DEF t
    <3>3. current # total
      BY <2>1, <2>4, <3>2
    <3>. QED BY <2>5, <3>3 DEF TotalMeansComplete
  <2>6. CASE pc = "finish"
    <3>1. current = t /\ i = countH /\ j = 0
      BY <2>6 DEF Inv, Progressing, AtEnd
    <3>2. AllWritten
      <4>1. ASSUME NEW p \in Pixels, InImage(p) PROVE written[p] = 1
        <5>1. DoneAt(p, i, j)
          BY <2>1, <3>1, <4>1, FirstAndLast
        <5>. QED BY <2>6, <4>1, <5>1 DEF Inv, Written
      <4>. QED BY <4>1 DEF AllWritten
    <3>. HIDE DEF t
    <3>3. current = total => ~outputTemp
      BY <2>1, <2>4, <3>1
    <3>. QED BY <2>6, <3>2, <3>3 DEF TotalMeansComplete, Complete
  <2>. QED BY <2>2, <2>3, <2>5, <2>6 DEF Inv, Domains
<1>. QED BY <1>1, Invariant, PTL
===============================================================================
