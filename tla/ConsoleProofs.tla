--------------------------- MODULE ConsoleProofs ---------------------------
(***************************************************************************)
(* The input of the console is a line editor, and nobody sleeps at it for  *)
(* nothing: theorems for every size of the rings, and any number of        *)
(* readers and writers.                                                    *)
(***************************************************************************)
EXTENDS Console, SequenceTheorems, TLAPS

\* The quotient and the remainder of an integer.
LEMMA DivMod ==
    ASSUME NEW d \in Nat \ {0}, NEW a \in Int
    PROVE  /\ a \div d \in Int
           /\ a % d \in 0..(d - 1)
           /\ a = d * (a \div d) + (a % d)
  OBVIOUS

\* The remainder of d * q + x is x.
LEMMA ModIs ==
    ASSUME NEW d \in Nat \ {0}, NEW q \in Int, NEW x \in 0..(d - 1)
    PROVE  (d * q + x) % d = x
  OBVIOUS

\* A uint that wraps at a multiple of d has the remainder it would have without
\* wrapping: `cons.r % INPUT_BUF_SIZE' goes round the ring even when r overflows.
LEMMA ModMod ==
    ASSUME NEW d \in Nat \ {0}, NEW u \in Nat \ {0}, u % d = 0, NEW a \in Int
    PROVE  (a % u) % d = a % d
<1> DEFINE m == u \div d  q == a \div u  b == a % u  t == b \div d  x == b % d
<1>1. u = d * m /\ m \in Int
  BY DivMod
<1>2. a = u * q + b /\ q \in Int /\ b \in Int
  BY DivMod
<1>3. b = d * t + x /\ t \in Int /\ x \in 0..(d - 1)
  BY <1>2, DivMod, Zenon
<1> HIDE DEF m, q, b, t, x
<1>4. a = d * (m * q + t) + x
  BY <1>1, <1>2, <1>3
<1>5. m * q + t \in Int
  BY <1>1, <1>2, <1>3
<1>6. a % d = x
  BY <1>3, <1>4, <1>5, ModIs, Zenon
<1> QED
  BY <1>6, Zenon DEF x, b

\* Fewer than d consecutive integers have different remainders.
LEMMA ModApart ==
    ASSUME NEW d \in Nat \ {0}, NEW a \in Int, NEW j \in Nat, NEW k \in Nat, j < k, k < d
    PROVE  (a + j) % d # (a + k) % d
<1> SUFFICES ASSUME (a + j) % d = (a + k) % d PROVE FALSE
  BY Zenon
<1> DEFINE s == (a + j) \div d  t == (a + k) \div d  x == (a + k) % d
<1>1. a + j = d * s + x /\ s \in Int /\ x \in Int
  <2>1. a + j \in Int
    OBVIOUS
  <2>2. /\ (a + j) \div d \in Int /\ (a + j) % d \in 0..(d - 1)
        /\ a + j = d * ((a + j) \div d) + ((a + j) % d)
    BY <2>1, DivMod, Zenon
  <2>3. 0..(d - 1) \subseteq Int
    OBVIOUS
  <2> QED
    BY <2>2, <2>3, Zenon
<1>2. a + k = d * t + x /\ t \in Int
  <2>1. a + k \in Int
    OBVIOUS
  <2> QED
    BY <2>1, DivMod, Zenon
<1> HIDE DEF s, t, x
<1>3. k - j = d * (t - s)
  BY <1>1, <1>2
<1>4. CASE t - s <= 0
  <2>1. d * (t - s) <= 0
    BY <1>1, <1>2, <1>4
  <2> QED
    BY <1>3, <2>1
<1>5. CASE t - s >= 1
  <2>1. d * (t - s) >= d
    BY <1>1, <1>2, <1>5
  <2> QED
    BY <1>3, <2>1
<1> QED
  BY <1>1, <1>2, <1>4, <1>5

\* Addition modulo d wraps at most once.
LEMMA ModPlus ==
    ASSUME NEW d \in Nat \ {0}, NEW a \in 0..(d - 1), NEW b \in 0..d
    PROVE  (a + b) % d = IF a + b < d THEN a + b ELSE a + b - d
<1>1. CASE a + b < d
  BY <1>1, ModIs
<1>2. CASE a + b >= d
  <2>1. a + b = d * 1 + (a + b - d)
    OBVIOUS
  <2> QED
    BY <1>2, <2>1, ModIs
<1> QED
  BY <1>1, <1>2

\* So does subtraction.
LEMMA ModMinus ==
    ASSUME NEW d \in Nat \ {0}, NEW a \in 0..(d - 1), NEW b \in 0..(d - 1)
    PROVE  (a - b) % d = IF a >= b THEN a - b ELSE a - b + d
  OBVIOUS

\* Counting on from a counter that wrapped at a multiple of d goes round the
\* ring as if it had not.
LEMMA ModShift ==
    ASSUME NEW d \in Nat \ {0}, NEW u \in Nat \ {0}, u % d = 0, NEW a \in Int, NEW k \in Int
    PROVE  ((a % u) + k) % d = (a + k) % d
<1> DEFINE m == u \div d  q == a \div u  b == a % u  t == (b + k) \div d  x == (b + k) % d
<1>1. u = d * m /\ m \in Int
  BY DivMod
<1>2. a = u * q + b /\ q \in Int /\ b \in Int
  BY DivMod
<1>3. b + k = d * t + x /\ t \in Int /\ x \in 0..(d - 1)
  <2>1. b + k \in Int
    BY <1>2
  <2> QED
    BY <2>1, DivMod, Zenon
<1> HIDE DEF m, q, b, t, x
<1>4. a + k = d * (m * q + t) + x
  BY <1>1, <1>2, <1>3
<1>5. m * q + t \in Int
  BY <1>1, <1>2, <1>3
<1>6. (a + k) % d = x
  BY <1>3, <1>4, <1>5, ModIs, Zenon
<1> QED
  BY <1>6, Zenon DEF x, b

\* The values of f at a, ..., b - 1.
Cut(f, a, b) == [k \in 1..(b - a) |-> f[a + k - 1]]

\* A cut is a sequence.
LEMMA CutSeq ==
    ASSUME NEW f \in [Nat -> Line], NEW a \in Nat, NEW b \in Nat, a <= b
    PROVE  /\ Cut(f, a, b) \in Seq(Line) /\ Len(Cut(f, a, b)) = b - a
           /\ \A k \in 1..(b - a) : Cut(f, a, b)[k] = f[a + k - 1]
<1>1. b - a \in Nat /\ \A k \in 1..(b - a) : a + k - 1 \in Nat
  OBVIOUS
<1>2. \A k \in 1..(b - a) : f[a + k - 1] \in Line
  BY <1>1, Zenon
<1> QED
  BY <1>1, <1>2 DEF Cut

\* A cut without its first value.
LEMMA CutTail ==
    ASSUME NEW f \in [Nat -> Line], NEW a \in Nat, NEW b \in Nat, a < b
    PROVE  Cut(f, a, b) # <<>> /\ Tail(Cut(f, a, b)) = Cut(f, a + 1, b)
<1> DEFINE s == Cut(f, a, b)  t == Cut(f, a + 1, b)
<1>1. /\ s \in Seq(Line) /\ Len(s) = b - a /\ t \in Seq(Line) /\ Len(t) = b - (a + 1)
      /\ \A k \in 1..(b - a) : s[k] = f[a + k - 1]
      /\ \A k \in 1..(b - (a + 1)) : t[k] = f[(a + 1) + k - 1]
  <2>1. a + 1 \in Nat /\ a + 1 <= b /\ a <= b
    OBVIOUS
  <2>2. /\ s \in Seq(Line) /\ Len(s) = b - a
        /\ \A k \in 1..(b - a) : s[k] = f[a + k - 1]
    BY <2>1, CutSeq, Zenon
  <2>3. /\ t \in Seq(Line) /\ Len(t) = b - (a + 1)
        /\ \A k \in 1..(b - (a + 1)) : t[k] = f[(a + 1) + k - 1]
    BY <2>1, CutSeq, Zenon
  <2> QED
    BY <2>2, <2>3, Zenon
<1> HIDE DEF s, t
<1>2. s # <<>>
  BY <1>1
<1>3. /\ Tail(s) \in Seq(Line) /\ Len(Tail(s)) = Len(s) - 1
      /\ \A k \in 1..Len(Tail(s)) : Tail(s)[k] = s[k + 1]
  BY <1>1, <1>2, HeadTailProperties, Zenon
<1>4. \A k \in 1..Len(Tail(s)) : Tail(s)[k] = t[k]
  BY <1>1, <1>3
<1>5. Tail(s) = t
  BY <1>1, <1>3, <1>4, SeqEqual
<1> QED
  BY <1>2, <1>5, Zenon DEF s, t

\* A cut without its last value.
LEMMA CutFront ==
    ASSUME NEW f \in [Nat -> Line], NEW a \in Nat, NEW b \in Nat, a < b
    PROVE  SubSeq(Cut(f, a, b), 1, Len(Cut(f, a, b)) - 1) = Cut(f, a, b - 1)
<1> DEFINE s == Cut(f, a, b)  t == Cut(f, a, b - 1)
<1>1. /\ s \in Seq(Line) /\ Len(s) = b - a /\ t \in Seq(Line) /\ Len(t) = b - 1 - a
      /\ \A k \in 1..(b - a) : s[k] = f[a + k - 1]
      /\ \A k \in 1..(b - 1 - a) : t[k] = f[a + k - 1]
  <2>1. b - 1 \in Nat /\ a <= b - 1 /\ a <= b
    OBVIOUS
  <2>2. /\ s \in Seq(Line) /\ Len(s) = b - a
        /\ \A k \in 1..(b - a) : s[k] = f[a + k - 1]
    BY <2>1, CutSeq, Zenon
  <2>3. /\ t \in Seq(Line) /\ Len(t) = b - 1 - a
        /\ \A k \in 1..(b - 1 - a) : t[k] = f[a + k - 1]
    BY <2>1, CutSeq, Zenon
  <2> QED
    BY <2>2, <2>3, Zenon
<1> HIDE DEF s, t
<1>2. Len(s) - 1 \in Int /\ \A k \in 1..(Len(s) - 1) : s[k] \in Line
  BY <1>1, ElementOfSeq
<1>3. /\ SubSeq(s, 1, Len(s) - 1) \in Seq(Line)
      /\ Len(SubSeq(s, 1, Len(s) - 1)) = Len(s) - 1
      /\ \A k \in 1..(Len(s) - 1) : SubSeq(s, 1, Len(s) - 1)[k] = s[k]
  BY <1>1, <1>2
<1>4. \A k \in 1..(Len(s) - 1) : SubSeq(s, 1, Len(s) - 1)[k] = t[k]
  BY <1>1, <1>3
<1>5. SubSeq(s, 1, Len(s) - 1) = t
  BY <1>1, <1>3, <1>4, SeqEqual
<1> QED
  BY <1>5, Zenon DEF s, t

\* A cut and one more value.
LEMMA CutAppend ==
    ASSUME NEW f \in [Nat -> Line], NEW a \in Nat, NEW b \in Nat, a <= b
    PROVE  Append(Cut(f, a, b), f[b]) = Cut(f, a, b + 1)
<1> DEFINE c == b + 1  s == Cut(f, a, b)  t == Cut(f, a, c)  x == f[b]
<1>1. c \in Nat /\ a <= c /\ c = b + 1 /\ x = f[b] /\ x \in Line
  OBVIOUS
<1> HIDE DEF c, x
<1>2. /\ s \in Seq(Line) /\ Len(s) = b - a
      /\ \A k \in 1..(b - a) : s[k] = f[a + k - 1]
  BY CutSeq, Zenon
<1>3. /\ t \in Seq(Line) /\ Len(t) = c - a
      /\ \A k \in 1..(c - a) : t[k] = f[a + k - 1]
  BY <1>1, CutSeq, Zenon
<1> HIDE DEF s, t
<1>4. /\ Append(s, x) \in Seq(Line) /\ Len(Append(s, x)) = Len(s) + 1
      /\ \A k \in 1..Len(s) : Append(s, x)[k] = s[k]
      /\ Append(s, x)[Len(s) + 1] = x
  BY <1>1, <1>2
<1>5. \A k \in 1..Len(Append(s, x)) : Append(s, x)[k] = t[k]
  <2> TAKE k \in 1..Len(Append(s, x))
  <2>1. CASE k <= Len(s)
    BY <1>1, <1>2, <1>3, <1>4, <2>1
  <2>2. CASE k = Len(s) + 1
    BY <1>1, <1>2, <1>3, <1>4, <2>2
  <2> QED
    BY <1>2, <1>4, <2>1, <2>2
<1>6. Append(s, x) = t
  BY <1>1, <1>2, <1>3, <1>4, <1>5, SeqEqual
<1> QED
  BY <1>6, Zenon DEF s, t, c, x

\* Two cuts of which one begins where the other ends.
LEMMA CutConcat ==
    ASSUME NEW f \in [Nat -> Line], NEW a \in Nat, NEW b \in Nat, NEW c \in Nat,
           a <= b, b <= c
    PROVE  Cut(f, a, b) \o Cut(f, b, c) = Cut(f, a, c)
<1> DEFINE s == Cut(f, a, b)  t == Cut(f, b, c)  v == Cut(f, a, c)
<1>1. /\ s \in Seq(Line) /\ Len(s) = b - a /\ t \in Seq(Line) /\ Len(t) = c - b
      /\ v \in Seq(Line) /\ Len(v) = c - a
      /\ \A k \in 1..(b - a) : s[k] = f[a + k - 1]
      /\ \A k \in 1..(c - b) : t[k] = f[b + k - 1]
      /\ \A k \in 1..(c - a) : v[k] = f[a + k - 1]
  <2>1. a <= c
    OBVIOUS
  <2>2. /\ s \in Seq(Line) /\ Len(s) = b - a
        /\ \A k \in 1..(b - a) : s[k] = f[a + k - 1]
    BY CutSeq, Zenon
  <2>3. /\ t \in Seq(Line) /\ Len(t) = c - b
        /\ \A k \in 1..(c - b) : t[k] = f[b + k - 1]
    BY CutSeq, Zenon
  <2>4. /\ v \in Seq(Line) /\ Len(v) = c - a
        /\ \A k \in 1..(c - a) : v[k] = f[a + k - 1]
    BY <2>1, CutSeq, Zenon
  <2> QED
    BY <2>2, <2>3, <2>4, Zenon
<1> HIDE DEF s, t, v
<1>2. /\ s \o t \in Seq(Line) /\ Len(s \o t) = Len(s) + Len(t)
      /\ \A k \in 1..(Len(s) + Len(t)) :
            (s \o t)[k] = IF k <= Len(s) THEN s[k] ELSE t[k - Len(s)]
  BY <1>1, ConcatProperties, Zenon
<1>3. \A k \in 1..Len(s \o t) : (s \o t)[k] = v[k]
  <2> TAKE k \in 1..Len(s \o t)
  <2>1. /\ Len(s) = b - a /\ Len(t) = c - b /\ k \in 1..(Len(s) + Len(t))
        /\ k \in 1..(c - a)
    BY <1>1, <1>2
  <2>2. /\ (s \o t)[k] = IF k <= Len(s) THEN s[k] ELSE t[k - Len(s)]
        /\ v[k] = f[a + k - 1]
    BY <1>1, <1>2, <2>1, Zenon
  <2>3. CASE k <= Len(s)
    <3>1. k \in 1..(b - a)
      BY <2>1, <2>3
    <3> QED
      BY <1>1, <2>2, <2>3, <3>1, Zenon
  <2>4. CASE ~(k <= Len(s))
    <3>1. k - Len(s) \in 1..(c - b) /\ b + (k - Len(s)) - 1 = a + k - 1
      BY <2>1, <2>4
    <3>2. t[k - Len(s)] = f[b + (k - Len(s)) - 1]
      BY <1>1, <3>1, Zenon
    <3> QED
      BY <2>2, <2>4, <3>1, <3>2, Zenon
  <2> QED
    BY <2>3, <2>4, Zenon
<1>4. s \o t = v
  <2>1. Len(s \o t) = Len(v)
    BY <1>1, <1>2
  <2> QED
    BY <1>1, <1>2, <1>3, <2>1, SeqEqual, Zenon
<1> QED
  BY <1>4, Zenon DEF s, t, v

-----------------------------------------------------------------------------
(***************************************************************************)
(* The input ring.                                                         *)
(***************************************************************************)
\* The value of a counter.
Uint == 0..(UINT - 1)

\* The characters between two counters, and all characters from a counter on.
Text(b, from, to) ==
    [k \in 1..minus(to, from) |-> b[plus(from, k - 1) % INPUT_BUF_SIZE]]
Tape(b, from) == [k \in Nat |-> b[(from + k) % INPUT_BUF_SIZE]]

\* A counter that counts from another one is at most INPUT_BUF_SIZE ahead, and w
\* is between r and e.
InOrder(x, y, z) ==
    /\ x \in Uint /\ y \in Uint /\ z \in Uint
    /\ minus(y, x) <= minus(z, x) /\ minus(z, x) <= INPUT_BUF_SIZE

Buffer == [0..(INPUT_BUF_SIZE - 1) -> Line]

\* The two sizes that matter to the input ring.
LEMMA InputSizes ==
    /\ INPUT_BUF_SIZE \in Nat \ {0} /\ UINT \in Nat \ {0}
    /\ UINT % INPUT_BUF_SIZE = 0 /\ UINT > INPUT_BUF_SIZE
  BY ConsoleAssumption, Zenon

\* A counter that wraps goes round the ring as one that does not.
LEMMA Wraps ==
    /\ \A a \in Int, k \in Int : ((a % UINT) + k) % INPUT_BUF_SIZE = (a + k) % INPUT_BUF_SIZE
    /\ \A a \in Int : (a % UINT) % INPUT_BUF_SIZE = a % INPUT_BUF_SIZE
<1>1. \A a \in Int, k \in Int : ((a % UINT) + k) % INPUT_BUF_SIZE = (a + k) % INPUT_BUF_SIZE
  BY InputSizes, ModShift, Zenon
<1>2. \A a \in Int : (a % UINT) % INPUT_BUF_SIZE = a % INPUT_BUF_SIZE
  BY InputSizes, ModMod, Zenon
<1> QED
  BY <1>1, <1>2, Zenon

\* What the counters do when they wrap.
LEMMA Counts ==
    ASSUME NEW a \in Uint, NEW b \in Uint
    PROVE  /\ minus(a, b) \in Uint
           /\ minus(a, b) = IF a >= b THEN a - b ELSE a - b + UINT
           /\ plus(a, 1) \in Uint
           /\ plus(a, 1) = IF a + 1 < UINT THEN a + 1 ELSE 0
           /\ minus(a, 1) \in Uint
           /\ minus(a, 1) = IF a >= 1 THEN a - 1 ELSE UINT - 1
<1>1. UINT \in Nat \ {0} /\ UINT > 1 /\ 1 \in 0..(UINT - 1) /\ 1 \in 0..UINT
  BY InputSizes
<1>2. (a - b) % UINT = IF a >= b THEN a - b ELSE a - b + UINT
  BY <1>1, ModMinus, Zenon DEF Uint
<1>3. (a - 1) % UINT = IF a >= 1 THEN a - 1 ELSE a - 1 + UINT
  BY <1>1, ModMinus, Zenon DEF Uint
<1>4. (a + 1) % UINT = IF a + 1 < UINT THEN a + 1 ELSE a + 1 - UINT
  BY <1>1, ModPlus, Zenon DEF Uint
<1> QED
  BY <1>1, <1>2, <1>3, <1>4 DEF Uint, minus, plus

\* How far counters are apart from each other, when they are in order.
LEMMA Apart ==
    ASSUME NEW x, NEW y, NEW z, InOrder(x, y, z)
    PROVE  /\ minus(y, x) \in Nat /\ minus(z, x) \in Nat
           /\ minus(z, y) = minus(z, x) - minus(y, x)
           /\ y = (x + minus(y, x)) % UINT
           /\ z = (x + minus(z, x)) % UINT
<1> DEFINE m == minus(y, x)  n == minus(z, x)
<1>1. /\ x \in Uint /\ y \in Uint /\ z \in Uint
      /\ UINT \in Nat \ {0} /\ UINT > INPUT_BUF_SIZE /\ INPUT_BUF_SIZE \in Nat
  BY InputSizes, Zenon DEF InOrder
<1>2. m \in Uint /\ m = IF y >= x THEN y - x ELSE y - x + UINT
  BY <1>1, Counts, Zenon
<1>3. n \in Uint /\ n = IF z >= x THEN z - x ELSE z - x + UINT
  BY <1>1, Counts, Zenon
<1>4. minus(z, y) = IF z >= y THEN z - y ELSE z - y + UINT
  BY <1>1, Counts, Zenon
<1>5. m <= n /\ n <= INPUT_BUF_SIZE
  BY Zenon DEF InOrder
<1> HIDE DEF m, n
<1>6. m \in Nat /\ n \in Nat /\ minus(z, y) = n - m
  BY <1>1, <1>2, <1>3, <1>4, <1>5 DEF Uint
<1>7. x \in 0..(UINT - 1) /\ m \in 0..UINT /\ n \in 0..UINT
  BY <1>1, <1>2, <1>3 DEF Uint
<1>8. (x + m) % UINT = y
  <2>1. (x + m) % UINT = IF x + m < UINT THEN x + m ELSE x + m - UINT
    BY <1>1, <1>7, ModPlus, Zenon
  <2> QED
    BY <1>1, <1>2, <2>1 DEF Uint
<1>9. (x + n) % UINT = z
  <2>1. (x + n) % UINT = IF x + n < UINT THEN x + n ELSE x + n - UINT
    BY <1>1, <1>7, ModPlus, Zenon
  <2> QED
    BY <1>1, <1>3, <2>1 DEF Uint
<1> QED
  BY <1>6, <1>8, <1>9, Zenon DEF m, n

\* What is between two counters is a cut of the tape from a third one.
LEMMA TextIsCut ==
    ASSUME NEW b \in Buffer, NEW x, NEW y, NEW z, InOrder(x, y, z)
    PROVE  /\ Tape(b, x) \in [Nat -> Line]
           /\ Text(b, x, y) = Cut(Tape(b, x), 0, minus(y, x))
           /\ Text(b, y, z) = Cut(Tape(b, x), minus(y, x), minus(z, x))
           /\ Text(b, x, z) = Cut(Tape(b, x), 0, minus(z, x))
<1> DEFINE m == minus(y, x)  n == minus(z, x)
<1>1. /\ m \in Nat /\ n \in Nat /\ minus(z, y) = n - m
      /\ x \in Int /\ y = (x + m) % UINT
  BY InputSizes, Apart DEF InOrder, Uint
<1> HIDE DEF m, n
<1>2. Tape(b, x) \in [Nat -> Line]
  <2>1. ASSUME NEW k \in Nat PROVE b[(x + k) % INPUT_BUF_SIZE] \in Line
    <3>1. (x + k) % INPUT_BUF_SIZE \in 0..(INPUT_BUF_SIZE - 1)
      BY <1>1, InputSizes
    <3> QED
      BY <3>1, Zenon DEF Buffer
  <2> QED
    BY <2>1, Zenon DEF Tape
<1>3. ASSUME NEW l \in Nat, minus(y, x) = l \/ minus(z, x) = l
      PROVE  [k \in 1..l |-> b[plus(x, k - 1) % INPUT_BUF_SIZE]] = Cut(Tape(b, x), 0, l)
  <2>1. ASSUME NEW k \in 1..l
        PROVE  b[plus(x, k - 1) % INPUT_BUF_SIZE] = Tape(b, x)[0 + k - 1]
    <3>1. 0 + k - 1 \in Nat /\ x + (k - 1) \in Int /\ 0 + k - 1 = k - 1
      BY <1>1, <1>3
    <3>2. plus(x, k - 1) % INPUT_BUF_SIZE = (x + (k - 1)) % INPUT_BUF_SIZE
      BY <3>1, Wraps, Zenon DEF plus
    <3> QED
      BY <3>1, <3>2, Zenon DEF Tape
  <2>2. l - 0 = l
    OBVIOUS
  <2> QED
    BY <2>1, <2>2, Zenon DEF Cut
<1>4. Text(b, y, z) = Cut(Tape(b, x), m, n)
  <2>1. ASSUME NEW k \in 1..(n - m)
        PROVE  b[plus(y, k - 1) % INPUT_BUF_SIZE] = Tape(b, x)[m + k - 1]
    <3>1. /\ m + k - 1 \in Nat /\ x + m \in Int /\ k - 1 \in Int /\ y + (k - 1) \in Int
          /\ x + (m + k - 1) = (x + m) + (k - 1)
      BY <1>1, InputSizes DEF InOrder, Uint
    <3>2. plus(y, k - 1) % INPUT_BUF_SIZE = (y + (k - 1)) % INPUT_BUF_SIZE
      BY <3>1, Wraps, Zenon DEF plus
    <3>3. (y + (k - 1)) % INPUT_BUF_SIZE = (x + (m + k - 1)) % INPUT_BUF_SIZE
      BY <1>1, <3>1, Wraps
    <3> QED
      BY <3>1, <3>2, <3>3, Zenon DEF Tape
  <2> QED
    BY <1>1, <2>1, Zenon DEF Cut, Text
<1>5. Text(b, x, y) = Cut(Tape(b, x), 0, m) /\ Text(b, x, z) = Cut(Tape(b, x), 0, n)
  BY <1>1, <1>3, Zenon DEF Text, m, n
<1> QED
  BY <1>2, <1>4, <1>5, Zenon DEF m, n

\* consoleread() takes the first character.
LEMMA TextDeliver ==
    ASSUME NEW b \in Buffer, NEW x, NEW y, NEW z, InOrder(x, y, z), x # y
    PROVE  /\ InOrder(plus(x, 1), y, z)
           /\ Text(b, x, y) # <<>>
           /\ Text(b, plus(x, 1), y) = Tail(Text(b, x, y))
<1> DEFINE m == minus(y, x)  x1 == plus(x, 1)  m1 == minus(y, x1)  f == Tape(b, x)
           g == Tape(b, x1)
<1>1. /\ x \in Uint /\ y \in Uint /\ z \in Uint /\ x1 \in Uint
      /\ UINT \in Nat /\ UINT > INPUT_BUF_SIZE /\ INPUT_BUF_SIZE \in Nat
  BY InputSizes, Counts, Zenon DEF InOrder
<1>2. m <= minus(z, x) /\ minus(z, x) <= INPUT_BUF_SIZE
  BY Zenon DEF InOrder
<1>3. x1 = IF x + 1 < UINT THEN x + 1 ELSE 0
  BY <1>1, Counts, Zenon
<1>4. /\ m = IF y >= x THEN y - x ELSE y - x + UINT
      /\ minus(z, x) = IF z >= x THEN z - x ELSE z - x + UINT
  BY <1>1, Counts, Zenon
<1>5. /\ m1 = IF y >= x1 THEN y - x1 ELSE y - x1 + UINT
      /\ minus(z, x1) = IF z >= x1 THEN z - x1 ELSE z - x1 + UINT
  BY <1>1, Counts, Zenon
<1> HIDE DEF m, x1, m1
<1>6. /\ m \in Nat /\ 0 < m /\ m1 = m - 1 /\ m1 \in Nat
      /\ minus(z, x1) = minus(z, x) - 1 /\ minus(z, x) \in Nat
  BY <1>1, <1>2, <1>3, <1>4, <1>5 DEF Uint
<1>7. InOrder(x1, y, z)
  BY <1>1, <1>2, <1>6 DEF InOrder, m1
<1>8. f \in [Nat -> Line] /\ Text(b, x, y) = Cut(f, 0, m)
  BY TextIsCut, Zenon DEF m
<1>9. Text(b, x1, y) = Cut(g, 0, m1)
  BY <1>7, TextIsCut, Zenon DEF m1
<1>10. \A k \in 1..m1 : g[0 + k - 1] = f[1 + k - 1]
  <2> TAKE k \in 1..m1
  <2>1. 0 + k - 1 \in Nat /\ 1 + k - 1 \in Nat /\ x + 1 \in Int /\ 0 + k - 1 \in Int
        /\ (x + 1) + (0 + k - 1) = x + (1 + k - 1)
    BY <1>1, <1>6 DEF Uint
  <2>2. x1 = (x + 1) % UINT
    BY Zenon DEF x1, plus
  <2>3. (x1 + (0 + k - 1)) % INPUT_BUF_SIZE = ((x + 1) + (0 + k - 1)) % INPUT_BUF_SIZE
    BY <2>1, <2>2, Wraps, Zenon
  <2> QED
    BY <2>1, <2>3, Zenon DEF Tape
<1>11. Cut(g, 0, m1) = Cut(f, 1, m)
  <2>1. m1 - 0 = m - 1 /\ m1 - 0 = m1 /\ 0 \in Nat /\ 1 \in Nat
    BY <1>6
  <2> HIDE DEF f, g
  <2> QED
    BY <1>6, <1>10, <2>1, Zenon DEF Cut
<1>12. Cut(f, 0, m) # <<>> /\ Tail(Cut(f, 0, m)) = Cut(f, 0 + 1, m)
  <2> HIDE DEF f
  <2> QED
    BY <1>6, <1>8, CutTail, Zenon
<1> QED
  BY <1>7, <1>8, <1>9, <1>11, <1>12 DEF x1

\* Backspace takes the last character of the line.
LEMMA TextErase ==
    ASSUME NEW b \in Buffer, NEW x, NEW y, NEW z, InOrder(x, y, z), y # z
    PROVE  /\ InOrder(x, y, minus(z, 1))
           /\ Text(b, y, z) # <<>>
           /\ Text(b, y, minus(z, 1))
                = SubSeq(Text(b, y, z), 1, Len(Text(b, y, z)) - 1)
<1> DEFINE m == minus(y, x)  z1 == minus(z, 1)  n == minus(z, x)  n1 == minus(z1, x)
           f == Tape(b, x)
<1>1. /\ x \in Uint /\ y \in Uint /\ z \in Uint /\ z1 \in Uint
      /\ UINT \in Nat /\ UINT > INPUT_BUF_SIZE /\ INPUT_BUF_SIZE \in Nat
  BY InputSizes, Counts, Zenon DEF InOrder
<1>2. m <= n /\ n <= INPUT_BUF_SIZE
  BY Zenon DEF InOrder
<1>3. z1 = IF z >= 1 THEN z - 1 ELSE UINT - 1
  BY <1>1, Counts, Zenon
<1>4. /\ m = IF y >= x THEN y - x ELSE y - x + UINT
      /\ n = IF z >= x THEN z - x ELSE z - x + UINT
  BY <1>1, Counts, Zenon
<1>5. n1 = IF z1 >= x THEN z1 - x ELSE z1 - x + UINT
  BY <1>1, Counts, Zenon
<1> HIDE DEF m, z1, n, n1
<1>6. m \in Nat /\ n \in Nat /\ m < n /\ n1 = n - 1
  BY <1>1, <1>2, <1>3, <1>4, <1>5 DEF Uint
<1>7. InOrder(x, y, z1)
  <2>1. m <= n1 /\ n1 <= INPUT_BUF_SIZE
    BY <1>1, <1>2, <1>6
  <2> QED
    BY <1>1, <2>1, Zenon DEF InOrder, m, n1
<1>8. f \in [Nat -> Line] /\ Text(b, y, z) = Cut(f, m, n)
  BY TextIsCut DEF m, n
<1>9. Text(b, y, z1) = Cut(f, m, n1)
  BY <1>7, TextIsCut DEF m, n1
<1> HIDE DEF f
<1>10. SubSeq(Cut(f, m, n), 1, Len(Cut(f, m, n)) - 1) = Cut(f, m, n - 1)
  BY <1>6, <1>8, CutFront, Zenon
<1>11. Cut(f, m, n) # <<>>
  BY <1>6, <1>8, CutTail, Zenon
<1> QED
  BY <1>6, <1>7, <1>8, <1>9, <1>10, <1>11, Zenon DEF z1

\* There is nothing between a counter and itself.
LEMMA TextEmpty ==
    ASSUME NEW b, NEW y \in Uint
    PROVE  minus(y, y) = 0 /\ Text(b, y, y) = <<>>
<1>1. minus(y, y) = 0
  BY InputSizes, Counts DEF Uint
<1> QED
  BY <1>1 DEF Text

\* How many characters there are.
LEMMA TextLen ==
    ASSUME NEW b \in Buffer, NEW x, NEW y, NEW z, InOrder(x, y, z)
    PROVE  /\ Text(b, x, y) \in Seq(Line) /\ Text(b, y, z) \in Seq(Line)
           /\ Len(Text(b, x, y)) = minus(y, x)
           /\ Len(Text(b, y, z)) = minus(z, x) - minus(y, x)
<1> DEFINE m == minus(y, x)  n == minus(z, x)  f == Tape(b, x)
<1>1. m \in Nat /\ n \in Nat /\ m <= n
  BY Apart, Zenon DEF InOrder
<1>2. /\ f \in [Nat -> Line]
      /\ Text(b, x, y) = Cut(f, 0, m) /\ Text(b, y, z) = Cut(f, m, n)
  BY TextIsCut
<1> HIDE DEF m, n, f
<1>3. Cut(f, m, n) \in Seq(Line) /\ Len(Cut(f, m, n)) = n - m
  BY <1>1, <1>2, CutSeq, Zenon
<1>4. Cut(f, 0, m) \in Seq(Line) /\ Len(Cut(f, 0, m)) = m - 0
  <2>1. 0 \in Nat /\ 0 <= m
    BY <1>1
  <2> QED
    BY <1>1, <1>2, <2>1, CutSeq, Zenon
<1> QED
  BY <1>1, <1>2, <1>3, <1>4 DEF m, n

\* c is put at place i of b.
Puts(b, i, c, b1) ==
    b1[i] = c /\ \A k \in 0..(INPUT_BUF_SIZE - 1) : k # i => b1[k] = b[k]

\* b1 has what b has between x and z, and c behind it.
Inserted(b, x, y, z, c, b1) ==
    /\ InOrder(x, y, plus(z, 1))
    /\ minus(plus(z, 1), x) = minus(z, x) + 1
    /\ Text(b1, x, y) = Text(b, x, y)
    /\ Text(b1, y, plus(z, 1)) = Append(Text(b, y, z), c)
    /\ Text(b1, x, plus(z, 1)) = Text(b, x, y) \o Append(Text(b, y, z), c)

\* consoleintr() puts a character behind the last one.
LEMMA TextInsert ==
    ASSUME NEW b \in Buffer, NEW x, NEW y, NEW z, InOrder(x, y, z),
           minus(z, x) < INPUT_BUF_SIZE,
           NEW c, NEW b1 \in Buffer, Puts(b, z % INPUT_BUF_SIZE, c, b1)
    PROVE  Inserted(b, x, y, z, c, b1)
<1> DEFINE m == minus(y, x)  z1 == plus(z, 1)  n == minus(z, x)  n1 == minus(z1, x)
           f == Tape(b, x)  g == Tape(b1, x)
<1>1. /\ x \in Uint /\ y \in Uint /\ z \in Uint /\ z1 \in Uint
      /\ UINT \in Nat /\ UINT > INPUT_BUF_SIZE /\ INPUT_BUF_SIZE \in Nat \ {0}
  BY InputSizes, Counts, Zenon DEF InOrder
<1>2. m <= n /\ n < INPUT_BUF_SIZE /\ m \in Nat /\ n \in Nat /\ z = (x + n) % UINT
  BY Apart, Zenon DEF InOrder
<1>3. z1 = IF z + 1 < UINT THEN z + 1 ELSE 0
  BY <1>1, Counts, Zenon
<1>4. n = IF z >= x THEN z - x ELSE z - x + UINT
  BY <1>1, Counts, Zenon
<1>5. n1 = IF z1 >= x THEN z1 - x ELSE z1 - x + UINT
  BY <1>1, Counts, Zenon
<1> HIDE DEF m, z1, n, n1
<1>6. n1 = n + 1
  BY <1>1, <1>2, <1>3, <1>4, <1>5 DEF Uint
<1>7. InOrder(x, y, z1)
  <2>1. m <= n1 /\ n1 <= INPUT_BUF_SIZE
    BY <1>1, <1>2, <1>6
  <2> QED
    BY <1>1, <2>1, Zenon DEF InOrder, m, n1
<1>8. /\ f \in [Nat -> Line]
      /\ Text(b, x, y) = Cut(f, 0, m) /\ Text(b, y, z) = Cut(f, m, n)
  BY TextIsCut DEF m, n
<1>9. /\ g \in [Nat -> Line] /\ Text(b1, x, y) = Cut(g, 0, m)
       /\ Text(b1, y, z1) = Cut(g, m, n1) /\ Text(b1, x, z1) = Cut(g, 0, n1)
  <2>1. /\ g \in [Nat -> Line] /\ Text(b1, x, y) = Cut(g, 0, minus(y, x))
        /\ Text(b1, y, z1) = Cut(g, minus(y, x), minus(z1, x))
        /\ Text(b1, x, z1) = Cut(g, 0, minus(z1, x))
    BY <1>7, TextIsCut, SMT
  <2> QED
    BY <2>1, Zenon DEF m, n1
<1>10. z % INPUT_BUF_SIZE = (x + n) % INPUT_BUF_SIZE
  <2>1. x + n \in Int
    BY <1>1, <1>2 DEF Uint
  <2> QED
    BY <1>2, <2>1, Wraps, Zenon
<1>11. g[n] = c
  BY <1>2, <1>10, Zenon DEF Tape, Puts
<1>12. \A k \in Nat : k < n => g[k] = f[k]
  <2> SUFFICES ASSUME NEW k \in Nat, k < n PROVE g[k] = f[k]
    BY Zenon
  <2>1. (x + k) % INPUT_BUF_SIZE # (x + n) % INPUT_BUF_SIZE
    <3>1. x \in Int /\ n < INPUT_BUF_SIZE /\ INPUT_BUF_SIZE \in Nat \ {0}
      BY <1>1, <1>2 DEF Uint
    <3> QED
      BY <1>2, <3>1, ModApart, Zenon
  <2>2. (x + k) % INPUT_BUF_SIZE \in 0..(INPUT_BUF_SIZE - 1)
    BY <1>1 DEF Uint
  <2> QED
    BY <1>10, <2>1, <2>2, Zenon DEF Tape, Puts
<1> HIDE DEF f, g
<1>13. Cut(g, 0, m) = Cut(f, 0, m)
  <2>1. \A k \in 1..(m - 0) : g[0 + k - 1] = f[0 + k - 1]
    BY <1>2, <1>12
  <2>2. 0 \in Nat /\ m - 0 = m - 0
    BY Zenon
  <2> QED
    BY <1>2, <2>1, <2>2, Zenon DEF Cut
<1>14. Cut(g, m, n) = Cut(f, m, n)
  <2>1. \A k \in 1..(n - m) : g[m + k - 1] = f[m + k - 1]
    BY <1>2, <1>12
  <2> QED
    BY <1>2, <2>1, Zenon DEF Cut
<1>15. Append(Cut(g, m, n), g[n]) = Cut(g, m, n + 1)
  BY <1>2, <1>9, CutAppend, Zenon
<1>16. Cut(g, 0, m) \o Cut(g, m, n1) = Cut(g, 0, n1)
  <2>1. 0 \in Nat /\ n1 \in Nat /\ 0 <= m /\ m <= n1
    BY <1>2, <1>6
  <2> QED
    BY <1>2, <1>9, <2>1, CutConcat, Zenon
<1>17. Cut(g, m, n1) = Append(Cut(f, m, n), c)
  BY <1>6, <1>11, <1>14, <1>15, Zenon
<1> QED
  BY <1>6, <1>7, <1>8, <1>9, <1>13, <1>16, <1>17, Zenon DEF Inserted, z1, n, n1
-----------------------------------------------------------------------------
\* What the counters, the buffers and the registers hold.  A character that is
\* echoed is waited for before it is written.
Held ==
    /\ TypeOK /\ session \in Sessions
    /\ idle => echo > 0
    /\ InOrder(r, w, e)

\* A writer sleeps only while the buffer is full, and while it is not empty
\* uartstart() runs or is still to be called.
Called ==
    /\ \A p \in Reader : rpc[p] = "sleep" => r = w
    /\ \A p \in Writer : wpc[p] = "sleep" => tx_full
    /\ txlock = none /\ tx_w # tx_r => fifo # <<>> \/ irq \/ isr = "get"

ConsoleInv == Held /\ Called

\* The console's editor, with its steps and a step that it does not see.
EditorStep == [Editor!Next]_Editor!vars

\* The sizes of the output ring.
LEMMA OutputSizes ==
    /\ UART_TX_BUF_SIZE \in Nat \ {0} /\ UINT \in Nat \ {0} /\ FifoSize \in Nat \ {0}
    /\ MaxN \in Nat /\ INPUT_BUF_SIZE \in Nat /\ UINT > UART_TX_BUF_SIZE
  BY ConsoleAssumption, Zenon

\* Who uses the console, and how.
LEMMA Users ==
    ASSUME session \in Sessions
    PROVE  /\ session.reader \subseteq Reader /\ session.writer \subseteq Writer
           /\ session.key \subseteq Key
  BY ConsoleAssumption, Zenon

\* A full buffer is not empty.
LEMMA FullHolds ==
    ASSUME tx_r \in Uint, tx_full
    PROVE  tx_w # tx_r
<1>1. /\ UART_TX_BUF_SIZE \in 0..UINT /\ UINT \in Nat \ {0} /\ tx_r \in 0..(UINT - 1)
      /\ UART_TX_BUF_SIZE # 0 /\ UART_TX_BUF_SIZE < UINT
  BY OutputSizes DEF Uint
<1>2. (tx_r + UART_TX_BUF_SIZE) % UINT
        = IF tx_r + UART_TX_BUF_SIZE < UINT THEN tx_r + UART_TX_BUF_SIZE
                                            ELSE tx_r + UART_TX_BUF_SIZE - UINT
  BY <1>1, ModPlus, Zenon
<1> QED
  BY <1>1, <1>2 DEF tx_full, plus

\* The console after consoleinit() and uartinit().
LEMMA InitConsole ==
    ASSUME Init
    PROVE  ConsoleInv /\ Editor!Init
<1>1. 0 \in Uint
  BY InputSizes DEF Uint
<1>2. minus(0, 0) = 0 /\ Slice(0, 0) = <<>>
  BY <1>1, TextEmpty, Zenon DEF Text, Slice
<1>3. (CHOOSE c \in Byte : TRUE) \in Byte
  BY ConsoleAssumption, Zenon
<1>4. TypeOK
  <2>1. buf \in [0..(INPUT_BUF_SIZE - 1) -> Line]
    BY Zenon DEF Init, Line
  <2>2. /\ {r, w, e, tx_w, tx_r} \subseteq 0..(UINT - 1)
        /\ {left, target} \subseteq [Reader -> 0..MaxN]
        /\ echo \in 0..(3 * INPUT_BUF_SIZE)
    BY <1>1, OutputSizes DEF Init, Uint
  <2>3. /\ tx \in [0..(UART_TX_BUF_SIZE - 1) -> Byte] /\ {hand, sent} \subseteq Byte \cup {none}
        /\ fifo \in Seq([ch : Byte \cup {none}, user : BOOLEAN])
    BY <1>3 DEF Init
  <2>4. /\ rpc \in [Reader -> {"user", "read", "sleep", "more"}] /\ killed \in [Reader -> BOOLEAN]
        /\ txlock \in Writer \cup {none, intr}
        /\ wpc \in [Writer -> {"user", "put", "sleep", "start"}]
        /\ rhr \in Key \cup {none} /\ irq \in BOOLEAN /\ idle \in BOOLEAN
        /\ isr \in {"off", "get", "start"}
    BY Zenon DEF Init
  <2> QED
    BY <2>1, <2>2, <2>3, <2>4, Zenon DEF TypeOK
<1>5. Held
  BY <1>1, <1>2, <1>4, InputSizes DEF Init, Held, InOrder
<1>6. Called
  BY Zenon DEF Init, Called
<1> QED
  BY <1>2, <1>5, <1>6, Zenon DEF ConsoleInv, Init, Editor!Init

\* A step that does not touch the input ring is not seen by the editor.
LEMMA Unseen ==
    ASSUME UNCHANGED cons
    PROVE  EditorStep /\ (InOrder(r, w, e) => InOrder(r, w, e)')
  BY Zenon DEF cons, EditorStep, Editor!vars, Slice, InOrder

\* consoleread() begins, waits or is killed.
LEMMA ReaderSteps ==
    ASSUME ConsoleInv, UNCHANGED session, NEW p \in Reader,
           read_wait(p) \/ kill(p) \/ \E n \in 1..MaxN : read(p, n)
    PROVE  ConsoleInv' /\ EditorStep
<1>1. /\ UNCHANGED cons
      /\ UNCHANGED <<tx, tx_w, tx_r, txlock, hand, wpc, fifo, sent, rhr, irq, isr, echo, idle>>
  BY Zenon DEF read_wait, kill, read, uart, device, handler
<1>2. /\ rpc' \in [Reader -> {"user", "read", "sleep", "more"}]
      /\ {left', target'} \subseteq [Reader -> 0..MaxN]
      /\ killed' \in [Reader -> BOOLEAN]
  <2>1. /\ rpc \in [Reader -> {"user", "read", "sleep", "more"}]
        /\ left \in [Reader -> 0..MaxN] /\ target \in [Reader -> 0..MaxN]
        /\ killed \in [Reader -> BOOLEAN] /\ MaxN \in Nat
    BY OutputSizes, Zenon DEF ConsoleInv, Held, TypeOK
  <2>2. CASE read_wait(p)
    <3>1. CASE killed[p]
      <4>1. return(p)
        BY <2>2, <3>1, Zenon DEF read_wait
      <4> QED
        BY <2>1, <4>1 DEF return
    <3>2. CASE ~killed[p]
      <4>1. rpc' = [rpc EXCEPT ![p] = "sleep"] /\ UNCHANGED <<left, target, killed>>
        BY <2>2, <3>2, Zenon DEF read_wait
      <4> QED
        BY <2>1, <4>1, Zenon
    <3> QED
      BY <3>1, <3>2, Zenon
  <2>3. CASE kill(p)
    BY <2>1, <2>3, Zenon DEF kill
  <2>4. ASSUME NEW n \in 1..MaxN, read(p, n)
        PROVE  /\ rpc' \in [Reader -> {"user", "read", "sleep", "more"}]
               /\ {left', target'} \subseteq [Reader -> 0..MaxN]
               /\ killed' \in [Reader -> BOOLEAN]
    BY <2>1, <2>4 DEF read
  <2> QED
    BY <2>2, <2>3, <2>4, Zenon
<1>3. TypeOK'
  BY <1>1, <1>2, Zenon DEF ConsoleInv, Held, TypeOK, cons
<1>4. Held'
  BY <1>1, <1>3, Unseen, Zenon DEF ConsoleInv, Held
<1>5. \A q \in Reader : rpc'[q] = "sleep" => r' = w'
  BY <1>1, Zenon DEF ConsoleInv, Held, Called, TypeOK, read_wait, return, kill, read, cons
<1>6. Called'
  BY <1>1, <1>5, Zenon DEF ConsoleInv, Called, tx_full, plus
<1> QED
  BY <1>1, <1>4, <1>6, Unseen, Zenon DEF ConsoleInv

\* consoleread() takes a character, or leaves a ^D for the next call.
LEMMA TakeStep ==
    ASSUME ConsoleInv, UNCHANGED session, NEW p \in Reader, read_char(p)
    PROVE  ConsoleInv' /\ EditorStep
<1>1. /\ UNCHANGED <<buf, w, e>> /\ r # w
      /\ UNCHANGED <<tx, tx_w, tx_r, txlock, hand, wpc, fifo, sent, rhr, irq, isr, echo, idle>>
  BY Zenon DEF read_char, uart, device, handler
<1>2. /\ rpc' \in [Reader -> {"user", "read", "sleep", "more"}]
      /\ {left', target'} \subseteq [Reader -> 0..MaxN]
      /\ killed' \in [Reader -> BOOLEAN]
  <2>0. /\ rpc \in [Reader -> {"user", "read", "sleep", "more"}]
        /\ left \in [Reader -> 0..MaxN] /\ target \in [Reader -> 0..MaxN]
        /\ killed \in [Reader -> BOOLEAN] /\ MaxN \in Nat
    BY OutputSizes, Zenon DEF ConsoleInv, Held, TypeOK
  <2>1. CASE return(p)
    BY <2>0, <2>1 DEF return
  <2>2. CASE /\ left[p] - 1 > 0
             /\ rpc' = [rpc EXCEPT ![p] = "more"]
             /\ left' = [left EXCEPT ![p] = left[p] - 1]
             /\ UNCHANGED <<target, killed>>
    <3>1. left[p] - 1 \in 0..MaxN
      BY <2>0, <2>2
    <3> QED
      BY <2>0, <2>2, <3>1, Zenon
  <2> QED
    BY <2>1, <2>2, Zenon DEF read_char
<1>3. buf \in Buffer /\ InOrder(r, w, e)
  BY OutputSizes, Zenon DEF ConsoleInv, Held, TypeOK, Buffer
<1>4. InOrder(r', w', e') /\ EditorStep
  <2>1. CASE r' = r
    BY <1>1, <1>3, <2>1, Unseen, Zenon DEF cons, InOrder
  <2>2. CASE r' = plus(r, 1)
    <3>1. /\ InOrder(plus(r, 1), w, e) /\ Text(buf, r, w) # <<>>
          /\ Text(buf, plus(r, 1), w) = Tail(Text(buf, r, w))
      BY <1>1, <1>3, TextDeliver, Zenon
    <3>2. Editor!Deliver
      BY <1>1, <2>2, <3>1, Zenon DEF Editor!Deliver, Slice, Text
    <3> QED
      BY <1>1, <2>2, <3>1, <3>2, Zenon DEF EditorStep, Editor!Next
  <2> QED
    BY <2>1, <2>2, Zenon DEF read_char
<1>5. TypeOK'
  BY <1>1, <1>2, <1>4, Zenon DEF ConsoleInv, Held, TypeOK, InOrder, Uint
<1>6. Held'
  BY <1>1, <1>4, <1>5, Zenon DEF ConsoleInv, Held, InOrder
<1>7. \A q \in Reader : rpc'[q] # "sleep"
  BY <1>1, Zenon DEF ConsoleInv, Held, Called, TypeOK, read_char, return
<1>8. Called'
  BY <1>1, <1>7, Zenon DEF ConsoleInv, Called, tx_full, plus
<1> QED
  BY <1>4, <1>6, <1>8, Zenon DEF ConsoleInv

\* consoleintr() inserts a character in the line, which may end it.
LEMMA InsertStep ==
    ASSUME buf \in Buffer, InOrder(r, w, e), r' = r,
           rhr \in Key, rhr \notin {"U", "H", "del", "P"}, insert(rhr)
    PROVE  InOrder(r, w, e)' /\ buf' \in Buffer /\ EditorStep
<1> DEFINE c == IF rhr = "cr" THEN "nl" ELSE rhr
<1>1. CASE ~(rhr # "nul" /\ room)
  <2>1. UNCHANGED cons
    BY <1>1, Zenon DEF insert, cons
  <2> QED
    BY <2>1, Unseen, Zenon DEF cons
<1>2. CASE rhr # "nul" /\ room
  <2>1. /\ buf' = [buf EXCEPT ![e % INPUT_BUF_SIZE] = c] /\ e' = plus(e, 1)
        /\ IF c \in {"nl", "D"} \/ minus(e', r) = INPUT_BUF_SIZE THEN w' = e' ELSE w' = w
    BY <1>2, Zenon DEF insert
  <2>2. c \in Line /\ c \in Line
    BY <1>2, OutputSizes, Zenon DEF Key, Line
  <2>3. minus(e, r) < INPUT_BUF_SIZE
    BY <1>2, Zenon DEF room
  <2> HIDE DEF c
  <2>4. /\ buf' \in Buffer /\ InOrder(r, w, e') /\ minus(e', r) = minus(e, r) + 1
        /\ Text(buf', r, w) = Text(buf, r, w)
        /\ Text(buf', w, e') = Append(Text(buf, w, e), c)
        /\ Text(buf', r, e') = Text(buf, r, w) \o Append(Text(buf, w, e), c)
    <3>1. buf' \in Buffer /\ Puts(buf, e % INPUT_BUF_SIZE, c, buf')
      <4>1. e % INPUT_BUF_SIZE \in 0..(INPUT_BUF_SIZE - 1)
        BY InputSizes DEF InOrder, Uint
      <4> QED
        BY <2>1, <2>2, <4>1, Zenon DEF Buffer, Puts
    <3>2. Inserted(buf, r, w, e, c, buf')
      BY <2>3, <3>1, TextInsert, Zenon
    <3> QED
      BY <2>1, <3>1, <3>2, Zenon DEF Inserted
  <2>5. /\ Text(buf, w, e) \in Seq(Line)
        /\ Len(Text(buf, r, w)) = minus(w, r)
        /\ Len(Text(buf, w, e)) = minus(e, r) - minus(w, r)
        /\ minus(w, r) \in Nat /\ minus(e, r) \in Nat
    BY TextLen, Apart
  <2>6. /\ Len(Text(buf, r, w)) + Len(Text(buf, w, e)) < INPUT_BUF_SIZE
        /\ Len(Text(buf, r, w)) + Len(Append(Text(buf, w, e), c)) = minus(e', r)
    <3>1. Len(Append(Text(buf, w, e), c)) = Len(Text(buf, w, e)) + 1
      BY <2>2, <2>5, AppendProperties, Zenon
    <3>2. INPUT_BUF_SIZE \in Nat
      BY InputSizes, Zenon
    <3> DEFINE i == Len(Text(buf, r, w))  j == Len(Text(buf, w, e))  l == minus(e', r)
               k == Len(Append(Text(buf, w, e), c))  m == minus(w, r)  n == minus(e, r)
    <3>3. /\ i = m /\ j = n - m /\ k = j + 1 /\ l = n + 1
          /\ m \in Nat /\ n \in Nat /\ n < INPUT_BUF_SIZE
      BY <2>3, <2>4, <2>5, <3>1, Zenon
    <3> HIDE DEF i, j, k, l, m, n
    <3>4. i + j < INPUT_BUF_SIZE /\ i + k = l
      BY <3>2, <3>3
    <3> QED
      BY <3>4, Zenon DEF i, j, k, l
  <2>7. CASE c \in {"nl", "D"} \/ minus(e', r) = INPUT_BUF_SIZE
    <3>1. w' = e'
      BY <2>1, <2>7, Zenon
    <3>2. e' \in Uint /\ minus(e', e') = 0 /\ Text(buf', e', e') = <<>>
      BY <2>4, TextEmpty, Zenon DEF InOrder
    <3>3. InOrder(r', w', e')
      <4>1. minus(e', r) \in Nat
        BY <2>4, <2>5
      <4> QED
        BY <2>4, <3>1, <4>1 DEF InOrder
    <3>4. Editor!Insert(c)
      BY <2>4, <2>6, <2>7, <3>1, <3>2, Zenon DEF Editor!Insert, Slice, Text
    <3> QED
      BY <2>2, <2>4, <3>3, <3>4, Zenon DEF EditorStep, Editor!Next, InOrder
  <2>8. CASE ~(c \in {"nl", "D"} \/ minus(e', r) = INPUT_BUF_SIZE)
    <3>1. w' = w
      BY <2>1, <2>8, Zenon
    <3>2. Editor!Insert(c)
      BY <2>4, <2>6, <2>8, <3>1, Zenon DEF Editor!Insert, Slice, Text
    <3> QED
      BY <2>2, <2>4, <3>1, <3>2, Zenon DEF EditorStep, Editor!Next, InOrder
  <2> QED
    BY <2>7, <2>8, Zenon
<1> QED
  BY <1>1, <1>2, Zenon

\* ^U takes back the line, and backspace its last character.
LEMMA EraseSteps ==
    ASSUME buf \in Buffer, InOrder(r, w, e), r' = r, kill_line \/ backspace
    PROVE  InOrder(r, w, e)' /\ buf' = buf /\ EditorStep
<1>1. UNCHANGED <<buf, w, r>>
  BY Zenon DEF kill_line, backspace
<1>2. CASE kill_line
  <2>1. e' = w
    BY <1>2, Zenon DEF kill_line
  <2>2. Text(buf, w, w) = <<>> /\ minus(w, r) <= INPUT_BUF_SIZE /\ minus(w, r) <= minus(w, r)
    <3>1. minus(w, r) \in Nat /\ minus(e, r) \in Nat /\ INPUT_BUF_SIZE \in Nat
      BY Apart, InputSizes, Zenon
    <3> QED
      BY <3>1, TextEmpty DEF InOrder
  <2>3. InOrder(r', w', e')
    BY <1>1, <2>1, <2>2, Zenon DEF InOrder
  <2>4. Editor!Kill
    BY <1>1, <2>1, <2>2, Zenon DEF Editor!Kill, Slice, Text
  <2> QED
    BY <1>1, <2>3, <2>4, Zenon DEF EditorStep, Editor!Next, InOrder
<1>3. CASE backspace
  <2>1. CASE e = w
    <3>1. UNCHANGED cons
      BY <1>1, <1>3, <2>1, Zenon DEF backspace, cons
    <3> QED
      BY <1>1, <3>1, Unseen, Zenon
  <2>2. CASE e # w
    <3>1. e' = minus(e, 1)
      BY <1>3, <2>2, Zenon DEF backspace
    <3>2. /\ InOrder(r, w, minus(e, 1)) /\ Text(buf, w, e) # <<>>
          /\ Text(buf, w, minus(e, 1)) = SubSeq(Text(buf, w, e), 1, Len(Text(buf, w, e)) - 1)
      BY <2>2, TextErase, Zenon
    <3>3. Editor!Erase
      BY <1>1, <3>1, <3>2, Zenon DEF Editor!Erase, Slice, Text
    <3> QED
      BY <1>1, <3>1, <3>2, <3>3, Zenon DEF EditorStep, Editor!Next, InOrder
  <2> QED
    BY <2>1, <2>2, Zenon
<1> QED
  BY <1>2, <1>3, Zenon

\* consoleintr() with any key.
LEMMA KeyStep ==
    ASSUME ConsoleInv, UNCHANGED session, consoleintr
    PROVE  ConsoleInv' /\ EditorStep
<1>1. /\ UNCHANGED <<r, left, target, killed, tx, tx_w, tx_r, txlock, hand, wpc, fifo, sent>>
      /\ UNCHANGED <<irq, isr, idle>> /\ rhr' = none /\ rhr # none /\ echo = 0
  BY Zenon DEF consoleintr, uart
<1>2. buf \in Buffer /\ InOrder(r, w, e) /\ rhr \in Key
  BY <1>1, OutputSizes, Zenon DEF ConsoleInv, Held, TypeOK, Buffer
<1>3. \/ kill_line \/ backspace
      \/ UNCHANGED <<buf, w, e, echo, rpc>>
      \/ rhr \notin {"U", "H", "del", "P"} /\ insert(rhr)
  BY Zenon DEF consoleintr
<1>4. InOrder(r, w, e)' /\ buf' \in Buffer /\ EditorStep
  <2>1. CASE kill_line \/ backspace
    BY <1>1, <1>2, <2>1, EraseSteps, Zenon
  <2>2. CASE UNCHANGED <<buf, w, e, echo, rpc>>
    <3>1. UNCHANGED cons
      BY <1>1, <2>2, Zenon DEF cons
    <3> QED
      BY <1>2, <2>2, <3>1, Unseen, Zenon
  <2>3. CASE rhr \notin {"U", "H", "del", "P"} /\ insert(rhr)
    BY <1>1, <1>2, <2>3, InsertStep, Zenon
  <2> QED
    BY <1>3, <2>1, <2>2, <2>3, Zenon
<1>5. echo' \in 0..(3 * INPUT_BUF_SIZE)
  <2>1. /\ minus(e, w) \in Nat /\ minus(e, w) <= INPUT_BUF_SIZE
        /\ INPUT_BUF_SIZE \in Nat \ {0}
    <3>1. /\ minus(w, r) \in Nat /\ minus(e, r) \in Nat
          /\ minus(e, w) = minus(e, r) - minus(w, r)
      BY <1>2, Apart, Zenon
    <3>2. minus(w, r) <= minus(e, r) /\ minus(e, r) <= INPUT_BUF_SIZE
      BY <1>2, Zenon DEF InOrder
    <3> QED
      BY <3>1, <3>2, InputSizes
  <2>2. echo' \in {echo, 3 * minus(e, w), 0, 1, 3}
    BY <1>3, Zenon DEF kill_line, backspace, insert
  <2> QED
    BY <1>1, <2>1, <2>2
<1>6. rpc' = rpc \/ rpc' = [p \in Reader |-> IF rpc[p] = "sleep" THEN "read" ELSE rpc[p]]
  BY <1>3, Zenon DEF kill_line, backspace, insert, wakeup_readers
<1>7. rpc' \in [Reader -> {"user", "read", "sleep", "more"}]
  BY <1>6, Zenon DEF ConsoleInv, Held, TypeOK
<1>8. TypeOK'
  BY <1>1, <1>4, <1>5, <1>7, OutputSizes, Zenon
     DEF ConsoleInv, Held, TypeOK, InOrder, Uint, Buffer
<1>9. Held'
  BY <1>1, <1>4, <1>8 DEF ConsoleInv, Held, InOrder
<1>10. w' = w \/ \A p \in Reader : rpc'[p] # "sleep"
  BY <1>3, Zenon DEF kill_line, backspace, insert, wakeup_readers
<1>11. \A p \in Reader : rpc'[p] = "sleep" => r' = w'
  BY <1>1, <1>6, <1>10, Zenon DEF ConsoleInv, Called
<1>12. Called'
  BY <1>1, <1>11, Zenon DEF ConsoleInv, Called, tx_full, plus
<1> QED
  BY <1>4, <1>9, <1>12, Zenon DEF ConsoleInv

\* What is written to THR is behind what was there, if there was room.
LEMMA Queued ==
    ASSUME NEW b \in [ch : Byte \cup {none}, user : BOOLEAN],
           fifo \in Seq([ch : Byte \cup {none}, user : BOOLEAN]), THR(b)
    PROVE  /\ fifo' \in Seq([ch : Byte \cup {none}, user : BOOLEAN])
           /\ fifo # <<>> => fifo' # <<>>
<1> DEFINE S == [ch : Byte \cup {none}, user : BOOLEAN]
<1> HIDE DEF S
<1>1. b \in S /\ fifo \in Seq(S)
  BY Zenon DEF S
<1>2. Append(fifo, b) \in Seq(S) /\ Append(fifo, b) # <<>>
  BY <1>1, AppendProperties
<1> QED
  BY <1>1, <1>2, Zenon DEF THR, S

\* The interrupt handler apart from its keys, and the device.
LEMMA DeviceSteps ==
    ASSUME ConsoleInv, UNCHANGED session,
           \/ uartintr \/ echo_wait \/ echo_put \/ intr_start
           \/ transmit \/ \E c \in session.key : type(c)
    PROVE  ConsoleInv' /\ EditorStep
<1> DEFINE Sent == [ch : Byte \cup {none}, user : BOOLEAN]
<1>1. UNCHANGED cons /\ UNCHANGED readers /\ UNCHANGED <<tx, tx_w, tx_r, hand, wpc>>
  BY Zenon DEF uartintr, echo_wait, echo_put, intr_start, transmit, type, uart
<1>2. /\ fifo \in Seq(Sent) /\ irq \in BOOLEAN /\ idle \in BOOLEAN /\ rhr \in Key \cup {none}
      /\ isr \in {"off", "get", "start"} /\ echo \in 0..(3 * INPUT_BUF_SIZE)
      /\ sent \in Byte \cup {none} /\ txlock \in Writer \cup {none, intr}
      /\ idle => echo > 0
      /\ txlock = none /\ tx_w # tx_r => fifo # <<>> \/ irq \/ isr = "get"
  BY Zenon DEF ConsoleInv, Held, Called, TypeOK
<1> HIDE DEF Sent
<1>3. /\ fifo' \in Seq(Sent) /\ irq' \in BOOLEAN /\ idle' \in BOOLEAN
      /\ rhr' \in Key \cup {none}
      /\ isr' \in {"off", "get", "start"} /\ echo' \in 0..(3 * INPUT_BUF_SIZE)
      /\ sent' \in Byte \cup {none} /\ txlock' \in Writer \cup {none, intr}
      /\ idle' => echo' > 0
      /\ txlock' = none /\ tx_w' # tx_r' => fifo' # <<>> \/ irq' \/ isr' = "get"
  <2>1. CASE uartintr
    BY <1>1, <1>2, <2>1, Zenon DEF uartintr, uart
  <2>2. CASE echo_wait
    BY <1>1, <1>2, <2>2, Zenon DEF echo_wait, uart, device
  <2>3. CASE echo_put
    <3>1. /\ UNCHANGED <<txlock, sent, rhr, irq, isr>>
          /\ idle /\ idle' = FALSE /\ echo' = echo - 1
      BY <2>3, Zenon DEF echo_put, uart
    <3>2. [ch |-> none, user |-> FALSE] \in Sent
      BY Zenon DEF Sent
    <3>3. fifo' \in Seq(Sent) /\ (fifo # <<>> => fifo' # <<>>)
      BY <1>2, <2>3, <3>2, Queued, Zenon DEF echo_put, Sent
    <3>4. echo' \in 0..(3 * INPUT_BUF_SIZE)
      BY <1>2, <3>1, InputSizes
    <3> QED
      BY <1>1, <1>2, <3>1, <3>3, <3>4, Zenon
  <2>4. CASE intr_start
    BY <1>1, <1>2, <2>4, Zenon DEF intr_start, device, none, intr
  <2>5. CASE transmit
    <3>1. UNCHANGED <<txlock, rhr, isr, echo, idle>>
      BY <2>5, Zenon DEF transmit, uart, handler
    <3>2. Head(fifo) \in Sent /\ fifo' \in Seq(Sent)
      BY <1>2, <2>5, HeadTailProperties, Zenon DEF transmit
    <3>3. sent' \in Byte \cup {none}
      BY <1>2, <2>5, <3>2, Zenon DEF transmit, Sent
    <3>4. irq' = (irq \/ fifo' = <<>>)
      BY <2>5, Zenon DEF transmit
    <3> QED
      BY <1>1, <1>2, <3>1, <3>2, <3>3, <3>4, Zenon
  <2>6. ASSUME NEW c \in session.key, type(c)
        PROVE  /\ UNCHANGED <<fifo, sent, txlock, isr, echo, idle>>
               /\ irq' = TRUE /\ rhr' \in Key
    <3>1. session \in Sessions
      BY Zenon DEF ConsoleInv, Held
    <3> QED
      BY <2>6, <3>1, Users, Zenon DEF type, uart, handler
  <2> QED
    BY <1>1, <1>2, <2>1, <2>2, <2>3, <2>4, <2>5, <2>6, Zenon
<1>4. TypeOK'
  BY <1>1, <1>3, Zenon DEF ConsoleInv, Held, TypeOK, cons, readers, Sent
<1>5. Held'
  BY <1>1, <1>3, <1>4, Unseen, Zenon DEF ConsoleInv, Held
<1>6. Called'
  BY <1>1, <1>3, Zenon DEF ConsoleInv, Called, tx_full, plus, cons, readers
<1> QED
  BY <1>1, <1>5, <1>6, Unseen, Zenon DEF ConsoleInv

\* consolewrite(), uartputc() and uartstart().
LEMMA WriterSteps ==
    ASSUME ConsoleInv, UNCHANGED session,
           \/ \E p \in Writer : \/ write(p) \/ write_done(p)
                                \/ \E c \in Byte : uartputc(p, c)
           \/ uartstart_take \/ uartstart_put \/ uartstart_return
    PROVE  ConsoleInv' /\ EditorStep
<1> DEFINE Sent == [ch : Byte \cup {none}, user : BOOLEAN]
           Ready == /\ tx_w \in Uint /\ tx_r \in Uint
                    /\ tx \in [0..(UART_TX_BUF_SIZE - 1) -> Byte]
                    /\ txlock \in Writer \cup {none, intr}
                    /\ hand \in Byte \cup {none} /\ fifo \in Seq(Sent)
                    /\ wpc \in [Writer -> {"user", "put", "sleep", "start"}]
                    /\ isr \in {"off", "get", "start"}
                    /\ \A p \in Writer : wpc[p] = "sleep" => tx_full
                    /\ txlock = none /\ tx_w # tx_r => fifo # <<>> \/ irq \/ isr = "get"
<1>1. UNCHANGED cons /\ UNCHANGED readers /\ UNCHANGED <<sent, rhr, irq, echo, idle>>
  BY Zenon DEF write, write_done, uartputc, uartstart_take, uartstart_put,
         uartstart_return, device, handler
<1>2. Ready
  BY Zenon DEF ConsoleInv, Held, Called, TypeOK, Uint
<1> HIDE DEF Sent
<1>3. Ready'
  <2>1. ASSUME NEW p \in Writer, write(p) \/ write_done(p) PROVE Ready'
    <3>1. UNCHANGED <<tx, tx_w, tx_r, txlock, hand, fifo, isr>>
      BY <2>1, Zenon DEF write, write_done, device, handler
    <3>2. /\ wpc' \in [Writer -> {"user", "put", "sleep", "start"}]
          /\ \A q \in Writer : wpc'[q] = "sleep" => wpc[q] = "sleep"
      BY <1>2, <2>1, Zenon DEF write, write_done
    <3> QED
      BY <1>1, <1>2, <3>1, <3>2, Zenon DEF tx_full, plus
  <2>2. ASSUME NEW p \in Writer, NEW c \in Byte, uartputc(p, c) PROVE Ready'
    <3>1. UNCHANGED <<tx_r, hand, fifo, isr>> /\ txlock = none
      BY <2>2, Zenon DEF uartputc, device, handler
    <3>2. CASE tx_full
      <4>1. /\ wpc' = [wpc EXCEPT ![p] = "sleep"] /\ UNCHANGED <<tx, tx_w, txlock>>
        BY <2>2, <3>2, Zenon DEF uartputc
      <4>2. tx_full'
        BY <3>1, <3>2, <4>1, Zenon DEF tx_full, plus
      <4> QED
        BY <1>1, <1>2, <3>1, <4>1, <4>2, Zenon
    <3>3. CASE ~tx_full
      <4>1. /\ wpc' = [wpc EXCEPT ![p] = "start"] /\ tx_w' = plus(tx_w, 1) /\ txlock' = p
            /\ tx' = [tx EXCEPT ![tx_w % UART_TX_BUF_SIZE] = c]
        BY <2>2, <3>3, Zenon DEF uartputc
      <4>2. tx_w' \in Uint
        BY <1>2, <4>1, Counts, Zenon
      <4>3. tx' \in [0..(UART_TX_BUF_SIZE - 1) -> Byte]
        BY <1>2, <4>1, Zenon
      <4>4. \A q \in Writer : wpc'[q] # "sleep"
        BY <1>2, <3>3, <4>1, Zenon
      <4>5. wpc' \in [Writer -> {"user", "put", "sleep", "start"}]
        BY <1>2, <4>1, Zenon
      <4>6. txlock' # none
        BY <4>1, ConsoleAssumption, Zenon
      <4> QED
        BY <1>2, <3>1, <4>1, <4>2, <4>3, <4>4, <4>5, <4>6, Zenon
    <3> QED
      BY <3>2, <3>3, Zenon
  <2>3. CASE uartstart_take
    <3>1. /\ UNCHANGED <<tx, tx_w, txlock, fifo, isr>> /\ txlock # none
          /\ hand' = tx[tx_r % UART_TX_BUF_SIZE] /\ tx_r' = plus(tx_r, 1)
          /\ wpc' = [p \in Writer |-> IF wpc[p] = "sleep" THEN "put" ELSE wpc[p]]
      BY <2>3, Zenon DEF uartstart_take, wakeup_writers, device, handler
    <3>2. tx_r' \in Uint
      BY <1>2, <3>1, Counts, Zenon
    <3>3. hand' \in Byte
      <4>1. tx_r % UART_TX_BUF_SIZE \in 0..(UART_TX_BUF_SIZE - 1)
        BY <1>2, OutputSizes DEF Uint
      <4> QED
        BY <1>2, <3>1, <4>1, Zenon
    <3>4. /\ wpc' \in [Writer -> {"user", "put", "sleep", "start"}]
          /\ \A q \in Writer : wpc'[q] # "sleep"
      BY <1>2, <3>1, Zenon
    <3> QED
      BY <1>2, <3>1, <3>2, <3>3, <3>4, Zenon
  <2>4. CASE uartstart_put
    <3>1. UNCHANGED <<tx, tx_w, tx_r, txlock, wpc, isr>> /\ hand' = none /\ hand # none
      BY <2>4, Zenon DEF uartstart_put, handler
    <3>2. [ch |-> hand, user |-> TRUE] \in Sent
      BY <1>2, Zenon DEF Sent
    <3>3. fifo' \in Seq(Sent) /\ (fifo # <<>> => fifo' # <<>>)
      BY <1>2, <2>4, <3>2, Queued, Zenon DEF uartstart_put, Sent
    <3> QED
      BY <1>1, <1>2, <3>1, <3>3, Zenon DEF tx_full, plus
  <2>5. CASE uartstart_return
    <3>1. /\ UNCHANGED <<tx, tx_w, tx_r, hand, fifo>> /\ txlock' = none
          /\ tx_w = tx_r \/ fifo # <<>>
          /\ wpc' = [p \in Writer |-> IF p = txlock THEN "put" ELSE wpc[p]]
          /\ isr' = IF txlock = intr THEN "off" ELSE isr
      BY <2>5, Zenon DEF uartstart_return, device
    <3>2. /\ wpc' \in [Writer -> {"user", "put", "sleep", "start"}]
          /\ \A q \in Writer : wpc'[q] = "sleep" => wpc[q] = "sleep"
      BY <1>2, <3>1, Zenon
    <3> QED
      BY <1>1, <1>2, <3>1, <3>2, Zenon DEF tx_full, plus
  <2> QED
    BY <2>1, <2>2, <2>3, <2>4, <2>5, Zenon
<1>4. TypeOK'
  BY <1>1, <1>3, Zenon DEF ConsoleInv, Held, TypeOK, cons, readers, Sent, Uint
<1>5. Held'
  BY <1>1, <1>4, Unseen, Zenon DEF ConsoleInv, Held
<1>6. Called'
  BY <1>1, <1>3, Zenon DEF ConsoleInv, Called, cons, readers
<1> QED
  BY <1>1, <1>5, <1>6, Unseen, Zenon DEF ConsoleInv

\* Every step keeps the invariant and is a step of the editor, or none.
LEMMA StepConsole ==
    ASSUME ConsoleInv, [Next]_<<session, vars>>
    PROVE  ConsoleInv' /\ EditorStep
<1>1. CASE UNCHANGED <<session, vars>>
  <2>1. /\ UNCHANGED cons /\ UNCHANGED readers /\ UNCHANGED uart /\ UNCHANGED device
        /\ UNCHANGED handler /\ UNCHANGED session
    BY <1>1, Zenon DEF vars
  <2>2. TypeOK'
    BY <2>1, Zenon DEF ConsoleInv, Held, TypeOK, cons, readers, uart, device, handler
  <2>3. Held'
    BY <2>1, <2>2, Unseen, Zenon DEF ConsoleInv, Held, handler
  <2>4. Called'
    BY <2>1, Zenon DEF ConsoleInv, Called, cons, readers, uart, device, handler, tx_full,
                plus
  <2> QED
    BY <2>1, <2>3, <2>4, Unseen, Zenon DEF ConsoleInv
<1>2. CASE Next
  <2>1. UNCHANGED session /\ session.reader \subseteq Reader /\ session.writer \subseteq Writer
    BY <1>2, Users, Zenon DEF Next, ConsoleInv, Held
  <2>2. ASSUME NEW p \in session.reader,
               read_wait(p) \/ read_char(p) \/ kill(p) \/ \E n \in 1..MaxN : read(p, n)
        PROVE  ConsoleInv' /\ EditorStep
    BY <2>1, <2>2, ReaderSteps, TakeStep, Zenon
  <2>3. ASSUME NEW p \in session.writer,
               write(p) \/ write_done(p) \/ \E c \in Byte : uartputc(p, c)
        PROVE  ConsoleInv' /\ EditorStep
    BY <2>1, <2>3, WriterSteps, Zenon
  <2>4. ASSUME uartstart_take \/ uartstart_put \/ uartstart_return
        PROVE  ConsoleInv' /\ EditorStep
    BY <2>1, <2>4, WriterSteps, Zenon
  <2>5. ASSUME \/ uartintr \/ echo_wait \/ echo_put \/ intr_start
               \/ transmit \/ \E c \in session.key : type(c)
        PROVE  ConsoleInv' /\ EditorStep
    BY <2>1, <2>5, DeviceSteps, Zenon
  <2>6. ASSUME consoleintr PROVE ConsoleInv' /\ EditorStep
    BY <2>1, <2>6, KeyStep, Zenon
  <2> QED
    BY <1>2, <2>2, <2>3, <2>4, <2>5, <2>6, Zenon DEF Next
<1> QED
  BY <1>1, <1>2, Zenon

\* consoleintr() and consoleread() are a line editor for any size of the buffer
\* that divides the number of values of a uint, any keys and any number of
\* readers: nothing that was delivered or may be read is taken back, also when
\* r, w and e overflow.
THEOREM ConsoleEdits == Spec => ConsoleIsEditor
<1>1. Init => ConsoleInv /\ Editor!Init
  BY InitConsole, Zenon
<1>2. ConsoleInv /\ [Next]_<<session, vars>> => ConsoleInv' /\ [Editor!Next]_Editor!vars
  BY StepConsole, Zenon DEF EditorStep
<1> QED
  BY <1>1, <1>2, PTL DEF Spec, ConsoleIsEditor, Editor!Spec

\* No wakeup of the console is lost: a reader sleeps only while no line is ready,
\* and a writer only while uartstart() is still to be called for it.
THEOREM ConsoleWakes == Spec => [](TypeOK /\ ConsoleSleepers)
<1>1. Init => ConsoleInv
  BY InitConsole, Zenon
<1>2. ConsoleInv /\ [Next]_<<session, vars>> => ConsoleInv'
  BY StepConsole, Zenon
<1>3. ConsoleInv => TypeOK /\ ConsoleSleepers
  <2> SUFFICES ASSUME ConsoleInv PROVE TypeOK /\ ConsoleSleepers
    BY Zenon
  <2>1. tx_r \in Uint
    BY Zenon DEF ConsoleInv, Held, TypeOK, Uint
  <2>2. tx_full => tx_w # tx_r
    BY <2>1, FullHolds, Zenon
  <2> QED
    BY <2>2, Zenon DEF ConsoleInv, Held, Called, ConsoleSleepers
<1> QED
  BY <1>1, <1>2, <1>3, PTL DEF Spec
=============================================================================
