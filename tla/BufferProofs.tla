---------------------------- MODULE BufferProofs ----------------------------
(***************************************************************************)
(* For every kind of bytes and every size of the vector, the reserved      *)
(* cells and readFd()'s second buffer: the indices of a Buffer keep their  *)
(* order, no copy leaves the vector, the vector stays within its bound,    *)
(* and the buffer is a queue of bytes.                                     *)
(***************************************************************************)
EXTENDS Buffer, TLAPS, SequenceTheorems

-----------------------------------------------------------------------------
(* Vectors as sequences. *)

(* A function on 1..n is a sequence. *)
LEMMA FunctionIsSeq ==
    ASSUME NEW S, NEW n \in Nat, NEW f \in [1..n -> S]
    PROVE  f \in Seq(S) /\ Len(f) = n
<1>1. f \in Seq(S)
  BY SeqDef
<1>2. Len(f) \in Nat /\ DOMAIN f = 1..Len(f)
  BY <1>1, LenProperties
<1>3. 1..n = 1..Len(f)
  BY <1>2
<1>4. QED
  BY <1>1, <1>2, <1>3

(* A sequence cut in two. *)
LEMMA CutSeq ==
    ASSUME NEW S, NEW b \in Seq(S), NEW n \in 0..Len(b)
    PROVE  /\ SubSeq(b, 1, n) \in Seq(S)
           /\ Len(SubSeq(b, 1, n)) = n
           /\ SubSeq(b, n + 1, Len(b)) \in Seq(S)
           /\ SubSeq(b, 1, n) \o SubSeq(b, n + 1, Len(b)) = b
<1>1. Len(b) \in Nat /\ \A i \in 1..Len(b) : b[i] \in S
  BY LenProperties
<1>2. SubSeq(b, 1, n) \in Seq(S) /\ Len(SubSeq(b, 1, n)) = n
  BY <1>1, SubSeqProperties
<1>3. SubSeq(b, n + 1, Len(b)) \in Seq(S)
  BY <1>1, SubSeqProperties
<1>4. SubSeq(b, 1, n) \o SubSeq(b, n + 1, Len(b)) = SubSeq(b, 1, Len(b))
  <2>1. 1 \in 1..Len(b) + 1 /\ n \in 1 - 1..Len(b) /\ Len(b) \in n..Len(b)
    BY <1>1
  <2>2. QED
    BY <2>1, ConcatAdjacentSubSeq
<1>5. QED
  BY <1>2, <1>3, <1>4, SubSeqFull

LEMMA ResizedIs ==
    ASSUME NEW d \in Seq(Byte), NEW n \in Nat, Len(d) <= n
    PROVE  /\ Resized(d, n) \in Seq(Byte)
           /\ Len(Resized(d, n)) = n
           /\ \A i \in 1..Len(d) : Resized(d, n)[i] = d[i]
<1>1. Len(d) \in Nat /\ \A i \in 1..Len(d) : d[i] \in Byte
  BY LenProperties
<1>2. Resized(d, n) \in [1..n -> Byte]
  BY <1>1, ByteAssumption DEF Resized
<1>3. \A i \in 1..Len(d) : Resized(d, n)[i] = d[i]
  BY <1>1 DEF Resized
<1>4. QED
  BY <1>2, <1>3, FunctionIsSeq

LEMMA CopiedIs ==
    ASSUME NEW d \in Seq(Byte), NEW bytes \in Seq(Byte), NEW to \in Nat
    PROVE  /\ Copied(d, bytes, to) \in Seq(Byte)
           /\ Len(Copied(d, bytes, to)) = Len(d)
           /\ \A i \in 1..Len(d) :
                 Copied(d, bytes, to)[i] =
                   IF i - to \in 1..Len(bytes) THEN bytes[i - to] ELSE d[i]
<1>1. /\ Len(d) \in Nat /\ \A i \in 1..Len(d) : d[i] \in Byte
      /\ Len(bytes) \in Nat /\ \A i \in 1..Len(bytes) : bytes[i] \in Byte
  BY LenProperties
<1>2. Copied(d, bytes, to) \in [1..Len(d) -> Byte]
  BY <1>1 DEF Copied
<1>3. QED
  BY <1>1, <1>2, FunctionIsSeq DEF Copied

-----------------------------------------------------------------------------
(* A buffer in order, and what it holds. *)

Good(b) ==
    /\ b \in BufType
    /\ Prepend <= b.readIndex
    /\ b.readIndex <= b.writeIndex
    /\ b.writeIndex <= Len(b.data)

Bounded(b) == Len(b.data) <= InitSize \/ Len(b.data) < Prepend + 2 * MaxReadable

StartsOver(b) == ReadableSize(b) = 0 => b.writeIndex = Prepend

LEMMA GoodNumbers ==
    ASSUME NEW b, Good(b)
    PROVE  /\ b.data \in Seq(Byte) /\ Len(b.data) \in Nat
           /\ b.readIndex \in Nat /\ b.writeIndex \in Nat /\ Prepend \in Nat
           /\ ReadableSize(b) \in Nat /\ WritableSize(b) \in Nat
<1>1. b.data \in Seq(Byte) /\ b.readIndex \in Nat /\ b.writeIndex \in Nat
  BY DEF Good, BufType
<1>2. Len(b.data) \in Nat
  BY <1>1, LenProperties
<1>3. QED
  BY <1>1, <1>2, SizeAssumption DEF Good, ReadableSize, WritableSize

LEMMA ContentIs ==
    ASSUME NEW b, Good(b)
    PROVE  /\ Content(b) \in Seq(Byte)
           /\ Len(Content(b)) = ReadableSize(b)
           /\ \A i \in 1..ReadableSize(b) : Content(b)[i] = b.data[b.readIndex + i]
<1> DEFINE d == b.data
           r == b.readIndex
           w == b.writeIndex
<1>1. d \in Seq(Byte) /\ Len(d) \in Nat /\ r \in Nat /\ w \in Nat /\ r <= w /\ w <= Len(d)
  BY GoodNumbers DEF Good
<1>2. Content(b) = SubSeq(d, r + 1, w) /\ ReadableSize(b) = w - r
  BY DEF Content, ReadableSize
<1> HIDE DEF d, r, w
<1>3. \A i \in r + 1..w : i \in 1..Len(d) /\ d[i] \in Byte
  BY <1>1, LenProperties
<1>4. /\ SubSeq(d, r + 1, w) \in Seq(Byte)
      /\ Len(SubSeq(d, r + 1, w)) = w - r
      /\ \A i \in 1..w - r : SubSeq(d, r + 1, w)[i] = d[r + i]
  <2>1. /\ SubSeq(d, r + 1, w) \in Seq(Byte)
        /\ Len(SubSeq(d, r + 1, w)) = IF r + 1 <= w THEN w - (r + 1) + 1 ELSE 0
        /\ \A i \in 1..w - (r + 1) + 1 : SubSeq(d, r + 1, w)[i] = d[(r + 1) + i - 1]
    BY <1>1, <1>3, SubSeqProperties
  <2>2. QED
    BY <1>1, <2>1
<1>5. QED
  BY <1>2, <1>4 DEF d, r

(* Two buffers with the same cells from the read to the write index hold the *)
(* same bytes.                                                               *)
LEMMA SameContent ==
    ASSUME NEW a, NEW b, Good(a), Good(b), ReadableSize(a) = ReadableSize(b),
           \A i \in 1..ReadableSize(b) : a.data[a.readIndex + i] = b.data[b.readIndex + i]
    PROVE  Content(a) = Content(b)
<1> DEFINE x == Content(a)
           y == Content(b)
<1>1. x \in Seq(Byte) /\ y \in Seq(Byte) /\ Len(x) = Len(y)
      /\ \A i \in 1..Len(x) : x[i] = y[i]
  BY ContentIs
<1> HIDE DEF x, y
<1>2. x = y
  BY <1>1, SeqEqual
<1>3. QED
  BY <1>2 DEF x, y

-----------------------------------------------------------------------------
(* Making room. *)

LEMMA GrownIs ==
    ASSUME NEW b, Good(b), NEW len \in Nat, WritableSize(b) < len
    PROVE  /\ Good(Grown(b, len))
           /\ Grown(b, len).ok = b.ok
           /\ Grown(b, len).readIndex = b.readIndex
           /\ Grown(b, len).writeIndex = b.writeIndex
           /\ Len(Grown(b, len).data) = b.writeIndex + len
           /\ Content(Grown(b, len)) = Content(b)
<1> DEFINE g == Grown(b, len)
           n == b.writeIndex + len
           d == Resized(b.data, n)
<1>1. b.data \in Seq(Byte) /\ Len(b.data) \in Nat /\ b.readIndex \in Nat
      /\ b.writeIndex \in Nat /\ n \in Nat /\ Len(b.data) <= n
  BY GoodNumbers DEF WritableSize
<1>2. d \in Seq(Byte) /\ Len(d) = n /\ \A i \in 1..Len(b.data) : d[i] = b.data[i]
  BY <1>1, ResizedIs
<1>3. g = [b EXCEPT !.data = d]
  BY DEF Grown
<1> HIDE DEF d, g
<1>4. /\ g \in BufType /\ g.data = d /\ g.ok = b.ok
      /\ g.readIndex = b.readIndex /\ g.writeIndex = b.writeIndex
  BY <1>2, <1>3 DEF Good, BufType
<1>5. Good(g)
  BY <1>1, <1>2, <1>4 DEF Good
<1>6. Content(g) = Content(b)
  <2>1. ReadableSize(g) = ReadableSize(b)
    BY <1>4 DEF ReadableSize
  <2>2. ASSUME NEW i \in 1..ReadableSize(b)
        PROVE  g.data[g.readIndex + i] = b.data[b.readIndex + i]
    <3>1. b.readIndex + i \in 1..Len(b.data)
      BY <1>1 DEF Good, ReadableSize
    <3>2. QED
      BY <1>2, <1>4, <3>1
  <2>3. QED
    BY <1>5, <2>1, <2>2, SameContent
<1>7. QED
  BY <1>2, <1>4, <1>5, <1>6 DEF g

(* Without the reserved cells there is room for len: then the bytes do not   *)
(* start at the front already, because behind them there is none.            *)
LEMMA MovedIs ==
    ASSUME NEW b, Good(b), b.ok, NEW len \in Nat, WritableSize(b) < len,
           ~IsTight(b, len)
    PROVE  /\ Good(MovedToFront(b))
           /\ MovedToFront(b).ok
           /\ MovedToFront(b).writeIndex = Prepend + ReadableSize(b)
           /\ ReadableSize(MovedToFront(b)) = ReadableSize(b)
           /\ Len(MovedToFront(b).data) = Len(b.data)
           /\ len <= WritableSize(MovedToFront(b))
           /\ Content(MovedToFront(b)) = Content(b)
<1> DEFINE m == MovedToFront(b)
           v == b.data
           l == Len(v)
           r == b.readIndex
           w == b.writeIndex
           n == ReadableSize(b)
           c == Content(b)
           d == Copied(v, c, Prepend)
<1>1. /\ v \in Seq(Byte) /\ l \in Nat /\ r \in Nat /\ w \in Nat /\ n \in Nat
      /\ Prepend \in Nat /\ n = w - r
  BY GoodNumbers DEF ReadableSize
<1>2. c \in Seq(Byte) /\ Len(c) = n /\ \A i \in 1..n : c[i] = v[r + i]
  BY ContentIs
<1>3. l - w < len /\ ~((l - w) + r < len + Prepend)
  BY DEF IsTight, PreSize, WritableSize
<1> HIDE DEF c, n, v, l, r, w
<1>4. Prepend < r /\ Prepend + n + len <= l
  BY <1>1, <1>3
<1>5. /\ d \in Seq(Byte) /\ Len(d) = l
      /\ \A i \in 1..l : d[i] = IF i - Prepend \in 1..n THEN c[i - Prepend] ELSE v[i]
  BY <1>1, <1>2, CopiedIs DEF l
<1>6. m = [data |-> d, readIndex |-> Prepend, writeIndex |-> Prepend + n, ok |-> TRUE]
  BY <1>4 DEF MovedToFront, n, c, v, r
<1> HIDE DEF d, m
<1>7. Good(m) /\ m.ok /\ m.writeIndex = Prepend + n /\ Len(m.data) = l
  BY <1>1, <1>4, <1>5, <1>6 DEF Good, BufType
<1>8. ReadableSize(m) = n /\ WritableSize(m) = l - (Prepend + n)
  BY <1>1, <1>5, <1>6 DEF ReadableSize, WritableSize
<1>9. Content(m) = Content(b)
  <2>1. ASSUME NEW i \in 1..n PROVE m.data[m.readIndex + i] = v[r + i]
    <3>1. Prepend + i \in 1..l /\ (Prepend + i) - Prepend = i
      BY <1>1, <1>4
    <3>2. d[Prepend + i] = c[i]
      BY <1>5, <3>1
    <3>3. QED
      BY <1>2, <1>6, <3>2
  <2>2. QED
    BY <1>7, <1>8, <2>1, SameContent DEF n, v, r
<1>10. len <= WritableSize(m)
  BY <1>1, <1>4, <1>8
<1>11. QED
  BY <1>7, <1>8, <1>9, <1>10 DEF m, n, l, v

LEMMA EnsureIs ==
    ASSUME NEW b, Good(b), b.ok, Bounded(b), StartsOver(b), NEW len \in Nat,
           ReadableSize(b) + len <= MaxReadable
    PROVE  LET e == EnsureWritableSize(b, len)
           IN /\ Good(e) /\ e.ok /\ Bounded(e) /\ StartsOver(e)
              /\ ReadableSize(e) = ReadableSize(b)
              /\ len <= WritableSize(e)
              /\ Content(e) = Content(b)
<1> DEFINE e == EnsureWritableSize(b, len)
           g == Grown(b, len)
           m == MovedToFront(b)
<1>1. /\ Len(b.data) \in Nat /\ b.readIndex \in Nat /\ b.writeIndex \in Nat
      /\ ReadableSize(b) \in Nat /\ WritableSize(b) \in Nat
      /\ Prepend \in Nat /\ MaxReadable \in Nat
      /\ ReadableSize(b) = b.writeIndex - b.readIndex
      /\ WritableSize(b) = Len(b.data) - b.writeIndex
  BY GoodNumbers, SizeAssumption DEF ReadableSize, WritableSize
<1>2. CASE len <= WritableSize(b)
  <2>1. e = b
    BY <1>1, <1>2 DEF EnsureWritableSize
  <2>2. QED
    BY <1>2, <2>1
<1>3. CASE WritableSize(b) < len /\ IsTight(b, len)
  <2>1. e = g
    BY <1>3 DEF EnsureWritableSize, MakeSpace
  <2>2. /\ Good(g) /\ g.ok = b.ok /\ g.readIndex = b.readIndex
        /\ g.writeIndex = b.writeIndex /\ Len(g.data) = b.writeIndex + len
        /\ Content(g) = Content(b)
    BY <1>3, GrownIs
  <2> HIDE DEF e, g
  <2>3. Len(g.data) < Prepend + 2 * MaxReadable
    <3> DEFINE l == Len(b.data)
               r == b.readIndex
               w == b.writeIndex
    <3>1. /\ l \in Nat /\ r \in Nat /\ w \in Nat /\ r <= w /\ w <= l
          /\ (w - r) + len <= MaxReadable
          /\ (l - w) + r < len + Prepend
      BY <1>1, <1>3 DEF IsTight, PreSize, Good
    <3> HIDE DEF l, r, w
    <3>2. w + len < Prepend + 2 * MaxReadable
      BY <1>1, <3>1
    <3>3. QED
      BY <2>2, <3>2 DEF w
  <2>4. ReadableSize(g) = ReadableSize(b) /\ WritableSize(g) = len
    BY <1>1, <2>2 DEF ReadableSize, WritableSize
  <2>5. QED
    BY <2>1, <2>2, <2>3, <2>4 DEF Bounded, StartsOver, e
<1>4. CASE WritableSize(b) < len /\ ~IsTight(b, len)
  <2>1. e = m
    BY <1>4 DEF EnsureWritableSize, MakeSpace
  <2>2. /\ Good(m) /\ m.ok /\ m.writeIndex = Prepend + ReadableSize(b)
        /\ ReadableSize(m) = ReadableSize(b) /\ Len(m.data) = Len(b.data)
        /\ len <= WritableSize(m) /\ Content(m) = Content(b)
    BY <1>4, MovedIs
  <2> HIDE DEF e, m
  <2>3. Bounded(m) /\ StartsOver(m)
    BY <1>1, <2>2 DEF Bounded, StartsOver
  <2>4. QED
    BY <2>1, <2>2, <2>3 DEF e
<1>5. QED
  BY <1>1, <1>2, <1>3, <1>4

-----------------------------------------------------------------------------
(* Putting bytes in. *)

(* The bytes are copied behind the write index, which then moves behind the  *)
(* first n of them.                                                          *)
Filled(b, bytes, n) ==
    [b EXCEPT !.data = Copied(b.data, bytes, b.writeIndex),
              !.writeIndex = b.writeIndex + n]

LEMMA FilledIs ==
    ASSUME NEW b, Good(b), NEW bytes \in Seq(Byte), NEW n \in 0..Len(bytes),
           n <= WritableSize(b)
    PROVE  /\ Good(Filled(b, bytes, n))
           /\ Filled(b, bytes, n).ok = b.ok
           /\ Filled(b, bytes, n).readIndex = b.readIndex
           /\ Filled(b, bytes, n).writeIndex = b.writeIndex + n
           /\ Len(Filled(b, bytes, n).data) = Len(b.data)
           /\ ReadableSize(Filled(b, bytes, n)) = ReadableSize(b) + n
           /\ Content(Filled(b, bytes, n)) = Content(b) \o SubSeq(bytes, 1, n)
<1> DEFINE f == Filled(b, bytes, n)
           v == b.data
           l == Len(v)
           r == b.readIndex
           w == b.writeIndex
           k == ReadableSize(b)
           d == Copied(v, bytes, w)
           c == Content(b)
           t == SubSeq(bytes, 1, n)
<1>1. /\ v \in Seq(Byte) /\ l \in Nat /\ r \in Nat /\ w \in Nat /\ k \in Nat
      /\ Prepend \in Nat /\ Prepend <= r /\ r <= w /\ k = w - r /\ w + n <= l
  BY GoodNumbers, LenProperties, SMTT(40) DEF ReadableSize, WritableSize, Good
<1>2. Len(bytes) \in Nat /\ n \in Nat /\ n <= Len(bytes)
      /\ \A i \in 1..Len(bytes) : bytes[i] \in Byte
  BY LenProperties
<1>3. c \in Seq(Byte) /\ Len(c) = k /\ \A i \in 1..k : c[i] = v[r + i]
  BY ContentIs
<1>4. /\ t \in Seq(Byte) /\ Len(t) = n /\ \A i \in 1..n : t[i] = bytes[i]
  <2>1. \A i \in 1..n : bytes[i] \in Byte
    BY <1>2
  <2>2. /\ t \in Seq(Byte)
        /\ Len(t) = IF 1 <= n THEN n - 1 + 1 ELSE 0
        /\ \A i \in 1..n - 1 + 1 : t[i] = bytes[1 + i - 1]
    BY <1>2, <2>1, SubSeqProperties
  <2> HIDE DEF t
  <2>3. QED
    BY <1>2, <2>2
<1> HIDE DEF c, t, k, v, l, r, w
<1>5. /\ d \in Seq(Byte) /\ Len(d) = l
      /\ \A i \in 1..l :
            d[i] = IF i - w \in 1..Len(bytes) THEN bytes[i - w] ELSE v[i]
  <2>1. v \in Seq(Byte) /\ bytes \in Seq(Byte) /\ w \in Nat
    BY <1>1
  <2>2. QED
    BY ONLY <2>1, CopiedIs DEF l
<1>6. f = [b EXCEPT !.data = d, !.writeIndex = w + n]
  BY DEF Filled, d, v, w
<1> HIDE DEF d, f
<1>7. /\ f \in BufType /\ f.data = d /\ f.ok = b.ok
      /\ f.readIndex = r /\ f.writeIndex = w + n
  <2>1. w + n \in Nat
    BY <1>1, <1>2
  <2>2. b \in BufType
    BY DEF Good
  <2> DEFINE a == [b EXCEPT !.data = d]
  <2>3. a \in BufType /\ a.data = d /\ a.ok = b.ok /\ a.readIndex = r
    BY <1>5, <2>2 DEF BufType, r
  <2>4. f = [a EXCEPT !.writeIndex = w + n]
    BY <1>6
  <2> HIDE DEF a
  <2>5. QED
    BY <2>1, <2>3, <2>4 DEF BufType
<1>8. Good(f) /\ ReadableSize(f) = k + n
  <2>1. r <= w + n /\ w + n <= l /\ (w + n) - r = k + n
    BY <1>1, <1>2
  <2>2. QED
    BY <1>1, <1>5, <1>7, <2>1 DEF Good, ReadableSize
<1>9. /\ Content(f) \in Seq(Byte) /\ Len(Content(f)) = k + n
      /\ \A i \in 1..k + n : Content(f)[i] = d[r + i]
  <2>1. /\ Content(f) \in Seq(Byte) /\ Len(Content(f)) = ReadableSize(f)
        /\ \A i \in 1..ReadableSize(f) : Content(f)[i] = f.data[f.readIndex + i]
    BY <1>8, ContentIs
  <2>2. QED
    BY <1>7, <1>8, <2>1
<1>10. /\ c \o t \in Seq(Byte) /\ Len(c \o t) = k + n
       /\ \A i \in 1..k + n : (c \o t)[i] = IF i <= k THEN c[i] ELSE t[i - k]
  <2>1. c \in Seq(Byte) /\ t \in Seq(Byte)
    BY <1>3, <1>4
  <2>2. /\ c \o t \in Seq(Byte) /\ Len(c \o t) = Len(c) + Len(t)
        /\ \A i \in 1..Len(c) + Len(t) :
              (c \o t)[i] = IF i <= Len(c) THEN c[i] ELSE t[i - Len(c)]
    BY ONLY <2>1, ConcatProperties
  <2>3. QED
    BY <1>3, <1>4, <2>2
<1>11. ASSUME NEW i \in 1..k + n PROVE Content(f)[i] = (c \o t)[i]
  <2>1. r + i \in 1..l
    BY <1>1, <1>2
  <2>2. CASE i <= k
    <3>1. ~((r + i) - w \in 1..Len(bytes)) /\ i \in 1..k
      BY <1>1, <1>2, <2>2
    <3>2. d[r + i] = v[r + i]
      BY <1>5, <2>1, <3>1
    <3>3. QED
      BY <1>3, <1>9, <1>10, <2>2, <3>1, <3>2
  <2>3. CASE ~(i <= k)
    <3>1. (r + i) - w = i - k /\ i - k \in 1..Len(bytes) /\ i - k \in 1..n
      BY <1>1, <1>2, <2>3
    <3>2. d[r + i] = bytes[i - k]
      BY <1>5, <2>1, <3>1
    <3>3. QED
      BY <1>4, <1>9, <1>10, <2>3, <3>1, <3>2
  <2>4. QED
    BY <2>2, <2>3
<1>12. Content(f) = c \o t
  <2> DEFINE x == Content(f)
             y == c \o t
  <2>1. x \in Seq(Byte) /\ y \in Seq(Byte) /\ Len(x) = Len(y)
        /\ \A i \in 1..Len(x) : x[i] = y[i]
    BY <1>9, <1>10, <1>11
  <2> HIDE DEF x, y
  <2>2. x = y
    BY <2>1, SeqEqual
  <2>3. QED
    BY <2>2 DEF x, y
<1>13. QED
  BY <1>5, <1>7, <1>8, <1>12 DEF f, c, t, k, l, r, v, w

LEMMA AppendedIs ==
    ASSUME NEW b, Good(b), b.ok, Bounded(b), StartsOver(b), NEW bytes \in Seq(Byte),
           ReadableSize(b) + Len(bytes) <= MaxReadable
    PROVE  LET a == Appended(b, bytes)
           IN /\ Good(a) /\ a.ok /\ Bounded(a) /\ StartsOver(a)
              /\ Content(a) = Content(b) \o bytes
<1> DEFINE a == Appended(b, bytes)
           e == EnsureWritableSize(b, Len(bytes))
           d == Copied(e.data, bytes, e.writeIndex)
           f == Filled(e, bytes, Len(bytes))
<1>1. Len(bytes) \in Nat
  BY LenProperties
<1>2. /\ Good(e) /\ e.ok /\ Bounded(e) /\ StartsOver(e)
      /\ ReadableSize(e) = ReadableSize(b) /\ Len(bytes) <= WritableSize(e)
      /\ Content(e) = Content(b)
  BY <1>1, EnsureIs
<1>3. a = HasWritten([e EXCEPT !.data = d], Len(bytes))
  BY DEF Appended
<1> HIDE DEF a, e
<1>4. SubSeq(bytes, 1, Len(bytes)) = bytes
  BY SubSeqFull
<1>5. /\ Good(f) /\ f.ok = e.ok /\ f.readIndex = e.readIndex
      /\ f.writeIndex = e.writeIndex + Len(bytes) /\ Len(f.data) = Len(e.data)
      /\ ReadableSize(f) = ReadableSize(e) + Len(bytes)
      /\ Content(f) = Content(e) \o SubSeq(bytes, 1, Len(bytes))
  <2>1. Len(bytes) \in 0..Len(bytes)
    BY <1>1
  <2>2. QED
    BY <1>2, <2>1, FilledIs
<1>6. a = f
  <2>1. e.data \in Seq(Byte) /\ e.writeIndex \in Nat /\ e \in BufType
    BY <1>2, GoodNumbers DEF Good
  <2>2. Len(d) = Len(e.data)
    BY <2>1, CopiedIs
  <2> HIDE DEF d
  <2> DEFINE x == [e EXCEPT !.data = d]
  <2>3. x.data = d /\ x.ok = e.ok /\ x.writeIndex = e.writeIndex
    BY <2>1 DEF BufType
  <2>4. Len(bytes) <= WritableSize(x)
    BY <1>2, <2>2, <2>3 DEF WritableSize
  <2>5. HasWritten(x, Len(bytes))
          = [x EXCEPT !.ok = TRUE, !.writeIndex = e.writeIndex + Len(bytes)]
    BY <1>2, <2>3, <2>4 DEF HasWritten
  <2>6. [x EXCEPT !.ok = TRUE, !.writeIndex = e.writeIndex + Len(bytes)] = f
    BY <1>2, <2>1 DEF BufType, Filled, d
  <2>7. QED
    BY <1>3, <2>5, <2>6
<1> HIDE DEF f
<1>7. Bounded(f)
  BY <1>2, <1>5 DEF Bounded
<1>8. StartsOver(f)
  <2>1. ReadableSize(e) \in Nat /\ e.writeIndex \in Nat
    BY <1>2, GoodNumbers
  <2>2. QED
    BY <1>1, <1>2, <1>5, <2>1 DEF StartsOver
<1>9. QED
  BY <1>2, <1>4, <1>5, <1>6, <1>7, <1>8 DEF a

(* What the vector does not take, extrabuf does. *)
LEMMA ReadFdIs ==
    ASSUME NEW b, Good(b), b.ok, Bounded(b), StartsOver(b), NEW bytes \in Seq(Byte),
           ReadableSize(b) + Len(bytes) <= MaxReadable
    PROVE  LET a == ReadFd(b, bytes)
           IN /\ Good(a) /\ a.ok /\ Bounded(a) /\ StartsOver(a)
              /\ Content(a) = Content(b) \o bytes
<1> DEFINE a == ReadFd(b, bytes)
           n == IF Len(bytes) <= WritableSize(b) THEN Len(bytes) ELSE WritableSize(b)
           f == Filled(b, bytes, n)
           head == SubSeq(bytes, 1, n)
           tail == SubSeq(bytes, n + 1, Len(bytes))
<1>1. /\ Len(bytes) \in Nat /\ ReadableSize(b) \in Nat /\ WritableSize(b) \in Nat
      /\ b.writeIndex \in Nat /\ Len(b.data) \in Nat
      /\ WritableSize(b) = Len(b.data) - b.writeIndex
  BY LenProperties, GoodNumbers DEF WritableSize
<1>2. n \in 0..Len(bytes) /\ n <= WritableSize(b)
  BY <1>1
<1> HIDE DEF n
<1>3. /\ Good(f) /\ f.ok = b.ok /\ f.readIndex = b.readIndex
      /\ f.writeIndex = b.writeIndex + n /\ Len(f.data) = Len(b.data)
      /\ ReadableSize(f) = ReadableSize(b) + n
      /\ Content(f) = Content(b) \o head
  BY <1>2, FilledIs
<1>4. /\ head \in Seq(Byte) /\ Len(head) = n /\ tail \in Seq(Byte)
      /\ head \o tail = bytes /\ Len(tail) = Len(bytes) - n
  <2>1. head \in Seq(Byte) /\ Len(head) = n /\ tail \in Seq(Byte) /\ head \o tail = bytes
    BY <1>2, CutSeq
  <2> HIDE DEF head, tail
  <2>2. Len(head \o tail) = Len(head) + Len(tail) /\ Len(tail) \in Nat
    BY <2>1, ConcatProperties, LenProperties
  <2>3. QED
    BY <1>1, <1>2, <2>1, <2>2
<1>5. Bounded(f)
  BY <1>3 DEF Bounded
<1>6. StartsOver(f)
  BY <1>1, <1>2, <1>3 DEF StartsOver
<1>7. CASE Len(bytes) <= WritableSize(b)
  <2>1. n = Len(bytes)
    BY <1>7 DEF n
  <2>2. a = f
    BY <1>7, <2>1 DEF ReadFd, Filled
  <2>3. head = bytes
    BY <2>1, SubSeqFull
  <2> HIDE DEF a, f, head
  <2>4. QED
    BY <1>3, <1>5, <1>6, <2>2, <2>3 DEF a
<1>8. CASE ~(Len(bytes) <= WritableSize(b))
  <2>1. n = WritableSize(b) /\ b.writeIndex + n = Len(b.data)
    BY <1>1, <1>8 DEF n
  <2>2. a = Appended(f, tail)
    BY <1>8, <2>1 DEF ReadFd, Filled
  <2> HIDE DEF a, f, head, tail
  <2>3. ReadableSize(f) + Len(tail) <= MaxReadable
    BY <1>1, <1>2, <1>3, <1>4
  <2>4. /\ Good(a) /\ a.ok /\ Bounded(a) /\ StartsOver(a)
        /\ Content(a) = Content(f) \o tail
    BY <1>3, <1>4, <1>5, <1>6, <2>2, <2>3, AppendedIs
  <2>5. (Content(b) \o head) \o tail = Content(b) \o (head \o tail)
    <3> DEFINE c == Content(b)
    <3>1. c \in Seq(Byte) /\ head \in Seq(Byte) /\ tail \in Seq(Byte)
      BY <1>4, ContentIs
    <3> HIDE DEF c
    <3>2. (c \o head) \o tail = c \o (head \o tail)
      BY ONLY <3>1, ConcatAssociative
    <3>3. QED
      BY <3>2 DEF c
  <2>6. QED
    BY <1>3, <1>4, <2>4, <2>5 DEF a
<1>9. QED
  BY <1>7, <1>8

-----------------------------------------------------------------------------
(* Taking bytes out. *)

LEMMA RetrieveIs ==
    ASSUME NEW b, Good(b), StartsOver(b), NEW len \in Nat
    PROVE  LET q == Retrieve(b, len)
           IN /\ Good(q) /\ StartsOver(q) /\ q.ok = b.ok
              /\ Len(q.data) = Len(b.data)
              /\ \E n \in 0..Len(Content(b)) :
                    /\ len <= ReadableSize(b) => n = len
                    /\ Content(q) = SubSeq(Content(b), n + 1, Len(Content(b)))
<1> DEFINE q == Retrieve(b, len)
           v == b.data
           r == b.readIndex
           w == b.writeIndex
           k == ReadableSize(b)
           c == Content(b)
<1>1. /\ v \in Seq(Byte) /\ Len(v) \in Nat /\ r \in Nat /\ w \in Nat /\ k \in Nat
      /\ Prepend \in Nat /\ Prepend <= r /\ r <= w /\ k = w - r /\ w <= Len(v)
      /\ b \in BufType
  BY GoodNumbers DEF ReadableSize, Good
<1>2. c \in Seq(Byte) /\ Len(c) = k /\ \A i \in 1..k : c[i] = v[r + i]
  BY ContentIs
<1>3. CASE len < k
  <2>1. q = [b EXCEPT !.readIndex = r + len]
    BY <1>3 DEF Retrieve
  <2> HIDE DEF q, c, k, v, r, w
  <2>2. /\ q \in BufType /\ q.data = v /\ q.readIndex = r + len
        /\ q.writeIndex = w /\ q.ok = b.ok
    <3>1. r + len \in Nat
      BY <1>1
    <3>2. QED
      BY <1>1, <2>1, <3>1 DEF BufType, v, w
  <2>3. Prepend <= r + len /\ r + len <= w /\ w - (r + len) = k - len /\ k - len # 0
    BY <1>1, <1>3
  <2>4. Good(q) /\ ReadableSize(q) = k - len
    BY <1>1, <2>2, <2>3 DEF Good, ReadableSize
  <2>5. StartsOver(q)
    BY <2>3, <2>4 DEF StartsOver
  <2>6. Content(q) = SubSeq(c, len + 1, Len(c))
    <3> DEFINE x == Content(q)
               y == SubSeq(c, len + 1, Len(c))
    <3>1. /\ x \in Seq(Byte) /\ Len(x) = k - len
          /\ \A i \in 1..k - len : x[i] = v[(r + len) + i]
      <4>1. /\ x \in Seq(Byte) /\ Len(x) = ReadableSize(q)
            /\ \A i \in 1..ReadableSize(q) : x[i] = q.data[q.readIndex + i]
        BY <2>4, ContentIs
      <4> HIDE DEF x
      <4>2. QED
        BY <2>2, <2>4, <4>1
    <3>2. /\ y \in Seq(Byte) /\ Len(y) = k - len
          /\ \A i \in 1..k - len : y[i] = c[len + i]
      <4>1. \A i \in len + 1..k : c[i] \in Byte
        BY <1>1, <1>2, LenProperties
      <4>2. /\ SubSeq(c, len + 1, k) \in Seq(Byte)
            /\ Len(SubSeq(c, len + 1, k))
                 = IF len + 1 <= k THEN k - (len + 1) + 1 ELSE 0
            /\ \A i \in 1..k - (len + 1) + 1 :
                  SubSeq(c, len + 1, k)[i] = c[(len + 1) + i - 1]
        BY <1>1, <4>1, SubSeqProperties
      <4>3. y = SubSeq(c, len + 1, k)
        BY <1>2
      <4> HIDE DEF y
      <4>4. QED
        BY <1>1, <1>3, <4>2, <4>3
    <3> HIDE DEF x, y
    <3>3. ASSUME NEW i \in 1..k - len PROVE x[i] = y[i]
      <4>1. len + i \in 1..k /\ r + (len + i) = (r + len) + i
        BY <1>1, <1>3
      <4>2. QED
        BY <1>2, <3>1, <3>2, <4>1
    <3>4. x = y
      BY <3>1, <3>2, <3>3, SeqEqual
    <3>5. QED
      BY <3>4 DEF x, y
  <2>7. len \in 0..Len(c)
    BY <1>1, <1>2, <1>3
  <2>8. QED
    BY <2>2, <2>4, <2>5, <2>6, <2>7 DEF q, c, v
<1>4. CASE ~(len < k)
  <2>1. q = RetrieveAll(b)
    BY <1>4 DEF Retrieve
  <2> HIDE DEF q, c, k, v, r, w
  <2>2. /\ q \in BufType /\ q.data = v /\ q.readIndex = Prepend
        /\ q.writeIndex = Prepend /\ q.ok = b.ok
    BY <1>1, <2>1 DEF BufType, RetrieveAll, v
  <2>3. Good(q) /\ StartsOver(q) /\ ReadableSize(q) = 0
    BY <1>1, <2>2 DEF Good, StartsOver, ReadableSize
  <2>4. Content(q) = <<>>
    <3>1. Content(q) = SubSeq(v, Prepend + 1, Prepend)
      BY <2>2 DEF Content
    <3>2. QED
      BY <1>1, <3>1, SubSeqEmpty
  <2>5. SubSeq(c, k + 1, Len(c)) = <<>>
    BY <1>1, <1>2, SubSeqEmpty
  <2>6. k \in 0..Len(c) /\ (len <= k => k = len)
    BY <1>1, <1>2, <1>4
  <2>7. QED
    BY <2>2, <2>3, <2>4, <2>5, <2>6 DEF q, c, k, v
<1>5. QED
  BY <1>3, <1>4

-----------------------------------------------------------------------------
(* The inductive invariant is the conjunction of what the runs check; the    *)
(* bound needs the order of the indices, and the order needs that makeSpace()*)
(* only moves towards the front.                                             *)

BufferInv ==
    /\ Good(buf)
    /\ buf.ok
    /\ Bounded(buf)
    /\ StartsOver(buf)
    /\ port \in Seq(Byte)

LEMMA InitInv == Init => BufferInv /\ Stream!Init
<1> SUFFICES ASSUME Init PROVE BufferInv /\ Stream!Init
  OBVIOUS
<1> DEFINE d == [i \in 1..InitSize |-> Zero]
<1>1. d \in Seq(Byte) /\ Len(d) = InitSize
  <2>1. d \in [1..InitSize -> Byte] /\ InitSize \in Nat
    BY ByteAssumption, SizeAssumption
  <2> HIDE DEF d
  <2>2. QED
    BY <2>1, FunctionIsSeq
<1>2. buf = [data |-> d, readIndex |-> Prepend, writeIndex |-> Prepend, ok |-> TRUE]
      /\ port = <<>>
  BY DEF Init, NewBuffer
<1> HIDE DEF d
<1>3. Good(buf) /\ buf.ok /\ Bounded(buf) /\ StartsOver(buf)
  BY <1>1, <1>2, SizeAssumption DEF Good, BufType, Bounded, StartsOver
<1>4. port \in Seq(Byte)
  BY <1>2, EmptySeq
<1>5. Content(buf) = <<>>
  <2>1. Content(buf) = SubSeq(d, Prepend + 1, Prepend)
    BY <1>2 DEF Content
  <2>2. QED
    BY <2>1, SizeAssumption, SubSeqEmpty
<1>6. QED
  BY <1>2, <1>3, <1>4, <1>5 DEF BufferInv, Stream!Init

LEMMA ReadFdStep ==
    ASSUME BufferInv, NEW bytes \in Chunks, ReadFdCall(bytes)
    PROVE  BufferInv' /\ Stream!Put(bytes)
<1>1. bytes \in Seq(Byte)
  BY ByteAssumption
<1>2. /\ Good(buf') /\ buf'.ok /\ Bounded(buf') /\ StartsOver(buf')
      /\ Content(buf') = Content(buf) \o bytes
  BY <1>1, ReadFdIs DEF BufferInv, ReadFdCall
<1>3. BufferInv'
  BY <1>1, <1>2 DEF BufferInv, ReadFdCall, Good, Bounded, StartsOver, ReadableSize
<1>4. Stream!Put(bytes)
  BY <1>2 DEF Stream!Put, ReadFdCall, Content
<1>5. QED
  BY <1>3, <1>4

LEMMA AppendStep ==
    ASSUME BufferInv, NEW bytes \in Chunks, AppendCall(bytes)
    PROVE  BufferInv' /\ Stream!Put(bytes)
<1>1. bytes \in Seq(Byte)
  BY ByteAssumption
<1>2. /\ Good(buf') /\ buf'.ok /\ Bounded(buf') /\ StartsOver(buf')
      /\ Content(buf') = Content(buf) \o bytes
  BY <1>1, AppendedIs DEF BufferInv, AppendCall
<1>3. BufferInv'
  BY <1>1, <1>2 DEF BufferInv, AppendCall, Good, Bounded, StartsOver, ReadableSize
<1>4. Stream!Put(bytes)
  BY <1>2 DEF Stream!Put, AppendCall, Content
<1>5. QED
  BY <1>3, <1>4

(* Room may be asked for without bytes: nobody sees the difference. *)
LEMMA EnsureStep ==
    ASSUME BufferInv, NEW len \in Nat, EnsureCall(len)
    PROVE  BufferInv' /\ UNCHANGED <<Content(buf), port>>
<1>1. /\ Good(buf') /\ buf'.ok /\ Bounded(buf') /\ StartsOver(buf')
      /\ Content(buf') = Content(buf)
  BY EnsureIs DEF BufferInv, EnsureCall
<1>2. BufferInv'
  BY <1>1 DEF BufferInv, EnsureCall, Good, Bounded, StartsOver, ReadableSize
<1>3. UNCHANGED <<Content(buf), port>>
  BY <1>1 DEF EnsureCall, Content
<1>4. QED
  BY <1>2, <1>3

(* A call that takes more than there is drops all there is. *)
LEMMA RetrieveStep ==
    ASSUME BufferInv, NEW len \in Nat, buf' = Retrieve(buf, len), port' \in Seq(Byte)
    PROVE  /\ BufferInv'
           /\ \E n \in 0..Len(Content(buf)) :
                 /\ len <= ReadableSize(buf) => n = len
                 /\ Content(buf)' = SubSeq(Content(buf), n + 1, Len(Content(buf)))
<1>1. /\ Good(buf') /\ StartsOver(buf') /\ buf'.ok = buf.ok
      /\ Len(buf'.data) = Len(buf.data)
      /\ \E n \in 0..Len(Content(buf)) :
            /\ len <= ReadableSize(buf) => n = len
            /\ Content(buf') = SubSeq(Content(buf), n + 1, Len(Content(buf)))
  BY RetrieveIs DEF BufferInv
<1>2. Bounded(buf')
  BY <1>1 DEF BufferInv, Bounded
<1>3. BufferInv'
  BY <1>1, <1>2 DEF BufferInv, Good, Bounded, StartsOver, ReadableSize
<1>4. Content(buf)' = Content(buf')
  BY DEF Content
<1>5. QED
  BY <1>1, <1>3, <1>4

LEMMA RetrieveAsStringStep ==
    ASSUME BufferInv, NEW len \in Nat, RetrieveAsString(len)
    PROVE  BufferInv' /\ len \in 0..Len(Content(buf)) /\ Stream!Take(len)
<1> DEFINE c == Content(buf)
           v == buf.data
           r == buf.readIndex
           k == ReadableSize(buf)
           x == SubSeq(v, r + 1, r + len)
           y == SubSeq(c, 1, len)
<1>1. /\ v \in Seq(Byte) /\ Len(v) \in Nat /\ r \in Nat /\ k \in Nat
      /\ r + k <= Len(v) /\ len <= k
  BY GoodNumbers DEF BufferInv, Good, ReadableSize, RetrieveAsString
<1>2. c \in Seq(Byte) /\ Len(c) = k /\ \A i \in 1..k : c[i] = v[r + i]
  BY ContentIs DEF BufferInv
<1>3. port' = x /\ buf' = Retrieve(buf, len)
  BY DEF RetrieveAsString
<1> HIDE DEF c, v, r, k
<1>4. /\ x \in Seq(Byte) /\ Len(x) = len /\ \A i \in 1..len : x[i] = v[r + i]
  <2>1. \A i \in r + 1..r + len : v[i] \in Byte
    BY <1>1, LenProperties
  <2>2. /\ x \in Seq(Byte)
        /\ Len(x) = IF r + 1 <= r + len THEN (r + len) - (r + 1) + 1 ELSE 0
        /\ \A i \in 1..(r + len) - (r + 1) + 1 : x[i] = v[(r + 1) + i - 1]
    BY <1>1, <2>1, SubSeqProperties
  <2> HIDE DEF x
  <2>3. QED
    BY <1>1, <2>2
<1>5. /\ y \in Seq(Byte) /\ Len(y) = len /\ \A i \in 1..len : y[i] = c[i]
  <2>1. \A i \in 1..len : c[i] \in Byte
    BY <1>1, <1>2, LenProperties
  <2>2. /\ y \in Seq(Byte)
        /\ Len(y) = IF 1 <= len THEN len - 1 + 1 ELSE 0
        /\ \A i \in 1..len - 1 + 1 : y[i] = c[1 + i - 1]
    BY <2>1, SubSeqProperties
  <2> HIDE DEF y
  <2>3. QED
    BY <2>2
<1> HIDE DEF x, y
<1>6. x = y
  <2>1. \A i \in 1..Len(x) : x[i] = y[i]
    <3>1. ASSUME NEW i \in 1..len PROVE x[i] = y[i]
      <4>1. x[i] = v[r + i] /\ y[i] = c[i]
        BY <1>4, <1>5, Zenon
      <4>2. i \in 1..k
        BY <1>1
      <4>3. c[i] = v[r + i]
        BY <1>2, <4>2, Zenon
      <4>4. QED
        BY <4>1, <4>3, Zenon
    <3>2. QED
      BY <1>4, <3>1, Zenon
  <2>2. QED
    BY <1>4, <1>5, <2>1, SeqEqual
<1>7. port' \in Seq(Byte)
  BY <1>3, <1>4
<1>8. BufferInv' /\ Content(buf)' = SubSeq(c, len + 1, Len(c))
  BY <1>1, <1>3, <1>7, RetrieveStep DEF c, k
<1>9. QED
  BY <1>1, <1>2, <1>3, <1>6, <1>8 DEF c, y, Stream!Take

LEMMA NextStep ==
    BufferInv /\ [Next]_bufferVars
      => BufferInv' /\ [Stream!Next]_<<Content(buf), port>>
<1> SUFFICES ASSUME BufferInv, [Next]_bufferVars
             PROVE  BufferInv' /\ [Stream!Next]_<<Content(buf), port>>
  OBVIOUS
<1>1. ASSUME NEW bytes \in Chunks, ReadFdCall(bytes) \/ AppendCall(bytes)
      PROVE  BufferInv' /\ Stream!Next
  BY <1>1, ReadFdStep, AppendStep DEF Stream!Next
<1>2. ASSUME NEW len \in 0..MaxReadable, EnsureCall(len)
      PROVE  BufferInv' /\ UNCHANGED <<Content(buf), port>>
  BY <1>2, EnsureStep, SizeAssumption
<1>3. ASSUME NEW len \in 0..MaxReadable, RetrieveCall(len)
      PROVE  BufferInv' /\ Stream!Next
  <2>1. port' = <<>> /\ port' \in Seq(Byte) /\ len \in Nat /\ buf' = Retrieve(buf, len)
    BY <1>3, SizeAssumption, EmptySeq DEF RetrieveCall
  <2>2. /\ BufferInv'
        /\ \E n \in 0..Len(Content(buf)) :
              Content(buf)' = SubSeq(Content(buf), n + 1, Len(Content(buf)))
    BY <2>1, RetrieveStep
  <2>3. Stream!Next
    BY <2>1, <2>2 DEF Stream!Next, Stream!Drop
  <2>4. QED
    BY <2>2, <2>3
<1>4. ASSUME NEW len \in 0..MaxReadable, RetrieveAsString(len)
      PROVE  BufferInv' /\ Stream!Next
  BY <1>4, RetrieveAsStringStep, SizeAssumption DEF Stream!Next
<1>5. CASE UNCHANGED bufferVars
  BY <1>5 DEF bufferVars, BufferInv, Good, Bounded, StartsOver, ReadableSize, Content
<1>6. QED
  BY <1>1, <1>2, <1>3, <1>4, <1>5 DEF Next

THEOREM InvCorrect == Spec => []BufferInv
<1>1. BufferInv /\ [Next]_bufferVars => BufferInv'
  BY NextStep
<1>2. QED
  BY InitInv, <1>1, PTL DEF Spec

(* The indices keep their order, so that no difference of sizes wraps. *)
THEOREM TypeCorrect == Spec => []TypeOK
<1>1. BufferInv => TypeOK
  BY DEF BufferInv, Good, TypeOK
<1>2. QED
  BY InvCorrect, <1>1, PTL

(* No call, after whatever calls, copies beyond the vector. *)
THEOREM FaultFree == Spec => []NoFault
<1>1. BufferInv => NoFault
  BY DEF BufferInv, NoFault
<1>2. QED
  BY InvCorrect, <1>1, PTL

(* An emptied buffer has its first room again. *)
THEOREM EmptyCorrect == Spec => []EmptyIsReset
<1>1. BufferInv => EmptyIsReset
  BY DEF BufferInv, StartsOver, EmptyIsReset
<1>2. QED
  BY InvCorrect, <1>1, PTL

(* A buffer whose callers let at most MaxReadable bytes pile up takes less   *)
(* than twice that, however much passes through it.                          *)
THEOREM SizeCorrect == Spec => []SizeBound
<1>1. BufferInv => SizeBound
  BY DEF BufferInv, Bounded, SizeBound
<1>2. QED
  BY InvCorrect, <1>1, PTL

(* The buffer implements the queue of bytes. *)
THEOREM StreamCorrect == Spec => StreamSpec
<1>1. Init => Stream!Init
  BY InitInv
<1>2. BufferInv /\ [Next]_bufferVars => [Stream!Next]_<<Content(buf), port>>
  BY NextStep
<1>3. Spec => Stream!Init /\ [][Stream!Next]_<<Content(buf), port>>
  BY InvCorrect, <1>1, <1>2, PTL DEF Spec
<1>4. QED
  BY <1>3 DEF StreamSpec, Stream!Spec, Stream!streamVars
=============================================================================
