---------------------------- MODULE BufferProofs ----------------------------
(***************************************************************************)
(* Proofs about Buffer, for every value of kCheapPrepend, kInitialSize and *)
(* the size of ReadFd's stack buffer: the indices stay in order, a Buffer  *)
(* is a queue of bytes, and it grows only when it has to.                  *)
(***************************************************************************)
EXTENDS Buffer, TLAPS

\* s followed by t.
Joined(s, t) ==
    [i \in 1..(Len(s) + Len(t)) |-> IF i <= Len(s) THEN s[i] ELSE t[i - Len(s)]]

\* A function on 1..n is a sequence of length n.
LEMMA SeqFunction ==
    ASSUME NEW n \in Nat, NEW S, NEW f \in [1..n -> S]
    PROVE  f \in Seq(S) /\ Len(f) = n
OBVIOUS

\* A sequence is the function it is.
LEMMA SeqIsFunction ==
    ASSUME NEW S, NEW s \in Seq(S)
    PROVE  /\ Len(s) \in Nat
           /\ s = [i \in 1..Len(s) |-> s[i]]
           /\ \A i \in 1..Len(s) : s[i] \in S
OBVIOUS

\* What there is to know about a Buffer's indices and sizes.
LEMMA BufferSizes ==
    ASSUME NEW x \in BufferState
    PROVE  /\ x.mem \in Seq(Nat) /\ Len(x.mem) \in Nat
           /\ kCheapPrepend \in Nat /\ x.reader \in Nat /\ x.writer \in Nat
           /\ kCheapPrepend <= x.reader /\ x.reader <= x.writer
           /\ x.writer <= Len(x.mem)
           /\ \A i \in 1..Len(x.mem) : x.mem[i] \in Nat
BY BufferAssumption DEF BufferState

\* Memory and indices in order make a Buffer.
LEMMA AtState ==
    ASSUME NEW mem \in Seq(Nat), NEW r \in Nat, NEW w \in Nat,
           kCheapPrepend <= r, r <= w, w <= Len(mem)
    PROVE  /\ At(mem, r, w) \in BufferState
           /\ At(mem, r, w).mem = mem
           /\ At(mem, r, w).reader = r
           /\ At(mem, r, w).writer = w
           /\ ReadableBytes(At(mem, r, w)) = w - r
           /\ Content(At(mem, r, w)) = [i \in 1..(w - r) |-> mem[r + i]]
BY DEF At, BufferState, Content, ReadableBytes

\* The content is a sequence of ReadableBytes bytes.
LEMMA ContentSeq ==
    ASSUME NEW x \in BufferState
    PROVE  /\ Content(x) \in Seq(Nat)
           /\ ReadableBytes(x) \in Nat
           /\ Len(Content(x)) = ReadableBytes(x)
           /\ \A i \in 1..ReadableBytes(x) : Content(x)[i] = x.mem[x.reader + i]
<1> DEFINE n == x.writer - x.reader
<1>1. /\ n \in Nat
      /\ \A i \in 1..n : x.reader + i \in 1..Len(x.mem)
  BY BufferSizes
<1>2. \A i \in 1..n : x.mem[x.reader + i] \in Nat
  BY <1>1, BufferSizes
<1>3. ReadableBytes(x) = n
  BY DEF ReadableBytes
<1>4. Content(x) = [i \in 1..n |-> x.mem[x.reader + i]]
  BY <1>3 DEF Content
<1> HIDE DEF n
<1>5. Content(x) \in [1..n -> Nat]
  BY <1>2, <1>4
<1> QED
  BY <1>1, <1>3, <1>4, <1>5, SeqFunction

\* Copying data into memory changes what lies under it only.
LEMMA CopiedSeq ==
    ASSUME NEW mem \in Seq(Nat), NEW at \in Nat, NEW data \in Seq(Nat)
    PROVE  /\ Copied(mem, at, data) \in Seq(Nat)
           /\ Len(Copied(mem, at, data)) = Len(mem)
           /\ \A i \in 1..Len(mem) : Copied(mem, at, data)[i] =
                 IF at < i /\ i <= at + Len(data) THEN data[i - at] ELSE mem[i]
<1> DEFINE n == Len(mem)  k == Len(data)
<1>1. n \in Nat /\ k \in Nat
  OBVIOUS
<1>2. ASSUME NEW i \in 1..n, at < i, i <= at + k PROVE data[i - at] \in Nat
  <2>1. i - at \in 1..k
    BY <1>1, <1>2
  <2> QED
    BY <2>1
<1>3. \A i \in 1..n : mem[i] \in Nat
  OBVIOUS
<1> HIDE DEF n, k
<1>4. Copied(mem, at, data) \in [1..n -> Nat]
  BY <1>2, <1>3 DEF Copied, n, k
<1>5. Copied(mem, at, data) \in Seq(Nat) /\ Len(Copied(mem, at, data)) = n
  BY <1>1, <1>4, SeqFunction
<1> QED
  BY <1>5 DEF n, Copied

\* Growing memory keeps what is in it.
LEMMA ResizedSeq ==
    ASSUME NEW mem \in Seq(Nat), NEW n \in Nat
    PROVE  /\ Resized(mem, n) \in Seq(Nat)
           /\ Len(Resized(mem, n)) = n
           /\ \A i \in 1..n : i <= Len(mem) => Resized(mem, n)[i] = mem[i]
<1>1. \A i \in 1..n : i <= Len(mem) => mem[i] \in Nat
  BY SeqIsFunction
<1>2. Resized(mem, n) \in [1..n -> Nat]
  BY <1>1 DEF Resized
<1> QED
  BY <1>2, SeqFunction DEF Resized

\* Two Buffers with as many readable bytes, the same ones, have the same
\* content.
LEMMA SameContent ==
    ASSUME NEW x, NEW y, ReadableBytes(y) = ReadableBytes(x),
           \A i \in 1..ReadableBytes(x) : y.mem[y.reader + i] = x.mem[x.reader + i]
    PROVE  Content(y) = Content(x)
BY DEF Content

\* Growing the vector keeps the content.
LEMMA GrowKeeps ==
    ASSUME NEW x \in BufferState, NEW n \in Nat, n >= Len(x.mem),
           NEW y, y = At(Resized(x.mem, n), x.reader, x.writer)
    PROVE  /\ y \in BufferState
           /\ Len(y.mem) = n /\ y.reader = x.reader /\ y.writer = x.writer
           /\ Content(y) = Content(x)
<1> DEFINE m == Resized(x.mem, n)
<1>1. m \in Seq(Nat) /\ Len(m) = n
  BY BufferSizes, ResizedSeq
<1>2. /\ y \in BufferState /\ y.mem = m
      /\ y.reader = x.reader /\ y.writer = x.writer
  BY <1>1, BufferSizes, AtState
<1>3. \A i \in 1..ReadableBytes(x) : m[x.reader + i] = x.mem[x.reader + i]
  <2>0. /\ x.reader \in Nat /\ x.writer \in Nat /\ Len(x.mem) \in Nat
        /\ x.reader <= x.writer /\ x.writer <= Len(x.mem)
        /\ x.mem \in Seq(Nat)
    BY BufferSizes
  <2>1. ASSUME NEW i \in 1..ReadableBytes(x)
        PROVE  x.reader + i \in 1..n /\ x.reader + i <= Len(x.mem)
    BY <2>0, SMTT(20) DEF ReadableBytes
  <2> QED
    BY <2>0, <2>1, ResizedSeq
<1> HIDE DEF m
<1>4. ReadableBytes(y) = ReadableBytes(x)
  BY <1>2 DEF ReadableBytes
<1>5. Content(y) = Content(x)
  BY <1>2, <1>3, <1>4, SameContent
<1> QED
  BY <1>1, <1>2, <1>5

\* Moving the content down to kCheapPrepend keeps it.
LEMMA CompactKeeps ==
    ASSUME NEW x \in BufferState, NEW y, y = Compact(x)
    PROVE  /\ y \in BufferState
           /\ Len(y.mem) = Len(x.mem)
           /\ y.reader = kCheapPrepend
           /\ y.writer = kCheapPrepend + (x.writer - x.reader)
           /\ Content(y) = Content(x)
<1> DEFINE r == ReadableBytes(x)
           k == kCheapPrepend
           m == Copied(x.mem, k, Content(x))
<1>1. /\ r \in Nat /\ k \in Nat /\ r = x.writer - x.reader
      /\ k + r <= Len(x.mem) /\ Len(x.mem) \in Nat
  BY BufferSizes DEF ReadableBytes
<1>2. /\ Content(x) \in Seq(Nat) /\ Len(Content(x)) = r
      /\ \A i \in 1..r : Content(x)[i] = x.mem[x.reader + i]
  BY ContentSeq
<1>3. /\ m \in Seq(Nat) /\ Len(m) = Len(x.mem)
      /\ \A i \in 1..Len(x.mem) :
            m[i] = IF k < i /\ i <= k + r THEN Content(x)[i - k] ELSE x.mem[i]
  <2>1. x.mem \in Seq(Nat)
    BY BufferSizes
  <2> HIDE DEF r, k
  <2> QED
    BY <1>1, <1>2, <2>1, CopiedSeq, ZenonT(30)
<1>4. y = At(m, k, k + r)
  BY DEF Compact
<1> HIDE DEF m, r, k
<1>5. k + r \in Nat /\ k <= k + r /\ k <= k /\ k + r <= Len(m)
  BY <1>1, <1>3
<1>6. /\ y \in BufferState /\ y.mem = m
      /\ y.reader = k /\ y.writer = k + r
  BY <1>1, <1>3, <1>4, <1>5, AtState DEF k
<1>7. ASSUME NEW i \in 1..r PROVE m[k + i] = x.mem[x.reader + i]
  <2>1. k + i \in 1..Len(x.mem) /\ k < k + i /\ k + i <= k + r /\ (k + i) - k = i
    BY <1>1
  <2>2. m[k + i] = Content(x)[i]
    BY <1>3, <2>1
  <2> QED
    BY <1>2, <2>2
<1>8. ReadableBytes(y) = r
  BY <1>1, <1>6 DEF ReadableBytes
<1>9. Content(y) = Content(x)
  BY <1>6, <1>7, <1>8, SameContent DEF r
<1> QED
  BY <1>1, <1>3, <1>6, <1>9 DEF k

\* EnsureWritableBytes makes room, keeps the content, and grows the vector
\* only if the content and the request do not fit into it.
LEMMA EnsureKeeps ==
    ASSUME NEW x \in BufferState, NEW len \in Nat,
           NEW y, y = EnsureWritableBytes(x, len)
    PROVE  /\ y \in BufferState
           /\ WritableBytes(y) >= len
           /\ ReadableBytes(y) = ReadableBytes(x)
           /\ Content(y) = Content(x)
           /\ Len(y.mem) >= Len(x.mem)
           /\ Len(y.mem) > Len(x.mem) =>
                 /\ ReadableBytes(x) + len > Len(x.mem) - kCheapPrepend
                 /\ WritableBytes(y) = len
<1>0. /\ kCheapPrepend \in Nat /\ Len(x.mem) \in Nat
      /\ x.reader \in Nat /\ x.writer \in Nat
      /\ kCheapPrepend <= x.reader /\ x.reader <= x.writer
      /\ x.writer <= Len(x.mem)
  BY BufferSizes
<1>1. CASE ~(WritableBytes(x) < len)
  <2>1. y = x
    BY <1>1 DEF EnsureWritableBytes
  <2> QED
    BY <1>0, <1>1, <2>1 DEF WritableBytes
<1>2. CASE /\ WritableBytes(x) < len
           /\ PrependableBytes(x) + WritableBytes(x) < len + kCheapPrepend
  <2>1. y = At(Resized(x.mem, x.writer + len), x.reader, x.writer)
    BY <1>2 DEF EnsureWritableBytes, MakeSpace
  <2>2. x.writer + len \in Nat /\ x.writer + len >= Len(x.mem)
    BY <1>0, <1>2 DEF WritableBytes
  <2>3. ReadableBytes(x) + len > Len(x.mem) - kCheapPrepend
    BY <1>0, <1>2 DEF PrependableBytes, WritableBytes, ReadableBytes
  <2>4. /\ y \in BufferState /\ Content(y) = Content(x)
        /\ y.reader = x.reader /\ y.writer = x.writer
        /\ Len(y.mem) = x.writer + len
    BY <2>1, <2>2, GrowKeeps
  <2>5. WritableBytes(y) = len /\ ReadableBytes(y) = ReadableBytes(x)
    BY <1>0, <2>4 DEF WritableBytes, ReadableBytes
  <2> QED
    BY <1>0, <2>2, <2>3, <2>4, <2>5
<1>3. CASE /\ WritableBytes(x) < len
           /\ ~(PrependableBytes(x) + WritableBytes(x) < len + kCheapPrepend)
  <2>1. y = Compact(x)
    BY <1>3 DEF EnsureWritableBytes, MakeSpace
  <2>2. Len(x.mem) - (kCheapPrepend + (x.writer - x.reader)) >= len
    BY <1>0, <1>3 DEF PrependableBytes, WritableBytes
  <2>3. /\ y \in BufferState /\ Content(y) = Content(x)
        /\ y.reader = kCheapPrepend
        /\ y.writer = kCheapPrepend + (x.writer - x.reader)
        /\ Len(y.mem) = Len(x.mem)
    BY <2>1, CompactKeeps
  <2>4. WritableBytes(y) >= len /\ ReadableBytes(y) = ReadableBytes(x)
    BY <1>0, <2>2, <2>3 DEF WritableBytes, ReadableBytes
  <2> QED
    BY <1>0, <2>3, <2>4
<1> QED
  BY <1>1, <1>2, <1>3

\* Storing data that fits into the writable bytes puts it after the content.
LEMMA FilledJoins ==
    ASSUME NEW x \in BufferState, NEW data \in Seq(Nat),
           Len(data) <= WritableBytes(x), NEW y, y = Filled(x, data)
    PROVE  /\ y \in BufferState
           /\ Len(y.mem) = Len(x.mem)
           /\ ReadableBytes(y) = ReadableBytes(x) + Len(data)
           /\ Content(y) = Joined(Content(x), data)
<1> DEFINE r == x.reader  w == x.writer  d == Len(data)  c == w - r
           m == Copied(x.mem, w, data)
<1>1. /\ r \in Nat /\ w \in Nat /\ d \in Nat /\ Len(x.mem) \in Nat
      /\ r <= w /\ w <= Len(x.mem) /\ kCheapPrepend <= r
      /\ kCheapPrepend \in Nat /\ x.mem \in Seq(Nat)
      /\ w + d <= Len(x.mem)
  BY BufferSizes, SeqIsFunction DEF WritableBytes
<1>2. /\ m \in Seq(Nat) /\ Len(m) = Len(x.mem)
      /\ \A i \in 1..Len(x.mem) :
            m[i] = IF w < i /\ i <= w + d THEN data[i - w] ELSE x.mem[i]
  <2> HIDE DEF w
  <2> QED
    BY <1>1, CopiedSeq DEF d
<1>3. y = At(m, r, w + d)
  BY DEF Filled
<1>4. /\ Content(x) \in Seq(Nat) /\ Len(Content(x)) = c /\ ReadableBytes(x) = c
      /\ \A i \in 1..c : Content(x)[i] = x.mem[r + i]
  BY ContentSeq DEF ReadableBytes
<1> HIDE DEF m, r, w, d, c
<1>5. w + d \in Nat /\ r <= w + d /\ w + d <= Len(m)
  BY <1>1, <1>2
<1>6. /\ y \in BufferState /\ y.mem = m
      /\ ReadableBytes(y) = (w + d) - r
      /\ Content(y) = [i \in 1..((w + d) - r) |-> m[r + i]]
  <2> DEFINE v == w + d
  <2> HIDE DEF v
  <2>1. v \in Nat /\ r <= v /\ v <= Len(m)
    BY <1>5 DEF v
  <2>2. At(m, r, v) \in BufferState /\ At(m, r, v).mem = m
    BY <1>1, <1>2, <2>1 DEF At, BufferState
  <2>3. ReadableBytes(At(m, r, v)) = v - r
    BY DEF At, ReadableBytes
  <2>4. Content(At(m, r, v)) = [i \in 1..(v - r) |-> m[r + i]]
    BY DEF At, Content, ReadableBytes
  <2> QED
    BY <1>3, <2>2, <2>3, <2>4 DEF v
<1>7. (w + d) - r = c + d /\ c \in Nat
  BY <1>1 DEF c
<1>8. ASSUME NEW i \in 1..(c + d)
      PROVE  m[r + i] = IF i <= c THEN Content(x)[i] ELSE data[i - c]
  <2>1. r + i \in 1..Len(x.mem)
    BY <1>1, <1>7
  <2>2. CASE i <= c
    <3>1. ~(w < r + i) /\ i \in 1..c
      BY <1>1, <1>7, <2>2 DEF c
    <3> QED
      BY <1>2, <1>4, <2>1, <2>2, <3>1
  <2>3. CASE ~(i <= c)
    <3>1. w < r + i /\ r + i <= w + d /\ (r + i) - w = i - c
      BY <1>1, <1>7, <2>3 DEF c
    <3> QED
      BY <1>2, <2>1, <2>3, <3>1
  <2> QED
    BY <2>2, <2>3
<1>9. Content(y) = Joined(Content(x), data)
  BY <1>4, <1>6, <1>7, <1>8 DEF Joined, d
<1> QED
  BY <1>2, <1>4, <1>6, <1>7, <1>9 DEF d

\* Append puts the data after the content, and grows the vector only when
\* both do not fit into it.
LEMMA AppendJoins ==
    ASSUME NEW x \in BufferState, NEW data \in Seq(Nat),
           NEW y, y = AppendBytes(x, data)
    PROVE  /\ y \in BufferState
           /\ ReadableBytes(y) = ReadableBytes(x) + Len(data)
           /\ Content(y) = Joined(Content(x), data)
           /\ Len(y.mem) > Len(x.mem) =>
                 ReadableBytes(y) > Len(x.mem) - kCheapPrepend
<1> DEFINE e == EnsureWritableBytes(x, Len(data))
<1>1. /\ e \in BufferState
      /\ WritableBytes(e) >= Len(data)
      /\ ReadableBytes(e) = ReadableBytes(x)
      /\ Content(e) = Content(x)
      /\ Len(e.mem) > Len(x.mem) =>
            ReadableBytes(x) + Len(data) > Len(x.mem) - kCheapPrepend
  BY EnsureKeeps, SeqIsFunction
<1>2. y = Filled(e, data)
  BY DEF AppendBytes
<1> HIDE DEF e
<1>3. Len(data) <= WritableBytes(e)
  BY <1>1, BufferSizes, SeqIsFunction DEF WritableBytes
<1>4. /\ y \in BufferState
      /\ Len(y.mem) = Len(e.mem)
      /\ ReadableBytes(y) = ReadableBytes(e) + Len(data)
      /\ Content(y) = Joined(Content(e), data)
  BY <1>1, <1>2, <1>3, FilledJoins
<1> QED
  BY <1>1, <1>4

\* Joining the two halves of some data one after the other joins it all.
LEMMA JoinHalves ==
    ASSUME NEW s \in Seq(Nat), NEW data \in Seq(Nat), NEW n \in Nat, n < Len(data)
    PROVE  /\ SubSeq(data, 1, n) \in Seq(Nat) /\ Len(SubSeq(data, 1, n)) = n
           /\ SubSeq(data, n + 1, Len(data)) \in Seq(Nat)
           /\ Len(SubSeq(data, n + 1, Len(data))) = Len(data) - n
           /\ Joined(Joined(s, SubSeq(data, 1, n)), SubSeq(data, n + 1, Len(data)))
                = Joined(s, data)
<1> DEFINE k == Len(s)  d == Len(data)
           t == SubSeq(data, 1, n)  u == SubSeq(data, n + 1, d)
<1>1. k \in Nat /\ d \in Nat /\ n < d
  OBVIOUS
<1>2. /\ t \in Seq(Nat) /\ Len(t) = n /\ \A i \in 1..n : t[i] = data[i]
  OBVIOUS
<1>3. /\ u \in Seq(Nat) /\ Len(u) = d - n
      /\ \A i \in 1..(d - n) : u[i] = data[n + i]
  OBVIOUS
<1> HIDE DEF k, d, t, u
<1>4. Joined(s, t) = [i \in 1..(k + n) |-> IF i <= k THEN s[i] ELSE t[i - k]]
  BY <1>2 DEF Joined, k
<1>5. Joined(s, t) \in Seq(Nat) /\ Len(Joined(s, t)) = k + n
  <2>1. \A i \in 1..k : s[i] \in Nat
    BY DEF k
  <2>2. ASSUME NEW i \in 1..(k + n), ~(i <= k) PROVE t[i - k] \in Nat
    <3>1. i - k \in 1..n
      BY <1>1, <2>2
    <3> QED
      BY <1>2, <3>1
  <2>3. \A i \in 1..(k + n) : (IF i <= k THEN s[i] ELSE t[i - k]) \in Nat
    BY <1>1, <2>1, <2>2
  <2>5. Joined(s, t) \in [1..(k + n) -> Nat]
    BY <1>4, <2>3
  <2>4. k + n \in Nat
    BY <1>1
  <2> QED
    BY <2>4, <2>5, SeqFunction
<1>6. Joined(Joined(s, t), u) =
        [i \in 1..((k + n) + (d - n)) |->
            IF i <= k + n THEN Joined(s, t)[i] ELSE u[i - (k + n)]]
  BY <1>3, <1>5, SMTT(20) DEF Joined
<1>7. (k + n) + (d - n) = k + d
  BY <1>1
<1>8. ASSUME NEW i \in 1..(k + d)
      PROVE  (IF i <= k + n THEN Joined(s, t)[i] ELSE u[i - (k + n)])
               = IF i <= k THEN s[i] ELSE data[i - k]
  <2>1. CASE i <= k
    BY <1>1, <1>4, <2>1
  <2>2. CASE ~(i <= k) /\ i <= k + n
    <3>1. i \in 1..(k + n) /\ i - k \in 1..n
      BY <1>1, <2>2
    <3> QED
      BY <1>2, <1>4, <2>2, <3>1
  <2>3. CASE ~(i <= k + n)
    <3>1. i - (k + n) \in 1..(d - n) /\ n + (i - (k + n)) = i - k /\ ~(i <= k)
      BY <1>1, <2>3
    <3> QED
      BY <1>3, <2>3, <3>1
  <2> QED
    BY <2>1, <2>2, <2>3
<1>9. Joined(Joined(s, t), u) = Joined(s, data)
  BY <1>6, <1>7, <1>8 DEF Joined, k, d
<1> QED
  BY <1>2, <1>3, <1>9 DEF t, u, d

\* ReadFd puts what was read after the content, also when it spills into the
\* stack buffer.
LEMMA ReadFdJoins ==
    ASSUME NEW x \in BufferState, NEW data \in Seq(Nat),
           NEW y, y = ReadFd(x, data)
    PROVE  /\ y \in BufferState
           /\ Content(y) = Joined(Content(x), data)
           /\ Len(y.mem) > Len(x.mem) =>
                 ReadableBytes(y) > Len(x.mem) - kCheapPrepend
<1> DEFINE n == WritableBytes(x)
<1>1. n \in Nat /\ Len(data) \in Nat /\ Len(x.mem) \in Nat
  BY BufferSizes, SeqIsFunction DEF WritableBytes
<1>2. CASE Len(data) <= n
  <2>1. y = Filled(x, data)
    BY <1>2 DEF ReadFd
  <2>2. /\ y \in BufferState /\ Len(y.mem) = Len(x.mem)
        /\ Content(y) = Joined(Content(x), data)
    BY <1>2, <2>1, FilledJoins
  <2> QED
    BY <1>1, <2>2
<1>3. CASE ~(Len(data) <= n)
  <2> DEFINE t == SubSeq(data, 1, n)
             u == SubSeq(data, n + 1, Len(data))
             z == Filled(x, t)
  <2>1. y = AppendBytes(z, u)
    BY <1>3 DEF ReadFd
  <2> HIDE DEF n
  <2>2. Content(x) \in Seq(Nat)
    BY ContentSeq
  <2>3. /\ t \in Seq(Nat) /\ Len(t) = n /\ u \in Seq(Nat)
        /\ Joined(Joined(Content(x), t), u) = Joined(Content(x), data)
    BY <1>1, <1>3, <2>2, JoinHalves
  <2> HIDE DEF t, u
  <2>4. Len(t) <= WritableBytes(x)
    BY <1>1, <2>3 DEF n
  <2>5. /\ z \in BufferState /\ Len(z.mem) = Len(x.mem)
        /\ Content(z) = Joined(Content(x), t)
    BY <2>3, <2>4, FilledJoins
  <2> HIDE DEF z
  <2>6. /\ y \in BufferState
        /\ Content(y) = Joined(Content(z), u)
        /\ Len(y.mem) > Len(z.mem) =>
              ReadableBytes(y) > Len(z.mem) - kCheapPrepend
    BY <2>1, <2>3, <2>5, AppendJoins
  <2> QED
    BY <2>3, <2>5, <2>6
<1> QED
  BY <1>2, <1>3

\* Retrieve drops the oldest len bytes, or all.
LEMMA RetrieveDrops ==
    ASSUME NEW x \in BufferState, NEW len \in Nat, NEW y, y = Retrieve(x, len),
           NEW n \in Nat, n = IF len < ReadableBytes(x) THEN len ELSE ReadableBytes(x)
    PROVE  /\ y \in BufferState
           /\ Len(y.mem) = Len(x.mem)
           /\ Content(y) = [i \in 1..(Len(Content(x)) - n) |-> Content(x)[n + i]]
<1> DEFINE r == x.reader  w == x.writer
<1>1. /\ r \in Nat /\ w \in Nat /\ Len(x.mem) \in Nat /\ x.mem \in Seq(Nat)
      /\ r <= w /\ w <= Len(x.mem) /\ kCheapPrepend <= r /\ kCheapPrepend \in Nat
  BY BufferSizes
<1>2. /\ Len(Content(x)) = w - r /\ ReadableBytes(x) = w - r
      /\ \A i \in 1..(w - r) : Content(x)[i] = x.mem[r + i]
  BY ContentSeq DEF ReadableBytes
<1>3. CASE len < ReadableBytes(x)
  <2>1. n = len /\ y = At(x.mem, r + n, w)
    BY <1>3 DEF Retrieve
  <2> HIDE DEF r, w
  <2>2. r + n \in Nat /\ kCheapPrepend <= r + n /\ r + n <= w
    BY <1>1, <1>2, <1>3, <2>1
  <2>3. y \in BufferState /\ y.mem = x.mem
    BY <1>1, <2>1, <2>2 DEF At, BufferState
  <2>4. Content(y) = [i \in 1..(w - (r + n)) |-> x.mem[(r + n) + i]]
    BY <2>1 DEF At, Content, ReadableBytes
  <2>5. w - (r + n) = (w - r) - n
    BY <1>1
  <2>6. ASSUME NEW i \in 1..((w - r) - n)
        PROVE  x.mem[(r + n) + i] = Content(x)[n + i]
    <3>1. n + i \in 1..(w - r) /\ (r + n) + i = r + (n + i)
      BY <1>1
    <3> QED
      BY <1>2, <3>1
  <2> QED
    BY <1>2, <2>3, <2>4, <2>5, <2>6
<1>4. CASE ~(len < ReadableBytes(x))
  <2>1. n = w - r /\ y = At(x.mem, kCheapPrepend, kCheapPrepend)
    BY <1>2, <1>4 DEF Retrieve, RetrieveAll
  <2>2. y \in BufferState /\ y.mem = x.mem
    BY <1>1, <2>1 DEF At, BufferState
  <2>3. Content(y) = [i \in 1..(kCheapPrepend - kCheapPrepend)
                        |-> x.mem[kCheapPrepend + i]]
    BY <2>1 DEF At, Content, ReadableBytes
  <2>4. 1..(kCheapPrepend - kCheapPrepend) = {}
    BY <1>1
  <2>5. 1..(Len(Content(x)) - n) = {}
    BY <1>1, <1>2, <2>1
  <2> QED
    BY <2>2, <2>3, <2>4, <2>5
<1> QED
  BY <1>3, <1>4

-----------------------------------------------------------------------------
(* The specification.  TypeOK is inductive.                                *)

\* What a step may do to the size of the vector.
GrowthStep ==
    Len(b'.mem) > Len(b.mem) =>
        ReadableBytes(b') + WritableBytes(b') > Len(b.mem) - kCheapPrepend

\* Putting n fresh bytes after the content is the Put of ByteQueue.
LEMMA PutStep ==
    ASSUME TypeOK, b' \in BufferState, NEW n \in Nat, given' = given + n,
           Content(b') = Joined(Content(b), Fresh(n)), handed' = <<>>
    PROVE  Abstract!Put
<1> DEFINE c == Content(b)
<1>1. given \in Nat /\ given' \in Nat /\ given' >= given /\ given' - given = n
  BY DEF TypeOK
<1>2. c \in Seq(Nat) /\ Len(c) \in Nat
  BY ContentSeq, SeqIsFunction DEF TypeOK
<1>3. Len(Fresh(n)) = n /\ \A i \in 1..n : Fresh(n)[i] = given + i
  <2>1. Fresh(n) \in [1..n -> Nat]
    BY <1>1 DEF Fresh
  <2> QED
    BY <2>1, SeqFunction DEF Fresh
<1>4. Content(b') = [i \in 1..(Len(c) + n) |->
                        IF i <= Len(c) THEN c[i] ELSE Fresh(n)[i - Len(c)]]
  BY <1>3 DEF Joined
<1> HIDE DEF c
<1>5. Len(c) + given' - given = Len(c) + n
  BY <1>1, <1>2
<1>6. ASSUME NEW i \in 1..(Len(c) + n), ~(i <= Len(c))
      PROVE  Fresh(n)[i - Len(c)] = given + i - Len(c)
  <2>1. i - Len(c) \in 1..n /\ given + (i - Len(c)) = given + i - Len(c)
    BY <1>1, <1>2, <1>6
  <2> QED
    BY <1>3, <2>1
<1>7. Content(b') = [i \in 1..(Len(c) + given' - given) |->
                        IF i <= Len(c) THEN c[i] ELSE given + i - Len(c)]
  BY <1>4, <1>5, <1>6
<1> QED
  BY <1>1, <1>7 DEF Abstract!Put, c

\* Every step keeps the indices in order, grows the vector only when it must
\* and is a step of ByteQueue.
LEMMA Step ==
    TypeOK /\ [Next]_vars => TypeOK' /\ GrowthStep /\ [Abstract!BQNext]_(Abstract!bqVars)
<1> SUFFICES ASSUME TypeOK, [Next]_vars
             PROVE  TypeOK' /\ GrowthStep /\ [Abstract!BQNext]_(Abstract!bqVars)
  OBVIOUS
<1>0. /\ b \in BufferState /\ given \in Nat /\ <<>> \in Seq(Nat)
      /\ Len(b.mem) \in Nat /\ kCheapPrepend \in Nat
  BY BufferSizes DEF TypeOK
<1>a. \A n \in Nat : Fresh(n) \in Seq(Nat) /\ Len(Fresh(n)) = n
  <2>1. ASSUME NEW n \in Nat PROVE Fresh(n) \in [1..n -> Nat]
    BY <1>0 DEF Fresh
  <2> QED
    BY <2>1, SeqFunction
<1>b. ASSUME b' \in BufferState, Len(b'.mem) > Len(b.mem) =>
                ReadableBytes(b') > Len(b.mem) - kCheapPrepend
      PROVE  GrowthStep
  <2>1. ReadableBytes(b') \in Nat /\ WritableBytes(b') \in Nat
    BY <1>b, BufferSizes DEF ReadableBytes, WritableBytes
  <2> QED
    BY <1>0, <1>b, <2>1 DEF GrowthStep
<1>1. ASSUME NEW n \in 0..MaxLen, AppendCall(n)
      PROVE  TypeOK' /\ GrowthStep /\ Abstract!Put
  <2>1. n \in Nat
    BY BufferAssumption
  <2>2. /\ b' \in BufferState
        /\ Content(b') = Joined(Content(b), Fresh(n))
        /\ Len(b'.mem) > Len(b.mem) =>
              ReadableBytes(b') > Len(b.mem) - kCheapPrepend
    BY <1>0, <1>1, <1>a, <2>1, AppendJoins DEF AppendCall
  <2>3. given' = given + n /\ handed' = <<>>
    BY <1>1 DEF AppendCall
  <2> QED
    BY <1>0, <1>b, <2>1, <2>2, <2>3, PutStep DEF TypeOK
<1>2. ASSUME NEW n \in 1..MaxBytes, ReadFdCall(n)
      PROVE  TypeOK' /\ GrowthStep /\ Abstract!Put
  <2>1. n \in Nat
    BY BufferAssumption
  <2>2. /\ b' \in BufferState
        /\ Content(b') = Joined(Content(b), Fresh(n))
        /\ Len(b'.mem) > Len(b.mem) =>
              ReadableBytes(b') > Len(b.mem) - kCheapPrepend
    BY <1>0, <1>2, <1>a, <2>1, ReadFdJoins DEF ReadFdCall
  <2>3. given' = given + n /\ handed' = <<>>
    BY <1>2 DEF ReadFdCall
  <2> QED
    BY <1>0, <1>b, <2>1, <2>2, <2>3, PutStep DEF TypeOK
<1>3. ASSUME NEW n \in 0..MaxLen, EnsureWritableCall(n)
      PROVE  TypeOK' /\ GrowthStep /\ Abstract!Take(0)
  <2>1. n \in Nat
    BY BufferAssumption
  <2>2. /\ b' \in BufferState
        /\ Content(b') = Content(b)
        /\ ReadableBytes(b') = ReadableBytes(b)
        /\ Len(b'.mem) > Len(b.mem) =>
              /\ ReadableBytes(b) + n > Len(b.mem) - kCheapPrepend
              /\ WritableBytes(b') = n
    BY <1>0, <1>3, <2>1, EnsureKeeps DEF EnsureWritableCall
  <2>3. given' = given /\ handed' = <<>>
    BY <1>3 DEF EnsureWritableCall
  <2>4. Content(b) = [i \in 1..(Len(Content(b)) - 0) |-> Content(b)[0 + i]]
    <3> DEFINE c == Content(b)
    <3>1. c \in Seq(Nat)
      BY <1>0, ContentSeq
    <3> HIDE DEF c
    <3>2. Len(c) - 0 = Len(c) /\ \A i \in 1..Len(c) : 0 + i = i
      BY <3>1, SeqIsFunction
    <3> QED
      BY <3>1, <3>2, SeqIsFunction DEF c
  <2>5. Abstract!Take(0)
    BY <2>2, <2>3, <2>4 DEF Abstract!Take
  <2> QED
    BY <1>0, <2>2, <2>3, <2>5 DEF TypeOK, GrowthStep
<1>4. ASSUME NEW n \in 0..MaxBytes, RetrieveCall(n)
      PROVE  TypeOK' /\ GrowthStep /\ \E k \in 0..Len(Content(b)) : Abstract!Take(k)
  <2> DEFINE k == IF n < ReadableBytes(b) THEN n ELSE ReadableBytes(b)
  <2>1. /\ n \in Nat /\ k \in Nat /\ k \in 0..Len(Content(b))
    BY <1>0, BufferAssumption, ContentSeq
  <2> HIDE DEF k
  <2>2. /\ b' \in BufferState /\ Len(b'.mem) = Len(b.mem)
        /\ Content(b') = [i \in 1..(Len(Content(b)) - k) |-> Content(b)[k + i]]
    BY <1>0, <1>4, <2>1, RetrieveDrops DEF RetrieveCall, k
  <2>3. given' = given /\ handed' = <<>>
    BY <1>4 DEF RetrieveCall
  <2>4. Abstract!Take(k)
    BY <2>2, <2>3 DEF Abstract!Take
  <2> QED
    BY <1>0, <2>1, <2>2, <2>3, <2>4 DEF TypeOK, GrowthStep
<1>5. ASSUME NEW n \in 0..MaxBytes, TakeOut(n)
      PROVE  TypeOK' /\ GrowthStep /\ \E k \in 0..Len(Content(b)) : Abstract!Take(k)
  <2>1. /\ n \in Nat /\ n <= ReadableBytes(b) /\ n \in 0..Len(Content(b))
        /\ ReadableBytes(b) \in Nat
    BY <1>0, <1>5, BufferAssumption, ContentSeq DEF TakeOut
  <2>2. n = IF n < ReadableBytes(b) THEN n ELSE ReadableBytes(b)
    BY <2>1
  <2>3. /\ b' \in BufferState /\ Len(b'.mem) = Len(b.mem)
        /\ Content(b') = [i \in 1..(Len(Content(b)) - n) |-> Content(b)[n + i]]
    BY <1>0, <1>5, <2>1, <2>2, RetrieveDrops DEF TakeOut
  <2>4. given' = given /\ handed' = [i \in 1..n |-> b.mem[b.reader + i]]
    BY <1>5 DEF TakeOut
  <2>5. \A i \in 1..n : Content(b)[i] = b.mem[b.reader + i] /\ Content(b)[i] \in Nat
    BY <1>0, <2>1, ContentSeq
  <2>6. handed' = [i \in 1..n |-> Content(b)[i]]
    BY <2>4, <2>5
  <2>7. handed' \in Seq(Nat)
    <3>1. handed' \in [1..n -> Nat]
      BY <2>5, <2>6
    <3> QED
      BY <2>1, <3>1, SeqFunction
  <2>8. Abstract!Take(n)
    BY <2>3, <2>4, <2>6 DEF Abstract!Take
  <2> QED
    BY <1>0, <2>1, <2>3, <2>4, <2>7, <2>8 DEF TypeOK, GrowthStep
<1>6. CASE UNCHANGED vars
  <2>1. b' = b /\ given' = given /\ handed' = handed
    BY <1>6 DEF vars
  <2>2. UNCHANGED Abstract!bqVars
    BY <2>1 DEF Abstract!bqVars
  <2> QED
    BY <1>0, <2>1, <2>2 DEF TypeOK, GrowthStep
<1>7. 0 \in 0..Len(Content(b))
  BY <1>0, ContentSeq
<1> QED
  BY <1>1, <1>2, <1>3, <1>4, <1>5, <1>6, <1>7 DEF Next, Abstract!BQNext

\* A new Buffer is well formed and is an empty queue.
LEMMA InitStep == Init => TypeOK /\ Abstract!BQInit
<1> SUFFICES ASSUME Init PROVE TypeOK /\ Abstract!BQInit
  OBVIOUS
<1> DEFINE n == kCheapPrepend + kInitialSize
           m == [i \in 1..n |-> 0]
<1>1. n \in Nat /\ kCheapPrepend \in Nat /\ kCheapPrepend <= n
  BY BufferAssumption
<1>2. m \in Seq(Nat) /\ Len(m) = n
  <2>1. m \in [1..n -> Nat]
    OBVIOUS
  <2> HIDE DEF m, n
  <2> QED
    BY <1>1, <2>1, SeqFunction
<1>3. b = At(m, kCheapPrepend, kCheapPrepend) /\ given = 0 /\ handed = <<>>
  BY DEF Init, At
<1> HIDE DEF m, n
<1>4. b \in BufferState
  BY <1>1, <1>2, <1>3 DEF At, BufferState
<1>5. Content(b) = [i \in 1..(kCheapPrepend - kCheapPrepend)
                      |-> m[kCheapPrepend + i]]
  BY <1>3 DEF At, Content, ReadableBytes
<1>6. 1..(kCheapPrepend - kCheapPrepend) = {}
  BY <1>1
<1>7. Content(b) = <<>>
  BY <1>5, <1>6
<1> QED
  BY <1>3, <1>4, <1>7 DEF TypeOK, Abstract!BQInit

\* The indices of a Buffer stay in order and inside its vector, and the
\* reserve of kCheapPrepend bytes in front is never given up.
THEOREM TypeCorrect == Spec => []TypeOK
  BY InitStep, Step, PTL DEF Spec

\* A Buffer is a queue of bytes.
THEOREM BufferImplementsByteQueue == Spec => ImplementsByteQueue
  BY InitStep, Step, PTL DEF Spec, ImplementsByteQueue, Abstract!BQSpec

\* The vector grows only when its content and what is asked for do not fit.
THEOREM GrowthIsNeeded == Spec => GrowsOnlyWhenFull
  BY InitStep, Step, PTL DEF Spec, GrowsOnlyWhenFull, GrowthStep

=============================================================================
