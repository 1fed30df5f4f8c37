-------------------------- MODULE FcgiWriterProofs --------------------------
(* out_buf is never overrun, for every size of the buffer, every maximal      *)
(* record and all lengths that are written.                                   *)
EXTENDS FcgiWriter, TLAPS

\* A buffer as the operators of FcgiWriter pass it around.
IsBuffer(b) ==
  b = [recs |-> b.recs, pos |-> b.pos, hdr |-> b.hdr, start |-> b.start, peak |-> b.peak]

\* Its offsets, where out_pos may be at most max and the reserved bytes count.
Within(b, max) ==
  /\ IsBuffer(b)
  /\ b.pos \in Nat /\ b.pos <= max
  /\ b.start \in Nat /\ b.peak \in Nat /\ b.peak <= BufSize + EndSize

\* An open record starts at a multiple of 8, and so does the next one if none is
\* open.  Closing a record rounds up to a multiple of 8, and BufSize is one.
Rounded(b) ==
  /\ b.hdr = "none" => b.pos % 8 = 0
  /\ b.hdr # "none" => b.start % 8 = 0 /\ b.start + HdrSize <= b.pos

\* A frame whose content and padding are what its header says.
GoodFrames ==
  {f \in [type : Types \cup {"end"}, len : Nat, pad : Nat, n : Nat, padded : Nat, from : Int] :
     f.len = f.n /\ f.pad = f.padded /\ f.n <= MaxContent}

\* The records that wait in the buffer are good.
Good(b) == b.recs \in Seq(GoodFrames) /\ b.hdr \in Types \cup {"none"}

\* The inductive invariant: the buffer between two calls, and what left.
Fine(b, max) == Within(b, max) /\ Rounded(b) /\ Good(b)

BufInv ==
  /\ Fine(Buffer, BufSize)
  /\ sent \in Seq(GoodFrames)
  /\ written \in [Types -> Int]

----------------------------------------------------------------------------
(* What the operators on a buffer keep *)

\* fcgi_make_header's padding rounds the end of a record up.
LEMMA PadRounds ==
  ASSUME NEW p \in Nat, NEW s \in Nat, s % 8 = 0, s + 8 <= p
  PROVE  /\ Pad(p - (s + 8)) \in 0 .. 7
         /\ (p + Pad(p - (s + 8))) % 8 = 0
  BY BufAssumption, SMTT(30) DEF Pad, HdrSize

\* The record that leaves last without the buffer needs no padding.
LEMMA RestRounds == \A m \in Int : Pad(m - Rest(m)) = 0 /\ Rest(m) \in 0 .. 7
  BY SMTT(30) DEF Pad, Rest

LEMMA OpenWithin ==
  ASSUME NEW b, NEW t \in Types, Within(b, BufSize), Rounded(b)
  PROVE  LET o == OpenPacket(b, t)
         IN  /\ Within(o, BufSize + HdrSize) /\ Rounded(o)
             /\ o.hdr # "none"
             /\ o.pos = IF b.hdr = "none" THEN b.pos + HdrSize ELSE b.pos
  <1>1. CASE b.hdr # "none"
    BY <1>1, BufAssumption DEF OpenPacket, Within, Rounded, HdrSize
  <1>2. CASE b.hdr = "none"
    <2> DEFINE o == OpenPacket(b, t)
    <2>1. o = [recs |-> b.recs, pos |-> b.pos + HdrSize, hdr |-> t, start |-> b.pos,
               peak |-> Max2(b.peak, b.pos + HdrSize)]
      BY <1>2, Zenon DEF OpenPacket, Within, IsBuffer
    <2>2. t # "none"
      BY BufAssumption
    <2> HIDE DEF o
    <2> SUFFICES /\ Within(o, BufSize + HdrSize) /\ Rounded(o)
                 /\ o.hdr # "none" /\ o.pos = b.pos + HdrSize
      BY <1>2 DEF o
    <2>3. Within(o, BufSize + HdrSize)
      BY <2>1, BufAssumption DEF Within, IsBuffer, HdrSize, EndSize, Max2
    <2> QED
      BY <2>1, <2>2, <2>3, <1>2 DEF Rounded, Within, HdrSize
  <1> QED
    BY <1>1, <1>2

LEMMA PutIs ==
  ASSUME NEW b, NEW n, IsBuffer(b)
  PROVE  Put(b, n) = [recs |-> b.recs, pos |-> b.pos + n, hdr |-> b.hdr, start |-> b.start,
                      peak |-> Max2(b.peak, b.pos + n)]
  <1> DEFINE o == Put(b, n)
  <1>1. DOMAIN o = {"recs", "pos", "hdr", "start", "peak"}
    BY DEF Put, IsBuffer
  <1>2. o.recs = b.recs /\ o.hdr = b.hdr /\ o.start = b.start
    BY DEF Put, IsBuffer
  <1>3. o.pos = b.pos + n
    BY DEF Put, IsBuffer
  <1>4. o.peak = Max2(b.peak, b.pos + n)
    BY DEF Put, IsBuffer
  <1>5. o = [x \in DOMAIN o |-> o[x]]
    BY Zenon DEF Put, IsBuffer
  <1> HIDE DEF o
  <1>6. o = [recs |-> b.recs, pos |-> b.pos + n, hdr |-> b.hdr, start |-> b.start,
             peak |-> Max2(b.peak, b.pos + n)]
    BY <1>1, <1>2, <1>3, <1>4, <1>5
  <1> QED
    BY <1>6 DEF o

LEMMA PutWithin ==
  ASSUME NEW b, NEW n \in Nat, NEW max \in Nat, Within(b, max), Rounded(b), b.hdr # "none",
         b.pos + n <= BufSize + EndSize
  PROVE  LET o == Put(b, n)
         IN  /\ Within(o, b.pos + n) /\ Rounded(o)
             /\ o.hdr = b.hdr
  <1> DEFINE o == Put(b, n)
  <1>1. o = [recs |-> b.recs, pos |-> b.pos + n, hdr |-> b.hdr, start |-> b.start,
             peak |-> Max2(b.peak, b.pos + n)]
    BY PutIs DEF Within
  <1> HIDE DEF o
  <1> SUFFICES Within(o, b.pos + n) /\ Rounded(o) /\ o.hdr = b.hdr
    BY DEF o
  <1>2. Within(o, b.pos + n)
    BY <1>1, BufAssumption DEF Within, IsBuffer, HdrSize, EndSize, Max2
  <1> QED
    BY <1>1, <1>2 DEF Rounded, Within, HdrSize

\* close_packet keeps inside out_buf; from BufSize + HdrSize, where fcgi_write
\* may have put an empty record, it keeps inside the reserved bytes.
LEMMA CloseWithin ==
  ASSUME NEW b, NEW upto, NEW max \in {BufSize, BufSize + HdrSize}, Within(b, max), Rounded(b)
  PROVE  LET o == ClosePacket(b, upto)
         IN  Within(o, max) /\ Rounded(o) /\ o.hdr = "none"
  <1>1. CASE b.hdr = "none"
    BY <1>1 DEF ClosePacket
  <1>2. CASE b.hdr # "none"
    <2> DEFINE o == ClosePacket(b, upto)
               pad == Pad(b.pos - (b.start + HdrSize))
    <2>1. o = [recs |-> Append(b.recs, Closed(b, upto)), pos |-> b.pos + pad, hdr |-> "none",
               start |-> b.start, peak |-> Max2(b.peak, b.pos + pad)]
      BY <1>2, Zenon DEF ClosePacket, Within, IsBuffer, Closed
    <2>2. pad \in 0 .. 7 /\ (b.pos + pad) % 8 = 0
      BY PadRounds, <1>2, Zenon DEF Rounded, Within, HdrSize
    <2>3. max \in Nat /\ max % 8 = 0 /\ max <= BufSize + EndSize
      BY BufAssumption DEF HdrSize, EndSize
    <2> HIDE DEF pad
    <2>4. b.pos + pad <= max
      BY <2>2, <2>3, SMTT(30) DEF Within
    <2> HIDE DEF o
    <2> SUFFICES Within(o, max) /\ Rounded(o) /\ o.hdr = "none"
      BY DEF o
    <2>5. Within(o, max)
      <3>1. IsBuffer(o)
        BY <2>1 DEF IsBuffer
      <3>2. /\ o.pos = b.pos + pad /\ o.start = b.start
            /\ o.peak = Max2(b.peak, b.pos + pad)
        BY <2>1
      <3> QED
        BY <3>1, <3>2, <2>2, <2>3, <2>4, BufAssumption DEF Within, EndSize, Max2
    <2> QED
      BY <2>1, <2>2, <2>5 DEF Rounded
  <1> QED
    BY <1>1, <1>2

LEMMA EmptiedWithin ==
  ASSUME NEW b, NEW max \in Nat, Within(b, max)
  PROVE  Within(Emptied(b), 0) /\ Rounded(Emptied(b)) /\ Emptied(b).hdr = "none"
  BY DEF Within, Rounded, Emptied, IsBuffer, HdrSize

----------------------------------------------------------------------------
(* Frames *)

\* The remainder in fcgi_make_header loses nothing of a length up to MaxContent.
LEMMA NoWrap == \A n \in 0 .. MaxContent : n % (MaxContent + 1) = n
  BY BufAssumption, SMTT(30)

LEMMA OpenGood ==
  ASSUME NEW b, NEW t \in Types, NEW max \in Nat, Within(b, max), Good(b)
  PROVE  Good(OpenPacket(b, t))
  <1>1. CASE b.hdr # "none"
    BY <1>1 DEF OpenPacket
  <1>2. CASE b.hdr = "none"
    <2>1. OpenPacket(b, t).recs = b.recs /\ OpenPacket(b, t).hdr = t
      BY <1>2 DEF OpenPacket, Within, IsBuffer
    <2> QED
      BY <2>1 DEF Good
  <1> QED
    BY <1>1, <1>2

LEMMA PutGood ==
  ASSUME NEW b, NEW n, NEW max \in Nat, Within(b, max), Good(b)
  PROVE  Good(Put(b, n))
  <1>1. Put(b, n).recs = b.recs /\ Put(b, n).hdr = b.hdr
    BY PutIs DEF Within
  <1> QED
    BY <1>1 DEF Good

LEMMA CloseGood ==
  ASSUME NEW b, NEW upto \in Int, Within(b, BufSize + HdrSize), Rounded(b), Good(b)
  PROVE  Good(ClosePacket(b, upto))
  <1>1. CASE b.hdr = "none"
    BY <1>1 DEF ClosePacket
  <1>2. CASE b.hdr # "none"
    <2> DEFINE n == b.pos - (b.start + HdrSize)
               f == Closed(b, upto)
    <2>1. n \in 0 .. MaxContent
      BY <1>2, BufAssumption DEF Within, Rounded, HdrSize
    <2>2. Pad(n) \in Nat
      <3>1. \A i \in 0 .. MaxContent : Pad(i) \in Nat
        BY BufAssumption, SMTT(30) DEF Pad
      <3> QED
        BY <2>1, <3>1
    <2>3. f = [type |-> b.hdr, len |-> n, pad |-> Pad(n), n |-> n, padded |-> Pad(n),
               from |-> upto - n]
      BY <2>1, NoWrap DEF Closed
    <2>4. n \in Nat /\ n <= MaxContent /\ upto - n \in Int
      BY <2>1, BufAssumption
    <2> HIDE DEF n
    <2>5. f \in GoodFrames
      BY <2>2, <2>3, <2>4, <1>2 DEF GoodFrames, Good
    <2>6. ClosePacket(b, upto).recs = Append(b.recs, f) /\ ClosePacket(b, upto).hdr = "none"
      BY <1>2 DEF ClosePacket, Within, IsBuffer
    <2> HIDE DEF f
    <2> QED
      BY <2>5, <2>6 DEF Good
  <1> QED
    BY <1>1, <1>2

LEMMA EmptiedGood == \A b : Good(Emptied(b))
  BY DEF Good, Emptied

\* A record that bypasses the buffer, of a length that needs no padding.
LEMMA DirectGood ==
  ASSUME NEW t \in Types, NEW len \in 0 .. MaxContent, NEW from \in Int, Pad(len) = 0
  PROVE  Direct(t, len, from) \in GoodFrames
  <1>1. len \in Nat /\ len <= MaxContent
    BY BufAssumption
  <1> QED
    BY <1>1 DEF Direct, GoodFrames

LEMMA EndGood == EndFrame \in GoodFrames /\ EndFrame.type = "end"
  <1>1. EndFrame \in GoodFrames
    BY BufAssumption DEF EndFrame, GoodFrames, HdrSize
  <1>2. EndFrame.type = "end"
    BY DEF EndFrame
  <1> QED
    BY <1>1, <1>2

LEMMA SendsGood ==
  ASSUME NEW frames \in Seq(GoodFrames), NEW ok \in BOOLEAN, sent \in Seq(GoodFrames),
         Sends(frames, ok)
  PROVE  sent' \in Seq(GoodFrames)
  <1>1. sent \o frames \in Seq(GoodFrames)
    BY SMT
  <1>2. sent' = sent \o frames \/ sent' = sent
    BY DEF Sends
  <1> QED
    BY <1>1, <1>2, Zenon

----------------------------------------------------------------------------
(* Both together *)

LEMMA Sizes == BufSize \in Nat /\ BufSize + HdrSize \in Nat
  BY BufAssumption DEF HdrSize

LEMMA OpenFine ==
  ASSUME NEW b, NEW t \in Types, Fine(b, BufSize)
  PROVE  LET o == OpenPacket(b, t)
         IN  /\ Fine(o, BufSize + HdrSize) /\ o.hdr # "none"
             /\ o.pos = IF b.hdr = "none" THEN b.pos + HdrSize ELSE b.pos
  BY OpenWithin, OpenGood, Sizes, Zenon DEF Fine

LEMMA PutFine ==
  ASSUME NEW b, NEW n \in Nat, NEW max \in Nat, Fine(b, max), b.hdr # "none",
         b.pos + n <= BufSize + EndSize
  PROVE  Fine(Put(b, n), b.pos + n)
  BY PutWithin, PutGood, Zenon DEF Fine

LEMMA CloseFine ==
  ASSUME NEW b, NEW upto \in Int, NEW max \in {BufSize, BufSize + HdrSize}, Fine(b, max)
  PROVE  LET o == ClosePacket(b, upto) IN Fine(o, max) /\ o.hdr = "none"
  <1>1. Within(b, BufSize + HdrSize)
    BY Sizes, BufAssumption DEF Fine, Within, HdrSize
  <1> QED
    BY <1>1, CloseWithin, CloseGood, Zenon DEF Fine

LEMMA EmptiedFine ==
  ASSUME NEW b, NEW max \in Nat, Fine(b, max)
  PROVE  Fine(Emptied(b), 0) /\ Emptied(b).hdr = "none"
  BY EmptiedWithin, EmptiedGood, Zenon DEF Fine

LEMMA UptoInt == \A b : BufInv /\ Good(b) => Upto(b) \in Int
  BY DEF Upto, Good, BufInv

LEMMA TurnedFine ==
  ASSUME NEW t \in Types, BufInv
  PROVE  Fine(Turned(t), BufSize)
  <1>1. Fine(Buffer, BufSize) /\ Upto(Buffer) \in Int
    BY UptoInt DEF BufInv, Fine
  <1>2. Fine(ClosePacket(Buffer, Upto(Buffer)), BufSize)
    BY <1>1, CloseFine, Zenon
  <1> QED
    BY <1>1, <1>2, Zenon DEF Turned

\* The next state, from what the buffer becomes and what is sent and counted.
LEMMA BecomesFine ==
  ASSUME NEW b, Becomes(b), Fine(b, BufSize), sent' \in Seq(GoodFrames),
         written' \in [Types -> Int]
  PROVE  BufInv'
  <1>1. Buffer' = b
    BY DEF Becomes, Buffer, Fine, Within, IsBuffer
  <1>2. Fine(Buffer', BufSize)
    BY <1>1
  <1> QED
    BY <1>2, Zenon DEF BufInv, Fine, Within, Rounded, IsBuffer, Good, GoodFrames

LEMMA CountInt ==
  ASSUME NEW t \in Types, NEW n \in Nat, BufInv, Count(t, n) \/ UNCHANGED written
  PROVE  written' \in [Types -> Int]
  BY DEF BufInv, Count

----------------------------------------------------------------------------
(* The calls *)

LEMMA FitsKeeps ==
  ASSUME NEW t \in Types, NEW n \in Nat, BufInv, WriteFits(t, n)
  PROVE  BufInv'
  <1> DEFINE b == Turned(t)
             o == OpenPacket(b, t)
  <1>1. Fine(b, BufSize) /\ n < Limit(b)
    BY TurnedFine DEF WriteFits
  <1>2. /\ Fine(o, BufSize + HdrSize) /\ o.hdr # "none"
        /\ o.pos = IF b.hdr = "none" THEN b.pos + HdrSize ELSE b.pos
    BY <1>1, OpenFine, Zenon
  <1>3. Becomes(Put(o, n)) /\ sent' \in Seq(GoodFrames) /\ written' \in [Types -> Int]
    BY CountInt DEF WriteFits, BufInv
  <1> HIDE DEF b, o
  <1>4. o.pos + n <= BufSize /\ o.pos + n <= BufSize + EndSize
    BY <1>1, <1>2, BufAssumption DEF Limit, Max2, HdrSize, EndSize, Fine, Within
  <1>5. Fine(Put(o, n), o.pos + n)
    BY <1>2, <1>4, Sizes, PutFine, Zenon
  <1>6. Fine(Put(o, n), BufSize)
    BY <1>2, <1>4, <1>5, BufAssumption DEF Fine, Within
  <1> QED
    BY <1>3, <1>6, BecomesFine, Zenon

LEMMA FlushKeeps ==
  ASSUME NEW t \in Types, NEW n \in Nat, BufInv, WriteFlush(t, n)
  PROVE  BufInv'
  <1> DEFINE b == Turned(t)
             limit == Limit(b)
             o == OpenPacket(b, t)
             p == Put(o, limit)
             full == ClosePacket(p, written[t] + limit)
             e == Emptied(full)
             q == OpenPacket(e, t)
             r == Put(q, n - limit)
  <1>1. Fine(b, BufSize)
    BY TurnedFine
  <1>2. limit \in Nat /\ written[t] + limit \in Int
    <2>1. limit \in Nat
      BY <1>1, BufAssumption DEF Limit, Max2, HdrSize, Fine, Within
    <2>2. written[t] \in Int
      BY DEF BufInv
    <2> QED
      BY <2>1, <2>2
  <1>3. n >= limit /\ n - limit < BufSize - HdrSize /\ n - limit \in Nat
    BY <1>2 DEF WriteFlush
  <1>4. Becomes(e) \/ (n > limit /\ Becomes(r))
    BY Zenon DEF WriteFlush
  <1>5. (\E ok \in BOOLEAN : Sends(full.recs, ok)) /\ (Count(t, n) \/ UNCHANGED written)
    BY Zenon DEF WriteFlush
  <1>6. /\ Fine(o, BufSize + HdrSize) /\ o.hdr # "none"
        /\ o.pos = IF b.hdr = "none" THEN b.pos + HdrSize ELSE b.pos
    BY <1>1, OpenFine, Zenon
  <1>7. /\ o.pos + limit <= BufSize + HdrSize /\ o.pos + limit <= BufSize + EndSize
        /\ o.pos + limit \in Nat
    BY <1>1, <1>2, <1>6, BufAssumption DEF Limit, Max2, HdrSize, EndSize, Fine, Within
  <1> HIDE DEF b, limit, o
  <1>8. Fine(p, BufSize + HdrSize)
    <2>1. Fine(p, o.pos + limit)
      BY <1>2, <1>6, <1>7, Sizes, PutFine, Zenon
    <2> HIDE DEF p
    <2> QED
      BY <2>1, <1>7, Sizes DEF Fine, Within
  <1> HIDE DEF p
  <1>9. Fine(full, BufSize + HdrSize)
    BY <1>2, <1>8, CloseFine, Zenon
  <1> HIDE DEF full
  <1>10. sent' \in Seq(GoodFrames) /\ written' \in [Types -> Int]
    <2>1. full.recs \in Seq(GoodFrames) /\ sent \in Seq(GoodFrames)
      BY <1>9 DEF Fine, Good, BufInv
    <2> QED
      BY <2>1, <1>5, SendsGood, CountInt, Zenon
  <1>11. Fine(e, 0) /\ e.hdr = "none"
    BY <1>9, Sizes, EmptiedFine, Zenon
  <1> HIDE DEF e
  <1>12. Fine(e, BufSize) /\ e.pos = 0
    BY <1>11, BufAssumption DEF Fine, Within
  <1>13. Fine(q, BufSize + HdrSize) /\ q.hdr # "none" /\ q.pos = HdrSize
    <2>1. Fine(q, BufSize + HdrSize) /\ q.hdr # "none" /\ q.pos = e.pos + HdrSize
      BY <1>11, <1>12, OpenFine, Zenon
    <2> QED
      BY <2>1, <1>12 DEF HdrSize
  <1> HIDE DEF q
  <1>14. Fine(r, BufSize)
    <2>1. /\ q.pos + (n - limit) <= BufSize /\ q.pos + (n - limit) \in Nat
          /\ q.pos + (n - limit) <= BufSize + EndSize
      BY <1>2, <1>3, <1>13, BufAssumption DEF HdrSize, EndSize
    <2>2. Fine(r, q.pos + (n - limit))
      BY <2>1, <1>3, <1>13, Sizes, PutFine, Zenon
    <2> HIDE DEF r
    <2> QED
      BY <2>1, <2>2, BufAssumption DEF Fine, Within
  <1> QED
    BY <1>4, <1>10, <1>12, <1>14, BecomesFine, Zenon

\* Raising the peak to a point inside the reserved bytes does no harm.
LEMMA PeakFine ==
  ASSUME NEW b, NEW x \in Nat, x <= BufSize + EndSize, NEW max \in Nat, Fine(b, max)
  PROVE  LET o == [b EXCEPT !.peak = Max2(@, x)]
         IN  Fine(o, max) /\ o.hdr = b.hdr /\ o.pos = b.pos
  <1> DEFINE o == [b EXCEPT !.peak = Max2(@, x)]
  <1>1. /\ IsBuffer(o) /\ o.pos = b.pos /\ o.hdr = b.hdr /\ o.start = b.start
        /\ o.recs = b.recs /\ o.peak = IF b.peak > x THEN b.peak ELSE x
    BY DEF Fine, Within, IsBuffer, Max2
  <1> HIDE DEF o
  <1>2. Within(o, max)
    BY <1>1 DEF Fine, Within
  <1>3. Rounded(o) /\ Good(o)
    BY <1>1 DEF Fine, Rounded, Good
  <1> QED
    BY <1>1, <1>2, <1>3 DEF o, Fine

\* The records that bypass the buffer leave a rest that fits in one.
LEMMA ChunksFit ==
  ASSUME NEW n \in Nat
  PROVE  /\ Chunk \in 0 .. MaxContent /\ Pad(Chunk) = 0
         /\ Chunks(n) \in Nat
         /\ n - Chunks(n) * Chunk \in 0 .. MaxContent
  <1>1. Chunk \in Nat /\ Chunk >= 8 /\ Chunk <= MaxContent /\ Pad(Chunk) = 0
    BY BufAssumption, SMTT(30) DEF Chunk, Pad, HdrSize
  <1>2. CASE n <= MaxContent
    BY <1>1, <1>2, BufAssumption DEF Chunks
  <1>3. CASE n > MaxContent
    <2> DEFINE x == n - MaxContent + Chunk - 1
               k == x \div Chunk
    <2>1. x \in Nat /\ Chunks(n) = k
      BY <1>1, <1>3, BufAssumption DEF Chunks
    <2>2. x - Chunk = n - MaxContent - 1 /\ n - x = MaxContent - Chunk + 1
      BY <1>1, <1>3, BufAssumption
    <2> HIDE DEF x
    <2>3. k \in Nat /\ Chunk * k <= x /\ x < Chunk * k + Chunk
      BY <1>1, <2>1, SMTT(30)
    <2> HIDE DEF k
    <2>4. k * Chunk = Chunk * k /\ k * Chunk \in Nat
      BY <1>1, <2>3, SMTT(30)
    <2> DEFINE y == k * Chunk
    <2>5. y \in Nat /\ y <= x /\ x < y + Chunk
      BY <2>3, <2>4
    <2> HIDE DEF y
    <2>6. n - y \in 0 .. MaxContent
      BY <1>1, <1>3, <2>1, <2>2, <2>5, BufAssumption
    <2> QED
      BY <1>1, <2>1, <2>3, <2>6, BufAssumption DEF y
  <1> QED
    BY <1>2, <1>3, BufAssumption

LEMMA DirectKeeps ==
  ASSUME NEW t \in Types, NEW n \in Nat, BufInv, WriteDirect(t, n)
  PROVE  BufInv'
  <1> DEFINE b == Turned(t)
             c == ClosePacket(b, Upto(b))
             k == Chunks(n)
             m == n - k * Chunk
             chunks == [i \in 1 .. k |-> Direct(t, Chunk, written[t] + (i - 1) * Chunk)]
             last == Direct(t, m - Rest(m), written[t] + k * Chunk)
             frames == c.recs \o chunks \o <<last>>
             hdr == Max2(HeaderEnd(IF k > 0 THEN 0 ELSE c.pos, m - Rest(m)),
                         IF k > 0 THEN HeaderEnd(c.pos, Chunk) ELSE 0)
             e == Emptied(c)
             done == [e EXCEPT !.peak = Max2(@, hdr)]
             q == OpenPacket(done, t)
             r == Put(q, Rest(m))
  <1>1. Becomes(done) \/ Becomes(r)
    BY Zenon DEF WriteDirect
  <1>2. (\E ok \in BOOLEAN : Sends(frames, ok)) /\ (Count(t, n) \/ UNCHANGED written)
    BY Zenon DEF WriteDirect
  <1>3. Fine(b, BufSize) /\ Upto(b) \in Int
    BY TurnedFine, UptoInt DEF Fine
  <1> HIDE DEF b
  <1>4. Fine(c, BufSize) /\ c.hdr = "none"
    BY <1>3, CloseFine, Zenon
  <1> HIDE DEF c
  <1>5. /\ Chunk \in 0 .. MaxContent /\ Pad(Chunk) = 0 /\ k \in Nat
        /\ m \in 0 .. MaxContent
    BY ChunksFit
  <1>6. k * Chunk \in Int /\ \A i \in 1 .. k : (i - 1) * Chunk \in Int
    BY <1>5, BufAssumption
  <1> HIDE DEF k, m
  <1>7. Pad(m - Rest(m)) = 0 /\ Rest(m) \in 0 .. 7 /\ m - Rest(m) \in 0 .. MaxContent
    <2>1. Pad(m - Rest(m)) = 0 /\ Rest(m) \in 0 .. 7
      BY <1>5, RestRounds, BufAssumption
    <2>2. \A i \in Nat : Rest(i) <= i
      BY SMTT(30) DEF Rest, Pad
    <2> QED
      BY <1>5, <2>1, <2>2, BufAssumption
  <1>8. sent' \in Seq(GoodFrames) /\ written' \in [Types -> Int]
    <2>1. written[t] \in Int
      BY DEF BufInv
    <2>2. last \in GoodFrames
      <3>1. written[t] + k * Chunk \in Int
        BY <2>1, <1>6
      <3> QED
        BY <3>1, <1>7, DirectGood, Zenon
    <2>3. \A i \in 1 .. k : Direct(t, Chunk, written[t] + (i - 1) * Chunk) \in GoodFrames
      <3> TAKE i \in 1 .. k
      <3>1. written[t] + (i - 1) * Chunk \in Int
        BY <2>1, <1>6
      <3> QED
        BY <3>1, <1>5, DirectGood, Zenon
    <2>4. chunks \in Seq(GoodFrames)
      BY <2>3, <1>5
    <2>5. c.recs \in Seq(GoodFrames) /\ sent \in Seq(GoodFrames)
      BY <1>4 DEF Fine, Good, BufInv
    <2> HIDE DEF last, chunks
    <2>6. frames \in Seq(GoodFrames)
      BY <2>2, <2>4, <2>5
    <2> HIDE DEF frames
    <2> QED
      BY <2>5, <2>6, <1>2, SendsGood, CountInt, Zenon
  <1>9. hdr \in Nat /\ hdr <= BufSize + EndSize
    BY <1>4, <1>5, <1>7, BufAssumption DEF HeaderEnd, Max2, HdrSize, EndSize, Fine, Within
  <1>10. Fine(e, 0) /\ e.hdr = "none"
    BY <1>4, Sizes, EmptiedFine, Zenon
  <1> HIDE DEF hdr, e
  <1>11. Fine(done, 0) /\ done.hdr = "none"
    BY <1>9, <1>10, PeakFine
  <1> HIDE DEF done
  <1>12. Fine(done, BufSize) /\ done.pos = 0
    BY <1>11, BufAssumption DEF Fine, Within
  <1>13. Fine(q, BufSize + HdrSize) /\ q.hdr # "none" /\ q.pos = HdrSize
    <2>1. Fine(q, BufSize + HdrSize) /\ q.hdr # "none" /\ q.pos = done.pos + HdrSize
      BY <1>11, <1>12, OpenFine, Zenon
    <2> QED
      BY <2>1, <1>12 DEF HdrSize
  <1> HIDE DEF q
  <1>14. Fine(r, BufSize)
    <2>1. /\ Rest(m) \in Nat /\ q.pos + Rest(m) <= BufSize /\ q.pos + Rest(m) \in Nat
          /\ q.pos + Rest(m) <= BufSize + EndSize
      BY <1>7, <1>13, BufAssumption DEF HdrSize, EndSize
    <2>2. Fine(r, q.pos + Rest(m))
      BY <2>1, <1>13, Sizes, PutFine, Zenon
    <2> HIDE DEF r
    <2> QED
      BY <2>1, <2>2, BufAssumption DEF Fine, Within
  <1> QED
    BY <1>1, <1>8, <1>12, <1>14, BecomesFine, Zenon

LEMMA FlushCallKeeps ==
  ASSUME NEW close \in BOOLEAN, NEW ok \in BOOLEAN, BufInv, fcgi_flush(close, ok)
  PROVE  BufInv'
  <1> DEFINE c == ClosePacket(Buffer, Upto(Buffer))
             frames == IF close THEN Append(c.recs, EndFrame) ELSE c.recs
             x == IF close THEN c.pos + EndSize ELSE 0
             end == [c EXCEPT !.peak = Max2(@, x)]
  <1>1. Becomes(Emptied(end)) /\ Sends(frames, ok) /\ UNCHANGED written
    BY DEF fcgi_flush
  <1>2. Fine(Buffer, BufSize) /\ Upto(Buffer) \in Int
    BY UptoInt DEF BufInv, Fine
  <1>3. Fine(c, BufSize)
    BY <1>2, CloseFine, Zenon
  <1> HIDE DEF c
  <1>4. frames \in Seq(GoodFrames)
    <2>1. EndFrame \in GoodFrames
      BY EndGood
    <2> QED
      BY <2>1, <1>3 DEF Fine, Good
  <1>5. sent' \in Seq(GoodFrames) /\ written' \in [Types -> Int]
    BY <1>1, <1>4, SendsGood, Zenon DEF BufInv
  <1>6. x \in Nat /\ x <= BufSize + EndSize
    BY <1>3, BufAssumption DEF Fine, Within, EndSize
  <1> HIDE DEF x
  <1>7. Fine(end, BufSize)
    BY <1>3, <1>6, BufAssumption, PeakFine
  <1> HIDE DEF end
  <1>8. Fine(Emptied(end), 0)
    BY <1>7, Sizes, EmptiedFine, Zenon
  <1>9. Fine(Emptied(end), BufSize)
    BY <1>8, BufAssumption DEF Fine, Within
  <1> QED
    BY <1>1, <1>5, <1>9, BecomesFine, Zenon

LEMMA ResetKeeps ==
  ASSUME BufInv, Reset
  PROVE  BufInv'
  <1>1. Becomes(Emptied(Buffer)) /\ sent' \in Seq(GoodFrames) /\ written' \in [Types -> Int]
    BY DEF Reset
  <1>2. Fine(Emptied(Buffer), 0)
    BY Sizes, EmptiedFine, Zenon DEF BufInv
  <1>3. Fine(Emptied(Buffer), BufSize)
    BY <1>2, BufAssumption DEF Fine, Within
  <1> QED
    BY <1>1, <1>3, BecomesFine, Zenon

LEMMA WriterInvariant == WriterSpec => []BufInv
  <1>1. WriterInit => BufInv
    <2> SUFFICES ASSUME WriterInit PROVE BufInv
      OBVIOUS
    <2>1. Within(Buffer, BufSize) /\ Rounded(Buffer)
      BY BufAssumption DEF WriterInit, Buffer, Within, IsBuffer, Rounded, HdrSize, EndSize
    <2>2. Good(Buffer) /\ sent \in Seq(GoodFrames) /\ written \in [Types -> Int]
      BY DEF WriterInit, Buffer, Good
    <2> QED
      BY <2>1, <2>2 DEF BufInv, Fine
  <1>2. BufInv /\ [WriterNext]_writerVars => BufInv'
    <2> SUFFICES ASSUME BufInv, [WriterNext]_writerVars PROVE BufInv'
      OBVIOUS
    <2>1. ASSUME NEW t \in Types, NEW n \in Lens, fcgi_write(t, n) PROVE BufInv'
      BY <2>1, BufAssumption, FitsKeeps, FlushKeeps, DirectKeeps DEF fcgi_write
    <2>2. ASSUME NEW close \in BOOLEAN, NEW ok \in BOOLEAN, fcgi_flush(close, ok) PROVE BufInv'
      BY <2>2, FlushCallKeeps
    <2>3. ASSUME Reset PROVE BufInv'
      BY <2>3, ResetKeeps
    <2>4. ASSUME UNCHANGED <<bufVars, written>>, sent' \in {sent, <<>>} PROVE BufInv'
      <3>1. Buffer' = Buffer
        BY <2>4 DEF bufVars, Buffer
      <3>2. Fine(Buffer', BufSize)
        BY <3>1 DEF BufInv
      <3>3. sent' \in Seq(GoodFrames) /\ written' \in [Types -> Int]
        <4>1. sent \in Seq(GoodFrames) /\ <<>> \in Seq(GoodFrames)
          BY DEF BufInv
        <4>2. written' = written /\ written \in [Types -> Int]
          BY <2>4 DEF BufInv
        <4> QED
          BY <4>1, <4>2, <2>4, Zenon
      <3> QED
        BY <3>2, <3>3, Zenon DEF BufInv, Fine, Within, Rounded, IsBuffer, Good, GoodFrames
    <2> QED
      BY <2>1, <2>2, <2>3, <2>4 DEF WriterNext, Connection, writerVars, outVars
  <1> QED
    BY <1>1, <1>2, PTL DEF WriterSpec

\* out_buf and the reserved bytes behind it are never overrun, for every size of
\* the buffer that is a multiple of 8 and every length that fcgi_write is given.
THEOREM BufferHolds == WriterSpec => []BufferBound
  <1>1. BufInv => BufferBound
    BY DEF BufInv, BufferBound, Fine, Within, Buffer
  <1> QED
    BY <1>1, WriterInvariant, PTL

\* Every record that fcgi_write and fcgi_flush send is followed by the content
\* and padding that its header announces, whatever is written.
THEOREM RecordsAreFramed == WriterSpec => []Framed
  <1>1. BufInv => Framed
    <2> SUFFICES ASSUME BufInv, NEW i \in 1 .. Len(sent)
                 PROVE  sent[i].len = sent[i].n /\ sent[i].pad = sent[i].padded
                        /\ sent[i].n <= MaxContent
      BY DEF Framed
    <2>1. sent[i] \in GoodFrames
      BY DEF BufInv
    <2> QED
      BY <2>1 DEF GoodFrames
  <1> QED
    BY <1>1, WriterInvariant, PTL

----------------------------------------------------------------------------
(* The order of what is sent.  This is not a property of the writer alone: a  *)
(* request has to start with an empty buffer, and must not go on after a      *)
(* write that failed.                                                         *)

\* InOrder, of any frames.
Ordered(s) ==
  \A i \in 1 .. Len(s) : s[i].type \in Types => Carried(s, i - 1, s[i].type, s[i].from)

\* Frames of the output only.
Plain(s) == \A i \in 1 .. Len(s) : s[i].type \in Types

\* The bytes of type t in the open record.
Pending(b, t) == IF b.hdr = t THEN b.pos - (b.start + HdrSize) ELSE 0

\* With what waits in the buffer b, the frames s carry all that is written.
Flow(s, b, w) ==
  /\ Plain(b.recs)
  /\ Ordered(s \o b.recs)
  /\ \A t \in Types : Carried(s \o b.recs, Len(s \o b.recs), t, w[t] - Pending(b, t))

\* Frames of type t from the byte number u to v.
Run(r, t, u, v) ==
  /\ \A i \in 1 .. Len(r) :
       r[i].type = t /\ r[i].from = IF i = 1 THEN u ELSE r[i - 1].from + r[i - 1].n
  /\ v = IF Len(r) = 0 THEN u ELSE r[Len(r)].from + r[Len(r)].n

LEMMA Joined ==
  ASSUME NEW s \in Seq(GoodFrames), NEW r \in Seq(GoodFrames)
  PROVE  /\ s \o r \in Seq(GoodFrames) /\ Len(s \o r) = Len(s) + Len(r)
         /\ Len(s) \in Nat /\ Len(r) \in Nat
         /\ \A i \in 1 .. Len(s) : (s \o r)[i] = s[i]
         /\ \A i \in 1 .. Len(r) : (s \o r)[Len(s) + i] = r[i]
  OBVIOUS

LEMMA JoinedTwice ==
  ASSUME NEW s \in Seq(GoodFrames), NEW r \in Seq(GoodFrames), NEW q \in Seq(GoodFrames)
  PROVE  (s \o r) \o q = s \o (r \o q)
  OBVIOUS

LEMMA CarriedJoin ==
  ASSUME NEW s \in Seq(GoodFrames), NEW r \in Seq(GoodFrames), NEW i \in 0 .. Len(s), NEW t, NEW u
  PROVE  Carried(s \o r, i, t, u) <=> Carried(s, i, t, u)
  <1>1. \A j \in 1 .. i : (s \o r)[j] = s[j]
    BY Joined
  <1>2. i \in Nat
    BY Joined
  <1> DEFINE q == s \o r
  <1> HIDE DEF q
  <1>3. \A j \in 1 .. i : q[j] = s[j]
    BY <1>1 DEF q
  <1>4. \A j \in 1 .. i : \A k \in j + 1 .. i : q[k] = s[k]
    BY <1>2, <1>3
  <1>5. Carried(q, i, t, u) <=> Carried(s, i, t, u)
    BY <1>3, <1>4, Zenon DEF Carried
  <1> QED
    BY <1>5 DEF q

LEMMA PrefixOrdered ==
  ASSUME NEW s \in Seq(GoodFrames), NEW r \in Seq(GoodFrames), Ordered(s \o r)
  PROVE  Ordered(s)
  <1> SUFFICES ASSUME NEW i \in 1 .. Len(s), s[i].type \in Types
               PROVE  Carried(s, i - 1, s[i].type, s[i].from)
    BY DEF Ordered
  <1>1. i \in 1 .. Len(s \o r) /\ (s \o r)[i] = s[i] /\ i - 1 \in 0 .. Len(s)
    BY Joined
  <1>2. Carried(s \o r, i - 1, s[i].type, s[i].from)
    BY <1>1 DEF Ordered
  <1> QED
    BY <1>1, <1>2, CarriedJoin

\* A run of frames goes on where those of its type ended.
LEMMA RunOrdered ==
  ASSUME NEW s \in Seq(GoodFrames), NEW r \in Seq(GoodFrames), NEW t \in Types, NEW u, NEW v,
         Ordered(s), Carried(s, Len(s), t, u), Run(r, t, u, v)
  PROVE  /\ Ordered(s \o r)
         /\ Carried(s \o r, Len(s \o r), t, v)
         /\ \A t2 \in Types : \A x : t2 # t /\ Carried(s, Len(s), t2, x)
                                 => Carried(s \o r, Len(s \o r), t2, x)
  <1> DEFINE q == s \o r
  <1>1. /\ q \in Seq(GoodFrames) /\ Len(q) = Len(s) + Len(r) /\ Len(s) \in Nat /\ Len(r) \in Nat
        /\ \A i \in 1 .. Len(s) : q[i] = s[i]
        /\ \A i \in 1 .. Len(r) : q[Len(s) + i] = r[i]
    BY Joined
  <1>2. \A i \in 0 .. Len(s) : \A t2, x : Carried(q, i, t2, x) <=> Carried(s, i, t2, x)
    BY CarriedJoin
  <1> HIDE DEF q
  <1>3. ASSUME NEW j \in 1 .. Len(r), j > 1 PROVE Carried(q, Len(s) + j - 1, t, r[j].from)
    <2> DEFINE k == Len(s) + j - 1
    <2>1. /\ k \in 1 .. k /\ j - 1 \in 1 .. Len(r) /\ k = Len(s) + (j - 1)
      BY <1>1, <1>3
    <2>2. q[k].type = t /\ q[k].from + q[k].n = r[j].from
      <3> HIDE DEF k
      <3>1. q[k] = r[j - 1]
        BY <1>1, <2>1, Zenon
      <3>2. r[j - 1].type = t /\ r[j].from = r[j - 1].from + r[j - 1].n
        BY <1>3, <2>1 DEF Run
      <3> QED
        BY <3>1, <3>2
    <2>3. \A l \in k + 1 .. k : FALSE
      BY <2>1
    <2> HIDE DEF k
    <2>4. Carried(q, k, t, r[j].from)
      BY <2>1, <2>2, <2>3, Zenon DEF Carried
    <2> QED
      BY <2>4 DEF k
  <1>4. Ordered(q)
    <2> SUFFICES ASSUME NEW i \in 1 .. Len(q), q[i].type \in Types
                 PROVE  Carried(q, i - 1, q[i].type, q[i].from)
      BY DEF Ordered
    <2>1. CASE i <= Len(s)
      <3>1. i \in 1 .. Len(s) /\ i - 1 \in 0 .. Len(s) /\ q[i] = s[i]
        BY <1>1, <2>1
      <3>2. Carried(s, i - 1, s[i].type, s[i].from)
        BY <3>1 DEF Ordered
      <3> QED
        BY <1>2, <3>1, <3>2
    <2>2. CASE i = Len(s) + 1
      <3>1. 1 \in 1 .. Len(r) /\ q[i] = r[1] /\ i - 1 = Len(s) /\ Len(s) \in 0 .. Len(s)
        BY <1>1, <2>2
      <3>2. r[1].type = t /\ r[1].from = u
        BY <3>1 DEF Run
      <3> QED
        BY <1>2, <3>1, <3>2
    <2>3. CASE i > Len(s) + 1
      <3> DEFINE j == i - Len(s)
      <3>3. i = Len(s) + j /\ j \in 1 .. Len(r) /\ j > 1 /\ i - 1 = Len(s) + j - 1
        BY <1>1, <2>3
      <3>1. j \in 1 .. Len(r) /\ j > 1 /\ q[i] = r[j] /\ i - 1 = Len(s) + j - 1
        <4> HIDE DEF j
        <4> QED
          BY <1>1, <3>3, Zenon
      <3>2. r[j].type = t
        BY <3>1 DEF Run
      <3> HIDE DEF j
      <3> QED
        BY <1>3, <3>1, <3>2
    <2> QED
      BY <1>1, <2>1, <2>2, <2>3
  <1>5. Carried(q, Len(q), t, v)
    <2>1. CASE Len(r) = 0
      <3>1. Len(q) = Len(s) /\ v = u /\ Len(s) \in 0 .. Len(s)
        BY <1>1, <2>1 DEF Run
      <3> QED
        BY <1>2, <3>1
    <2>2. CASE Len(r) # 0
      <3>1. /\ Len(r) \in 1 .. Len(r) /\ Len(q) \in 1 .. Len(q) /\ q[Len(q)] = r[Len(r)]
            /\ \A l \in Len(q) + 1 .. Len(q) : FALSE
        BY <1>1, <2>2
      <3>2. r[Len(r)].type = t /\ v = r[Len(r)].from + r[Len(r)].n
        BY <2>2, <3>1 DEF Run
      <3> QED
        BY <3>1, <3>2, Zenon DEF Carried
    <2> QED
      BY <2>1, <2>2
  <1>6. ASSUME NEW t2 \in Types, NEW x, t2 # t, Carried(s, Len(s), t2, x)
        PROVE  Carried(q, Len(q), t2, x)
    <2>1. \A i \in 1 .. Len(q) : i > Len(s) => q[i].type # t2
      <3> SUFFICES ASSUME NEW i \in 1 .. Len(q), i > Len(s) PROVE q[i].type # t2
        OBVIOUS
      <3>1. i - Len(s) \in 1 .. Len(r) /\ q[i] = r[i - Len(s)]
        BY <1>1
      <3> QED
        BY <1>6, <3>1 DEF Run
    <2>2. CASE x = 0 /\ \A j \in 1 .. Len(s) : s[j].type # t2
      <3>1. \A j \in 1 .. Len(q) : q[j].type # t2
        <4> TAKE j \in 1 .. Len(q)
        <4>1. j \in 1 .. Len(s) \/ j > Len(s)
          BY <1>1
        <4> QED
          BY <1>1, <2>1, <2>2, <4>1, Zenon
      <3> QED
        BY <2>2, <3>1 DEF Carried
    <2>3. CASE \E j \in 1 .. Len(s) : /\ s[j].type = t2 /\ s[j].from + s[j].n = x
                                      /\ \A k \in j + 1 .. Len(s) : s[k].type # t2
      <3> PICK j \in 1 .. Len(s) : /\ s[j].type = t2 /\ s[j].from + s[j].n = x
                                   /\ \A k \in j + 1 .. Len(s) : s[k].type # t2
        BY <2>3
      <3>1. j \in 1 .. Len(q) /\ q[j] = s[j]
        BY <1>1
      <3>2. \A k \in j + 1 .. Len(q) : q[k].type # t2
        <4> TAKE k \in j + 1 .. Len(q)
        <4>1. /\ k \in 1 .. Len(q)
              /\ k > Len(s) \/ (k \in 1 .. Len(s) /\ k \in j + 1 .. Len(s))
          BY <1>1
        <4> QED
          BY <1>1, <2>1, <4>1, Zenon
      <3> QED
        BY <3>1, <3>2 DEF Carried
    <2> QED
      BY <1>6, <2>2, <2>3 DEF Carried
  <1> QED
    BY <1>4, <1>5, <1>6 DEF q

\* The record that ends the request changes nothing of that.
LEMMA EndOrdered ==
  ASSUME NEW s \in Seq(GoodFrames), Ordered(s)
  PROVE  /\ Ordered(Append(s, EndFrame))
         /\ \A t \in Types : \A x : Carried(s, Len(s), t, x)
                                => Carried(Append(s, EndFrame), Len(s) + 1, t, x)
  <1> DEFINE q == Append(s, EndFrame)
  <1>1. /\ Len(q) = Len(s) + 1 /\ Len(s) \in Nat /\ q[Len(s) + 1] = EndFrame
        /\ \A i \in 1 .. Len(s) : q[i] = s[i]
    OBVIOUS
  <1>2. EndFrame.type \notin Types
    BY BufAssumption DEF EndFrame
  <1> HIDE DEF q
  <1>3. ASSUME NEW i \in 0 .. Len(s), NEW t \in Types, NEW x, Carried(s, i, t, x)
        PROVE  Carried(q, i, t, x)
    <2>1. \A j \in 1 .. i : q[j] = s[j] /\ j \in 1 .. i /\ \A k \in j + 1 .. i : q[k] = s[k]
      BY <1>1
    <2> QED
      BY <1>3, <2>1, Zenon DEF Carried
  <1>4. Ordered(q)
    <2> SUFFICES ASSUME NEW i \in 1 .. Len(q), q[i].type \in Types
                 PROVE  Carried(q, i - 1, q[i].type, q[i].from)
      BY DEF Ordered
    <2>1. i \in 1 .. Len(s) \/ i = Len(s) + 1
      BY <1>1
    <2>2. i \in 1 .. Len(s) /\ q[i] = s[i]
      BY <1>1, <1>2, <2>1, Zenon
    <2>3. Carried(s, i - 1, s[i].type, s[i].from) /\ i - 1 \in 0 .. Len(s)
      BY <1>1, <2>2 DEF Ordered
    <2> QED
      BY <1>3, <2>2, <2>3
  <1>5. ASSUME NEW t \in Types, NEW x, Carried(s, Len(s), t, x)
        PROVE  Carried(q, Len(s) + 1, t, x)
    <2>1. q[Len(s) + 1].type # t
      BY <1>1, <1>2
    <2>2. CASE x = 0 /\ \A j \in 1 .. Len(s) : s[j].type # t
      <3>1. \A j \in 1 .. Len(s) + 1 : q[j].type # t
        <4> TAKE j \in 1 .. Len(s) + 1
        <4>1. j \in 1 .. Len(s) \/ j = Len(s) + 1
          BY <1>1
        <4> QED
          BY <1>1, <2>1, <2>2, <4>1, Zenon
      <3> QED
        BY <2>2, <3>1 DEF Carried
    <2>3. CASE \E j \in 1 .. Len(s) : /\ s[j].type = t /\ s[j].from + s[j].n = x
                                      /\ \A k \in j + 1 .. Len(s) : s[k].type # t
      <3> PICK j \in 1 .. Len(s) : /\ s[j].type = t /\ s[j].from + s[j].n = x
                                   /\ \A k \in j + 1 .. Len(s) : s[k].type # t
        BY <2>3
      <3>1. j \in 1 .. Len(s) + 1 /\ q[j] = s[j]
        BY <1>1
      <3>2. \A k \in j + 1 .. Len(s) + 1 : q[k].type # t
        <4> TAKE k \in j + 1 .. Len(s) + 1
        <4>1. k = Len(s) + 1 \/ (k \in 1 .. Len(s) /\ k \in j + 1 .. Len(s))
          BY <1>1
        <4> QED
          BY <1>1, <2>1, <4>1, Zenon
      <3> QED
        BY <3>1, <3>2 DEF Carried
    <2> QED
      BY <1>5, <2>2, <2>3 DEF Carried
  <1> QED
    BY <1>4, <1>5 DEF q

----------------------------------------------------------------------------
(* What the operators on a buffer do to the flow *)

\* Frames of type t that follow what the buffer b holds, where no record is open.
LEMMA FlowRun ==
  ASSUME NEW s \in Seq(GoodFrames), NEW r \in Seq(GoodFrames), NEW t \in Types, NEW v \in Int,
         NEW w \in [Types -> Int], Ordered(s), \A y \in Types : Carried(s, Len(s), y, w[y]),
         Run(r, t, w[t], v)
  PROVE  /\ Ordered(s \o r)
         /\ \A y \in Types : Carried(s \o r, Len(s \o r), y, [w EXCEPT ![t] = v][y])
  <1> DEFINE q == s \o r
             z == [w EXCEPT ![t] = v]
  <1>1. Carried(s, Len(s), t, w[t])
    OBVIOUS
  <1>2. /\ Ordered(q) /\ Carried(q, Len(q), t, v)
        /\ \A y \in Types : \A x : y # t /\ Carried(s, Len(s), y, x) => Carried(q, Len(q), y, x)
    <2> DEFINE u == w[t]
    <2>1. Carried(s, Len(s), t, u) /\ Run(r, t, u, v)
      BY <1>1
    <2> HIDE DEF u
    <2> QED
      BY <2>1, RunOrdered, Zenon
  <1>3. z[t] = v /\ \A y \in Types : y # t => z[y] = w[y]
    OBVIOUS
  <1> HIDE DEF q, z
  <1>4. Ordered(q) /\ \A y \in Types : Carried(q, Len(q), y, z[y])
    BY <1>2, <1>3, Zenon
  <1> QED
    BY <1>4 DEF q, z

\* The flow depends on the records and on what is in the open one.
LEMMA FlowSame ==
  ASSUME NEW s, NEW b, NEW c, NEW w, NEW z, Flow(s, b, w), c.recs = b.recs,
         \A y \in Types : z[y] - Pending(c, y) = w[y] - Pending(b, y)
  PROVE  Flow(s, c, z)
  <1> DEFINE q == s \o b.recs
  <1>1. Plain(c.recs) /\ s \o c.recs = q /\ Ordered(q)
    BY DEF Flow
  <1>2. \A y \in Types : Carried(q, Len(q), y, w[y] - Pending(b, y))
    BY DEF Flow
  <1> HIDE DEF q
  <1>3. \A y \in Types : Carried(q, Len(q), y, z[y] - Pending(c, y))
    BY <1>2
  <1> QED
    BY <1>1, <1>3, Zenon DEF Flow

LEMMA FlowOpen ==
  ASSUME NEW s, NEW b, NEW t \in Types, NEW w \in [Types -> Int], Fine(b, BufSize), Flow(s, b, w),
         b.hdr \in {"none", t}
  PROVE  Flow(s, OpenPacket(b, t), w) /\ OpenPacket(b, t).hdr = t
  <1>1. CASE b.hdr = t
    <2>1. t # "none"
      BY BufAssumption
    <2> QED
      BY <1>1, <2>1 DEF OpenPacket
  <1>2. CASE b.hdr = "none"
    <2> DEFINE o == OpenPacket(b, t)
    <2>1. /\ o.recs = b.recs /\ o.hdr = t /\ o.start = b.pos /\ o.pos = b.pos + HdrSize
          /\ b.pos \in Nat
      BY <1>2 DEF OpenPacket, Fine, Within, IsBuffer
    <2>2. "none" \notin Types
      BY BufAssumption
    <2> HIDE DEF o
    <2>3. \A y \in Types : Pending(o, y) = 0 /\ Pending(b, y) = 0
      BY <1>2, <2>1, <2>2 DEF Pending, HdrSize
    <2>4. Flow(s, o, w)
      BY <2>1, <2>3, FlowSame
    <2> QED
      BY <2>1, <2>4 DEF o
  <1> QED
    BY <1>1, <1>2

LEMMA FlowPut ==
  ASSUME NEW s, NEW b, NEW t \in Types, NEW n \in Nat, NEW max \in Nat, NEW w \in [Types -> Int],
         Fine(b, max), Flow(s, b, w), b.hdr = t
  PROVE  Flow(s, Put(b, n), [w EXCEPT ![t] = @ + n]) /\ Put(b, n).hdr = t
  <1> DEFINE o == Put(b, n)
             z == [w EXCEPT ![t] = @ + n]
  <1>1. /\ o.recs = b.recs /\ o.hdr = t /\ o.start = b.start /\ o.pos = b.pos + n
        /\ b.pos \in Nat /\ b.start \in Nat
    BY PutIs DEF Fine, Within
  <1>2. z[t] = w[t] + n /\ w[t] \in Int /\ \A y \in Types : y # t => z[y] = w[y]
    OBVIOUS
  <1> HIDE DEF o, z
  <1>3. \A y \in Types : z[y] - Pending(o, y) = w[y] - Pending(b, y)
    <2> TAKE y \in Types
    <2>1. CASE y = t
      BY <1>1, <1>2, <2>1 DEF Pending, HdrSize
    <2>2. CASE y # t
      BY <1>1, <1>2, <2>2 DEF Pending
    <2> QED
      BY <2>1, <2>2
  <1>4. Flow(s, o, z)
    BY <1>1, <1>3, FlowSame
  <1> QED
    BY <1>1, <1>4 DEF o, z

\* close_packet; the record that it closes carries the bytes up to w of its type.
LEMMA FlowClose ==
  ASSUME NEW s \in Seq(GoodFrames), NEW b, NEW w \in [Types -> Int], NEW upto \in Int,
         Fine(b, BufSize + HdrSize), Flow(s, b, w), b.hdr # "none" => upto = w[b.hdr]
  PROVE  Flow(s, ClosePacket(b, upto), w) /\ ClosePacket(b, upto).hdr = "none"
  <1>1. CASE b.hdr = "none"
    BY <1>1 DEF ClosePacket
  <1>2. CASE b.hdr # "none"
    <2> DEFINE c == ClosePacket(b, upto)
               f == Closed(b, upto)
               t == b.hdr
               n == b.pos - (b.start + HdrSize)
               q == s \o b.recs
               z == [y \in Types |-> w[y] - Pending(b, y)]
    <2>1. c.recs = Append(b.recs, f) /\ c.hdr = "none"
      BY <1>2 DEF ClosePacket, Fine, Within, IsBuffer
    <2>2. t \in Types /\ b.recs \in Seq(GoodFrames) /\ upto = w[t] /\ "none" \notin Types
      BY <1>2, BufAssumption DEF Fine, Good
    <2>3. n \in Int /\ f.type = t /\ f.n = n /\ f.from = upto - n
      BY DEF Closed, Fine, Within, HdrSize
    <2>4. Good(c)
      BY CloseGood DEF Fine
    <2>5. f \in GoodFrames
      <3>1. Len(b.recs) \in Nat /\ Len(b.recs) + 1 \in 1 .. Len(c.recs)
            /\ c.recs[Len(b.recs) + 1] = f /\ c.recs \in Seq(GoodFrames)
        <4> HIDE DEF f, c
        <4> QED
          BY <2>1, <2>2, <2>4 DEF Good
      <3> HIDE DEF f, c
      <3> QED
        BY <3>1
    <2> HIDE DEF f, c
    <2>6. q \in Seq(GoodFrames) /\ <<f>> \in Seq(GoodFrames) /\ s \o c.recs = q \o <<f>>
      BY <2>1, <2>2, <2>5
    <2>7. \A y \in Types : Pending(b, y) \in Int /\ Pending(c, y) = 0
      BY <2>1, <2>2, <2>3 DEF Pending
    <2>8. z \in [Types -> Int] /\ z[t] = upto - n /\ [z EXCEPT ![t] = upto] = w
      <3>1. z \in [Types -> Int]
        BY <2>7
      <3>2. z[t] = upto - n
        BY <2>2 DEF Pending
      <3>3. \A y \in Types : y # t => z[y] = w[y]
        BY DEF Pending
      <3> HIDE DEF z
      <3> QED
        BY <2>2, <3>1, <3>2, <3>3
    <2>9. Ordered(q) /\ \A y \in Types : Carried(q, Len(q), y, z[y])
      BY DEF Flow
    <2>10. Run(<<f>>, t, z[t], upto)
      <3>1. Len(<<f>>) = 1 /\ <<f>>[1] = f
        OBVIOUS
      <3>2. f.from = z[t] /\ f.from + f.n = upto
        BY <2>3, <2>8
      <3> HIDE DEF z, n, t
      <3> QED
        BY <3>1, <3>2, <2>3 DEF Run
    <2> HIDE DEF q, z, n, t
    <2>11. Ordered(q \o <<f>>) /\ \A y \in Types : Carried(q \o <<f>>, Len(q \o <<f>>), y, w[y])
      <3>1. /\ Ordered(q \o <<f>>)
            /\ \A y \in Types : Carried(q \o <<f>>, Len(q \o <<f>>), y, [z EXCEPT ![t] = upto][y])
        BY <2>2, <2>6, <2>8, <2>9, <2>10, FlowRun, Zenon
      <3> QED
        BY <2>8, <3>1, Zenon
    <2>12. Plain(c.recs)
      <3>1. Plain(b.recs)
        BY DEF Flow
      <3> QED
        BY <2>1, <2>2, <2>3, <3>1 DEF Plain
    <2>13. \A y \in Types : w[y] - Pending(c, y) = w[y]
      BY <2>7
    <2>14. Flow(s, c, w)
      BY <2>6, <2>11, <2>12, <2>13, Zenon DEF Flow
    <2> QED
      BY <2>1, <2>14 DEF c
  <1> QED
    BY <1>1, <1>2

\* The records of the buffer leave.
LEMMA FlowSent ==
  ASSUME NEW s \in Seq(GoodFrames), NEW b, NEW c, NEW w \in [Types -> Int], Good(b),
         Flow(s, b, w), b.hdr = "none", c.recs = <<>>, c.hdr = "none"
  PROVE  Flow(s \o b.recs, c, w)
  <1> DEFINE q == s \o b.recs
  <1>1. q \in Seq(GoodFrames) /\ q \o c.recs = q
    BY DEF Good
  <1>2. \A y \in Types : Pending(b, y) = 0 /\ Pending(c, y) = 0
    BY BufAssumption DEF Pending
  <1>3. Ordered(q) /\ \A y \in Types : Carried(q, Len(q), y, w[y] - Pending(b, y))
    BY DEF Flow
  <1>4. Plain(c.recs)
    BY DEF Plain
  <1> HIDE DEF q
  <1>5. Flow(q, c, w)
    BY <1>1, <1>2, <1>3, <1>4 DEF Flow
  <1> QED
    BY <1>5 DEF q

----------------------------------------------------------------------------
(* What the calls do to the flow *)

LEMMA BufferIs ==
  ASSUME NEW b, NEW max \in Nat, Fine(b, max), Becomes(b)
  PROVE  Buffer' = b
  BY DEF Becomes, Buffer, Fine, Within, IsBuffer

LEMMA TurnedFlow ==
  ASSUME NEW t \in Types, BufInv, Flow(sent, Buffer, written)
  PROVE  Flow(sent, Turned(t), written) /\ Turned(t).hdr \in {"none", t}
  <1>1. /\ Fine(Buffer, BufSize + HdrSize) /\ Upto(Buffer) \in Int /\ Buffer.hdr = out_hdr
        /\ Buffer.hdr # "none" => Upto(Buffer) = written[Buffer.hdr]
    <2>1. Fine(Buffer, BufSize) /\ Upto(Buffer) \in Int
      BY UptoInt DEF BufInv, Fine
    <2>2. Buffer.hdr # "none" => Upto(Buffer) = written[Buffer.hdr]
      BY DEF Upto
    <2>3. Fine(Buffer, BufSize + HdrSize)
      BY <2>1, BufAssumption DEF Fine, Within, HdrSize
    <2> QED
      BY <2>1, <2>2, <2>3 DEF Buffer
  <1>2. sent \in Seq(GoodFrames) /\ written \in [Types -> Int]
    BY DEF BufInv
  <1> DEFINE c == ClosePacket(Buffer, Upto(Buffer))
  <1>3. Flow(sent, c, written) /\ c.hdr = "none"
    BY <1>1, <1>2, FlowClose, Zenon
  <1> HIDE DEF c
  <1>4. Turned(t) = IF out_hdr \notin {"none", t} THEN c ELSE Buffer
    BY DEF Turned, c
  <1> QED
    BY <1>1, <1>3, <1>4, Zenon

LEMMA FitsFlow ==
  ASSUME NEW t \in Types, NEW n \in Nat, BufInv, Flow(sent, Buffer, written), WriteFits(t, n)
  PROVE  Flow(sent', Buffer', written') /\ sent' = sent
  <1> DEFINE b == Turned(t)
             o == OpenPacket(b, t)
             z == [written EXCEPT ![t] = @ + n]
  <1>1. Fine(b, BufSize) /\ Flow(sent, b, written) /\ b.hdr \in {"none", t} /\ n < Limit(b)
    BY TurnedFine, TurnedFlow DEF WriteFits
  <1>2. Becomes(Put(o, n)) /\ sent' = sent /\ written' = z
    BY DEF WriteFits, Count
  <1>3. written \in [Types -> Int]
    BY DEF BufInv
  <1> HIDE DEF b, z
  <1>4. /\ Fine(o, BufSize + HdrSize) /\ o.hdr # "none"
        /\ o.pos = IF b.hdr = "none" THEN b.pos + HdrSize ELSE b.pos
    BY <1>1, OpenFine, Zenon
  <1>5. Flow(sent, o, written) /\ o.hdr = t
    <2>1. Fine(b, BufSize) /\ Flow(sent, b, written) /\ b.hdr \in {"none", t}
      BY <1>1, Zenon
    <2> QED
      BY <2>1, <1>3, FlowOpen
  <1> HIDE DEF o
  <1>6. o.pos + n <= BufSize + EndSize /\ o.pos + n \in Nat
    BY <1>1, <1>4, BufAssumption DEF Limit, Max2, HdrSize, EndSize, Fine, Within
  <1>7. Fine(Put(o, n), o.pos + n)
    BY <1>4, <1>6, Sizes, PutFine, Zenon
  <1>8. Buffer' = Put(o, n)
    BY <1>2, <1>6, <1>7, BufferIs, Zenon
  <1>9. Flow(sent, Put(o, n), z)
    BY <1>3, <1>4, <1>5, Sizes, FlowPut, Zenon DEF z
  <1> QED
    BY <1>2, <1>8, <1>9, Zenon

LEMMA FlushFlow ==
  ASSUME NEW t \in Types, NEW n \in Nat, BufInv, Flow(sent, Buffer, written), WriteFlush(t, n),
         broken' # TRUE
  PROVE  /\ Flow(sent', Buffer', written')
         /\ \E fr \in Seq(GoodFrames) : Plain(fr) /\ sent' = sent \o fr
  <1> DEFINE b == Turned(t)
             limit == Limit(b)
             o == OpenPacket(b, t)
             p == Put(o, limit)
             full == ClosePacket(p, written[t] + limit)
             e == Emptied(full)
             q == OpenPacket(e, t)
             r == Put(q, n - limit)
             w1 == [written EXCEPT ![t] = @ + limit]
  <1>1. Fine(b, BufSize)
    BY TurnedFine
  <1>19. Flow(sent, b, written) /\ b.hdr \in {"none", t}
    BY TurnedFlow
  <1>2. limit \in Nat /\ written[t] + limit \in Int /\ written \in [Types -> Int]
        /\ sent \in Seq(GoodFrames)
    <2>1. limit \in Nat
      BY <1>1, BufAssumption DEF Limit, Max2, HdrSize, Fine, Within
    <2>2. written[t] \in Int /\ written \in [Types -> Int] /\ sent \in Seq(GoodFrames)
      BY DEF BufInv
    <2> QED
      BY <2>1, <2>2
  <1>3. n >= limit /\ n - limit < BufSize - HdrSize /\ n - limit \in Nat
    BY <1>2 DEF WriteFlush
  <1>4. /\ (n <= limit /\ Becomes(e)) \/ (n > limit /\ Becomes(r))
        /\ sent' = sent \o full.recs /\ written' = [written EXCEPT ![t] = @ + n]
    <2>1. Sends(full.recs, TRUE) /\ Becomes(IF n > limit THEN r ELSE e) /\ Count(t, n)
      <3>1. ~Sends(full.recs, FALSE)
        BY Zenon DEF Sends
      <3> QED
        BY <3>1, Zenon DEF WriteFlush
    <2>2. sent' = sent \o full.recs /\ written' = [written EXCEPT ![t] = @ + n]
      BY <2>1 DEF Sends, Count
    <2> HIDE DEF full, e, r
    <2> QED
      BY <1>2, <2>1, <2>2
  <1>5. /\ Fine(o, BufSize + HdrSize) /\ o.hdr # "none"
        /\ o.pos = IF b.hdr = "none" THEN b.pos + HdrSize ELSE b.pos
    BY <1>1, OpenFine, Zenon
  <1>6. /\ o.pos + limit <= BufSize + HdrSize /\ o.pos + limit <= BufSize + EndSize
        /\ o.pos + limit \in Nat
    <2>1. limit \in Nat /\ b.pos \in Nat /\ b.pos <= BufSize
      BY <1>1, <1>2 DEF Fine, Within
    <2>2. limit = IF b.hdr = "none" THEN Max2(0, BufSize - b.pos - HdrSize) ELSE BufSize - b.pos
      BY DEF Limit
    <2> HIDE DEF limit, b, o
    <2> QED
      BY <1>5, <2>1, <2>2, BufAssumption DEF Max2, HdrSize, EndSize
  <1> HIDE DEF b, limit
  <1>7. Flow(sent, o, written) /\ o.hdr = t
    <2>1. written \in [Types -> Int]
      BY <1>2, Zenon
    <2> QED
      BY <1>1, <1>19, <2>1, FlowOpen
  <1> HIDE DEF o
  <1>8. Fine(p, BufSize + HdrSize)
    <2>1. Fine(p, o.pos + limit)
      BY <1>2, <1>5, <1>6, Sizes, PutFine, Zenon
    <2> HIDE DEF p
    <2> QED
      BY <2>1, <1>6, Sizes DEF Fine, Within
  <1>9. Flow(sent, p, w1) /\ p.hdr = t
    <2> DEFINE max == BufSize + HdrSize
    <2>1. /\ limit \in Nat /\ max \in Nat /\ written \in [Types -> Int]
          /\ Fine(o, max) /\ Flow(sent, o, written) /\ o.hdr = t
      BY <1>2, <1>5, <1>7, Sizes
    <2> HIDE DEF max
    <2>2. Flow(sent, Put(o, limit), w1)
      BY <2>1, FlowPut, Zenon
    <2>3. Put(o, limit).hdr = t
      BY <2>1, PutIs DEF Fine, Within
    <2> QED
      BY <2>2, <2>3
  <1> HIDE DEF p
  <1>10. /\ w1 \in [Types -> Int] /\ w1[t] = written[t] + limit
         /\ [w1 EXCEPT ![t] = @ + (n - limit)] = [written EXCEPT ![t] = @ + n]
    <2>1. w1 \in [Types -> Int] /\ w1[t] = written[t] + limit
          /\ \A y \in Types : y # t => w1[y] = written[y]
      BY <1>2
    <2>2. w1[t] + (n - limit) = written[t] + n
      <3>1. written[t] \in Int
        BY <1>2
      <3> QED
        BY <1>2, <1>3, <2>1, <3>1
    <2> HIDE DEF w1
    <2> QED
      BY <1>2, <2>1, <2>2, Zenon
  <1> HIDE DEF w1
  <1>11. Flow(sent, full, w1) /\ full.hdr = "none"
    <2>1. p.hdr # "none" => written[t] + limit = w1[p.hdr]
      BY <1>9, <1>10
    <2>2. /\ sent \in Seq(GoodFrames) /\ w1 \in [Types -> Int] /\ written[t] + limit \in Int
          /\ Fine(p, BufSize + HdrSize) /\ Flow(sent, p, w1)
      BY <1>2, <1>8, <1>9, <1>10
    <2> QED
      BY <2>1, <2>2, FlowClose, Zenon
  <1>12. Fine(full, BufSize + HdrSize)
    BY <1>2, <1>8, CloseFine, Zenon
  <1> HIDE DEF full
  <1>13. full.recs \in Seq(GoodFrames) /\ Plain(full.recs) /\ Good(full)
    BY <1>11, <1>12 DEF Fine, Good, Flow
  <1>14. Fine(e, 0) /\ e.hdr = "none" /\ e.recs = <<>>
    <2>1. Fine(e, 0) /\ e.hdr = "none"
      BY <1>12, Sizes, EmptiedFine, Zenon
    <2> QED
      BY <2>1 DEF Emptied
  <1>15. Flow(sent', e, w1)
    BY <1>2, <1>4, <1>10, <1>11, <1>13, <1>14, FlowSent, Zenon
  <1> HIDE DEF e
  <1>16. Fine(e, BufSize) /\ e.pos = 0
    BY <1>14, BufAssumption DEF Fine, Within
  <1>17. CASE n <= limit /\ Becomes(e)
    <2>1. Buffer' = e
      BY <1>16, <1>17, Sizes, BufferIs, Zenon
    <2>2. [written EXCEPT ![t] = @ + n] = w1
      <3>1. n = limit
        BY <1>2, <1>3, <1>17
      <3> QED
        BY <3>1 DEF w1
    <2> QED
      BY <1>4, <1>13, <1>15, <2>1, <2>2, Zenon
  <1>18. CASE n > limit /\ Becomes(r)
    <2>1. /\ Fine(q, BufSize + HdrSize) /\ q.hdr # "none"
          /\ q.pos = IF e.hdr = "none" THEN e.pos + HdrSize ELSE e.pos
      BY <1>16, OpenFine, Zenon
    <2>2. Flow(sent', q, w1) /\ q.hdr = t
      <3>1. /\ w1 \in [Types -> Int] /\ Fine(e, BufSize) /\ Flow(sent', e, w1)
            /\ e.hdr \in {"none", t}
        BY <1>10, <1>14, <1>15, <1>16
      <3> QED
        BY <3>1, FlowOpen
    <2> HIDE DEF q
    <2>3. q.pos + (n - limit) \in Nat /\ q.pos + (n - limit) <= BufSize + EndSize
      BY <1>2, <1>3, <1>14, <1>16, <2>1, BufAssumption DEF HdrSize, EndSize
    <2>4. Fine(r, q.pos + (n - limit))
      BY <1>3, <2>1, <2>3, Sizes, PutFine, Zenon
    <2>5. Buffer' = r
      BY <1>18, <2>3, <2>4, BufferIs, Zenon
    <2>6. Flow(sent', r, [w1 EXCEPT ![t] = @ + (n - limit)])
      BY <1>3, <1>10, <2>1, <2>2, Sizes, FlowPut, Zenon
    <2> QED
      BY <1>4, <1>10, <1>13, <2>5, <2>6, Zenon
  <1> QED
    BY <1>4, <1>17, <1>18, Zenon

\* The records that bypass the buffer are a run.
LEMMA DirectRun ==
  ASSUME NEW t, NEW k \in Nat, NEW u \in Int, NEW len \in Nat
  PROVE  LET r == [i \in 1 .. k |-> Direct(t, Chunk, u + (i - 1) * Chunk)]
                  \o <<Direct(t, len, u + k * Chunk)>>
         IN  Run(r, t, u, u + k * Chunk + len)
  <1> DEFINE chunks == [i \in 1 .. k |-> Direct(t, Chunk, u + (i - 1) * Chunk)]
             last == Direct(t, len, u + k * Chunk)
             r == chunks \o <<last>>
  <1>1. Chunk \in Nat
    BY BufAssumption DEF Chunk, HdrSize
  <1> DEFINE C == Chunk
  <1>2. C \in Nat
    BY <1>1
  <1> HIDE DEF C
  <1>3. /\ 0 * C = 0
        /\ \A i \in Int : i * C \in Int /\ (i - 1) * C = (i - 1 - 1) * C + C
    BY <1>2
  <1>4. Len(r) = k + 1 /\ r[k + 1] = last /\ \A i \in 1 .. k : r[i] = chunks[i]
    <2>1. chunks \in Seq({chunks[i] : i \in 1 .. k}) /\ Len(chunks) = k
      <3>1. DOMAIN chunks = 1 .. k
        OBVIOUS
      <3> HIDE DEF chunks
      <3>2. chunks \in [1 .. k -> {chunks[i] : i \in 1 .. k}]
        <4>1. chunks = [i \in 1 .. k |-> chunks[i]]
          BY DEF chunks
        <4> QED
          BY <4>1
      <3> QED
        BY <3>2
    <2> DEFINE S == {chunks[i] : i \in 1 .. k}
    <2> HIDE DEF chunks, last, S
    <2>2. chunks \in Seq(S) /\ Len(chunks) = k
      BY <2>1 DEF S
    <2>3. chunks \in Seq(S \cup {last}) /\ <<last>> \in Seq(S \cup {last})
      BY <2>2
    <2> QED
      BY <2>2, <2>3
  <1>5. \A i \in 1 .. k + 1 :
          r[i].type = t /\ r[i].from = u + (i - 1) * C /\ (i <= k => r[i].n = C)
    <2> TAKE i \in 1 .. k + 1
    <2>1. CASE i = k + 1
      <3>1. r[i] = last /\ i - 1 = k /\ ~(i <= k)
        BY <1>4, <2>1
      <3>2. last.type = t /\ last.from = u + k * C
        BY DEF Direct, C
      <3> HIDE DEF r, last
      <3> QED
        BY <3>1, <3>2
    <2>2. CASE i # k + 1
      <3>1. i \in 1 .. k
        BY <2>2
      <3>2. r[i] = Direct(t, C, u + (i - 1) * C)
        BY <1>4, <3>1 DEF C
      <3> HIDE DEF r
      <3> QED
        BY <3>2 DEF Direct
    <2> QED
      BY <2>1, <2>2
  <1>6. last.from = u + k * C /\ last.n = len
    BY DEF Direct, C
  <1> HIDE DEF r, last, chunks
  <1>7. \A i \in 1 .. Len(r) :
          r[i].type = t /\ r[i].from = IF i = 1 THEN u ELSE r[i - 1].from + r[i - 1].n
    <2> SUFFICES ASSUME NEW i \in 1 .. k + 1
                 PROVE  r[i].type = t
                        /\ r[i].from = IF i = 1 THEN u ELSE r[i - 1].from + r[i - 1].n
      BY <1>4
    <2>1. r[i].type = t /\ r[i].from = u + (i - 1) * C
      BY <1>5
    <2>2. CASE i = 1
      <3>1. (i - 1) * C = 0
        BY <1>3, <2>2
      <3> QED
        BY <2>1, <2>2, <3>1
    <2>3. CASE i # 1
      <3>1. i - 1 \in 1 .. k + 1 /\ i - 1 <= k /\ i \in Int /\ i - 1 - 1 \in Int
        BY <2>3
      <3>2. r[i - 1].from = u + (i - 1 - 1) * C /\ r[i - 1].n = C
        BY <1>5, <3>1
      <3>3. (i - 1) * C = (i - 1 - 1) * C + C /\ (i - 1 - 1) * C \in Int
        BY <1>3, <3>1, Zenon
      <3> DEFINE x == (i - 1 - 1) * C
                 y == (i - 1) * C
      <3>4. x \in Int /\ y = x + C /\ r[i - 1].from = u + x /\ r[i].from = u + y
        BY <2>1, <3>2, <3>3
      <3> HIDE DEF x, y
      <3>5. r[i].from = r[i - 1].from + r[i - 1].n
        BY <1>2, <3>2, <3>4
      <3> QED
        BY <2>1, <2>3, <3>5
    <2> QED
      BY <2>2, <2>3
  <1>8. u + k * C + len = r[Len(r)].from + r[Len(r)].n /\ Len(r) # 0
    BY <1>4, <1>6
  <1>9. Run(r, t, u, u + k * C + len)
    BY <1>7, <1>8 DEF Run
  <1> QED
    BY <1>9 DEF r, chunks, last, C

LEMMA DirectFlow ==
  ASSUME NEW t \in Types, NEW n \in Nat, BufInv, Flow(sent, Buffer, written), WriteDirect(t, n),
         broken' # TRUE
  PROVE  /\ Flow(sent', Buffer', written')
         /\ \E fr \in Seq(GoodFrames) : Plain(fr) /\ sent' = sent \o fr
  <1> DEFINE b == Turned(t)
             c == ClosePacket(b, Upto(b))
             k == Chunks(n)
             m == n - k * Chunk
             chunks == [i \in 1 .. k |-> Direct(t, Chunk, written[t] + (i - 1) * Chunk)]
             last == Direct(t, m - Rest(m), written[t] + k * Chunk)
             run == chunks \o <<last>>
             frames == c.recs \o chunks \o <<last>>
             hdr == Max2(HeaderEnd(IF k > 0 THEN 0 ELSE c.pos, m - Rest(m)),
                         IF k > 0 THEN HeaderEnd(c.pos, Chunk) ELSE 0)
             e == Emptied(c)
             done == [e EXCEPT !.peak = Max2(@, hdr)]
             q == OpenPacket(done, t)
             r == Put(q, Rest(m))
             v == written[t] + k * Chunk + (m - Rest(m))
             w1 == [written EXCEPT ![t] = v]
  <1>1. /\ Becomes(IF Rest(m) > 0 THEN r ELSE done)
        /\ sent' = sent \o frames /\ written' = [written EXCEPT ![t] = @ + n]
    <2>1. ~Sends(frames, FALSE)
      BY Zenon DEF Sends
    <2>2. Sends(frames, TRUE) /\ Becomes(IF Rest(m) > 0 THEN r ELSE done) /\ Count(t, n)
      BY <2>1, Zenon DEF WriteDirect
    <2> QED
      BY <2>2, Zenon DEF Sends, Count
  <1>2. Fine(b, BufSize) /\ Upto(b) \in Int
    BY TurnedFine, UptoInt DEF Fine
  <1>3. Flow(sent, b, written) /\ (b.hdr # "none" => Upto(b) = written[b.hdr])
    BY TurnedFlow DEF Upto
  <1>4. sent \in Seq(GoodFrames) /\ written \in [Types -> Int] /\ written[t] \in Int
    BY DEF BufInv
  <1> HIDE DEF b
  <1>5. Fine(c, BufSize) /\ c.hdr = "none"
    BY <1>2, CloseFine, Zenon
  <1>6. Flow(sent, c, written)
    <2>1. Fine(b, BufSize + HdrSize)
      BY <1>2, BufAssumption DEF Fine, Within, HdrSize
    <2> QED
      BY <1>2, <1>3, <1>4, <2>1, FlowClose, Zenon
  <1> HIDE DEF c
  <1>7. c.recs \in Seq(GoodFrames) /\ Plain(c.recs) /\ Good(c)
    BY <1>5, <1>6 DEF Fine, Good, Flow
  <1>8. /\ Chunk \in 0 .. MaxContent /\ Pad(Chunk) = 0 /\ k \in Nat
        /\ m \in 0 .. MaxContent /\ k * Chunk \in Int /\ m = n - k * Chunk
    <2>1. Chunk \in 0 .. MaxContent /\ Pad(Chunk) = 0 /\ k \in Nat /\ m \in 0 .. MaxContent
      BY ChunksFit
    <2> HIDE DEF k
    <2> QED
      BY <2>1, BufAssumption
  <1>9. \A i \in 1 .. k : (i - 1) * Chunk \in Int
    BY <1>8, BufAssumption
  <1> HIDE DEF k, m
  <1>10. /\ Pad(m - Rest(m)) = 0 /\ Rest(m) \in 0 .. 7 /\ m - Rest(m) \in 0 .. MaxContent
         /\ Rest(m) \in Nat /\ m - Rest(m) \in Nat
    <2>1. Pad(m - Rest(m)) = 0 /\ Rest(m) \in 0 .. 7
      BY <1>8, RestRounds, BufAssumption
    <2>2. \A i \in Nat : Rest(i) <= i
      BY SMTT(30) DEF Rest, Pad
    <2> QED
      BY <1>8, <2>1, <2>2, BufAssumption
  <1>11. v \in Int /\ v + Rest(m) = written[t] + n
    <2> DEFINE x == k * Chunk
               y == written[t]
               z == Rest(m)
    <2>1. x \in Int /\ y \in Int /\ z \in Int /\ m = n - x /\ v = y + x + (m - z)
      BY <1>4, <1>8, <1>10
    <2> HIDE DEF x, y, z, v
    <2>2. v \in Int /\ v + z = y + n
      BY <2>1
    <2> QED
      BY <2>2 DEF y, z
  <1>12. last \in GoodFrames
    <2>1. written[t] + k * Chunk \in Int
      BY <1>4, <1>8
    <2> QED
      BY <2>1, <1>10, DirectGood, Zenon
  <1>13. chunks \in Seq(GoodFrames)
    <2>1. \A i \in 1 .. k : Direct(t, Chunk, written[t] + (i - 1) * Chunk) \in GoodFrames
      <3> TAKE i \in 1 .. k
      <3>1. written[t] + (i - 1) * Chunk \in Int
        BY <1>4, <1>9
      <3> QED
        BY <3>1, <1>8, DirectGood, Zenon
    <2> QED
      BY <2>1, <1>8
  <1>14. Run(run, t, written[t], v)
    BY <1>4, <1>8, <1>10, DirectRun, Zenon
  <1> HIDE DEF last, chunks, v
  <1>15. run \in Seq(GoodFrames) /\ <<last>> \in Seq(GoodFrames)
    BY <1>12, <1>13
  <1>16. /\ frames = c.recs \o run /\ frames \in Seq(GoodFrames)
         /\ sent \o frames = (sent \o c.recs) \o run
    <2>1. frames = c.recs \o run
      BY <1>7, <1>13, <1>15, JoinedTwice, Zenon
    <2> HIDE DEF run, frames
    <2>2. c.recs \o run \in Seq(GoodFrames)
      BY <1>7, <1>15
    <2>3. sent \o (c.recs \o run) = (sent \o c.recs) \o run
      BY <1>4, <1>7, <1>15, JoinedTwice, Zenon
    <2> QED
      BY <2>1, <2>2, <2>3, Zenon
  <1>17. Plain(frames)
    <2>1. \A i \in 1 .. Len(run) : run[i].type = t
      BY <1>14 DEF Run
    <2> HIDE DEF run, frames
    <2>2. ASSUME NEW i \in 1 .. Len(c.recs \o run) PROVE (c.recs \o run)[i].type \in Types
      <3>1. CASE i \in 1 .. Len(c.recs)
        BY <1>7, <1>15, <3>1, Joined DEF Plain
      <3>2. CASE i \notin 1 .. Len(c.recs)
        <4> DEFINE j == i - Len(c.recs)
        <4>1. j \in 1 .. Len(run) /\ i = Len(c.recs) + j
          BY <1>7, <1>15, <3>2
        <4> HIDE DEF j
        <4>2. (c.recs \o run)[i] = run[j]
          BY <1>7, <1>15, <4>1, Joined, Zenon
        <4> QED
          BY <2>1, <4>1, <4>2
      <3> QED
        BY <3>1, <3>2
    <2> QED
      BY <1>16, <2>2 DEF Plain
  <1> HIDE DEF run, frames
  <1>18. /\ Ordered(sent \o frames)
         /\ \A y \in Types : Carried(sent \o frames, Len(sent \o frames), y, w1[y])
    <2> DEFINE s1 == sent \o c.recs
    <2>1. s1 \in Seq(GoodFrames)
      BY <1>4, <1>7
    <2>2. Ordered(s1) /\ \A y \in Types : Carried(s1, Len(s1), y, written[y])
      <3>1. \A y \in Types : written[y] - Pending(c, y) = written[y]
        BY <1>4, <1>5, BufAssumption DEF Pending
      <3> QED
        BY <1>6, <3>1 DEF Flow
    <2> HIDE DEF s1
    <2>3. /\ Ordered(s1 \o run)
          /\ \A y \in Types : Carried(s1 \o run, Len(s1 \o run), y, w1[y])
      BY <1>4, <1>11, <1>14, <1>15, <2>1, <2>2, FlowRun, Zenon
    <2>4. sent \o frames = s1 \o run
      BY <1>16 DEF s1
    <2> QED
      BY <2>3, <2>4, Zenon
  <1>19. /\ w1 \in [Types -> Int]
         /\ [w1 EXCEPT ![t] = @ + Rest(m)] = [written EXCEPT ![t] = @ + n]
    <2>1. w1 \in [Types -> Int] /\ w1[t] = v /\ \A y \in Types : y # t => w1[y] = written[y]
      BY <1>4, <1>11
    <2> HIDE DEF w1
    <2> QED
      BY <1>4, <1>11, <2>1, Zenon
  <1> HIDE DEF w1
  <1>20. hdr \in Nat /\ hdr <= BufSize + EndSize
    BY <1>5, <1>8, <1>10, BufAssumption DEF HeaderEnd, Max2, HdrSize, EndSize, Fine, Within
  <1>21. Fine(e, 0) /\ e.hdr = "none" /\ e.recs = <<>>
    <2>1. Fine(e, 0) /\ e.hdr = "none"
      BY <1>5, Sizes, EmptiedFine, Zenon
    <2> QED
      BY <2>1 DEF Emptied
  <1> HIDE DEF hdr, e
  <1>22. Fine(done, 0) /\ done.hdr = "none" /\ done.recs = <<>>
    <2>1. Fine(done, 0) /\ done.hdr = "none"
      BY <1>20, <1>21, PeakFine
    <2>2. done.recs = e.recs
      BY <1>21 DEF Fine, Within, IsBuffer
    <2> QED
      BY <1>21, <2>1, <2>2
  <1> HIDE DEF done
  <1>23. Fine(done, BufSize) /\ done.pos = 0
    BY <1>22, BufAssumption DEF Fine, Within
  <1>24. Flow(sent', done, w1)
    <2> DEFINE s2 == sent \o frames
    <2>1. s2 \in Seq(GoodFrames) /\ s2 \o done.recs = s2 /\ Plain(done.recs) /\ sent' = s2
      BY <1>1, <1>4, <1>16, <1>22 DEF Plain
    <2>2. \A y \in Types : w1[y] - Pending(done, y) = w1[y]
      BY <1>19, <1>22, BufAssumption DEF Pending
    <2>3. Ordered(s2) /\ \A y \in Types : Carried(s2, Len(s2), y, w1[y])
      BY <1>18
    <2> HIDE DEF s2
    <2> QED
      BY <2>1, <2>2, <2>3, Zenon DEF Flow
  <1>25. CASE ~(Rest(m) > 0)
    <2>1. Buffer' = done
      BY <1>1, <1>23, <1>25, Sizes, BufferIs
    <2>2. [written EXCEPT ![t] = @ + n] = w1
      <3>1. Rest(m) = 0
        BY <1>10, <1>25
      <3>2. [w1 EXCEPT ![t] = @ + 0] = w1
        BY <1>19
      <3> QED
        BY <1>19, <3>1, <3>2, Zenon
    <2> QED
      BY <1>1, <1>16, <1>17, <1>24, <2>1, <2>2, Zenon
  <1>26. CASE Rest(m) > 0
    <2>1. /\ Fine(q, BufSize + HdrSize) /\ q.hdr # "none"
          /\ q.pos = IF done.hdr = "none" THEN done.pos + HdrSize ELSE done.pos
      BY <1>23, OpenFine, Zenon
    <2>2. Flow(sent', q, w1) /\ q.hdr = t
      <3>1. /\ w1 \in [Types -> Int] /\ Fine(done, BufSize) /\ Flow(sent', done, w1)
            /\ done.hdr \in {"none", t}
        BY <1>19, <1>22, <1>23, <1>24
      <3> QED
        BY <3>1, FlowOpen
    <2> HIDE DEF q
    <2>3. q.pos + Rest(m) \in Nat /\ q.pos + Rest(m) <= BufSize + EndSize
      BY <1>10, <1>22, <1>23, <2>1, BufAssumption DEF HdrSize, EndSize
    <2>4. Fine(r, q.pos + Rest(m))
      BY <1>10, <2>1, <2>3, Sizes, PutFine, Zenon
    <2>5. Buffer' = r
      <3>1. Becomes(r)
        BY <1>1, <1>26
      <3> QED
        BY <2>3, <2>4, <3>1, BufferIs, Zenon
    <2>6. Flow(sent', r, [w1 EXCEPT ![t] = @ + Rest(m)])
      BY <1>10, <1>19, <2>1, <2>2, Sizes, FlowPut, Zenon
    <2> QED
      BY <1>1, <1>16, <1>17, <1>19, <2>5, <2>6, Zenon
  <1> QED
    BY <1>25, <1>26, Zenon

LEMMA FlushCallFlow ==
  ASSUME NEW close \in BOOLEAN, NEW ok \in BOOLEAN, BufInv, Flow(sent, Buffer, written),
         fcgi_flush(close, ok), broken' # TRUE
  PROVE  /\ Flow(sent', Buffer', written')
         /\ \A y \in Types : Carried(sent', Len(sent'), y, written[y])
         /\ \E fr \in Seq(GoodFrames) :
              Plain(fr) /\ sent' = IF close THEN Append(sent \o fr, EndFrame) ELSE sent \o fr
  <1> DEFINE c == ClosePacket(Buffer, Upto(Buffer))
             frames == IF close THEN Append(c.recs, EndFrame) ELSE c.recs
             x == IF close THEN c.pos + EndSize ELSE 0
             end == [c EXCEPT !.peak = Max2(@, x)]
             e == Emptied(end)
             s1 == sent \o c.recs
  <1>1. Becomes(e) /\ sent' = sent \o frames /\ written' = written
    <2>1. Becomes(e) /\ Sends(frames, ok) /\ written' = written
      BY DEF fcgi_flush
    <2> QED
      BY <2>1, Zenon DEF Sends
  <1>2. /\ Fine(Buffer, BufSize) /\ Upto(Buffer) \in Int
        /\ Buffer.hdr # "none" => Upto(Buffer) = written[Buffer.hdr]
    <2>1. Fine(Buffer, BufSize) /\ Upto(Buffer) \in Int
      BY UptoInt DEF BufInv, Fine
    <2> QED
      BY <2>1 DEF Upto
  <1>3. sent \in Seq(GoodFrames) /\ written \in [Types -> Int]
    BY DEF BufInv
  <1>4. Fine(c, BufSize) /\ c.hdr = "none"
    BY <1>2, CloseFine, Zenon
  <1>5. Flow(sent, c, written)
    <2>1. Fine(Buffer, BufSize + HdrSize)
      BY <1>2, BufAssumption DEF Fine, Within, HdrSize
    <2> QED
      BY <1>2, <1>3, <2>1, FlowClose, Zenon
  <1> HIDE DEF c
  <1>6. c.recs \in Seq(GoodFrames) /\ Plain(c.recs) /\ Good(c)
    BY <1>4, <1>5 DEF Fine, Good, Flow
  <1>7. s1 \in Seq(GoodFrames) /\ sent' = IF close THEN Append(s1, EndFrame) ELSE s1
    <2>1. EndFrame \in GoodFrames
      BY EndGood
    <2>2. ASSUME NEW s \in Seq(GoodFrames), NEW r \in Seq(GoodFrames), NEW f \in GoodFrames
          PROVE  s \o r \in Seq(GoodFrames) /\ s \o Append(r, f) = Append(s \o r, f)
      OBVIOUS
    <2>3. s1 \in Seq(GoodFrames) /\ sent \o Append(c.recs, EndFrame) = Append(s1, EndFrame)
      BY <1>3, <1>6, <2>1, <2>2, Zenon
    <2> QED
      BY <1>1, <2>3, Zenon
  <1>8. Ordered(s1) /\ \A y \in Types : Carried(s1, Len(s1), y, written[y])
    <2>1. \A y \in Types : written[y] - Pending(c, y) = written[y]
      BY <1>3, <1>4, BufAssumption DEF Pending
    <2> QED
      BY <1>5, <2>1 DEF Flow
  <1>9. e.recs = <<>> /\ e.hdr = "none" /\ Buffer' = e
    <2>1. e.recs = <<>> /\ e.hdr = "none"
      BY DEF Emptied
    <2>2. Buffer' = e
      BY <1>1 DEF Becomes, Buffer, Emptied
    <2> QED
      BY <2>1, <2>2
  <1>10. \E fr \in Seq(GoodFrames) :
           Plain(fr) /\ sent' = IF close THEN Append(sent \o fr, EndFrame) ELSE sent \o fr
    BY <1>6, <1>7
  <1> HIDE DEF e, s1
  <1>11. /\ Ordered(sent') /\ \A y \in Types : Carried(sent', Len(sent'), y, written[y])
         /\ sent' \o <<>> = sent'
    <2>1. CASE close
      <3> DEFINE s2 == Append(s1, EndFrame)
      <3>1. sent' = s2 /\ Len(s2) = Len(s1) + 1 /\ s2 \o <<>> = s2
        <4>1. EndFrame \in GoodFrames
          BY EndGood
        <4> QED
          BY <1>7, <2>1, <4>1
      <3>2. Ordered(s2) /\ \A y \in Types : Carried(s2, Len(s1) + 1, y, written[y])
        BY <1>7, <1>8, EndOrdered, Zenon
      <3> HIDE DEF s2
      <3> QED
        BY <3>1, <3>2
    <2>2. CASE ~close
      <3>1. sent' = s1 /\ s1 \o <<>> = s1
        BY <1>7, <2>2
      <3> QED
        BY <1>8, <3>1
    <2> QED
      BY <2>1, <2>2
  <1>12. Flow(sent', e, written)
    <2>1. Plain(e.recs)
      BY <1>9 DEF Plain
    <2>2. \A y \in Types : written[y] - Pending(e, y) = written[y]
      BY <1>3, <1>9, BufAssumption DEF Pending
    <2> QED
      BY <1>9, <1>11, <2>1, <2>2 DEF Flow
  <1> QED
    BY <1>1, <1>9, <1>10, <1>11, <1>12, Zenon

\* What fcgi_write does while the connection stands.
LEMMA WriteFlow ==
  ASSUME NEW t \in Types, NEW n \in Nat, BufInv, Flow(sent, Buffer, written), fcgi_write(t, n),
         broken' # TRUE
  PROVE  /\ Flow(sent', Buffer', written')
         /\ \E fr \in Seq(GoodFrames) : Plain(fr) /\ sent' = sent \o fr
  <1>1. CASE WriteFits(t, n)
    <2>1. Flow(sent', Buffer', written') /\ sent' = sent
      BY <1>1, FitsFlow
    <2>2. sent \in Seq(GoodFrames)
      BY DEF BufInv
    <2>3. <<>> \in Seq(GoodFrames) /\ Plain(<<>>) /\ sent \o <<>> = sent
      BY <2>2 DEF Plain
    <2> QED
      BY <2>1, <2>3, Zenon
  <1>2. CASE WriteFlush(t, n)
    BY <1>2, FlushFlow, Zenon
  <1>3. CASE WriteDirect(t, n)
    BY <1>3, DirectFlow, Zenon
  <1> QED
    BY <1>1, <1>2, <1>3 DEF fcgi_write

\* All that leaves is sent by safe_write.
LEMMA SendsOnly ==
  ASSUME NEW t, NEW n, NEW close, NEW ok \in BOOLEAN, fcgi_write(t, n) \/ fcgi_flush(close, ok)
  PROVE  \/ sent' = sent /\ broken' = broken
         \/ \E frames : \E o \in BOOLEAN : Sends(frames, o)
  <1>1. CASE WriteFits(t, n)
    BY <1>1 DEF WriteFits
  <1>2. CASE WriteFlush(t, n)
    <2>1. \E frames : Sends(frames, TRUE) \/ Sends(frames, FALSE)
      BY <1>2, Zenon DEF WriteFlush
    <2> QED
      BY <2>1, Zenon
  <1>3. CASE WriteDirect(t, n)
    <2>1. \E frames : Sends(frames, TRUE) \/ Sends(frames, FALSE)
      BY <1>3, Zenon DEF WriteDirect
    <2> QED
      BY <2>1, Zenon
  <1>4. CASE fcgi_flush(close, ok)
    <2>1. \E frames : Sends(frames, ok)
      BY <1>4 DEF fcgi_flush
    <2> QED
      BY <2>1, Zenon
  <1> QED
    BY <1>1, <1>2, <1>3, <1>4 DEF fcgi_write

\* A connection that broke stays so.
LEMMA StaysBroken ==
  ASSUME NEW t, NEW n, NEW close, NEW ok \in BOOLEAN, fcgi_write(t, n) \/ fcgi_flush(close, ok)
  PROVE  broken' = broken \/ broken' = TRUE
  <1>1. ASSUME NEW frames, NEW o \in BOOLEAN, Sends(frames, o)
        PROVE  broken' = broken \/ broken' = TRUE
    BY <1>1 DEF Sends
  <1> QED
    BY <1>1, SendsOnly, Zenon

\* Then, or when it is closed, nothing is sent.
LEMMA NothingSent ==
  ASSUME NEW t, NEW n, NEW close, NEW ok \in BOOLEAN, BufInv,
         fcgi_write(t, n) \/ fcgi_flush(close, ok), broken' = TRUE \/ ~fd
  PROVE  sent' = sent
  <1>1. sent \in Seq(GoodFrames) /\ sent \o <<>> = sent
    BY DEF BufInv
  <1>2. ASSUME NEW frames, NEW o \in BOOLEAN, Sends(frames, o)
        PROVE  sent' = sent
    BY <1>1, <1>2 DEF Sends
  <1> QED
    BY <1>2, SendsOnly, Zenon
============================================================================
