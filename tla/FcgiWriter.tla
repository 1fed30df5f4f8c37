---------------------------- MODULE FcgiWriter ----------------------------
(* How a worker frames its output in FastCGI records: fcgi_write, fcgi_flush  *)
(* and the buffer they share.  A record that left is a frame: its type, the   *)
(* length and padding its header announces, and what really follows: n bytes  *)
(* of the request's output of that type, from the byte number from, and       *)
(* padded bytes of padding.                                                   *)
EXTENDS Integers, Sequences

CONSTANTS
  BufSize,    \* sizeof(out_buf), 8192 in the code
  MaxContent, \* FCGI_MAX_LENGTH, 0xffff in the code
  Types,      \* FCGI_STDOUT and FCGI_STDERR
  Lens        \* the lengths that scripts write at once

HdrSize == 8
EndSize == 16

ASSUME BufAssumption ==
  /\ BufSize \in Nat /\ BufSize >= 2 * HdrSize /\ BufSize % 8 = 0
  /\ MaxContent \in Nat /\ MaxContent >= BufSize /\ MaxContent % 8 = 7
  /\ "none" \notin Types /\ "end" \notin Types
  /\ Lens \subseteq Nat \ {0}

VARIABLES
  fd,       \* whether req->fd >= 0
  recs,     \* closed records in out_buf
  out_pos,  \* as an offset in out_buf
  out_hdr,  \* the type of the open record, or "none"
  start,    \* the offset of its header
  sent,     \* frames that went to the client for this request
  written,  \* per type: how many bytes fcgi_write has taken
  peak,     \* history: the end of what was ever written to in out_buf
  broken    \* the client reads no more: every write fails

bufVars == <<recs, out_pos, out_hdr, start, peak>>
outVars == <<bufVars, sent, written, broken>>
writerVars == <<outVars, fd>>

Max2(a, b) == IF a > b THEN a ELSE b

\* The padding of fcgi_make_header.
Pad(n) == (8 - (n % 8)) % 8

\* The buffer as one value, and the empty buffer of a request.
Buffer == [recs |-> recs, pos |-> out_pos, hdr |-> out_hdr, start |-> start, peak |-> peak]
Emptied(b) == [recs |-> <<>>, pos |-> 0, hdr |-> "none", start |-> 0, peak |-> b.peak]

\* open_packet, unless a record is open.
OpenPacket(b, t) ==
  IF b.hdr # "none" THEN b
  ELSE [b EXCEPT !.hdr = t, !.start = b.pos, !.pos = b.pos + HdrSize,
                 !.peak = Max2(@, b.pos + HdrSize)]

\* memcpy of n bytes to out_pos.
Put(b, n) == [b EXCEPT !.pos = b.pos + n, !.peak = Max2(b.peak, b.pos + n)]

\* The frame that fcgi_make_header and close_packet make of the open record;
\* upto counts the bytes of its type that are written by then.
Closed(b, upto) ==
  LET n == b.pos - (b.start + HdrSize)
  IN  [type |-> b.hdr, len |-> n % (MaxContent + 1), pad |-> Pad(n),
       n |-> n, padded |-> Pad(n), from |-> upto - n]

ClosePacket(b, upto) ==
  IF b.hdr = "none" THEN b
  ELSE LET f == Closed(b, upto)
       IN  [b EXCEPT !.recs = Append(@, f), !.hdr = "none", !.pos = @ + f.padded,
                     !.peak = Max2(@, b.pos + f.padded)]

\* What is written of the type of the open record, or 0.
Upto(b) == IF b.hdr = "none" THEN 0 ELSE written[b.hdr]

Becomes(b) ==
  /\ recs' = b.recs /\ out_pos' = b.pos /\ out_hdr' = b.hdr /\ start' = b.start
  /\ peak' = b.peak

\* safe_write of frames: they leave, or the connection breaks and what the client
\* still got of them does not matter.  The result of the C function is ok.
Sends(frames, ok) ==
  \/ /\ ok /\ fd /\ (~broken \/ frames = <<>>)
     /\ sent' = sent \o frames /\ UNCHANGED broken
  \/ /\ ~ok /\ (frames # <<>> \/ ~fd)
     /\ broken' = TRUE /\ UNCHANGED sent

----------------------------------------------------------------------------
(* fcgi_write, by the room that is left in out_buf *)

\* The open record of another type is closed first.  Mutant: it is not.
MutTurned(t) == Buffer
Turned(t) == IF out_hdr \notin {"none", t} THEN ClosePacket(Buffer, Upto(Buffer)) ELSE Buffer

\* Mutant: there is room for content where the header of a new record will be.
MutLimit(b) == BufSize - b.pos
Limit(b) ==
  IF b.hdr = "none" THEN Max2(0, BufSize - b.pos - HdrSize) ELSE BufSize - b.pos

Count(t, n) == written' = [written EXCEPT ![t] = @ + n]

WriteFits(t, n) ==
  /\ n < Limit(Turned(t))
  /\ Becomes(Put(OpenPacket(Turned(t), t), n))
  /\ Count(t, n)
  /\ UNCHANGED <<sent, broken>>

\* The buffer is filled and flushed, the rest is put in a new record.
WriteFlush(t, n) ==
  LET limit == Limit(Turned(t))
      full == ClosePacket(Put(OpenPacket(Turned(t), t), limit), written[t] + limit)
      next == IF n > limit THEN Put(OpenPacket(Emptied(full), t), n - limit) ELSE Emptied(full)
  IN  /\ n >= limit /\ n - limit < BufSize - HdrSize
      /\ \/ Sends(full.recs, TRUE) /\ Becomes(next) /\ Count(t, n)
         \/ Sends(full.recs, FALSE) /\ Becomes(Emptied(full)) /\ UNCHANGED written

\* Longer output bypasses the buffer: records of Chunk bytes while more than
\* MaxContent are left, one that ends at a multiple of 8, and the last bytes in
\* a new record in the buffer.
Chunk == MaxContent - 7
Chunks(n) == IF n > MaxContent THEN (n - MaxContent + Chunk - 1) \div Chunk ELSE 0
\* Mutant: the last bytes leave with the others, and nothing pads them.
MutRest(m) == 0
Rest(m) == IF Pad(m) > 0 THEN 8 - Pad(m) ELSE 0

Direct(t, len, from) ==
  [type |-> t, len |-> len, pad |-> Pad(len), n |-> len, padded |-> 0, from |-> from]

\* Where fcgi_make_header's memset of the padding ends, for a header at pos.
HeaderEnd(pos, len) == pos + HdrSize + (IF Pad(len) > 0 THEN len + Pad(len) ELSE 0)

WriteDirect(t, n) ==
  LET b == Turned(t)
      c == ClosePacket(b, Upto(b))
      k == Chunks(n)
      m == n - k * Chunk
      frames == c.recs
                \o [i \in 1 .. k |-> Direct(t, Chunk, written[t] + (i - 1) * Chunk)]
                \o <<Direct(t, m - Rest(m), written[t] + k * Chunk)>>
      hdr == Max2(HeaderEnd(IF k > 0 THEN 0 ELSE c.pos, m - Rest(m)),
                  IF k > 0 THEN HeaderEnd(c.pos, Chunk) ELSE 0)
      done == [Emptied(c) EXCEPT !.peak = Max2(@, hdr)]
      next == IF Rest(m) > 0 THEN Put(OpenPacket(done, t), Rest(m)) ELSE done
  IN  /\ n >= Limit(b) /\ n - Limit(b) >= BufSize - HdrSize
      /\ \/ Sends(frames, TRUE) /\ Becomes(next) /\ Count(t, n)
         \/ Sends(frames, FALSE) /\ Becomes(done) /\ UNCHANGED written

fcgi_write(t, n) == WriteFits(t, n) \/ WriteFlush(t, n) \/ WriteDirect(t, n)

\* fcgi_flush; with close, the record that ends the request follows.
EndFrame == [type |-> "end", len |-> 8, pad |-> 0, n |-> 8, padded |-> 0, from |-> 0]

\* Mutant: the open record is not closed and gets lost.
MutFlush(close, ok) ==
  /\ Sends(IF close THEN Append(recs, EndFrame) ELSE recs, ok)
  /\ Becomes(Emptied(Buffer))
  /\ UNCHANGED written
fcgi_flush(close, ok) ==
  LET c == ClosePacket(Buffer, Upto(Buffer))
      end == [c EXCEPT !.peak = Max2(@, IF close THEN c.pos + EndSize ELSE 0)]
  IN  /\ Sends(IF close THEN Append(c.recs, EndFrame) ELSE c.recs, ok)
      /\ Becomes(Emptied(end))
      /\ UNCHANGED written

\* What fcgi_read_request does to the output of the last request.
Reset ==
  /\ Becomes(Emptied(Buffer))
  /\ sent' = <<>> /\ written' = [t \in Types |-> 0]

WriterInit ==
  /\ recs = <<>> /\ out_pos = 0 /\ out_hdr = "none" /\ start = 0 /\ peak = 0
  /\ sent = <<>> /\ written = [t \in Types |-> 0] /\ broken = FALSE

\* Another connection: the buffer stays as it is until a request is read.
Connection ==
  /\ UNCHANGED <<bufVars, written>>
  /\ fd' \in BOOLEAN /\ broken' \in BOOLEAN /\ sent' \in {sent, <<>>}

WriterNext ==
  \/ Connection
  \/ Reset /\ fd' \in BOOLEAN /\ UNCHANGED broken
  \/ \E t \in Types, n \in Lens : fcgi_write(t, n) /\ UNCHANGED fd
  \/ \E close, ok \in BOOLEAN : fcgi_flush(close, ok) /\ fd' \in BOOLEAN

\* The writer on its own, for any order of calls.  It is also what a request of
\* Fastcgi does with the buffer: the body, the early end and the connections of
\* kept requests touch out_buf in no other way.
WriterSpec == WriterInit /\ fd = FALSE /\ [][WriterNext]_writerVars

----------------------------------------------------------------------------
(* Properties *)

\* out_buf and the reserved bytes behind it, which have room for the record that
\* ends the request, are never overrun, whatever fcgi_write is given.
BufferBound == out_pos <= BufSize /\ peak <= BufSize + EndSize

\* Every record is followed by what its header announces, and its content is
\* not longer than a header can say.
Framed ==
  \A i \in 1 .. Len(sent) :
    sent[i].len = sent[i].n /\ sent[i].pad = sent[i].padded /\ sent[i].n <= MaxContent

\* What the first i frames of s carry of type t ends at the byte number upto.
Carried(s, i, t, upto) ==
  \/ upto = 0 /\ \A j \in 1 .. i : s[j].type # t
  \/ \E j \in 1 .. i : /\ s[j].type = t /\ s[j].from + s[j].n = upto
                       /\ \A k \in j + 1 .. i : s[k].type # t

\* The frames of each type carry its output from the first byte on, in order,
\* with nothing lost or repeated: the buffered parts and the ones that bypass the
\* buffer fit together.
InOrder ==
  \A i \in 1 .. Len(sent) :
    sent[i].type \in Types => Carried(sent, i - 1, sent[i].type, sent[i].from)
============================================================================
