------------------------------ MODULE Fastcgi ------------------------------
(* The requests of one worker: accepting, reading a request and its body from *)
(* a connection, writing the response, and keeping the connection or not.     *)
(*                                                                            *)
(* The client is correct but may go away.  What it sends is a sequence of     *)
(* records.  A header counts as one byte, and FCGI_BEGIN_REQUEST comes with   *)
(* its body in the header.  The calls that read the body are in progress      *)
(* together: fcgi_read, in sapi_cgi_read_post, in sapi_read_post_block.       *)
EXTENDS FcgiWriter

CONSTANTS
  Requests,   \* what clients send: sequences of records
  PostBlock,  \* SAPI_POST_BLOCK_SIZE
  Reads,      \* lengths that scripts read
  MaxReqs,    \* bound: requests that clients send
  MaxWrites   \* bound: writes in a request

VARIABLES
  worker,     \* where the worker is, see WorkerStates
  fresh,      \* no request was read from the connection
  keep, closed, in_len, in_pad,
  content,    \* content_length - read_post_bytes
  post_read,  \* SG(post_read)
  body,       \* whether SG(request_info).request_body is set
  buflen,     \* length asked of sapi_read_post_block, 0 outside
  got,        \* read_bytes of sapi_cgi_read_post
  nread,      \* n of fcgi_read
  input,      \* records that are not read to their end
  at,         \* bytes read of the first of them
  cut,        \* bytes of the last of them that the client did not send
  eof,        \* the client has closed its end
  reqs, writes,  \* what may still happen
  early,      \* history: fastcgi_finish_request() ended this response but kept
              \* the connection
  dropped,    \* history of the connection: a body was left unread
  desync      \* history of the connection: other bytes were taken for a header

readVars == <<in_len, in_pad, content, post_read, buflen, got, nread>>
reqVars == <<fd, worker, fresh, keep, closed, body, readVars>>
stream == <<input, at, cut>>
clientVars == <<stream, eof, reqs>>
fcgiHistory == <<early, dropped, desync>>
fcgiVars == <<outVars, reqVars, clientVars, writes, fcgiHistory>>

\* "accept", "header", "params": in fcgi_accept_request, the last two in
\* fcgi_read_request; "start", "serve": php_request_startup, the script; "post",
\* "input", "drain": reading a block of the body at the start, for the script, and
\* in sapi_deactivate; "finish": in sapi_cgi_deactivate.
Reading == {"post", "input", "drain"}
WorkerStates == {"accept", "header", "params", "start", "serve", "finish", "exit"} \cup Reading

----------------------------------------------------------------------------
(* Records *)

\* content is, with parameters, the CONTENT_LENGTH they amount to and, in a body,
\* what is left of it from the record on.
Records ==
  [t : {"begin", "params", "stdin"}, len : Nat, pad : Nat, keep : BOOLEAN, content : Nat]

EndOfBody(r) == r.t = "stdin" /\ r.len = 0

\* A record is not empty, or ends what it is a part of and has no padding.
Sound(r) ==
  /\ r.len = 0 => r.pad = 0
  /\ r.t = "begin" => r.len = 0
  /\ r.t = "params" => r.len + r.pad <= MaxContent
  /\ r.t = "stdin" => r.len <= r.content /\ (r.len = 0 => r.content = 0)

\* r2 may come after r1: the length that the parameters announce is the one of
\* the body.
Follows(r1, r2) ==
  CASE r1.t = "begin" -> r2.t = "params" /\ (r2.len = 0 => r2.content = 0)
    [] r1.t = "params" /\ r1.len > 0 -> r2.t = "params" /\ (r2.len = 0 => r2.content = r1.content)
    [] r1.t = "params" /\ r1.len = 0 -> r2.t = "stdin" /\ r2.content = r1.content
    [] r1.t = "stdin" /\ r1.len > 0 -> r2.t = "stdin" /\ r2.content = r1.content - r1.len
    [] OTHER -> r2.t = "begin"

Proper(s) ==
  /\ s \in Seq(Records)
  /\ \A i \in 1 .. Len(s) : Sound(s[i])
  /\ \A i \in 1 .. Len(s) - 1 : Follows(s[i], s[i + 1])

\* Web servers send proper requests from FCGI_BEGIN_REQUEST to the end of the body.
ASSUME RequestAssumption ==
  /\ \A s \in Requests : Proper(s) /\ s # <<>> /\ s[1].t = "begin" /\ EndOfBody(s[Len(s)])
  /\ PostBlock \in Nat \ {0} /\ Reads \subseteq Nat \ {0}
  /\ MaxReqs \in Nat /\ MaxWrites \in Nat

Size(r) == 1 + r.len + r.pad

----------------------------------------------------------------------------
(* The client.  It sends while the worker waits for a request: what it sends  *)
(* while one is served waits in the socket, since a body is sent as a whole   *)
(* or ends with the connection.                                               *)

Connected == worker \in {"accept", "header"} /\ fd /\ ~eof

Send(s) ==
  /\ Connected /\ reqs > 0
  /\ input' = input \o s /\ reqs' = reqs - 1
  /\ UNCHANGED <<outVars, reqVars, at, cut, eof, writes, fcgiHistory>>

\* It goes away, perhaps in the middle of a request: after k records, of which c
\* bytes of the last are missing.
SendPart(s, k, c) ==
  /\ Connected /\ reqs > 0
  /\ input' = input \o SubSeq(s, 1, k) /\ cut' = c /\ reqs' = reqs - 1
  /\ eof' = TRUE
  /\ UNCHANGED <<outVars, reqVars, at, writes, fcgiHistory>>

Close ==
  /\ Connected /\ eof' = TRUE
  /\ UNCHANGED <<outVars, reqVars, stream, reqs, writes, fcgiHistory>>

----------------------------------------------------------------------------
(* safe_read *)

Least(a, b) == IF a < b THEN a ELSE b

\* How many bytes of the first record can be read.
There ==
  IF input = <<>> THEN 0 ELSE Size(input[1]) - at - (IF Len(input) = 1 THEN cut ELSE 0)

\* k of them are read.
Take(k) ==
  IF k > 0 /\ at + k = Size(input[1]) THEN input' = Tail(input) /\ at' = 0 /\ UNCHANGED cut
  ELSE at' = at + k /\ UNCHANGED <<input, cut>>

\* A read does not have to wait.
Ready == There > 0 \/ eof \/ ~fd

\* What is read next is a header; or it is not, but is taken for one, and then
\* the model lets the worker reject it.
HasHdr == fd /\ There > 0 /\ at = 0
Garbled == fd /\ There > 0 /\ at > 0
Hdr(t) == HasHdr /\ input[1].t = t

----------------------------------------------------------------------------
(* fcgi_accept_request *)

\* accept() returns a connection.
Accept ==
  /\ worker = "accept" /\ ~fd
  /\ fd' = TRUE /\ input' = <<>> /\ at' = 0 /\ cut' = 0 /\ eof' = FALSE
  /\ broken' = FALSE /\ sent' = <<>> /\ fresh' = TRUE
  /\ dropped' = FALSE /\ desync' = FALSE
  /\ UNCHANGED <<bufVars, written, worker, keep, closed, body, readVars, reqs, writes, early>>

\* A new connection says nothing for 5 seconds.
PollTimeout ==
  /\ worker = "accept" /\ fd /\ fresh /\ ~Ready
  /\ fd' = FALSE
  /\ UNCHANGED <<outVars, worker, fresh, keep, closed, body, readVars, clientVars, writes,
                 fcgiHistory>>

\* fcgi_read_request begins; a new connection is polled first.
\* Mutant: the output of the last request stays in the buffer.
MutReadRequest ==
  /\ worker = "accept" /\ fd /\ (fresh => Ready)
  /\ sent' = <<>> /\ written' = [t \in Types |-> 0] /\ UNCHANGED bufVars
  /\ worker' = "header" /\ fresh' = FALSE /\ early' = FALSE
  /\ keep' = FALSE /\ closed' = FALSE /\ in_len' = 0 /\ content' = 0
  /\ UNCHANGED <<fd, broken, body, in_pad, post_read, buflen, got, nread, clientVars,
                 writes, dropped, desync>>
ReadRequest ==
  /\ worker = "accept" /\ fd /\ (fresh => Ready)
  /\ Reset
  /\ worker' = "header" /\ fresh' = FALSE /\ early' = FALSE
  /\ keep' = FALSE /\ closed' = FALSE /\ in_len' = 0 /\ content' = 0
  /\ UNCHANGED <<fd, broken, body, in_pad, post_read, buflen, got, nread, clientVars,
                 writes, dropped, desync>>

\* It fails, and the connection is closed whatever keep says.
Refuse == worker' = "accept" /\ fd' = FALSE /\ keep' = FALSE

\* The first header.  Ends of a body that nobody read are skipped.
ReadBegin ==
  /\ worker = "header" /\ Ready
  /\ \/ /\ Hdr("stdin") /\ input[1].len = 0
        /\ Take(1) /\ UNCHANGED <<worker, fd, keep>>
     \/ /\ Hdr("begin")
        /\ Take(1) /\ keep' = input[1].keep /\ worker' = "params" /\ UNCHANGED fd
     \/ /\ ~Hdr("begin") /\ ~(Hdr("stdin") /\ input[1].len = 0)
        /\ Refuse /\ UNCHANGED stream
  /\ desync' = (desync \/ Garbled)
  /\ UNCHANGED <<outVars, fresh, closed, body, readVars, eof, reqs, writes, early, dropped>>

\* A record with parameters, or the first header of another kind, which should be
\* the empty record that ends them.
ReadParams ==
  LET more == Hdr("params") /\ input[1].len > 0
      whole == There = Size(input[1]) /\ input[1].len + input[1].pad <= MaxContent
  IN  /\ worker = "params" /\ Ready
      /\ \/ /\ more /\ whole
            /\ Take(There) /\ content' = input[1].content /\ UNCHANGED <<worker, fd, keep>>
         \/ /\ HasHdr /\ ~more
            /\ Take(1) /\ worker' = "start" /\ UNCHANGED <<content, fd, keep>>
         \/ /\ ~HasHdr \/ (more /\ ~whole)
            /\ Refuse /\ UNCHANGED <<content, stream>>
      /\ desync' = (desync \/ Garbled)
      /\ UNCHANGED <<outVars, fresh, closed, body, in_len, in_pad, post_read, buflen, got, nread,
                     eof, reqs, writes, early, dropped>>

\* in_shutdown, or pm.max_requests requests were served.
Exit ==
  /\ worker = "accept" /\ worker' = "exit" /\ fd' = FALSE
  /\ UNCHANGED <<outVars, fresh, keep, closed, body, readVars, clientVars, writes, fcgiHistory>>

----------------------------------------------------------------------------
(* Reading the body *)

\* sapi_read_post_block(k) is called in state w.
Block(w, k) == worker' = w /\ buflen' = k /\ got' = 0 /\ nread' = 0

\* Mutant: one block is enough.
MutMoreBlocks(b) == FALSE
MoreBlocks(b) == b = buflen

\* sapi_read_post_block returns b: the body goes on if the block was full, but
\* sapi_read_standard_form_data stops also when it cannot buffer the block.
BlockEnds(b) ==
  /\ content' = content - b
  /\ post_read' = (post_read \/ b < buflen)
  /\ \/ worker \in {"post", "drain"} /\ MoreBlocks(b) /\ Block(worker, buflen)
     \/ worker = "post" /\ (~MoreBlocks(b) \/ b > 0) /\ Block("serve", 0)
     \/ worker = "input" /\ Block("serve", 0)
     \/ worker = "drain" /\ ~MoreBlocks(b) /\ Block("finish", 0)

\* What sapi_cgi_read_post is asked for, and what fcgi_read still is.
count_bytes == Least(content, buflen)
rest == count_bytes - got - nread

\* fcgi_read returns v to sapi_cgi_read_post.
Returns(v) ==
  IF v <= 0 THEN BlockEnds(got)
  ELSE IF got + v >= count_bytes THEN BlockEnds(got + v)
  ELSE got' = got + v /\ nread' = 0 /\ UNCHANGED <<worker, buflen, content, post_read>>

\* The body has been read.
ReadNothing ==
  /\ worker \in Reading /\ count_bytes = 0
  /\ BlockEnds(0)
  /\ UNCHANGED <<outVars, fd, fresh, keep, closed, body, in_len, in_pad, clientVars, writes,
                 fcgiHistory>>

\* fcgi_read at the start of a record.
ReadHeader ==
  /\ worker \in Reading /\ count_bytes > 0 /\ in_len = 0 /\ Ready
  /\ \/ /\ Hdr("stdin") /\ Take(1)
        /\ in_len' = input[1].len /\ in_pad' = input[1].pad
        /\ IF input[1].len = 0 THEN Returns(nread)
           ELSE UNCHANGED <<worker, content, post_read, buflen, got, nread>>
        /\ UNCHANGED keep
     \/ /\ ~Hdr("stdin") /\ (IF HasHdr THEN Take(1) ELSE UNCHANGED stream)
        /\ keep' = FALSE
        /\ Returns(0)
        /\ UNCHANGED <<in_len, in_pad>>
  /\ desync' = (desync \/ Garbled)
  /\ UNCHANGED <<outVars, fd, fresh, closed, body, eof, reqs, writes, early, dropped>>

\* fcgi_read within a record: the content that is wanted and, at its end, the
\* padding.
ReadContent ==
  LET want == Least(in_len, rest)
      ret == Least(want, There)
      padding == Least(in_pad, There - ret)
  IN  /\ worker \in Reading /\ count_bytes > 0 /\ in_len > 0
      /\ \/ (* a read fails *)
            /\ ~fd \/ (eof /\ ret < want)
            /\ keep' = FALSE /\ input' = <<>> /\ at' = 0 /\ cut' = 0
            /\ Returns(-1)
            /\ UNCHANGED <<in_len, in_pad>>
         \/ (* the end of the input, or enough *)
            /\ fd /\ ret < in_len /\ (ret < want => eof)
            /\ Take(ret) /\ in_len' = in_len - ret
            /\ Returns(nread + ret)
            /\ UNCHANGED <<keep, in_pad>>
         \/ (* the end of the record *)
            /\ fd /\ ret = in_len /\ (padding < in_pad => eof)
            /\ Take(ret + padding) /\ in_len' = 0
            /\ keep' = (keep /\ padding = in_pad)
            /\ IF padding < in_pad THEN Returns(ret)
               ELSE IF ret = rest THEN Returns(nread + ret)
               ELSE nread' = nread + ret /\ UNCHANGED <<worker, content, post_read, buflen, got>>
            /\ UNCHANGED in_pad
      /\ UNCHANGED <<outVars, fd, fresh, closed, body, eof, reqs, writes, fcgiHistory>>

----------------------------------------------------------------------------
(* Serving *)

\* php_request_startup: sapi_read_standard_form_data reads the body of a POST
\* unless it is too long.
StartPost ==
  /\ worker = "start"
  /\ \/ Block("post", PostBlock) /\ body' = TRUE
     \/ Block("serve", 0) /\ UNCHANGED body
  /\ UNCHANGED <<outVars, fd, fresh, keep, closed, in_len, in_pad, content, post_read,
                 clientVars, writes, fcgiHistory>>

\* fcgi_write to a connection that is closed fails when it has to send.
Echo(t, n) ==
  /\ worker = "serve" /\ writes > 0 /\ writes' = writes - 1
  /\ fcgi_write(t, n)
  /\ keep' = (keep /\ ~broken')
  /\ UNCHANGED <<fd, worker, fresh, closed, body, readVars, clientVars, fcgiHistory>>

EchoFlush ==
  /\ worker = "serve" /\ (out_pos > 0 \/ recs # <<>>)
  /\ \E ok \in BOOLEAN : fcgi_flush(FALSE, ok)
  /\ keep' = (keep /\ ~broken')
  /\ UNCHANGED <<fd, worker, fresh, closed, body, readVars, clientVars, writes, fcgiHistory>>

\* fcgi_close without force: the connection is only kept if keep says so.
MayClose(kept) == fd' = (fd /\ kept)

\* fastcgi_finish_request(): the response ends, the script goes on.  Bound: once
\* on a connection that is kept.
FinishEarly ==
  /\ worker = "serve" /\ fd /\ ~early
  /\ \E ok \in BOOLEAN : fcgi_flush(TRUE, ok) /\ keep' = (keep /\ ok)
  /\ MayClose(keep')
  /\ early' = fd'
  /\ UNCHANGED <<worker, fresh, closed, body, readVars, clientVars, writes, dropped, desync>>

\* A script opens php://input: its stream becomes the request body.
OpenInput ==
  /\ worker = "serve" /\ ~body /\ body' = TRUE
  /\ UNCHANGED <<outVars, fd, worker, fresh, keep, closed, readVars, clientVars, writes,
                 fcgiHistory>>

\* It reads k bytes that are not in the stream yet.
ReadInput(k) ==
  /\ worker = "serve" /\ body /\ ~post_read
  /\ Block("input", k)
  /\ UNCHANGED <<outVars, fd, fresh, keep, closed, body, in_len, in_pad, content, post_read,
                 clientVars, writes, fcgiHistory>>

\* php_request_shutdown: sapi_deactivate reads what is left of the body, unless
\* there is a stream with the part that was read.
End ==
  /\ worker = "serve"
  /\ IF body \/ post_read THEN Block("finish", 0) ELSE Block("drain", PostBlock)
  /\ dropped' = (dropped \/ (body /\ ~post_read /\ content > 0))
  /\ UNCHANGED <<outVars, fd, fresh, keep, closed, body, in_len, in_pad, content, post_read,
                 clientVars, writes, early, desync>>

\* Nothing happens if the connection is closed already.
fcgi_finish_request ==
  \/ /\ fd /\ ~closed
     /\ \E ok \in BOOLEAN : fcgi_flush(TRUE, ok) /\ keep' = (keep /\ ok)
     /\ closed' = TRUE
     /\ MayClose(keep')
  \/ /\ ~(fd /\ ~closed)
     /\ MayClose(keep)
     /\ UNCHANGED <<outVars, closed, keep>>

\* sapi_cgi_deactivate, at the end of sapi_deactivate.
Finish ==
  /\ worker = "finish" /\ worker' = "accept"
  /\ fcgi_finish_request
  /\ post_read' = FALSE /\ body' = FALSE
  /\ writes' = MaxWrites
  /\ UNCHANGED <<fresh, in_len, in_pad, content, buflen, got, nread, clientVars, fcgiHistory>>

----------------------------------------------------------------------------
FcgiInit ==
  /\ WriterInit
  /\ fd = FALSE /\ fresh = FALSE /\ worker = "accept" /\ keep = FALSE /\ closed = FALSE
  /\ in_len = 0 /\ in_pad = 0 /\ content = 0 /\ post_read = FALSE /\ body = FALSE
  /\ buflen = 0 /\ got = 0 /\ nread = 0
  /\ input = <<>> /\ at = 0 /\ cut = 0 /\ eof = FALSE /\ reqs = MaxReqs /\ writes = MaxWrites
  /\ early = FALSE /\ dropped = FALSE /\ desync = FALSE

FcgiNext ==
  \/ Connected /\ \E s \in Requests :
       Send(s) \/ \E k \in 1 .. Len(s) : \E c \in 0 .. Size(s[k]) - 1 : SendPart(s, k, c)
  \/ Close \/ Accept \/ PollTimeout \/ ReadRequest \/ ReadBegin \/ ReadParams \/ Exit
  \/ StartPost \/ ReadNothing \/ ReadHeader \/ ReadContent
  \/ \E t \in Types, n \in Lens : Echo(t, n)
  \/ \E k \in Reads : ReadInput(k)
  \/ EchoFlush \/ FinishEarly \/ OpenInput \/ End \/ Finish

FcgiSpec == FcgiInit /\ [][FcgiNext]_fcgiVars

----------------------------------------------------------------------------
(* Properties *)

\* Between two requests of a kept connection the worker is at the start of the
\* next one, or of the empty record before it, and it never takes content or
\* padding for a header, unless a body was left unread: fcgi_read and
\* sapi_deactivate consume records with their padding and stop where the body ends.
InputAligned ==
  dropped \/ /\ ~desync
             /\ worker \in {"accept", "header"} /\ fd /\ There > 0 =>
                  at = 0 /\ (input[1].t = "begin" \/ EndOfBody(input[1]))

\* A request that is over, with nothing failed, was answered by all that was
\* written, followed by one FCGI_END_REQUEST.  If fastcgi_finish_request() ended
\* it and closed the connection, nothing follows either; a kept connection is
\* excepted, since closed is not set there.
Answered ==
  worker = "accept" /\ sent # <<>> /\ ~broken /\ ~early =>
    /\ {i \in 1 .. Len(sent) : sent[i].type = "end"} = {Len(sent)}
    /\ closed => \A t \in Types : Carried(sent, Len(sent), t, written[t])
============================================================================
