--------------------------- MODULE FastcgiProofs ---------------------------
(* A worker stays in step with the records of its client, and what it answers *)
(* is in order and complete.                                                  *)
EXTENDS Fastcgi, FcgiWriterProofs

----------------------------------------------------------------------------
(* Where a connection is *)

\* Nothing more comes from the client.
Ended == There = 0 /\ eof

\* The input is a proper sequence of records from its first one on, of which at
\* bytes are read.  Only a client that went away leaves a record incomplete.
StreamOk ==
  /\ Proper(input) /\ at \in Nat /\ cut \in Nat
  /\ input = <<>> => at = 0
  /\ input # <<>> => /\ at < Size(input[1]) /\ cut < Size(input[Len(input)])
                     /\ Len(input) = 1 => at + cut <= Size(input[1])
  /\ ~eof => cut = 0 /\ (input # <<>> => EndOfBody(input[Len(input)]))

AtRequest == There = 0 \/ (at = 0 /\ input # <<>> /\ (input[1].t = "begin" \/ EndOfBody(input[1])))

AtParams ==
  \/ Ended
  \/ /\ at = 0 /\ input # <<>> /\ input[1].t = "params"
     /\ input[1].len = 0 => input[1].content = content

\* What is left of the body, by the content length and by what was read.
left == content - got - nread

AtRecord == in_len = 0 /\ at = 0 /\ input # <<>> /\ input[1].t = "stdin" /\ input[1].content = left
InRecord ==
  /\ in_len > 0 /\ input # <<>> /\ input[1].t = "stdin" /\ in_len <= input[1].len
  /\ at = 1 + input[1].len - in_len /\ in_pad = input[1].pad
  /\ input[1].content = left + input[1].len - in_len
AtBody == Ended \/ AtRecord \/ InRecord

Numbers ==
  content \in Nat /\ in_len \in Nat /\ got \in Nat /\ nread \in Nat /\ buflen \in Nat

\* A block is asked for, and is not full.
Asked ==
  worker \in Reading =>
    /\ buflen > 0 /\ ~post_read
    /\ got + nread < count_bytes \/ (got = 0 /\ nread = 0)

\* Before and after a request, and between the blocks.
Idle ==
  /\ worker \in WorkerStates
  /\ worker \notin Reading => got = 0 /\ nread = 0 /\ buflen = 0
  /\ worker \in {"accept", "exit", "header", "params", "start"} => ~post_read /\ ~body
  /\ worker \in {"header", "params", "start"} => in_len = 0
  /\ worker = "header" => content = 0
  /\ worker \in {"header", "params"} => fd

Serving == {"start", "serve", "finish"} \cup Reading

\* The body was read to its end: content_length says so, or the client is gone.
Consumed == content = 0 \/ Ended

Synced ==
  /\ StreamOk
  /\ worker \in {"accept", "header"} => AtRequest
  /\ worker \in {"header", "params"} \cup Serving => Numbers /\ Asked
  /\ worker = "params" => AtParams
  /\ worker \in Serving => AtBody
  /\ (worker = "serve" /\ post_read) \/ worker = "finish" => Consumed

InputInv ==
  /\ Idle
  /\ ~dropped => ~desync /\ (fd => Synced)

----------------------------------------------------------------------------
(* Sequences of records *)

LEMMA TailProper ==
  ASSUME NEW s, Proper(s), s # <<>>
  PROVE  /\ Proper(Tail(s)) /\ s[1] \in Records /\ Sound(s[1]) /\ Len(s) \in Nat /\ Len(s) > 0
         /\ Tail(s) = <<>> <=> Len(s) = 1
         /\ Tail(s) # <<>> => /\ Follows(s[1], Tail(s)[1])
                              /\ Tail(s)[Len(Tail(s))] = s[Len(s)]
         /\ Len(Tail(s)) = Len(s) - 1
         /\ Tail(s) # <<>> => Tail(s)[1] \in Records /\ Sound(Tail(s)[1])
  <1>1. s \in Seq(Records) /\ Len(s) \in Nat /\ Len(s) > 0
    BY DEF Proper
  <1>2. /\ Tail(s) \in Seq(Records) /\ Len(Tail(s)) = Len(s) - 1
        /\ \A i \in 1 .. Len(s) - 1 : Tail(s)[i] = s[i + 1]
    BY <1>1
  <1>3. \A i \in 1 .. Len(Tail(s)) : Sound(Tail(s)[i])
    BY <1>1, <1>2 DEF Proper
  <1>4. \A i \in 1 .. Len(Tail(s)) - 1 : Follows(Tail(s)[i], Tail(s)[i + 1])
    BY <1>1, <1>2 DEF Proper
  <1>5. Proper(Tail(s))
    BY <1>2, <1>3, <1>4, Zenon DEF Proper
  <1>6. s[1] \in Records /\ Sound(s[1])
    BY <1>1 DEF Proper
  <1>7. Tail(s) = <<>> <=> Len(s) = 1
    BY <1>1, <1>2
  <1>8. ASSUME Tail(s) # <<>>
        PROVE  /\ Follows(s[1], Tail(s)[1]) /\ Tail(s)[Len(Tail(s))] = s[Len(s)]
               /\ Tail(s)[1] \in Records /\ Sound(Tail(s)[1])
    <2>1. Len(s) > 1 /\ Tail(s)[1] = s[2] /\ 1 \in 1 .. Len(s) - 1 /\ 2 \in 1 .. Len(s)
      BY <1>1, <1>2, <1>7, <1>8
    <2>2. Follows(s[1], s[1 + 1]) /\ 1 + 1 = 2
      BY <2>1 DEF Proper
    <2>3. s[2] \in Records /\ Sound(s[2])
      BY <1>1, <2>1 DEF Proper
    <2> QED
      BY <1>1, <1>2, <2>1, <2>2, <2>3
  <1> QED
    BY <1>1, <1>2, <1>5, <1>6, <1>7, <1>8, Zenon

LEMMA JoinProper ==
  ASSUME NEW s, NEW r, Proper(s), Proper(r), r # <<>>, r[1].t = "begin",
         s # <<>> => EndOfBody(s[Len(s)])
  PROVE  /\ Proper(s \o r) /\ s \o r # <<>>
         /\ (s \o r)[1] = IF s = <<>> THEN r[1] ELSE s[1]
         /\ (s \o r)[Len(s \o r)] = r[Len(r)]
         /\ s # <<>> => Len(s \o r) > 1
         /\ s = <<>> => s \o r = r
  <1> DEFINE j == s \o r
  <1>1. /\ s \in Seq(Records) /\ r \in Seq(Records)
        /\ Len(s) \in Nat /\ Len(r) \in Nat /\ Len(r) > 0 /\ (s # <<>> => Len(s) > 0)
    BY DEF Proper
  <1>2. /\ j \in Seq(Records) /\ Len(j) = Len(s) + Len(r)
        /\ \A i \in 1 .. Len(s) : j[i] = s[i]
        /\ \A i \in 1 .. Len(r) : j[Len(s) + i] = r[i]
        /\ \A i \in 1 .. Len(j) : i > Len(s) => j[i] = r[i - Len(s)]
    BY <1>1
  <1> HIDE DEF j
  <1>3. \A i \in 1 .. Len(j) : Sound(j[i])
    <2> TAKE i \in 1 .. Len(j)
    <2>1. CASE i <= Len(s)
      BY <2>1, <1>1, <1>2 DEF Proper
    <2>2. CASE i > Len(s)
      <3>1. i - Len(s) \in 1 .. Len(r) /\ j[i] = r[i - Len(s)]
        BY <2>2, <1>1, <1>2
      <3> QED
        BY <3>1, Zenon DEF Proper
    <2> QED
      BY <2>1, <2>2, <1>1, <1>2
  <1>4. \A i \in 1 .. Len(j) - 1 : Follows(j[i], j[i + 1])
    <2> TAKE i \in 1 .. Len(j) - 1
    <2>1. CASE i < Len(s)
      <3>1. i \in 1 .. Len(s) - 1 /\ j[i] = s[i] /\ j[i + 1] = s[i + 1]
        BY <2>1, <1>1, <1>2
      <3> QED
        BY <3>1, Zenon DEF Proper
    <2>2. CASE i = Len(s)
      <3>1. s # <<>> /\ j[i] = s[Len(s)] /\ j[i + 1] = r[1]
        BY <2>2, <1>1, <1>2
      <3> QED
        BY <3>1 DEF Follows, EndOfBody
    <2>3. CASE i > Len(s)
      <3>1. /\ i - Len(s) \in 1 .. Len(r) - 1 /\ j[i] = r[i - Len(s)]
            /\ j[i + 1] = r[(i - Len(s)) + 1]
        BY <2>3, <1>1, <1>2
      <3> QED
        BY <3>1, Zenon DEF Proper
    <2> QED
      BY <2>1, <2>2, <2>3, <1>1, <1>2
  <1>5. Proper(j)
    BY <1>2, <1>3, <1>4 DEF Proper
  <1>6. s = <<>> => j = r
    BY <1>1, <1>2
  <1>7. j # <<>> /\ j[1] = (IF s = <<>> THEN r[1] ELSE s[1]) /\ j[Len(j)] = r[Len(r)]
    BY <1>1, <1>2
  <1> QED
    BY <1>1, <1>2, <1>5, <1>6, <1>7 DEF j

LEMMA PrefixProper ==
  ASSUME NEW s, NEW k \in 1 .. Len(s), Proper(s)
  PROVE  /\ Proper(SubSeq(s, 1, k)) /\ SubSeq(s, 1, k) # <<>> /\ Len(SubSeq(s, 1, k)) = k
         /\ SubSeq(s, 1, k)[1] = s[1] /\ SubSeq(s, 1, k)[k] = s[k]
  <1> DEFINE p == SubSeq(s, 1, k)
  <1>1. s \in Seq(Records) /\ Len(s) \in Nat
    BY DEF Proper
  <1>2. p \in Seq(Records) /\ Len(p) = k /\ \A i \in 1 .. k : p[i] = s[i]
    BY <1>1
  <1> HIDE DEF p
  <1>3. \A i \in 1 .. Len(p) : Sound(p[i])
    BY <1>1, <1>2 DEF Proper
  <1>5. \A i \in 1 .. Len(p) - 1 : Follows(p[i], p[i + 1])
    <2> TAKE i \in 1 .. Len(p) - 1
    <2>1. i \in 1 .. Len(s) - 1 /\ p[i] = s[i] /\ p[i + 1] = s[i + 1]
      BY <1>1, <1>2
    <2> QED
      BY <2>1, Zenon DEF Proper
  <1>4. p # <<>> /\ p[1] = s[1] /\ p[k] = s[k]
    BY <1>1, <1>2
  <1> QED
    BY <1>2, <1>3, <1>5, <1>4 DEF Proper, p

----------------------------------------------------------------------------
(* Reading and sending keep the input a proper sequence *)

LEMMA First ==
  ASSUME StreamOk, input # <<>>
  PROVE  /\ input[1] \in Records /\ Sound(input[1])
         /\ input[1].len \in Nat /\ input[1].pad \in Nat /\ input[1].content \in Nat
         /\ Size(input[1]) = 1 + input[1].len + input[1].pad
         /\ Len(input) \in Nat /\ Len(input) > 0
         /\ at \in Nat /\ cut \in Nat /\ There \in Nat
         /\ at = 0 => There > 0
         /\ Len(input) > 1 => There = Size(input[1]) - at
         /\ Len(input) = 1 => There = Size(input[1]) - at - cut
         /\ ~eof => There = Size(input[1]) - at
  <1>1. /\ input[1] \in Records /\ Sound(input[1]) /\ Len(input) \in Nat /\ Len(input) > 0
    BY TailProper DEF StreamOk
  <1>2. input[1].len \in Nat /\ input[1].pad \in Nat /\ input[1].content \in Nat
    BY <1>1 DEF Records
  <1>3. Size(input[1]) = 1 + input[1].len + input[1].pad
    BY Zenon DEF Size
  <1>4. /\ at \in Nat /\ cut \in Nat /\ at < Size(input[1]) /\ cut < Size(input[Len(input)])
        /\ Len(input) = 1 => at + cut <= Size(input[1])
        /\ ~eof => cut = 0
    BY DEF StreamOk
  <1>5. There = Size(input[1]) - at - (IF Len(input) = 1 THEN cut ELSE 0)
    BY DEF There
  <1>6. Size(input[1]) \in Nat
    BY <1>2, <1>3
  <1>7. CASE Len(input) = 1
    <2>1. There = Size(input[1]) - at - cut /\ input[Len(input)] = input[1]
      BY <1>5, <1>7
    <2>2. There \in Nat /\ (at = 0 => There > 0)
      BY <2>1, <1>4, <1>6, <1>7
    <2>3. ~eof => There = Size(input[1]) - at
      BY <2>1, <1>4, <1>6
    <2> QED
      BY <1>1, <1>2, <1>3, <1>4, <1>7, <2>1, <2>2, <2>3
  <1>8. CASE Len(input) # 1
    <2>1. There = Size(input[1]) - at
      BY <1>4, <1>5, <1>6, <1>8
    <2>2. There \in Nat /\ There > 0
      BY <2>1, <1>4, <1>6
    <2> QED
      BY <1>1, <1>2, <1>3, <1>4, <1>8, <2>1, <2>2
  <1> QED
    BY <1>7, <1>8, Zenon

LEMMA TakeOk ==
  ASSUME StreamOk, input # <<>>, NEW k \in Nat, k <= There, Take(k), eof' = eof
  PROVE  /\ StreamOk'
         /\ k > 0 /\ at + k = Size(input[1]) => input' = Tail(input) /\ at' = 0
         /\ ~(k > 0 /\ at + k = Size(input[1])) => input' = input /\ at' = at + k /\ cut' = cut
         /\ input' = <<>> => There' = 0
         /\ input' = <<>> => eof \/ EndOfBody(input[1])
         /\ k = There /\ eof /\ input' = input /\ Len(input) = 1 => There' = 0
  <1>1. /\ input[1] \in Records /\ Sound(input[1])
        /\ Size(input[1]) \in Nat /\ Len(input) \in Nat /\ Len(input) > 0
        /\ at \in Nat /\ cut \in Nat /\ There \in Nat
        /\ Len(input) > 1 => There = Size(input[1]) - at
        /\ Len(input) = 1 => There = Size(input[1]) - at - cut
    BY First
  <1>2. /\ Proper(input) /\ at < Size(input[1]) /\ cut < Size(input[Len(input)])
        /\ ~eof => cut = 0 /\ EndOfBody(input[Len(input)])
    BY Zenon DEF StreamOk
  <1>3. CASE k > 0 /\ at + k = Size(input[1])
    <2>1. input' = Tail(input) /\ at' = 0 /\ cut' = cut
      BY <1>3, Zenon DEF Take
    <2>2. /\ Proper(Tail(input))
          /\ Tail(input) = <<>> <=> Len(input) = 1
          /\ Tail(input) # <<>> => Tail(input)[Len(Tail(input))] = input[Len(input)]
          /\ Len(Tail(input)) = Len(input) - 1
          /\ Tail(input) # <<>> => Tail(input)[1] \in Records
      BY <1>2, TailProper, Zenon
    <2>3. input' # <<>> => Size(input'[1]) \in Nat /\ Size(input'[1]) > 0
      BY <2>1, <2>2 DEF Records, Size
    <2>4. StreamOk'
      <3>1. Len(input') = 1 => cut' <= Size(input'[1])
        <4> SUFFICES ASSUME Len(input') = 1 PROVE cut' <= Size(input'[1])
          OBVIOUS
        <4>1. input' # <<>> /\ Len(input) = 2 /\ input'[1] = input[Len(input)]
          BY <2>1, <2>2, <1>1
        <4> QED
          BY <4>1, <1>1, <1>2, <2>1, <2>3
      <3>2. input' # <<>> => input'[Len(input')] = input[Len(input)]
        BY <2>1, <2>2
      <3>3. Proper(input') /\ at' \in Nat /\ cut' \in Nat /\ (input' = <<>> => at' = 0)
        BY <1>1, <2>1, <2>2, Zenon
      <3>4. input' # <<>> => /\ at' < Size(input'[1]) /\ cut' < Size(input'[Len(input')])
                             /\ Len(input') = 1 => at' + cut' <= Size(input'[1])
        <4>1. input' # <<>> => at' < Size(input'[1])
          BY <2>1, <2>3, Zenon
        <4>2. input' # <<>> => cut' < Size(input'[Len(input')])
          BY <1>2, <2>1, <3>2
        <4>3. Len(input') = 1 => at' + cut' <= Size(input'[1])
          <5>1. Len(input') = 1 => cut <= Size(input'[1])
            BY <2>1, <3>1
          <5>2. 0 + cut = cut
            BY <1>1
          <5> QED
            BY <5>1, <5>2, <2>1, Zenon
        <4> QED
          BY <4>1, <4>2, <4>3
      <3>5. ~eof' => cut' = 0 /\ (input' # <<>> => EndOfBody(input'[Len(input')]))
        BY <1>2, <2>1, <3>2, Zenon
      <3> QED
        BY <3>3, <3>4, <3>5, Zenon DEF StreamOk
    <2>5. input' = <<>> => There' = 0
      BY Zenon DEF There
    <2>6. input' = <<>> => eof \/ EndOfBody(input[1])
      BY <2>1, <2>2, <1>2
    <2> QED
      BY <1>3, <2>1, <2>4, <2>5, <2>6
  <1>4. CASE ~(k > 0 /\ at + k = Size(input[1]))
    <2>1. input' = input /\ at' = at + k /\ cut' = cut
      BY <1>4 DEF Take
    <2>2. at + k < Size(input[1]) /\ (Len(input) = 1 => at + k + cut <= Size(input[1]))
      <3>1. /\ Size(input[1]) \in Nat /\ at < Size(input[1]) /\ k <= There
            /\ k > 0 => at + k # Size(input[1])
        BY <1>1, <1>2, <1>4, Zenon
      <3>2. CASE Len(input) = 1
        <4>1. There = Size(input[1]) - at - cut
          BY <1>1, <3>2
        <4> QED
          BY <1>1, <3>1, <4>1
      <3>3. CASE Len(input) > 1
        <4>1. There = Size(input[1]) - at
          BY <1>1, <3>3
        <4> QED
          BY <1>1, <3>1, <3>3, <4>1
      <3>4. \A i \in Nat : i > 0 => i = 1 \/ i > 1
        OBVIOUS
      <3>5. Len(input) = 1 \/ Len(input) > 1
        BY <3>4, <1>1, Zenon
      <3> QED
        BY <3>2, <3>3, <3>5, Zenon
    <2>3. StreamOk'
      <3>1. Proper(input') /\ at' \in Nat /\ cut' \in Nat /\ input' # <<>>
        BY <1>1, <1>2, <2>1
      <3>2. /\ at' < Size(input'[1]) /\ cut' < Size(input'[Len(input')])
            /\ Len(input') = 1 => at' + cut' <= Size(input'[1])
        BY <1>2, <2>1, <2>2, Zenon
      <3>3. ~eof' => cut' = 0 /\ EndOfBody(input'[Len(input')])
        BY <1>2, <2>1
      <3> QED
        BY <3>1, <3>2, <3>3, Zenon DEF StreamOk
    <2>4. k = There /\ Len(input) = 1 => There' = 0
      BY <2>1, <1>1 DEF There
    <2> QED
      BY <1>4, <2>1, <2>3, <2>4
  <1> QED
    BY <1>3, <1>4

LEMMA SendOk ==
  ASSUME NEW s \in Requests, StreamOk, AtRequest, ~eof,
         \/ input' = input \o s /\ at' = at /\ cut' = cut /\ eof' = eof
         \/ \E k \in 1 .. Len(s) : \E c \in 0 .. Size(s[k]) - 1 :
              input' = input \o SubSeq(s, 1, k) /\ at' = at /\ cut' = c /\ eof' = TRUE
  PROVE  StreamOk' /\ AtRequest'
  <1>1. Proper(s) /\ s # <<>> /\ s[1].t = "begin" /\ EndOfBody(s[Len(s)])
    BY RequestAssumption
  <1>2. Proper(input) /\ cut = 0 /\ at \in Nat /\ (input # <<>> => EndOfBody(input[Len(input)]))
    BY DEF StreamOk
  <1>3. at = 0 /\ (input # <<>> => input[1].t = "begin" \/ EndOfBody(input[1]))
    <2>1. CASE input = <<>>
      BY <2>1 DEF StreamOk
    <2>2. CASE input # <<>>
      <3>1. There = Size(input[1]) - at /\ at < Size(input[1]) /\ Size(input[1]) \in Nat
        BY <2>2, First DEF StreamOk
      <3>2. There # 0
        BY <3>1, <1>2
      <3> QED
        BY <3>2 DEF AtRequest
    <2> QED
      BY <2>1, <2>2, Zenon
  <1>4. ASSUME NEW r, Proper(r), r # <<>>, r[1].t = "begin", input' = input \o r, at' = at,
               cut' \in Nat, cut' < Size(r[Len(r)]), ~eof' => cut' = 0 /\ EndOfBody(r[Len(r)])
        PROVE  StreamOk' /\ AtRequest'
    <2>1. /\ Proper(input') /\ input' # <<>>
          /\ input'[1] = IF input = <<>> THEN r[1] ELSE input[1]
          /\ input'[Len(input')] = r[Len(r)]
      BY <1>2, <1>4, JoinProper
    <2>2. input'[1] \in Records /\ Len(input') \in Nat
      BY <2>1, TailProper
    <2>3. Size(input'[1]) \in Nat /\ Size(input'[1]) > 0
      BY <2>2 DEF Records, Size
    <2>4. /\ at' = 0 /\ at' < Size(input'[1])
          /\ Len(input') = 1 => at' + cut' <= Size(input'[1])
      BY <1>3, <1>4, <2>1, <2>2, <2>3
    <2>5. StreamOk'
      BY <1>4, <2>1, <2>4, Zenon DEF StreamOk
    <2>6. input'[1].t = "begin" \/ EndOfBody(input'[1])
      BY <1>3, <1>4, <2>1
    <2>7. AtRequest'
      BY <2>1, <2>4, <2>6, Zenon DEF AtRequest
    <2> QED
      BY <2>5, <2>7, Zenon
  <1>5. CASE input' = input \o s /\ at' = at /\ cut' = cut /\ eof' = eof
    <2>1. s[Len(s)] \in Records
      BY <1>1 DEF Proper
    <2>2. cut' \in Nat /\ cut' < Size(s[Len(s)])
      BY <1>2, <1>5, <2>1 DEF Records, Size
    <2> QED
      BY <1>1, <1>2, <1>4, <1>5, <2>2
  <1>6. CASE \E k \in 1 .. Len(s) : \E c \in 0 .. Size(s[k]) - 1 :
              input' = input \o SubSeq(s, 1, k) /\ at' = at /\ cut' = c /\ eof' = TRUE
    <2> PICK k \in 1 .. Len(s) : \E c \in 0 .. Size(s[k]) - 1 :
              input' = input \o SubSeq(s, 1, k) /\ at' = at /\ cut' = c /\ eof' = TRUE
      BY <1>6
    <2> PICK c \in 0 .. Size(s[k]) - 1 :
              input' = input \o SubSeq(s, 1, k) /\ at' = at /\ cut' = c /\ eof' = TRUE
      OBVIOUS
    <2> DEFINE r == SubSeq(s, 1, k)
    <2>1. Proper(r) /\ r # <<>> /\ r[1].t = "begin" /\ Len(r) = k /\ r[k] = s[k]
      BY <1>1, PrefixProper, Zenon
    <2>2. s[k] \in Records
      BY <1>1 DEF Proper
    <2>3. Size(s[k]) \in Nat
      BY <2>2 DEF Records, Size
    <2>4. cut' \in Nat /\ cut' < Size(r[Len(r)])
      BY <2>1, <2>3
    <2> HIDE DEF r
    <2>5. input' = input \o r
      BY Zenon DEF r
    <2> QED
      BY <1>4, <2>1, <2>4, <2>5, Zenon
  <1> QED
    BY <1>5, <1>6, Zenon

----------------------------------------------------------------------------
(* Blocks of a body *)

LEMMA BlockEndsIs ==
  ASSUME worker \in Reading, NEW b, BlockEnds(b)
  PROVE  /\ content' = content - b /\ got' = 0 /\ nread' = 0
         /\ worker' \in {"serve", "finish"} \cup Reading
         /\ worker' \in Reading => worker' = worker /\ buflen' = buflen /\ b = buflen
         /\ worker' \notin Reading => buflen' = 0
         /\ worker' = "finish" => b # buflen
         /\ post_read' <=> post_read \/ b < buflen
  BY Zenon DEF BlockEnds, Block, MoreBlocks, Reading

LEMMA EndsIdle ==
  ASSUME worker \in Reading, NEW b, BlockEnds(b)
  PROVE  Idle'
  <1>1. /\ worker' \in {"serve", "finish"} \cup Reading
        /\ worker' \notin Reading => got' = 0 /\ nread' = 0 /\ buflen' = 0
    BY BlockEndsIs, Zenon
  <1> QED
    BY <1>1 DEF Idle, WorkerStates, Reading

LEMMA ReturnsIdle ==
  ASSUME Idle, worker \in Reading, NEW v, Returns(v) \/ UNCHANGED worker
  PROVE  Idle'
  <1>1. ASSUME UNCHANGED worker PROVE Idle'
    BY <1>1 DEF Idle, WorkerStates, Reading
  <1>2. ASSUME Returns(v) PROVE Idle'
    BY <1>1, <1>2, EndsIdle, Zenon DEF Returns
  <1> QED
    BY <1>1, <1>2

\* A block ends when it is full, when the body is read, or with the input.
LEMMA EndsSynced ==
  ASSUME worker \in Reading, Numbers, Asked, NEW b \in Nat, b <= count_bytes, BlockEnds(b),
         b < count_bytes => Ended', in_len' \in Nat
  PROVE  /\ Numbers' /\ Asked' /\ left' = content - b
         /\ worker' \in {"serve", "finish"} \cup Reading
         /\ (worker' = "serve" /\ post_read') \/ worker' = "finish" => Consumed'
  <1>1. /\ content' = content - b /\ got' = 0 /\ nread' = 0
        /\ worker' \in {"serve", "finish"} \cup Reading
        /\ worker' \in Reading => worker' = worker /\ buflen' = buflen /\ b = buflen
        /\ worker' \notin Reading => buflen' = 0
        /\ worker' = "finish" => b # buflen
        /\ post_read' <=> post_read \/ b < buflen
    BY BlockEndsIs
  <1>2. content \in Nat /\ buflen \in Nat /\ ~post_read /\ buflen > 0
    BY Zenon DEF Numbers, Asked
  <1>3. /\ b <= content /\ b <= buflen
        /\ b = content \/ b = buflen \/ b < count_bytes
    BY <1>2 DEF count_bytes, Least
  <1>4. content - b \in Nat
    BY <1>2, <1>3
  <1>5. buflen' \in Nat
    BY <1>1, <1>2
  <1>6. Numbers'
    BY <1>1, <1>4, <1>5 DEF Numbers
  <1>7. Asked'
    <2>1. worker' \in Reading => buflen' > 0 /\ ~post_read'
      BY <1>1, <1>2
    <2> QED
      BY <1>1, <2>1 DEF Asked
  <1>8. left' = content - b
    BY <1>1, <1>4 DEF left
  <1>9. ASSUME (worker' = "serve" /\ post_read') \/ worker' = "finish" PROVE Consumed'
    <2>1. b < buflen
      BY <1>1, <1>2, <1>3, <1>9
    <2>2. CASE b < count_bytes
      BY <2>2, Zenon DEF Consumed
    <2>3. CASE b = content
      <3>1. content' = 0
        BY <1>1, <1>2, <2>3
      <3> QED
        BY <3>1 DEF Consumed
    <2> QED
      BY <1>2, <1>3, <2>1, <2>2, <2>3
  <1> QED
    BY <1>1, <1>6, <1>7, <1>8, <1>9

LEMMA ReturnsSynced ==
  ASSUME worker \in Reading, Numbers, Asked, count_bytes > 0, NEW v \in Int,
         v <= count_bytes - got, Returns(v), v <= 0 => Ended', in_len' \in Nat
  PROVE  /\ Numbers' /\ Asked' /\ left' = content - got - (IF v > 0 THEN v ELSE 0)
         /\ worker' \in {"serve", "finish"} \cup Reading
         /\ (worker' = "serve" /\ post_read') \/ worker' = "finish" => Consumed'
  <1>1. /\ content \in Nat /\ buflen \in Nat /\ got \in Nat /\ nread \in Nat
        /\ ~post_read /\ buflen > 0 /\ count_bytes \in Nat /\ got < count_bytes
    BY DEF Numbers, Asked, count_bytes, Least
  <1>2. CASE v <= 0
    <2>1. BlockEnds(got) /\ got <= count_bytes /\ Ended'
      BY <1>1, <1>2 DEF Returns
    <2>2. content - got = content - got - (IF v > 0 THEN v ELSE 0)
      BY <1>1, <1>2
    <2>3. /\ Numbers' /\ Asked' /\ left' = content - got
          /\ worker' \in {"serve", "finish"} \cup Reading
          /\ (worker' = "serve" /\ post_read') \/ worker' = "finish" => Consumed'
      BY <1>1, <2>1, EndsSynced
    <2> QED
      BY <2>2, <2>3
  <1>3. CASE v > 0 /\ got + v >= count_bytes
    <2>1. /\ BlockEnds(got + v) /\ got + v \in Nat /\ got + v <= count_bytes
          /\ ~(got + v < count_bytes) /\ ~(v <= 0)
      BY <1>1, <1>3 DEF Returns
    <2>2. content - (got + v) = content - got - (IF v > 0 THEN v ELSE 0)
      BY <1>1, <1>3
    <2>3. /\ Numbers' /\ Asked' /\ left' = content - (got + v)
          /\ worker' \in {"serve", "finish"} \cup Reading
          /\ (worker' = "serve" /\ post_read') \/ worker' = "finish" => Consumed'
      BY <2>1, EndsSynced, Zenon
    <2> QED
      BY <2>2, <2>3
  <1>4. CASE v > 0 /\ got + v < count_bytes
    <2>1. got' = got + v /\ nread' = 0 /\ UNCHANGED <<worker, buflen, content, post_read>>
      BY <1>1, <1>4 DEF Returns
    <2>2. got + v \in Nat /\ content - (got + v) - 0 = content - got - (IF v > 0 THEN v ELSE 0)
          /\ (got + v) + 0 < count_bytes
      BY <1>1, <1>4
    <2>3. Numbers' /\ count_bytes' = count_bytes
      BY <1>1, <2>1, <2>2 DEF Numbers, count_bytes, Least
    <2>4. Asked'
      BY <1>1, <2>1, <2>2, <2>3 DEF Asked
    <2>5. left' = content - got - (IF v > 0 THEN v ELSE 0)
      BY <2>1, <2>2, Zenon DEF left
    <2> QED
      BY <2>1, <2>3, <2>4, <2>5 DEF Reading
  <1> QED
    BY <1>1, <1>2, <1>3, <1>4

----------------------------------------------------------------------------
(* The actions *)

\* What InputInv is about.
inputVars == <<worker, fd, in_len, in_pad, content, post_read, buflen, got, nread, body,
               input, at, cut, eof, dropped, desync>>

LEMMA SameInput == ASSUME InputInv, UNCHANGED inputVars PROVE InputInv'
  <1>1. Idle' <=> Idle
    BY Zenon DEF inputVars, Idle
  <1>2. StreamOk' <=> StreamOk
    BY Zenon DEF inputVars, StreamOk
  <1>3. There' = There
    BY Zenon DEF inputVars, There
  <1>4. (AtRequest' <=> AtRequest) /\ (AtParams' <=> AtParams) /\ (Consumed' <=> Consumed)
    BY <1>3, Zenon DEF inputVars, AtRequest, AtParams, Consumed, Ended
  <1>5. (AtBody' <=> AtBody)
    BY <1>3, Zenon DEF inputVars, AtBody, Ended, AtRecord, InRecord, left
  <1>6. (Numbers' <=> Numbers) /\ (Asked' <=> Asked)
    BY Zenon DEF inputVars, Numbers, Asked, count_bytes
  <1>7. Synced' <=> Synced
    BY <1>2, <1>4, <1>5, <1>6, Zenon DEF inputVars, Synced
  <1> QED
    BY <1>1, <1>7, Zenon DEF inputVars, InputInv

\* A connection that is closed.
LEMMA HangUp ==
  ASSUME InputInv, Idle', fd' = FALSE, dropped' = dropped, desync' = desync
  PROVE  InputInv'
  BY DEF InputInv

LEMMA SendKeeps ==
  ASSUME InputInv, \/ \E s \in Requests : Send(s)
                   \/ \E s \in Requests : \E k \in 1 .. Len(s) : \E c \in 0 .. Size(s[k]) - 1 :
                        SendPart(s, k, c)
  PROVE  InputInv'
  <1>1. /\ worker \in {"accept", "header"} /\ fd /\ ~eof
        /\ UNCHANGED <<worker, fd, body, in_len, in_pad, content, post_read, buflen, got, nread,
                       dropped, desync>>
    BY DEF Send, SendPart, Connected, reqVars, readVars, fcgiHistory
  <1>2. PICK s \in Requests :
         \/ input' = input \o s /\ at' = at /\ cut' = cut /\ eof' = eof
         \/ \E k \in 1 .. Len(s) : \E c \in 0 .. Size(s[k]) - 1 :
              input' = input \o SubSeq(s, 1, k) /\ at' = at /\ cut' = c /\ eof' = TRUE
    BY DEF Send, SendPart
  <1>3. Idle'
    BY <1>1, Zenon DEF InputInv, Idle
  <1>4. ASSUME ~dropped PROVE ~desync' /\ Synced'
    <2>1. ~desync /\ StreamOk /\ AtRequest
      BY <1>1, <1>4, Zenon DEF InputInv, Synced
    <2>2. StreamOk' /\ AtRequest'
      BY <1>1, <1>2, <2>1, SendOk, Zenon
    <2>3. worker = "header" => Numbers' /\ Asked'
      BY <1>1, <1>4, Zenon DEF InputInv, Synced, Numbers, Asked, count_bytes
    <2> QED
      BY <1>1, <2>1, <2>2, <2>3 DEF Synced, Serving, Reading
  <1> QED
    BY <1>1, <1>3, <1>4 DEF InputInv

LEMMA CloseKeeps == ASSUME InputInv, Close PROVE InputInv'
  <1>1. /\ worker \in {"accept", "header"} /\ eof' = TRUE
        /\ UNCHANGED <<worker, fd, body, in_len, in_pad, content, post_read, buflen, got, nread,
                       input, at, cut, dropped, desync>>
    BY DEF Close, Connected, reqVars, readVars, stream, fcgiHistory
  <1>2. Idle'
    BY <1>1, Zenon DEF InputInv, Idle
  <1>3. ASSUME ~dropped, fd PROVE Synced'
    <2>1. StreamOk /\ AtRequest /\ (worker = "header" => Numbers /\ Asked)
      BY <1>1, <1>3 DEF InputInv, Synced
    <2>2. StreamOk'
      BY <1>1, <2>1, Zenon DEF StreamOk
    <2>3. AtRequest'
      BY <1>1, <2>1, Zenon DEF AtRequest, There
    <2>4. worker = "header" => Numbers' /\ Asked'
      BY <1>1, <2>1, Zenon DEF Numbers, Asked, count_bytes
    <2> QED
      BY <1>1, <2>2, <2>3, <2>4 DEF Synced, Serving, Reading
  <1> QED
    BY <1>1, <1>2, <1>3 DEF InputInv

LEMMA EmptyOk ==
  ASSUME input' = <<>>, at' = 0, cut' = 0 PROVE StreamOk' /\ There' = 0
  <1>1. Proper(<<>>)
    BY DEF Proper
  <1> QED
    BY <1>1, Zenon DEF StreamOk, There

LEMMA AcceptKeeps == ASSUME InputInv, Accept PROVE InputInv'
  <1>1. /\ worker = "accept" /\ input' = <<>> /\ at' = 0 /\ cut' = 0 /\ ~desync'
        /\ UNCHANGED <<worker, body, in_len, content, post_read, buflen, got, nread>>
    BY Zenon DEF Accept, readVars
  <1>2. Idle'
    BY <1>1, Zenon DEF InputInv, Idle
  <1>3. Synced'
    <2>1. StreamOk' /\ AtRequest'
      BY <1>1, EmptyOk DEF AtRequest
    <2> QED
      BY <1>1, <2>1 DEF Synced, Serving, Reading
  <1> QED
    BY <1>1, <1>2, <1>3 DEF InputInv

LEMMA HangUpKeeps == ASSUME InputInv, PollTimeout \/ Exit PROVE InputInv'
  <1>1. /\ worker = "accept" /\ worker' \in {"accept", "exit"} /\ fd' = FALSE
        /\ UNCHANGED <<body, in_len, content, post_read, buflen, got, nread, dropped, desync>>
    BY DEF PollTimeout, Exit, readVars, fcgiHistory
  <1>2. Idle'
    BY <1>1, Zenon DEF InputInv, Idle, WorkerStates, Reading
  <1> QED
    BY <1>1, <1>2, HangUp

LEMMA ReadRequestKeeps == ASSUME InputInv, ReadRequest PROVE InputInv'
  <1>1. /\ worker = "accept" /\ fd /\ worker' = "header" /\ in_len' = 0 /\ content' = 0
        /\ UNCHANGED <<fd, body, post_read, buflen, got, nread, input, at, cut, eof, dropped, desync>>
    BY Zenon DEF ReadRequest, clientVars, stream
  <1>2. Idle'
    BY <1>1, Zenon DEF InputInv, Idle, WorkerStates, Reading
  <1>3. ASSUME ~dropped PROVE Synced'
    <2>1. StreamOk /\ AtRequest /\ got = 0 /\ nread = 0 /\ buflen = 0
      BY <1>1, <1>3, Zenon DEF InputInv, Synced, Idle, Reading
    <2>2. StreamOk'
      BY <1>1, <2>1, Zenon DEF StreamOk
    <2>3. AtRequest'
      BY <1>1, <2>1, Zenon DEF AtRequest, There
    <2>4. Numbers' /\ Asked'
      BY <1>1, <2>1 DEF Numbers, Asked, Reading
    <2> QED
      BY <1>1, <2>2, <2>3, <2>4 DEF Synced, Serving, Reading
  <1> QED
    BY <1>1, <1>2, <1>3 DEF InputInv

\* An empty record is read with its header, and the next one follows.
LEMMA TakeEmpty ==
  ASSUME StreamOk, input # <<>>, at = 0, input[1].len = 0, Take(1), eof' = eof
  PROVE  /\ StreamOk' /\ at' = 0
         /\ input' = <<>> => There' = 0 /\ (eof \/ EndOfBody(input[1]))
         /\ input' # <<>> => Follows(input[1], input'[1])
  <1>1. There > 0 /\ There \in Nat /\ Size(input[1]) = 1
    BY First DEF Sound
  <1>2. /\ StreamOk' /\ input' = Tail(input) /\ at' = 0
        /\ input' = <<>> => There' = 0 /\ (eof \/ EndOfBody(input[1]))
    <2>1. 1 \in Nat /\ 1 <= There /\ 1 > 0 /\ at + 1 = Size(input[1])
      BY <1>1
    <2> QED
      BY <2>1, TakeOk
  <1>3. input' # <<>> => Follows(input[1], input'[1])
    BY <1>2, TailProper, Zenon DEF StreamOk
  <1> QED
    BY <1>2, <1>3, Zenon

LEMMA ReadBeginKeeps == ASSUME InputInv, ReadBegin PROVE InputInv'
  <1>1. /\ worker = "header" /\ fd /\ in_len = 0 /\ content = 0
        /\ got = 0 /\ nread = 0 /\ buflen = 0 /\ ~post_read /\ ~body
    BY Zenon DEF InputInv, Idle, ReadBegin, Reading
  <1>2. /\ UNCHANGED <<body, in_len, content, post_read, buflen, got, nread, eof, dropped>>
        /\ desync' <=> desync \/ Garbled
    BY Zenon DEF ReadBegin, readVars
  <1>3. ASSUME ~dropped PROVE ~desync' /\ StreamOk /\ AtRequest
    <2>1. ~desync /\ StreamOk /\ AtRequest
      BY <1>1, <1>3, Zenon DEF InputInv, Synced
    <2>2. ~Garbled
      BY <2>1 DEF AtRequest, Garbled, StreamOk
    <2> QED
      BY <1>2, <2>1, <2>2
  <1>4. ASSUME worker' \in {"header", "params"}, fd' = fd PROVE Idle' /\ Numbers' /\ Asked'
    BY <1>1, <1>2, <1>4 DEF Idle, Numbers, Asked, WorkerStates, Reading
  <1>5. CASE Hdr("stdin") /\ input[1].len = 0 /\ Take(1) /\ UNCHANGED <<worker, fd, keep>>
    <2>1. ASSUME ~dropped PROVE Synced'
      <3>1. StreamOk /\ input # <<>> /\ at = 0 /\ input[1].t = "stdin" /\ input[1].len = 0
        BY <1>3, <1>5, <2>1 DEF Hdr, HasHdr, There
      <3>2. /\ StreamOk' /\ at' = 0 /\ (input' = <<>> => There' = 0)
            /\ input' # <<>> => Follows(input[1], input'[1])
        BY <1>2, <1>5, <3>1, TakeEmpty, Zenon
      <3>3. input' # <<>> => input'[1].t = "begin"
        BY <3>1, <3>2 DEF Follows
      <3>4. AtRequest'
        BY <3>2, <3>3 DEF AtRequest
      <3> QED
        BY <1>1, <1>4, <1>5, <3>2, <3>4 DEF Synced, Serving, Reading
    <2> QED
      BY <1>1, <1>2, <1>3, <1>4, <1>5, <2>1, Zenon DEF InputInv
  <1>6. CASE Hdr("begin") /\ Take(1) /\ worker' = "params" /\ UNCHANGED fd
    <2>1. ASSUME ~dropped PROVE Synced'
      <3>1. StreamOk /\ input # <<>> /\ at = 0 /\ input[1].t = "begin"
        BY <1>3, <1>6, <2>1 DEF Hdr, HasHdr, There
      <3>2. input[1].len = 0
        BY <3>1, First DEF Sound
      <3>3. /\ StreamOk' /\ at' = 0
            /\ input' = <<>> => There' = 0 /\ (eof \/ EndOfBody(input[1]))
            /\ input' # <<>> => Follows(input[1], input'[1])
        BY <1>2, <1>6, <3>1, <3>2, TakeEmpty, Zenon
      <3>4. input' = <<>> => Ended'
        BY <1>2, <3>1, <3>3 DEF Ended, EndOfBody
      <3>5. input' # <<>> => input'[1].t = "params" /\ (input'[1].len = 0 => input'[1].content = 0)
        BY <3>1, <3>3 DEF Follows
      <3>6. AtParams'
        BY <1>1, <1>2, <3>3, <3>4, <3>5 DEF AtParams
      <3> QED
        BY <1>1, <1>4, <1>6, <3>3, <3>6 DEF Synced, Serving, Reading
    <2> QED
      BY <1>1, <1>2, <1>3, <1>4, <1>6, <2>1, Zenon DEF InputInv
  <1>7. CASE Refuse
    <2>1. worker' = "accept" /\ fd' = FALSE
      BY <1>7 DEF Refuse
    <2>2. Idle'
      BY <1>1, <1>2, <2>1 DEF Idle, WorkerStates, Reading
    <2> QED
      BY <1>2, <1>3, <2>1, <2>2, Zenon DEF InputInv
  <1> QED
    BY <1>5, <1>6, <1>7 DEF ReadBegin

LEMMA ReadParamsKeeps == ASSUME InputInv, ReadParams PROVE InputInv'
  <1>1. /\ worker = "params" /\ fd /\ in_len = 0
        /\ got = 0 /\ nread = 0 /\ buflen = 0 /\ ~post_read /\ ~body
    BY DEF InputInv, Idle, ReadParams, Reading
  <1>2. /\ UNCHANGED <<body, in_len, in_pad, post_read, buflen, got, nread, eof, dropped>>
        /\ desync' <=> desync \/ Garbled
    BY Zenon DEF ReadParams
  <1>3. ASSUME ~dropped PROVE ~desync' /\ StreamOk /\ AtParams /\ content \in Nat
    <2>1. ~desync /\ StreamOk /\ AtParams /\ content \in Nat
      BY <1>1, <1>3 DEF InputInv, Synced, Numbers
    <2>2. ~Garbled
      BY <2>1 DEF AtParams, Ended, Garbled
    <2> QED
      BY <1>2, <2>1, <2>2, Zenon
  <1>4. CASE /\ Hdr("params") /\ input[1].len > 0 /\ There = Size(input[1])
             /\ Take(There) /\ content' = input[1].content /\ UNCHANGED <<worker, fd, keep>>
    <2>1. Idle'
      BY <1>1, <1>2, <1>4, Zenon DEF Idle, WorkerStates, Reading
    <2>2. ASSUME ~dropped PROVE Synced'
      <3>1. StreamOk /\ input # <<>> /\ at = 0 /\ input[1].t = "params" /\ There > 0
        BY <1>3, <1>4, <2>2 DEF Hdr, HasHdr, There
      <3>2. /\ There \in Nat /\ There <= There /\ at + There = Size(input[1])
            /\ input[1].content \in Nat /\ input[1].len # 0
        BY <1>4, <3>1, First
      <3>3. /\ StreamOk' /\ input' = Tail(input) /\ at' = 0
            /\ input' = <<>> => There' = 0 /\ (eof \/ EndOfBody(input[1]))
        BY <1>2, <1>4, <3>1, <3>2, TakeOk, Zenon
      <3>4. input' # <<>> => Follows(input[1], input'[1])
        BY <3>1, <3>3, TailProper DEF StreamOk
      <3>5. input' = <<>> => Ended'
        BY <1>2, <3>1, <3>3 DEF Ended, EndOfBody
      <3>6. input' # <<>> => /\ input'[1].t = "params"
                             /\ input'[1].len = 0 => input'[1].content = content'
        BY <1>4, <3>1, <3>4 DEF Follows
      <3>7. AtParams'
        BY <3>3, <3>5, <3>6 DEF AtParams
      <3>8. Numbers' /\ Asked'
        BY <1>1, <1>2, <1>4, <3>2, Zenon DEF Numbers, Asked, Reading
      <3> QED
        BY <1>1, <1>4, <3>3, <3>7, <3>8 DEF Synced, Serving, Reading
    <2> QED
      BY <1>2, <1>3, <2>1, <2>2 DEF InputInv
  <1>5. CASE /\ HasHdr /\ ~(Hdr("params") /\ input[1].len > 0)
             /\ Take(1) /\ worker' = "start" /\ UNCHANGED <<content, fd, keep>>
    <2>1. Idle'
      BY <1>1, <1>2, <1>5 DEF Idle, WorkerStates, Reading
    <2>2. ASSUME ~dropped PROVE Synced'
      <3>1. /\ StreamOk /\ input # <<>> /\ at = 0 /\ input[1].t = "params"
            /\ input[1].len = 0 => input[1].content = content
        BY <1>3, <1>5, <2>2 DEF HasHdr, There, AtParams, Ended
      <3>2. input[1].len = 0
        BY <1>5, <3>1, First DEF Hdr
      <3>3. /\ StreamOk' /\ at' = 0
            /\ input' = <<>> => There' = 0 /\ (eof \/ EndOfBody(input[1]))
            /\ input' # <<>> => Follows(input[1], input'[1])
        BY <1>2, <1>5, <3>1, <3>2, TakeEmpty
      <3>4. input' = <<>> => Ended'
        BY <1>2, <3>1, <3>3 DEF Ended, EndOfBody
      <3>5. input' # <<>> => input'[1].t = "stdin" /\ input'[1].content = content
        BY <3>1, <3>2, <3>3 DEF Follows
      <3>6. left' = content
        BY <1>1, <1>2, <1>3, <1>5, <2>2 DEF left
      <3>7. AtBody'
        BY <1>1, <1>2, <3>3, <3>4, <3>5, <3>6, Zenon DEF AtBody, AtRecord
      <3>8. Numbers' /\ Asked'
        BY <1>1, <1>2, <1>3, <1>5, <2>2 DEF Numbers, Asked, Reading
      <3> QED
        BY <1>1, <1>5, <3>3, <3>7, <3>8 DEF Synced, Serving, Reading
    <2> QED
      BY <1>2, <1>3, <2>1, <2>2, Zenon DEF InputInv
  <1>6. CASE Refuse
    <2>1. worker' = "accept" /\ fd' = FALSE
      BY <1>6, Zenon DEF Refuse
    <2>2. Idle'
      BY <1>1, <1>2, <2>1, Zenon DEF Idle, WorkerStates, Reading
    <2> QED
      BY <1>2, <1>3, <2>1, <2>2 DEF InputInv
  <1> QED
    BY <1>4, <1>5, <1>6, Zenon DEF ReadParams

LEMMA SameStream ==
  ASSUME UNCHANGED <<input, at, cut, eof>>
  PROVE  (StreamOk' <=> StreamOk) /\ There' = There /\ (Ended' <=> Ended)
  BY Zenon DEF StreamOk, There, Ended

LEMMA SameBody ==
  ASSUME UNCHANGED <<input, at, cut, eof, in_len, in_pad>>, left' = left, AtBody
  PROVE  AtBody'
  BY SameStream, Zenon DEF AtBody, AtRecord, InRecord

\* The invariant while a body is read, from its parts.
LEMMA ReadingSynced ==
  ASSUME Idle', ~dropped' => /\ ~desync'
                             /\ fd' => /\ StreamOk' /\ Numbers' /\ Asked' /\ AtBody'
                                       /\ worker' \in {"serve", "finish"} \cup Reading
                                       /\ (worker' = "serve" /\ post_read') \/ worker' = "finish"
                                            => Consumed'
  PROVE  InputInv'
  BY Zenon DEF InputInv, Synced, Serving, Reading

LEMMA ReadNothingKeeps == ASSUME InputInv, ReadNothing PROVE InputInv'
  <1>1. /\ worker \in Reading /\ count_bytes = 0 /\ BlockEnds(0)
        /\ UNCHANGED <<fd, in_len, in_pad, input, at, cut, eof, dropped, desync>>
    BY Zenon DEF ReadNothing, clientVars, stream, fcgiHistory
  <1>2. Idle'
    BY <1>1, EndsIdle, Zenon
  <1>3. ASSUME ~dropped, fd
        PROVE  /\ StreamOk' /\ Numbers' /\ Asked' /\ AtBody'
               /\ worker' \in {"serve", "finish"} \cup Reading
               /\ (worker' = "serve" /\ post_read') \/ worker' = "finish" => Consumed'
    <2>1. StreamOk /\ Numbers /\ Asked /\ AtBody
      BY <1>1, <1>3, Zenon DEF InputInv, Synced, Serving
    <2>2. got = 0 /\ nread = 0 /\ content \in Nat /\ in_len' \in Nat
      BY <1>1, <2>1 DEF Numbers, Asked
    <2>3. 0 \in Nat /\ 0 <= count_bytes /\ ~(0 < count_bytes)
      BY <1>1
    <2>4. /\ Numbers' /\ Asked' /\ left' = content - 0
          /\ worker' \in {"serve", "finish"} \cup Reading
          /\ (worker' = "serve" /\ post_read') \/ worker' = "finish" => Consumed'
      BY <1>1, <2>1, <2>2, <2>3, EndsSynced, Zenon
    <2>5. left' = left
      BY <2>2, <2>4 DEF left
    <2> QED
      BY <1>1, <2>1, <2>4, <2>5, SameStream, SameBody
  <1> QED
    BY <1>1, <1>2, <1>3, ReadingSynced DEF InputInv

LEMMA ReadHeaderKeeps == ASSUME InputInv, ReadHeader PROVE InputInv'
  <1>1. /\ worker \in Reading /\ count_bytes > 0 /\ in_len = 0
        /\ UNCHANGED <<fd, eof, dropped>> /\ (desync' <=> desync \/ Garbled)
    BY Zenon DEF ReadHeader
  <1>2. Idle'
    <2>1. Idle /\ (Returns(nread) \/ Returns(0) \/ UNCHANGED worker)
      BY DEF InputInv, ReadHeader
    <2> QED
      BY <1>1, <2>1, ReturnsIdle
  <1>3. CASE dropped \/ ~fd
    <2>1. ~dropped => ~desync'
      BY <1>1, <1>3 DEF InputInv, Garbled
    <2> QED
      BY <1>1, <1>2, <1>3, <2>1, Zenon DEF InputInv
  <1>4. CASE ~dropped /\ fd
    <2>1. StreamOk /\ Numbers /\ Asked /\ AtBody /\ ~desync
      BY <1>1, <1>4, Zenon DEF InputInv, Synced, Serving
    <2>2. Ended \/ AtRecord
      BY <1>1, <2>1 DEF AtBody, InRecord
    <2>3. ~desync'
      BY <1>1, <2>1, <2>2 DEF Ended, AtRecord, Garbled
    <2>4. /\ content \in Nat /\ got \in Nat /\ nread \in Nat /\ buflen \in Nat /\ in_len \in Nat
          /\ got + nread < count_bytes /\ count_bytes <= content /\ count_bytes \in Nat
      BY <1>1, <2>1 DEF Numbers, Asked, count_bytes, Least
    <2>5. CASE Hdr("stdin")
      <3>1. AtRecord /\ input # <<>> /\ There > 0
        BY <2>2, <2>5 DEF Ended, Hdr, HasHdr, AtRecord
      <3>2. left > 0 /\ left \in Nat
        BY <2>4 DEF left
      <3>3. /\ input[1].len \in Nat /\ input[1].pad \in Nat /\ Size(input[1]) > 1 /\ There \in Nat
            /\ Size(input[1]) \in Nat /\ input[1].len # 0
        <4>1. /\ Sound(input[1]) /\ Size(input[1]) = 1 + input[1].len + input[1].pad
              /\ input[1].len \in Nat /\ input[1].pad \in Nat /\ There \in Nat
          BY <2>1, <3>1, First, Zenon
        <4>2. input[1].len # 0
          BY <3>1, <3>2, <4>1 DEF Sound, AtRecord
        <4> QED
          BY <4>1, <4>2
      <3>4. /\ Take(1) /\ in_len' = input[1].len /\ in_pad' = input[1].pad
            /\ UNCHANGED <<worker, content, post_read, buflen, got, nread>>
        BY <2>5, <3>3, Zenon DEF ReadHeader
      <3>5. StreamOk' /\ input' = input /\ at' = 1
        <4>1. at = 0 /\ 1 \in Nat /\ 1 <= There /\ ~(at + 1 = Size(input[1])) /\ at + 1 = 1
          BY <3>1, <3>3 DEF AtRecord
        <4> QED
          BY <1>1, <2>1, <3>1, <3>4, <4>1, TakeOk, Zenon
      <3>6. left' = left
        BY <3>4 DEF left
      <3>7. InRecord'
        BY <3>1, <3>2, <3>3, <3>4, <3>5, <3>6 DEF InRecord, AtRecord
      <3>8. Numbers' /\ Asked'
        <4>1. count_bytes' = count_bytes
          BY <3>4 DEF count_bytes
        <4> QED
          BY <2>1, <3>3, <3>4, <4>1 DEF Numbers, Asked
      <3>9. worker' \in Reading
        BY <1>1, <3>4, Zenon
      <3> QED
        BY <1>2, <2>3, <3>5, <3>7, <3>8, <3>9, ReadingSynced DEF AtBody, Reading
    <2>6. CASE ~Hdr("stdin")
      <3>1. Ended
        <4>1. AtRecord => Hdr("stdin")
          BY <1>4, <2>1, First DEF AtRecord, Hdr, HasHdr
        <4> QED
          BY <2>2, <2>6, <4>1, Zenon
      <3>2. /\ UNCHANGED <<input, at, cut, in_len, in_pad>> /\ Returns(0)
        BY <2>6, <3>1 DEF ReadHeader, HasHdr, Ended, stream
      <3>3. StreamOk' /\ Ended'
        BY <1>1, <2>1, <3>1, <3>2, SameStream, Zenon
      <3>4. 0 \in Int /\ 0 <= count_bytes - got /\ in_len' \in Nat
        BY <2>4, <3>2
      <3>5. /\ Numbers' /\ Asked'
            /\ worker' \in {"serve", "finish"} \cup Reading
            /\ (worker' = "serve" /\ post_read') \/ worker' = "finish" => Consumed'
        BY <1>1, <2>1, <3>2, <3>3, <3>4, ReturnsSynced
      <3> QED
        BY <1>2, <2>3, <3>3, <3>5, ReadingSynced DEF AtBody
    <2> QED
      BY <2>5, <2>6
  <1> QED
    BY <1>3, <1>4

\* The bytes of a record that a read inside its content leaves behind.
LEMMA InsideContent ==
  ASSUME NEW n \in Nat, NEW p \in Nat, NEW l \in Nat, NEW r \in Nat, r < l
  PROVE  ~((1 + n - l) + r = 1 + n + p)
  OBVIOUS

LEMMA ReadContentKeeps == ASSUME InputInv, ReadContent PROVE InputInv'
  <1> DEFINE want == Least(in_len, rest)
             ret == Least(want, There)
             padding == Least(in_pad, There - ret)
             Goal == /\ StreamOk' /\ Numbers' /\ Asked' /\ AtBody'
                     /\ worker' \in {"serve", "finish"} \cup Reading
                     /\ (worker' = "serve" /\ post_read') \/ worker' = "finish" => Consumed'
             Fails == /\ ~fd \/ (eof /\ ret < want)
                      /\ keep' = FALSE /\ input' = <<>> /\ at' = 0 /\ cut' = 0
                      /\ Returns(-1)
                      /\ UNCHANGED <<in_len, in_pad>>
             Within1 == /\ fd /\ ret < in_len /\ (ret < want => eof)
                        /\ Take(ret) /\ in_len' = in_len - ret
                        /\ Returns(nread + ret)
                        /\ UNCHANGED <<keep, in_pad>>
             Whole1 == /\ fd /\ ret = in_len /\ (padding < in_pad => eof)
                       /\ Take(ret + padding) /\ in_len' = 0
                       /\ keep' = (keep /\ padding = in_pad)
                       /\ IF padding < in_pad THEN Returns(ret)
                          ELSE IF ret = rest THEN Returns(nread + ret)
                          ELSE nread' = nread + ret /\ UNCHANGED <<worker, content, post_read, buflen, got>>
                       /\ UNCHANGED in_pad
  <1>1. /\ worker \in Reading /\ count_bytes > 0 /\ in_len > 0
        /\ UNCHANGED <<fd, eof, dropped, desync>>
    BY Zenon DEF ReadContent, fcgiHistory
  <1>2. Fails \/ Within1 \/ Whole1
    BY DEF ReadContent
  <1>3. Idle'
    <2>1. Idle
      BY Zenon DEF InputInv
    <2>2. Returns(-1) \/ Returns(nread + ret) \/ Returns(ret) \/ UNCHANGED worker
      BY <1>2
    <2> HIDE DEF ret
    <2> QED
      BY <1>1, <2>1, <2>2, ReturnsIdle
  <1> SUFFICES ASSUME ~dropped, fd PROVE Goal
    <2> HIDE DEF Goal
    <2>1. ~dropped /\ fd => Goal
      OBVIOUS
    <2>2. ~dropped' => ~desync' /\ (fd' => Goal)
      BY <1>1, <2>1 DEF InputInv
    <2> QED
      BY <1>3, <2>2, ReadingSynced DEF Goal
  <1>4. StreamOk /\ Numbers /\ Asked /\ AtBody
    BY <1>1 DEF InputInv, Synced, Serving
  <1>5. Ended \/ InRecord
    BY <1>1, <1>4 DEF AtBody, AtRecord
  <1>6. /\ content \in Nat /\ got \in Nat /\ nread \in Nat /\ buflen \in Nat /\ in_len \in Nat
        /\ got + nread < count_bytes /\ count_bytes <= content /\ count_bytes \in Nat
    BY <1>1, <1>4 DEF Numbers, Asked, count_bytes, Least
  <1>7. /\ rest \in Nat /\ rest > 0 /\ rest = count_bytes - got - nread
        /\ left \in Nat /\ left = content - got - nread
    BY <1>6 DEF rest, left
  <1>8. There \in Nat
    <2>1. input = <<>> => There = 0
      BY DEF There
    <2> QED
      BY <1>4, <2>1, First
  <1>9. /\ want \in Nat /\ want > 0 /\ want <= rest /\ want <= in_len
        /\ ret \in Nat /\ ret <= want /\ ret <= There
        /\ ret < want => ret = There
    BY <1>1, <1>6, <1>7, <1>8 DEF Least
  <1> HIDE DEF want, ret
  <1>10. CASE Fails
    <2>1. StreamOk' /\ Ended' /\ in_len' \in Nat
      BY <1>1, <1>6, <1>10, EmptyOk DEF Ended
    <2>2. Returns(-1) /\ -1 \in Int /\ -1 <= count_bytes - got
      BY <1>6, <1>10
    <2>3. /\ Numbers' /\ Asked'
          /\ worker' \in {"serve", "finish"} \cup Reading
          /\ (worker' = "serve" /\ post_read') \/ worker' = "finish" => Consumed'
      BY <1>1, <1>4, <2>1, <2>2, ReturnsSynced, Zenon
    <2> QED
      BY <2>1, <2>3, Zenon DEF AtBody
  <1>11. CASE Within1
    <2> DEFINE v == nread + ret
    <2>1. v \in Int /\ v <= count_bytes - got /\ in_len' \in Nat /\ Returns(v)
      BY <1>6, <1>7, <1>9, <1>11
    <2>2. ASSUME Ended PROVE StreamOk' /\ Ended'
      <3>1. ret = 0
        BY <1>9, <2>2 DEF Ended
      <3>2. at + 0 = at
        BY <1>4 DEF StreamOk
      <3>3. UNCHANGED <<input, at, cut>>
        BY <1>11, <3>1, <3>2 DEF Take
      <3> QED
        BY <1>1, <1>4, <2>2, <3>3, SameStream
    <2>3. ASSUME InRecord
          PROVE  /\ StreamOk' /\ input' = input /\ at' = at + ret /\ cut' = cut
      <3>1. input # <<>> /\ at = 1 + input[1].len - in_len
        BY <2>3 DEF InRecord
      <3>2. /\ input[1].len \in Nat /\ input[1].pad \in Nat
            /\ Size(input[1]) = 1 + input[1].len + input[1].pad
        BY <1>4, <3>1, First
      <3>3. ~(at + ret = Size(input[1]))
        <4>1. in_len \in Nat /\ ret \in Nat /\ ret < in_len
          BY <1>6, <1>9, <1>11, Zenon
        <4>2. ~((1 + input[1].len - in_len) + ret = 1 + input[1].len + input[1].pad)
          BY <4>1, <3>2, InsideContent
        <4> QED
          BY <4>2, <3>1, <3>2, Zenon
      <3> QED
        BY <1>1, <1>4, <1>9, <1>11, <3>1, <3>3, TakeOk
    <2>4. v <= 0 => Ended'
      <3> SUFFICES ASSUME v <= 0, ~Ended PROVE Ended'
        BY <2>2
      <3>1. ret = 0 /\ There = 0 /\ eof
        BY <1>6, <1>9, <1>11
      <3> QED
        BY <3>1, Zenon DEF Ended
    <2>5. /\ Numbers' /\ Asked' /\ left' = content - got - (IF v > 0 THEN v ELSE 0)
          /\ worker' \in {"serve", "finish"} \cup Reading
          /\ (worker' = "serve" /\ post_read') \/ worker' = "finish" => Consumed'
      <3> HIDE DEF v
      <3> QED
        BY <1>1, <1>4, <2>1, <2>4, ReturnsSynced, Zenon
    <2>6. CASE Ended
      BY <2>2, <2>5, <2>6 DEF AtBody
    <2>7. CASE InRecord /\ v <= 0
      BY <2>3, <2>4, <2>5, <2>7 DEF AtBody
    <2>8. CASE InRecord /\ v > 0
      <3>1. left' = left - ret
        BY <1>6, <1>7, <1>9, <2>5, <2>8
      <3>2. /\ input # <<>> /\ input[1].t = "stdin" /\ in_len <= input[1].len
            /\ at = 1 + input[1].len - in_len /\ in_pad = input[1].pad
            /\ input[1].content = left + input[1].len - in_len
        BY <2>8 DEF InRecord
      <3>3. input[1].len \in Nat /\ input[1].content \in Nat
        BY <1>4, <3>2, First
      <3>4. /\ in_len' > 0 /\ in_len' <= input[1].len
            /\ at + ret = 1 + input[1].len - (in_len - ret)
            /\ input[1].content = (left - ret) + input[1].len - (in_len - ret)
        <4>1. in_len' = in_len - ret /\ ret < in_len
          BY <1>11, Zenon
        <4>2. in_len' > 0 /\ in_len' <= input[1].len
          BY <1>6, <1>9, <3>2, <3>3, <4>1
        <4>3. at + ret = 1 + input[1].len - (in_len - ret)
          BY <1>6, <1>9, <3>2, <3>3
        <4>4. input[1].content = (left - ret) + input[1].len - (in_len - ret)
          BY <1>6, <1>7, <1>9, <3>2, <3>3
        <4> QED
          BY <4>2, <4>3, <4>4
      <3>5. InRecord'
        <4>1. input' = input /\ at' = at + ret /\ in_len' = in_len - ret /\ in_pad' = in_pad
          BY <1>11, <2>3, <2>8
        <4> QED
          BY <3>1, <3>2, <3>4, <4>1, Zenon DEF InRecord
      <3> QED
        BY <2>3, <2>5, <2>8, <3>5 DEF AtBody
    <2> QED
      BY <1>5, <2>1, <2>6, <2>7, <2>8
  <1>12. CASE Whole1
    <2>1. InRecord
      <3>1. There > 0
        BY <1>1, <1>8, <1>9, <1>12
      <3> QED
        BY <1>5, <3>1 DEF Ended
    <2>2. /\ input # <<>> /\ input[1].t = "stdin" /\ in_len <= input[1].len
          /\ at = 1 + input[1].len - in_len /\ in_pad = input[1].pad
          /\ input[1].content = left + input[1].len - in_len
      BY <2>1 DEF InRecord
    <2>3. /\ input[1].len \in Nat /\ input[1].pad \in Nat /\ input[1].content \in Nat
          /\ Size(input[1]) = 1 + input[1].len + input[1].pad
          /\ Len(input) \in Nat /\ Len(input) > 0
          /\ Len(input) > 1 => There = Size(input[1]) - at
          /\ Len(input) = 1 => There = Size(input[1]) - at - cut
          /\ at \in Nat /\ cut \in Nat
      BY <1>4, <2>2, First
    <2>4. /\ padding \in Nat /\ ret + padding \in Nat /\ ret + padding <= There /\ padding <= in_pad
          /\ padding < in_pad => ret + padding = There
      BY <1>8, <1>9, <2>2, <2>3 DEF Least
    <2>5. ret = in_len /\ Take(ret + padding) /\ (padding < in_pad => eof) /\ in_len' = 0
      BY <1>12, Zenon
    <2> HIDE DEF padding
    <2>6. CASE padding < in_pad
      <3>1. Len(input) = 1 /\ ~(at + (ret + padding) = Size(input[1]))
        <4>1. at + (ret + padding) < Size(input[1])
          BY <1>6, <1>9, <2>2, <2>3, <2>4, <2>5, <2>6
        <4>2. \A i \in Nat : i > 0 => i = 1 \/ i > 1
          OBVIOUS
        <4>3. ~(Len(input) > 1)
          <5> SUFFICES ASSUME Len(input) > 1 PROVE FALSE
            OBVIOUS
          <5>1. There = Size(input[1]) - at
            BY <2>3
          <5> QED
            BY <5>1, <4>1, <2>3, <2>4, <2>6
        <4>4. Len(input) = 1
          BY <4>2, <4>3, <2>3, Zenon
        <4> QED
          BY <4>1, <4>4, <2>3
      <3>2. StreamOk' /\ There' = 0
        <4>1. ret + padding = There /\ eof
          BY <2>4, <2>5, <2>6
        <4> QED
          BY <1>1, <1>4, <2>2, <2>4, <2>5, <3>1, <4>1, TakeOk, Zenon
      <3>3. Ended' /\ in_len' \in Nat
        BY <1>1, <2>5, <2>6, <3>2 DEF Ended
      <3>4. Returns(ret) /\ ret \in Int /\ ret <= count_bytes - got /\ ~(ret <= 0)
        BY <1>1, <1>6, <1>7, <1>9, <1>12, <2>6
      <3>5. /\ Numbers' /\ Asked'
            /\ worker' \in {"serve", "finish"} \cup Reading
            /\ (worker' = "serve" /\ post_read') \/ worker' = "finish" => Consumed'
        BY <1>1, <1>4, <3>3, <3>4, ReturnsSynced, Zenon
      <3> QED
        BY <3>2, <3>3, <3>5, Zenon DEF AtBody
    <2>7. CASE ~(padding < in_pad)
      <3>1. padding = in_pad
        BY <2>2, <2>3, <2>4, <2>7
      <3>2. at + (ret + padding) = Size(input[1]) /\ ret + padding > 0
        BY <1>1, <1>6, <1>9, <2>2, <2>3, <2>5, <3>1
      <3>3. /\ StreamOk' /\ input' = Tail(input) /\ at' = 0
            /\ input' = <<>> => There' = 0 /\ (eof \/ EndOfBody(input[1]))
        BY <1>1, <1>4, <2>2, <2>4, <2>5, <3>2, TakeOk, Zenon
      <3>4. ~EndOfBody(input[1])
        BY <1>1, <1>6, <2>2, <2>3 DEF EndOfBody
      <3>5. input' = <<>> => Ended'
        BY <1>1, <3>3, <3>4 DEF Ended
      <3>6. input' # <<>> => input'[1].t = "stdin" /\ input'[1].content = left - ret
        <4> SUFFICES ASSUME input' # <<>>
                     PROVE  input'[1].t = "stdin" /\ input'[1].content = left - ret
          OBVIOUS
        <4>1. Follows(input[1], input'[1])
          BY <1>4, <2>2, <3>3, TailProper, Zenon DEF StreamOk
        <4>2. input[1].t = "stdin" /\ input[1].len > 0
          BY <1>1, <1>6, <2>2, <2>3
        <4>3. input'[1].t = "stdin" /\ input'[1].content = input[1].content - input[1].len
          BY <4>1, <4>2, Zenon DEF Follows
        <4>4. input[1].content - input[1].len = left - ret
          BY <1>6, <1>7, <2>2, <2>3, <2>5
        <4> QED
          BY <4>3, <4>4, Zenon
      <3>7. /\ Numbers' /\ Asked' /\ left' = left - ret
            /\ worker' \in {"serve", "finish"} \cup Reading
            /\ (worker' = "serve" /\ post_read') \/ worker' = "finish" => Consumed'
        <4>1. CASE ret = rest
          <5> DEFINE v == nread + ret
          <5>1. /\ Returns(v) /\ v \in Int /\ v <= count_bytes - got /\ ~(v <= 0) /\ v > 0
                /\ in_len' \in Nat /\ content - got - v = left - ret
            BY <1>1, <1>6, <1>7, <1>9, <1>12, <2>5, <2>7, <4>1
          <5> HIDE DEF v
          <5>2. /\ Numbers' /\ Asked' /\ left' = content - got - (IF v > 0 THEN v ELSE 0)
                /\ worker' \in {"serve", "finish"} \cup Reading
                /\ (worker' = "serve" /\ post_read') \/ worker' = "finish" => Consumed'
            BY <1>1, <1>4, <5>1, ReturnsSynced, Zenon
          <5> QED
            BY <5>1, <5>2
        <4>2. CASE ret # rest
          <5>1. /\ nread' = nread + ret /\ UNCHANGED <<worker, content, post_read, buflen, got>>
            BY <1>12, <2>7, <4>2
          <5>2. nread + ret \in Nat /\ got + (nread + ret) < count_bytes
            BY <1>6, <1>7, <1>9, <4>2
          <5>3. count_bytes' = count_bytes
            BY <5>1, Zenon DEF count_bytes
          <5>4. Numbers' /\ Asked'
            BY <1>4, <2>5, <5>1, <5>2, <5>3 DEF Numbers, Asked
          <5>5. content - got - (nread + ret) = left - ret
            BY <1>6, <1>7, <1>9
          <5>6. left' = left - ret
            BY <5>1, <5>5, Zenon DEF left
          <5> QED
            BY <1>1, <5>1, <5>4, <5>6, Zenon DEF Reading
        <4> QED
          BY <4>1, <4>2, Zenon
      <3>8. AtBody'
        BY <2>5, <3>3, <3>5, <3>6, <3>7, Zenon DEF AtBody, AtRecord
      <3> QED
        BY <3>3, <3>7, <3>8
    <2> QED
      BY <2>6, <2>7, Zenon
  <1> HIDE DEF Goal, Fails, Within1, Whole1
  <1> QED
    BY <1>2, <1>10, <1>11, <1>12, Zenon

LEMMA StartPostKeeps == ASSUME InputInv, StartPost PROVE InputInv'
  <1>1. /\ worker = "start" /\ got' = 0 /\ nread' = 0
        /\ (worker' = "post" /\ buflen' = PostBlock) \/ (worker' = "serve" /\ buflen' = 0)
        /\ UNCHANGED <<fd, in_len, in_pad, content, post_read, input, at, cut, eof, dropped, desync>>
    BY Zenon DEF StartPost, Block, clientVars, stream, fcgiHistory
  <1>2. got = 0 /\ nread = 0 /\ ~post_read
    BY <1>1, Zenon DEF InputInv, Idle, Reading
  <1>3. Idle'
    BY <1>1 DEF Idle, WorkerStates, Reading
  <1>4. ASSUME ~dropped, fd
        PROVE  /\ StreamOk' /\ Numbers' /\ Asked' /\ AtBody'
               /\ worker' \in {"serve", "finish"} \cup Reading
               /\ (worker' = "serve" /\ post_read') \/ worker' = "finish" => Consumed'
    <2>1. StreamOk /\ Numbers /\ AtBody
      BY <1>1, <1>4, Zenon DEF InputInv, Synced, Serving
    <2>2. Numbers' /\ Asked'
      BY <1>1, <1>2, <2>1, RequestAssumption DEF Numbers, Asked, Reading
    <2>3. left' = left
      BY <1>1, <1>2, <2>1, Zenon DEF Numbers, left
    <2>4. StreamOk' /\ AtBody'
      BY <1>1, <2>1, <2>3, SameStream, SameBody, Zenon
    <2> QED
      BY <1>1, <1>2, <2>2, <2>4, Zenon DEF Reading
  <1> QED
    BY <1>1, <1>3, <1>4, ReadingSynced, Zenon DEF InputInv

LEMMA ReadInputKeeps == ASSUME InputInv, NEW k \in Reads, ReadInput(k) PROVE InputInv'
  <1>1. /\ worker = "serve" /\ ~post_read /\ got' = 0 /\ nread' = 0 /\ worker' = "input" /\ buflen' = k
        /\ UNCHANGED <<fd, in_len, in_pad, content, post_read, input, at, cut, eof, dropped, desync>>
    BY Zenon DEF ReadInput, Block, clientVars, stream, fcgiHistory
  <1>2. got = 0 /\ nread = 0
    BY <1>1, Zenon DEF InputInv, Idle, Reading
  <1>3. Idle'
    BY <1>1, Zenon DEF Idle, WorkerStates, Reading
  <1>4. ASSUME ~dropped, fd
        PROVE  /\ StreamOk' /\ Numbers' /\ Asked' /\ AtBody' /\ worker' \in Reading
    <2>1. StreamOk /\ Numbers /\ AtBody
      BY <1>1, <1>4 DEF InputInv, Synced, Serving
    <2>2. Numbers' /\ Asked'
      BY <1>1, <1>2, <2>1, RequestAssumption DEF Numbers, Asked, Reading
    <2>3. left' = left
      BY <1>1, <1>2, <2>1, Zenon DEF Numbers, left
    <2>4. StreamOk' /\ AtBody'
      BY <1>1, <2>1, <2>3, SameStream, SameBody, Zenon
    <2> QED
      BY <1>1, <1>2, <2>2, <2>4, Zenon DEF Reading
  <1> QED
    BY <1>1, <1>3, <1>4, ReadingSynced, Zenon DEF InputInv, Reading

\* The end of a script: the body was consumed, is drained, or is dropped.
LEMMA EndKeeps == ASSUME InputInv, End PROVE InputInv'
  <1>1. /\ worker = "serve" /\ got' = 0 /\ nread' = 0
        /\ \/ worker' = "finish" /\ buflen' = 0 /\ (body \/ post_read)
           \/ worker' = "drain" /\ buflen' = PostBlock /\ ~body /\ ~post_read
        /\ dropped' <=> dropped \/ (body /\ ~post_read /\ content > 0)
        /\ UNCHANGED <<fd, in_len, in_pad, content, post_read, input, at, cut, eof, desync>>
    BY Zenon DEF End, Block, clientVars, stream
  <1>2. got = 0 /\ nread = 0
    BY <1>1, Zenon DEF InputInv, Idle, Reading
  <1>3. Idle'
    BY <1>1, Zenon DEF Idle, WorkerStates, Reading
  <1>4. ASSUME ~dropped', fd
        PROVE  /\ StreamOk' /\ Numbers' /\ Asked' /\ AtBody'
               /\ worker' \in {"serve", "finish"} \cup Reading
               /\ (worker' = "serve" /\ post_read') \/ worker' = "finish" => Consumed'
    <2>1. StreamOk /\ Numbers /\ AtBody /\ (post_read => Consumed)
      BY <1>1, <1>4 DEF InputInv, Synced, Serving
    <2>2. Numbers' /\ Asked'
      BY <1>1, <1>2, <2>1, RequestAssumption DEF Numbers, Asked, Reading
    <2>3. left' = left
      BY <1>1, <1>2, <2>1 DEF Numbers, left
    <2>4. StreamOk' /\ AtBody' /\ (Ended' <=> Ended)
      BY <1>1, <2>1, <2>3, SameStream, SameBody, Zenon
    <2>5. worker' = "finish" => Consumed
      BY <1>1, <1>4, <2>1 DEF Consumed, Numbers
    <2>6. worker' = "finish" => Consumed'
      BY <1>1, <2>4, <2>5, Zenon DEF Consumed
    <2> QED
      BY <1>1, <2>2, <2>4, <2>6 DEF Reading
  <1> QED
    BY <1>1, <1>3, <1>4, ReadingSynced, Zenon DEF InputInv

\* The body was consumed, so what follows is its end or the next request.
LEMMA FinishKeeps == ASSUME InputInv, Finish PROVE InputInv'
  <1>1. /\ worker = "finish" /\ worker' = "accept" /\ ~post_read' /\ ~body'
        /\ UNCHANGED <<in_len, in_pad, content, buflen, got, nread, input, at, cut, eof,
                       dropped, desync>>
        /\ fd' => fd
    BY Zenon DEF Finish, fcgi_finish_request, MayClose, clientVars, stream, fcgiHistory
  <1>2. got = 0 /\ nread = 0 /\ buflen = 0
    BY <1>1, Zenon DEF InputInv, Idle, Reading
  <1>3. Idle'
    BY <1>1, <1>2, Zenon DEF Idle, WorkerStates, Reading
  <1>4. ASSUME ~dropped, fd PROVE Synced'
    <2>1. StreamOk /\ Numbers /\ AtBody /\ Consumed
      BY <1>1, <1>4, Zenon DEF InputInv, Synced, Serving
    <2>2. There = 0 \/ (at = 0 /\ input # <<>> /\ EndOfBody(input[1]))
      <3>1. CASE Ended
        BY <3>1, Zenon DEF Ended
      <3>2. CASE AtRecord /\ content = 0
        <4>1. input # <<>> /\ at = 0 /\ input[1].t = "stdin" /\ input[1].content = 0
          BY <1>2, <3>2 DEF AtRecord, left
        <4>2. Sound(input[1]) /\ input[1].len \in Nat
          BY <2>1, <4>1, First, Zenon
        <4> QED
          BY <4>1, <4>2 DEF Sound, EndOfBody
      <3>3. CASE InRecord /\ content = 0
        <4>1. /\ input # <<>> /\ in_len > 0 /\ input[1].t = "stdin"
              /\ input[1].content = 0 + input[1].len - in_len
          BY <1>2, <3>3 DEF InRecord, left
        <4>2. Sound(input[1]) /\ input[1].len \in Nat /\ in_len \in Nat
          BY <2>1, <4>1, First, Zenon DEF Numbers
        <4>3. input[1].len <= input[1].content
          BY <4>1, <4>2 DEF Sound
        <4> QED
          BY <4>1, <4>2, <4>3
      <3> QED
        BY <2>1, <3>1, <3>2, <3>3, Zenon DEF AtBody, Consumed
    <2>3. StreamOk' /\ There' = There
      BY <1>1, <2>1, SameStream, Zenon
    <2>4. AtRequest'
      BY <1>1, <2>2, <2>3, Zenon DEF AtRequest
    <2> QED
      BY <1>1, <2>3, <2>4, Zenon DEF Synced, Serving, Reading
  <1> QED
    BY <1>1, <1>3, <1>4, Zenon DEF InputInv

LEMMA FinishEarlyKeeps == ASSUME InputInv, FinishEarly PROVE InputInv'
  <1>1. /\ fd' \in {FALSE, fd}
        /\ UNCHANGED <<worker, in_len, in_pad, content, post_read, buflen, got, nread, body,
                       input, at, cut, eof, dropped, desync>> /\ worker = "serve"
    BY Zenon DEF FinishEarly, MayClose, readVars, clientVars, stream
  <1>2. CASE fd' = fd
    BY <1>1, <1>2, SameInput, Zenon DEF inputVars
  <1>3. CASE fd' = FALSE
    <2>1. Idle'
      BY <1>1, Zenon DEF Idle, InputInv
    <2> QED
      BY <1>1, <1>3, <2>1, HangUp
  <1> QED
    BY <1>1, <1>2, <1>3

LEMMA OpenInputKeeps == ASSUME InputInv, OpenInput PROVE InputInv'
  <1>1. /\ worker = "serve" /\ UNCHANGED <<worker, fd, in_len, in_pad, content, post_read, buflen,
                                           got, nread, input, at, cut, eof, dropped, desync>>
    BY Zenon DEF OpenInput, readVars, clientVars, stream, fcgiHistory
  <1>2. Idle'
    BY <1>1, Zenon DEF Idle, InputInv
  <1>3. StreamOk' <=> StreamOk
    BY <1>1, SameStream, Zenon
  <1>4. (Numbers' <=> Numbers) /\ (Consumed' <=> Consumed)
    BY <1>1, SameStream, Zenon DEF Numbers, Consumed
  <1>5. left' = left
    BY <1>1, Zenon DEF left
  <1>6. AtBody => AtBody'
    BY <1>1, <1>5, SameBody, Zenon
  <1>7. Asked'
    BY <1>1, Zenon DEF Asked, Reading
  <1> QED
    BY <1>1, <1>2, <1>3, <1>4, <1>6, <1>7 DEF InputInv, Synced, Serving, Reading

LEMMA InputInvariant == FcgiSpec => []InputInv
  <1>1. FcgiInit => InputInv
    <2> SUFFICES ASSUME FcgiInit PROVE InputInv
      OBVIOUS
    <2> QED
      BY Zenon DEF FcgiInit, InputInv, Idle, WorkerStates, Reading
  <1>2. InputInv /\ [FcgiNext]_fcgiVars => InputInv'
    <2> SUFFICES ASSUME InputInv, [FcgiNext]_fcgiVars PROVE InputInv'
      OBVIOUS
    <2>1. ASSUME \/ \E t \in Types, n \in Lens : Echo(t, n)
                 \/ EchoFlush
                 \/ UNCHANGED fcgiVars
          PROVE  InputInv'
      <3>1. UNCHANGED inputVars
        BY <2>1, Zenon DEF Echo, EchoFlush, inputVars, fcgiVars, reqVars, readVars, clientVars, stream,
                    fcgiHistory
      <3> QED
        BY <3>1, SameInput, Zenon
    <2>2. CASE FcgiNext
      BY <2>1, <2>2, SendKeeps, CloseKeeps, AcceptKeeps, HangUpKeeps, ReadRequestKeeps,
         ReadBeginKeeps, ReadParamsKeeps, StartPostKeeps, ReadNothingKeeps, ReadHeaderKeeps,
         ReadContentKeeps, ReadInputKeeps, FinishEarlyKeeps, OpenInputKeeps, EndKeeps,
         FinishKeeps, Zenon
         DEF FcgiNext
    <2> QED
      BY <2>1, <2>2
  <1> QED
    BY <1>1, <1>2, PTL DEF FcgiSpec

\* A worker never takes content or padding of a record for a header, and between
\* two requests it is where the next one starts, unless a script dropped a body:
\* for all requests that clients may send, all lengths of blocks and reads, and
\* clients that go away anywhere.
THEOREM WorkersStayAligned == FcgiSpec => []InputAligned
  <1>1. InputInv => InputAligned
    <2> SUFFICES ASSUME InputInv, ~dropped
                 PROVE  /\ ~desync
                        /\ worker \in {"accept", "header"} /\ fd /\ There > 0 =>
                             at = 0 /\ (input[1].t = "begin" \/ EndOfBody(input[1]))
      BY Zenon DEF InputAligned
    <2> QED
      BY DEF InputInv, Synced, AtRequest
  <1> QED
    BY <1>1, InputInvariant, PTL

----------------------------------------------------------------------------
(* The output: a worker uses the buffer as WriterSpec says *)

Booleans == broken \in BOOLEAN /\ fd \in BOOLEAN

\* What an action does to the output.
Quiet == UNCHANGED outVars /\ fd' \in BOOLEAN
Writes == (\E t \in Types, n \in Lens : Echo(t, n)) \/ EchoFlush \/ FinishEarly \/ Finish

LEMMA QuietSteps ==
  ASSUME Booleans, FcgiNext
  PROVE  Quiet \/ Accept \/ ReadRequest \/ Writes
  <1>1. ASSUME UNCHANGED outVars, UNCHANGED fd PROVE Quiet
    BY <1>1, Zenon DEF Quiet, Booleans
  <1>2. ASSUME NEW s, Send(s) PROVE Quiet
    BY <1>1, <1>2 DEF Send, reqVars
  <1>3. ASSUME NEW s, NEW k, NEW c, SendPart(s, k, c) PROVE Quiet
    BY <1>1, <1>3 DEF SendPart, reqVars
  <1>4. ASSUME Close PROVE Quiet
    BY <1>1, <1>4, Zenon DEF Close, reqVars
  <1>5. ASSUME PollTimeout \/ Exit PROVE Quiet
    BY <1>5, Zenon DEF PollTimeout, Exit, Quiet
  <1>6. ASSUME ReadBegin \/ ReadParams PROVE Quiet
    <2>1. UNCHANGED outVars /\ (UNCHANGED fd \/ fd' = FALSE)
      BY <1>6, Zenon DEF ReadBegin, ReadParams, Refuse
    <2> QED
      BY <2>1, Zenon DEF Quiet, Booleans
  <1>7. ASSUME StartPost \/ ReadNothing \/ ReadHeader \/ ReadContent \/ OpenInput \/ End PROVE Quiet
    <2>1. UNCHANGED outVars /\ UNCHANGED fd
      BY <1>7, Zenon DEF StartPost, ReadNothing, ReadHeader, ReadContent, OpenInput, End
    <2> QED
      BY <1>1, <2>1
  <1>8. ASSUME NEW k, ReadInput(k) PROVE Quiet
    BY <1>1, <1>8, Zenon DEF ReadInput
  <1> QED
    BY <1>2, <1>3, <1>4, <1>5, <1>6, <1>7, <1>8, Zenon DEF FcgiNext, Writes

\* Serving ends, or goes on, by one call to the writer, or by none.
Calls ==
  \/ \E t \in Types, n \in Lens : fcgi_write(t, n) /\ UNCHANGED fd
  \/ \E close, ok \in BOOLEAN : fcgi_flush(close, ok) /\ fd' \in BOOLEAN

LEMMA WritesCall ==
  ASSUME Booleans, Writes
  PROVE  Calls \/ Quiet
  <1>1. ASSUME NEW t \in Types, NEW n \in Lens, Echo(t, n) PROVE Calls
    BY <1>1, Zenon DEF Echo, Calls
  <1>2. ASSUME EchoFlush PROVE Calls
    <2>1. fd' \in BOOLEAN
      BY <1>2 DEF EchoFlush, Booleans
    <2>2. \E ok \in BOOLEAN : fcgi_flush(FALSE, ok)
      BY <1>2, Zenon DEF EchoFlush
    <2> QED
      BY <2>1, <2>2, Zenon DEF Calls
  <1>3. ASSUME FinishEarly PROVE Calls
    <2>1. fd' \in BOOLEAN
      BY <1>3 DEF FinishEarly, MayClose
    <2>2. \E ok \in BOOLEAN : fcgi_flush(TRUE, ok)
      BY <1>3, Zenon DEF FinishEarly
    <2> QED
      BY <2>1, <2>2, Zenon DEF Calls
  <1>4. ASSUME Finish PROVE Calls \/ Quiet
    <2>1. fd' \in BOOLEAN
      BY <1>4, Zenon DEF Finish, fcgi_finish_request, MayClose
    <2>2. (\E ok \in BOOLEAN : fcgi_flush(TRUE, ok)) \/ UNCHANGED outVars
      BY <1>4, Zenon DEF Finish, fcgi_finish_request
    <2> QED
      BY <2>1, <2>2, Zenon DEF Calls, Quiet
  <1> QED
    BY <1>1, <1>2, <1>3, <1>4 DEF Writes

LEMMA StepsWrite ==
  ASSUME Booleans, [FcgiNext]_fcgiVars
  PROVE  [WriterNext]_writerVars
  <1>1. CASE UNCHANGED fcgiVars
    BY <1>1, Zenon DEF fcgiVars, reqVars, writerVars
  <1>2. CASE Quiet
    <2>1. Connection
      BY <1>2, Zenon DEF Quiet, Connection, outVars, Booleans
    <2> QED
      BY <2>1, Zenon DEF WriterNext
  <1>3. CASE Accept
    <2>1. Connection
      BY <1>3, Zenon DEF Accept, Connection
    <2> QED
      BY <2>1, Zenon DEF WriterNext
  <1>4. CASE ReadRequest
    <2>1. Reset /\ fd' \in BOOLEAN /\ UNCHANGED broken
      BY <1>4 DEF ReadRequest, Booleans
    <2> QED
      BY <2>1, Zenon DEF WriterNext
  <1>5. CASE Calls
    BY <1>5, Zenon DEF Calls, WriterNext
  <1> QED
    BY <1>1, <1>2, <1>3, <1>4, <1>5, QuietSteps, WritesCall, Zenon

LEMMA BooleansKeep ==
  ASSUME Booleans, [FcgiNext]_fcgiVars
  PROVE  Booleans'
  <1>1. CASE UNCHANGED fcgiVars
    BY <1>1, Zenon DEF fcgiVars, reqVars, outVars, Booleans
  <1>2. CASE Quiet
    BY <1>2, Zenon DEF Quiet, outVars, Booleans
  <1>3. CASE Accept
    BY <1>3, Zenon DEF Accept, Booleans
  <1>4. CASE ReadRequest
    BY <1>4 DEF ReadRequest, Booleans
  <1>5. CASE Calls
    <2>1. broken' = broken \/ broken' = TRUE
      BY <1>5, StaysBroken, Zenon DEF Calls
    <2>2. fd' \in BOOLEAN
      BY <1>5, Zenon DEF Calls, Booleans
    <2> QED
      BY <2>1, <2>2, Zenon DEF Booleans
  <1> QED
    BY <1>1, <1>2, <1>3, <1>4, <1>5, QuietSteps, WritesCall, Zenon

LEMMA BooleansInvariant == FcgiSpec => []Booleans
  <1>1. FcgiInit => Booleans
    BY Zenon DEF FcgiInit, WriterInit, Booleans
  <1>2. Booleans /\ [FcgiNext]_fcgiVars => Booleans'
    BY BooleansKeep, Zenon
  <1> QED
    BY <1>1, <1>2, PTL DEF FcgiSpec

\* Whatever the worker does, with early ends, kept connections and requests that
\* fail, it uses out_buf only as the writer allows.
THEOREM WorkersImplementWriter == FcgiSpec => WriterSpec
  <1>1. FcgiInit => WriterInit /\ fd = FALSE
    BY Zenon DEF FcgiInit
  <1>2. Booleans /\ [FcgiNext]_fcgiVars => [WriterNext]_writerVars
    BY StepsWrite, Zenon
  <1> QED
    BY <1>1, <1>2, BooleansInvariant, PTL DEF FcgiSpec, WriterSpec

----------------------------------------------------------------------------
(* What the client gets *)

Busy == worker \notin {"accept", "exit"}

\* What was sent and what waits in the buffer is all that was written, in order.
Flowing == Flow(sent, Buffer, written)

Unended == \A i \in 1 .. Len(sent) : sent[i].type # "end"
EndedOnce ==
  /\ sent # <<>> /\ sent[Len(sent)].type = "end"
  /\ \A i \in 1 .. Len(sent) - 1 : sent[i].type # "end"
Complete == \A t \in Types : Carried(sent, Len(sent), t, written[t])

\* The inductive invariant.  A response that did not fail has not ended while its
\* connection is open, and fastcgi_finish_request() makes the exception.
OutInv ==
  /\ InOrder
  /\ early \in BOOLEAN
  /\ Busy => ~closed
  /\ worker \in {"header", "params"} => sent = <<>>
  /\ Busy /\ ~broken => Flowing
  /\ Busy /\ ~broken /\ ~early => IF fd THEN Unended ELSE EndedOnce
  /\ worker = "accept" /\ sent # <<>> /\ ~broken /\ ~early =>
       EndedOnce /\ (closed => Complete)

LEMMA SameOutput ==
  ASSUME UNCHANGED <<bufVars, sent, written>>
  PROVE  /\ InOrder' <=> InOrder
         /\ Flowing' <=> Flowing
         /\ Unended' <=> Unended
         /\ EndedOnce' <=> EndedOnce
         /\ Complete' <=> Complete
  <1>1. sent' = sent /\ written' = written /\ Buffer' = Buffer
    BY Zenon DEF bufVars, Buffer
  <1>2. InOrder' <=> InOrder
    BY <1>1 DEF InOrder, Carried
  <1>3. Flowing' <=> Flowing
    BY <1>1 DEF Flowing, Flow, Plain, Ordered, Carried, Pending
  <1>4. (Unended' <=> Unended) /\ (EndedOnce' <=> EndedOnce) /\ (Complete' <=> Complete)
    BY <1>1 DEF Unended, EndedOnce, Complete, Carried
  <1> QED
    BY <1>2, <1>3, <1>4, Zenon

\* A step of a request, or between two, that leaves the output alone.
LEMMA QuietKeeps ==
  ASSUME OutInv, UNCHANGED <<outVars, fd, early, closed>>, Busy' <=> Busy,
         worker' \in {"header", "params"} => worker \in {"header", "params"},
         worker' = "accept" => worker = "accept"
  PROVE  OutInv'
  <1>1. UNCHANGED <<bufVars, sent, written>> /\ broken' = broken
    BY DEF outVars
  <1> QED
    BY <1>1, SameOutput, Zenon DEF OutInv

\* A connection is given up before the request was read.
LEMMA HangsUpKeeps ==
  ASSUME OutInv, UNCHANGED <<outVars, early, closed>>, worker' \in {"accept", "exit"},
         worker' = "accept" => worker = "accept" \/ sent = <<>>
  PROVE  OutInv'
  <1>1. UNCHANGED <<bufVars, sent, written>> /\ broken' = broken /\ ~Busy'
    BY Zenon DEF outVars, Busy
  <1>2. worker' \notin {"header", "params"}
    OBVIOUS
  <1> QED
    BY <1>1, <1>2, SameOutput, Zenon DEF OutInv

LEMMA SameSent ==
  ASSUME UNCHANGED sent
  PROVE  (InOrder' <=> InOrder) /\ (Unended' <=> Unended) /\ (EndedOnce' <=> EndedOnce)
  <1>1. InOrder' <=> InOrder
    BY DEF InOrder, Carried
  <1>2. (Unended' <=> Unended) /\ (EndedOnce' <=> EndedOnce)
    BY DEF Unended, EndedOnce
  <1> QED
    BY <1>1, <1>2, Zenon

\* The flow, in the state after a call.
LEMMA FlowsOn ==
  ASSUME BufInv', Flow(sent', Buffer', written')
  PROVE  Flowing' /\ InOrder'
  <1>1. Flowing'
    BY Zenon DEF Flowing, Flow, Plain, Ordered, Carried, Pending
  <1>2. sent' \in Seq(GoodFrames) /\ Buffer'.recs \in Seq(GoodFrames)
    BY DEF BufInv, Fine, Good, GoodFrames
  <1>3. Ordered(sent' \o Buffer'.recs)
    BY Zenon DEF Flow
  <1>4. Ordered(sent')
    BY <1>2, <1>3, PrefixOrdered, Zenon
  <1>5. InOrder'
    BY <1>4, Zenon DEF Ordered, InOrder, Carried
  <1> QED
    BY <1>1, <1>5

LEMMA StillUnended ==
  ASSUME BufInv, Unended, NEW fr \in Seq(GoodFrames), Plain(fr)
  PROVE  /\ sent' = sent \o fr => Unended'
         /\ sent' = Append(sent \o fr, EndFrame) => EndedOnce'
  <1> DEFINE s == sent \o fr
  <1>1. sent \in Seq(GoodFrames)
    BY Zenon DEF BufInv
  <1>2. /\ s \in Seq(GoodFrames) /\ Len(s) = Len(sent) + Len(fr) /\ Len(sent) \in Nat
        /\ Len(fr) \in Nat
        /\ \A i \in 1 .. Len(sent) : s[i] = sent[i]
        /\ \A i \in 1 .. Len(fr) : s[Len(sent) + i] = fr[i]
    BY <1>1, Joined
  <1> HIDE DEF s
  <1>3. \A i \in 1 .. Len(s) : s[i].type # "end"
    <2> TAKE i \in 1 .. Len(s)
    <2>1. CASE i \in 1 .. Len(sent)
      BY <1>2, <2>1, Zenon DEF Unended
    <2>2. CASE i \notin 1 .. Len(sent)
      <3> DEFINE j == i - Len(sent)
      <3>1. j \in 1 .. Len(fr) /\ i = Len(sent) + j
        BY <1>2, <2>2
      <3> HIDE DEF j
      <3>2. s[i] = fr[j]
        BY <1>2, <3>1, Zenon
      <3> QED
        BY <3>1, <3>2, BufAssumption, Zenon DEF Plain
    <2> QED
      BY <2>1, <2>2, Zenon
  <1>4. ASSUME sent' = s PROVE Unended'
    BY <1>3, <1>4 DEF Unended
  <1>5. ASSUME sent' = Append(s, EndFrame) PROVE EndedOnce'
    <2>1. EndFrame \in GoodFrames /\ EndFrame.type = "end"
      BY EndGood
    <2> DEFINE z == Append(s, EndFrame)
    <2>2. /\ Len(z) = Len(s) + 1 /\ z # <<>> /\ z[Len(z)] = EndFrame /\ Len(s) \in Nat
          /\ \A i \in 1 .. Len(s) : z[i] = s[i]
      <3>1. s \in Seq(GoodFrames) /\ EndFrame \in GoodFrames
        BY <1>2, <2>1, Zenon
      <3> QED
        BY <3>1
    <2> HIDE DEF z
    <2>3. \A i \in 1 .. Len(z) - 1 : z[i].type # "end"
      <3>1. Len(z) - 1 = Len(s)
        BY <2>2
      <3> QED
        BY <1>3, <2>2, <3>1
    <2>4. sent' = z
      BY <1>5 DEF z
    <2> QED
      BY <2>1, <2>2, <2>3, <2>4 DEF EndedOnce
  <1> QED
    BY <1>4, <1>5 DEF s

\* accept() returns a connection, and a request starts.
LEMMA AcceptOut == ASSUME OutInv, Accept PROVE OutInv'
  <1>1. sent' = <<>> /\ worker' = "accept" /\ early' = early
    BY DEF Accept
  <1>2. InOrder' /\ ~Busy'
    BY <1>1 DEF InOrder, Busy
  <1> QED
    BY <1>1, <1>2 DEF OutInv

LEMMA ReadRequestOut == ASSUME OutInv, Booleans, ReadRequest PROVE OutInv'
  <1>1. /\ sent' = <<>> /\ worker' = "header" /\ early' = FALSE /\ closed' = FALSE /\ fd' = fd /\ fd
        /\ recs' = <<>> /\ out_hdr' = "none" /\ written' = [t \in Types |-> 0]
    BY Zenon DEF ReadRequest, Reset, Becomes, Emptied
  <1>2. Buffer'.recs = <<>> /\ Buffer'.hdr = "none"
    BY <1>1 DEF Buffer
  <1>3. InOrder' /\ Unended'
    BY <1>1 DEF InOrder, Unended
  <1>4. Flow(sent', Buffer', written')
    <2>1. sent' \o Buffer'.recs = <<>>
      BY <1>1, <1>2
    <2>2. Plain(<<>>) /\ Ordered(<<>>) /\ Len(<<>>) = 0
      BY DEF Plain, Ordered
    <2>3. \A t \in Types : written'[t] - Pending(Buffer', t) = 0
      BY <1>1, <1>2, BufAssumption DEF Pending
    <2>4. \A t \in Types : Carried(<<>>, 0, t, 0)
      BY DEF Carried
    <2> QED
      BY <1>2, <2>1, <2>2, <2>3, <2>4, Zenon DEF Flow
  <1>5. Flowing'
    BY <1>4, Zenon DEF Flowing, Flow, Plain, Ordered, Carried, Pending
  <1> QED
    BY <1>1, <1>3, <1>5, Zenon DEF OutInv, Busy

\* Output while a script runs.
LEMMA EchoOut ==
  ASSUME OutInv, Booleans, BufInv, BufInv', worker = "serve", worker' = "serve",
         UNCHANGED <<fd, early, closed>>,
         \/ \E t \in Types, n \in Lens : fcgi_write(t, n)
         \/ \E ok \in BOOLEAN : fcgi_flush(FALSE, ok)
  PROVE  OutInv'
  <1>1. Busy /\ Busy' /\ ~closed' /\ early' \in BOOLEAN /\ worker' \notin {"accept", "header", "params"}
    BY DEF OutInv, Busy
  <1>2. broken' = broken \/ broken' = TRUE
    BY StaysBroken, Zenon
  <1>3. broken' = TRUE \/ ~fd => sent' = sent
    BY NothingSent, Zenon
  <1>4. CASE broken' = TRUE
    <2>1. InOrder'
      BY <1>3, <1>4, SameSent, Zenon DEF OutInv
    <2> QED
      BY <1>1, <1>4, <2>1 DEF OutInv
  <1>5. CASE broken' # TRUE
    <2>1. ~broken /\ ~broken' /\ Flowing /\ Flow(sent, Buffer, written)
      BY <1>1, <1>2, <1>5, Zenon DEF OutInv, Booleans, Flowing
    <2>2. /\ Flow(sent', Buffer', written')
          /\ \E fr \in Seq(GoodFrames) : Plain(fr) /\ sent' = sent \o fr
      <3>1. CASE \E t \in Types, n \in Lens : fcgi_write(t, n)
        <4> PICK t \in Types, n \in Lens : fcgi_write(t, n)
          BY <3>1, Zenon
        <4>1. n \in Nat
          BY BufAssumption
        <4> QED
          BY <1>5, <2>1, <4>1, WriteFlow, Zenon
      <3>2. CASE \E ok \in BOOLEAN : fcgi_flush(FALSE, ok)
        <4> PICK ok \in BOOLEAN : fcgi_flush(FALSE, ok)
          BY <3>2, Zenon
        <4>1. /\ Flow(sent', Buffer', written')
              /\ \E fr \in Seq(GoodFrames) :
                   Plain(fr) /\ sent' = IF FALSE THEN Append(sent \o fr, EndFrame) ELSE sent \o fr
          BY <1>5, <2>1, FlushCallFlow, Zenon
        <4> QED
          BY <4>1
      <3> QED
        BY <3>1, <3>2, Zenon
    <2>3. Flowing' /\ InOrder'
      BY <2>2, FlowsOn
    <2>4. ~early' => IF fd' THEN Unended' ELSE EndedOnce'
      <3> SUFFICES ASSUME ~early PROVE IF fd THEN Unended' ELSE EndedOnce'
        OBVIOUS
      <3>1. CASE fd
        <4>1. Unended
          BY <1>1, <2>1, <3>1, Zenon DEF OutInv
        <4> QED
          BY <2>2, <3>1, <4>1, StillUnended
      <3>2. CASE ~fd
        <4>1. EndedOnce
          BY <1>1, <2>1, <3>2, Zenon DEF OutInv
        <4> QED
          BY <1>3, <3>2, <4>1, SameSent
      <3> QED
        BY <3>1, <3>2, Zenon
    <2> QED
      BY <1>1, <2>3, <2>4 DEF OutInv
  <1> QED
    BY <1>4, <1>5, Zenon

\* The end of a response, that does not fail, on an open connection.
LEMMA EndOut ==
  ASSUME OutInv, Booleans, BufInv, BufInv', Busy, fd, ~early, broken' # TRUE, NEW ok \in BOOLEAN,
         fcgi_flush(TRUE, ok)
  PROVE  ~broken' /\ Flowing' /\ InOrder' /\ EndedOnce' /\ Complete'
  <1>1. broken' = broken
    BY StaysBroken, Zenon
  <1>2. ~broken /\ ~broken' /\ Unended /\ Flow(sent, Buffer, written)
    BY <1>1, Zenon DEF OutInv, Booleans, Flowing
  <1>3. /\ Flow(sent', Buffer', written')
        /\ \A y \in Types : Carried(sent', Len(sent'), y, written[y])
        /\ \E fr \in Seq(GoodFrames) :
             Plain(fr) /\ sent' = IF TRUE THEN Append(sent \o fr, EndFrame) ELSE sent \o fr
    BY <1>2, FlushCallFlow, Zenon
  <1>4. Flowing' /\ InOrder'
    BY <1>3, FlowsOn
  <1>5. EndedOnce'
    BY <1>2, <1>3, StillUnended, Zenon
  <1>6. written' = written
    BY DEF fcgi_flush
  <1>7. Complete'
    BY <1>3, <1>6, Zenon DEF Complete, Carried
  <1> QED
    BY <1>2, <1>4, <1>5, <1>7

LEMMA FinishEarlyOut ==
  ASSUME OutInv, Booleans, BufInv, BufInv', FinishEarly
  PROVE  OutInv'
  <1>1. /\ worker = "serve" /\ worker' = "serve" /\ fd /\ ~early /\ early' = fd' /\ closed' = closed
        /\ fd' \in BOOLEAN
    BY DEF FinishEarly, MayClose
  <1>2. PICK ok \in BOOLEAN : fcgi_flush(TRUE, ok)
    BY Zenon DEF FinishEarly
  <1>3. Busy /\ Busy' /\ ~closed' /\ early' \in BOOLEAN /\ worker' \notin {"accept", "header", "params"}
    BY <1>1, Zenon DEF OutInv, Busy
  <1>4. CASE broken' = TRUE
    <2>1. sent' = sent
      BY <1>2, <1>4, NothingSent, Zenon
    <2>2. InOrder'
      BY <2>1, SameSent, Zenon DEF OutInv
    <2> QED
      BY <1>3, <1>4, <2>2 DEF OutInv
  <1>5. CASE broken' # TRUE
    <2>1. Flowing' /\ InOrder' /\ EndedOnce'
      BY <1>1, <1>2, <1>3, <1>5, EndOut, Zenon
    <2> QED
      BY <1>1, <1>3, <2>1 DEF OutInv
  <1> QED
    BY <1>4, <1>5, Zenon

LEMMA FinishOut ==
  ASSUME OutInv, Booleans, BufInv, BufInv', Finish
  PROVE  OutInv'
  <1>1. worker = "finish" /\ worker' = "accept" /\ early' = early /\ early' \in BOOLEAN
    BY Zenon DEF Finish, fcgi_finish_request, fcgiHistory, OutInv
  <1>2. Busy /\ ~Busy' /\ ~closed /\ worker' \notin {"header", "params"}
    BY <1>1, Zenon DEF OutInv, Busy
  <1>3. CASE fd
    <2>1. PICK ok \in BOOLEAN : fcgi_flush(TRUE, ok)
      BY <1>2, <1>3, Zenon DEF Finish, fcgi_finish_request
    <2>2. CASE broken' = TRUE
      <3>1. sent' = sent
        BY <2>1, <2>2, NothingSent, Zenon
      <3>2. InOrder'
        BY <3>1, SameSent, Zenon DEF OutInv
      <3> QED
        BY <1>1, <1>2, <2>2, <3>2, Zenon DEF OutInv
    <2>3. CASE broken' # TRUE /\ ~early
      <3>1. InOrder' /\ EndedOnce' /\ Complete'
        BY <1>2, <1>3, <2>1, <2>3, EndOut, Zenon
      <3> QED
        BY <1>1, <1>2, <3>1, Zenon DEF OutInv
    <2>4. CASE broken' # TRUE /\ early
      <3>1. broken' = broken
        BY <2>1, <2>4, StaysBroken, Zenon
      <3>2. Flow(sent, Buffer, written)
        BY <1>2, <2>4, <3>1, Zenon DEF OutInv, Booleans, Flowing
      <3>3. Flow(sent', Buffer', written')
        BY <2>1, <2>4, <3>2, FlushCallFlow, Zenon
      <3>4. InOrder'
        BY <3>3, FlowsOn, Zenon
      <3> QED
        BY <1>1, <1>2, <2>4, <3>4 DEF OutInv
    <2> QED
      BY <2>2, <2>3, <2>4, Zenon
  <1>4. CASE ~fd
    <2>1. UNCHANGED outVars /\ closed' = closed
      BY <1>4, Zenon DEF Finish, fcgi_finish_request
    <2>2. UNCHANGED <<bufVars, sent, written>> /\ broken' = broken
      BY <2>1, Zenon DEF outVars
    <2>3. InOrder' /\ (~broken /\ ~early => EndedOnce')
      BY <1>2, <1>4, <2>2, SameOutput DEF OutInv
    <2> QED
      BY <1>1, <1>2, <2>1, <2>2, <2>3 DEF OutInv
  <1> QED
    BY <1>3, <1>4, Zenon

\* Where reading leads.
LEMMA ReadingGoesOn ==
  ASSUME worker \in Reading, ReadNothing \/ ReadHeader \/ ReadContent
  PROVE  worker' \in Reading \cup {"serve", "finish"}
  <1>1. ASSUME NEW b, BlockEnds(b) PROVE worker' \in Reading \cup {"serve", "finish"}
    BY <1>1, Zenon DEF BlockEnds, Block
  <1>2. ASSUME NEW v, Returns(v) PROVE worker' \in Reading \cup {"serve", "finish"}
    <2>1. worker' = worker \/ \E b : BlockEnds(b)
      BY <1>2, Zenon DEF Returns
    <2> QED
      BY <1>1, <2>1
  <1>3. worker' = worker \/ (\E v : Returns(v)) \/ (\E b : BlockEnds(b))
    <2>1. CASE ReadNothing
      BY <2>1, Zenon DEF ReadNothing
    <2>2. CASE ReadHeader
      BY <2>2, Zenon DEF ReadHeader
    <2>3. CASE ReadContent
      BY <2>3, Zenon DEF ReadContent
    <2> QED
      BY <2>1, <2>2, <2>3, Zenon
  <1> QED
    BY <1>1, <1>2, <1>3, Zenon

LEMMA OutKeeps ==
  ASSUME OutInv, Booleans, BufInv, BufInv', [FcgiNext]_fcgiVars
  PROVE  OutInv'
  <1>1. ASSUME UNCHANGED <<outVars, fd, early, closed>>, Busy, Busy',
               worker' \notin {"header", "params"}
        PROVE  OutInv'
    <2>1. worker' # "accept"
      BY <1>1 DEF Busy
    <2> QED
      BY <1>1, <2>1, QuietKeeps, Zenon
  <1>2. ASSUME UNCHANGED <<outVars, reqVars, early>> PROVE OutInv'
    <2>1. UNCHANGED <<outVars, fd, early, closed>> /\ worker' = worker
      BY <1>2, Zenon DEF reqVars
    <2>2. Busy' <=> Busy
      BY <2>1 DEF Busy
    <2> QED
      BY <2>1, <2>2, QuietKeeps, Zenon
  <1>3. ASSUME \/ \E s \in Requests : Send(s)
               \/ \E s \in Requests : \E k \in 1 .. Len(s) : \E c \in 0 .. Size(s[k]) - 1 :
                    SendPart(s, k, c)
               \/ Close
               \/ UNCHANGED fcgiVars
        PROVE  OutInv'
    <2>1. UNCHANGED <<outVars, reqVars, early>>
      BY <1>3, Zenon DEF Send, SendPart, Close, fcgiVars, fcgiHistory
    <2> QED
      BY <1>2, <2>1, Zenon
  <1>4. ASSUME PollTimeout \/ Exit PROVE OutInv'
    <2>1. /\ UNCHANGED <<outVars, early, closed>> /\ worker = "accept"
          /\ worker' \in {"accept", "exit"}
      BY <1>4, Zenon DEF PollTimeout, Exit, fcgiHistory
    <2> QED
      BY <2>1, HangsUpKeeps
  <1>5. ASSUME ReadBegin \/ ReadParams PROVE OutInv'
    <2>1. /\ UNCHANGED <<outVars, early, closed>> /\ worker \in {"header", "params"}
          /\ \/ worker' = "accept"
             \/ UNCHANGED fd /\ worker' \in {"header", "params", "start"}
      BY <1>5, Zenon DEF ReadBegin, ReadParams, Refuse
    <2>2. sent = <<>> /\ Busy
      BY <2>1, Zenon DEF OutInv, Busy
    <2>3. CASE worker' = "accept"
      BY <2>1, <2>2, <2>3, HangsUpKeeps, Zenon
    <2>4. CASE UNCHANGED fd /\ worker' \in {"header", "params", "start"}
      <3>1. Busy' /\ worker' # "accept"
        BY <2>4, Zenon DEF Busy
      <3> QED
        BY <2>1, <2>2, <2>4, <3>1, QuietKeeps
    <2> QED
      BY <2>1, <2>3, <2>4, Zenon
  <1>6. ASSUME StartPost \/ OpenInput \/ End \/ \E k \in Reads : ReadInput(k) PROVE OutInv'
    <2>1. /\ UNCHANGED <<outVars, fd, early, closed>> /\ worker \in {"start", "serve"}
          /\ worker' \in {"post", "serve", "input", "finish", "drain"}
      BY <1>6 DEF StartPost, OpenInput, End, ReadInput, Block, fcgiHistory
    <2> QED
      BY <1>1, <2>1, Zenon DEF Busy
  <1>7. ASSUME ReadNothing \/ ReadHeader \/ ReadContent PROVE OutInv'
    <2>1. UNCHANGED <<outVars, fd, early, closed>> /\ worker \in Reading
      BY <1>7, Zenon DEF ReadNothing, ReadHeader, ReadContent, fcgiHistory
    <2>2. worker' \in Reading \cup {"serve", "finish"}
      BY <1>7, <2>1, ReadingGoesOn
    <2> QED
      BY <1>1, <2>1, <2>2 DEF Busy, Reading
  <1>8. ASSUME (\E t \in Types, n \in Lens : Echo(t, n)) \/ EchoFlush PROVE OutInv'
    <2>1. worker = "serve" /\ worker' = "serve" /\ UNCHANGED <<fd, early, closed>>
      BY <1>8, Zenon DEF Echo, EchoFlush, fcgiHistory
    <2>2. \/ \E t \in Types, n \in Lens : fcgi_write(t, n)
          \/ \E ok \in BOOLEAN : fcgi_flush(FALSE, ok)
      BY <1>8, Zenon DEF Echo, EchoFlush
    <2> QED
      BY <2>1, <2>2, EchoOut, Zenon
  <1> QED
    BY <1>3, <1>4, <1>5, <1>6, <1>7, <1>8, AcceptOut, ReadRequestOut, FinishEarlyOut, FinishOut,
       Zenon
       DEF FcgiNext

LEMMA OutInvariant == FcgiSpec => []OutInv
  <1>1. FcgiInit => OutInv
    <2> SUFFICES ASSUME FcgiInit PROVE OutInv
      OBVIOUS
    <2>1. sent = <<>> /\ worker = "accept" /\ early = FALSE
      BY Zenon DEF FcgiInit, WriterInit
    <2>2. InOrder /\ ~Busy
      BY <2>1 DEF InOrder, Busy
    <2> QED
      BY <2>1, <2>2, Zenon DEF OutInv
  <1>2. OutInv /\ Booleans /\ BufInv /\ BufInv' /\ [FcgiNext]_fcgiVars => OutInv'
    BY OutKeeps, Zenon
  <1>3. FcgiSpec => []BufInv
    BY WorkersImplementWriter, WriterInvariant, PTL
  <1> QED
    BY <1>1, <1>2, <1>3, BooleansInvariant, PTL DEF FcgiSpec

\* The records that a client gets carry the output from its first byte on, in
\* order, with nothing lost or repeated, for all lengths that scripts write and
\* all sizes of the buffer, over all requests of all connections.
THEOREM OutputInOrder == FcgiSpec => []InOrder
  <1>1. OutInv => InOrder
    BY DEF OutInv
  <1> QED
    BY <1>1, OutInvariant, PTL

\* A request that is over without a failure was answered by all of its output and
\* one FCGI_END_REQUEST, with nothing behind it.
THEOREM RequestsAreAnswered == FcgiSpec => []Answered
  <1>1. BufInv /\ OutInv => Answered
    <2> SUFFICES ASSUME BufInv, OutInv, worker = "accept", sent # <<>>, ~broken, ~early
                 PROVE  /\ {i \in 1 .. Len(sent) : sent[i].type = "end"} = {Len(sent)}
                        /\ closed => \A t \in Types : Carried(sent, Len(sent), t, written[t])
      BY Zenon DEF Answered
    <2>1. EndedOnce /\ (closed => Complete)
      BY Zenon DEF OutInv
    <2>2. Len(sent) \in Nat /\ Len(sent) > 0
      BY DEF BufInv
    <2>3. \A i \in 1 .. Len(sent) : sent[i].type = "end" <=> i = Len(sent)
      BY <2>1, <2>2 DEF EndedOnce
    <2>4. Len(sent) \in 1 .. Len(sent)
      BY <2>2
    <2>5. {i \in 1 .. Len(sent) : sent[i].type = "end"} = {Len(sent)}
      BY <2>3, <2>4
    <2> QED
      BY <2>1, <2>5, Zenon DEF Complete
  <1>2. FcgiSpec => []BufInv
    BY WorkersImplementWriter, WriterInvariant, PTL
  <1> QED
    BY <1>1, <1>2, OutInvariant, PTL
============================================================================
