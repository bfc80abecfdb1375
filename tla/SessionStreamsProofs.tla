------------------------- MODULE SessionStreamsProofs --------------------------
(***************************************************************************)
(* The safety of the two streams of a session, for headers and payloads of *)
(* any length, any range of request ids and any number of requests and     *)
(* reports.                                                                *)
(***************************************************************************)
EXTENDS SessionStreams, SequenceTheorems, TLAPS

Byte == [frame : Nat, len : Nat, at : Nat]

\* s is the part of a frame from one place to another.
Part(s, frame, len, from, to) ==
  /\ s \in Seq(Byte) /\ Len(s) = to - from + 1
  /\ \A i \in 1 .. Len(s) : s[i] = [frame |-> frame, len |-> len, at |-> from + i - 1]

-----------------------------------------------------------------------------
(* What read_frame takes *)

LEMMA BytesArePart ==
  ASSUME NEW f \in Nat, NEW l \in Nat, NEW a \in Nat \ {0}, NEW b \in Nat, a <= b + 1
  PROVE  Part(Bytes(f, l, a, b), f, l, a, b)
<1> DEFINE n == b - a + 1
           s == Bytes(f, l, a, b)
<1>1. n \in Nat
  OBVIOUS
<1>2. s = [i \in 1 .. n |-> [frame |-> f, len |-> l, at |-> a + i - 1]]
  BY DEF Bytes
<1>3. \A i \in 1 .. n : [frame |-> f, len |-> l, at |-> a + i - 1] \in Byte
  <2> SUFFICES ASSUME NEW i \in 1 .. n PROVE a + i - 1 \in Nat
    BY DEF Byte
  <2> QED BY <1>1
<1> HIDE DEF n, s
<1>4. s \in [1 .. n -> Byte] /\ \A i \in 1 .. n : s[i] = [frame |-> f, len |-> l, at |-> a + i - 1]
  BY <1>2, <1>3
<1>5. s \in Seq(Byte) /\ Len(s) = n
  BY <1>1, <1>4, SeqDef, LenProperties
<1> QED BY <1>4, <1>5 DEF Part, s, n

LEMMA PartsJoin ==
  ASSUME NEW f \in Nat, NEW l \in Nat, NEW a \in Nat \ {0}, NEW b \in Nat, NEW c \in Nat,
         a <= b + 1, b <= c, NEW s, NEW t, Part(s, f, l, a, b), Part(t, f, l, b + 1, c)
  PROVE  Part(s \o t, f, l, a, c)
<1>1. /\ s \in Seq(Byte) /\ Len(s) = b - a + 1
      /\ \A i \in 1 .. Len(s) : s[i] = [frame |-> f, len |-> l, at |-> a + i - 1]
  BY DEF Part
<1>2. /\ t \in Seq(Byte) /\ Len(t) = c - (b + 1) + 1
      /\ \A i \in 1 .. Len(t) : t[i] = [frame |-> f, len |-> l, at |-> (b + 1) + i - 1]
  BY DEF Part
<1>3. /\ s \o t \in Seq(Byte) /\ Len(s \o t) = Len(s) + Len(t)
      /\ \A i \in 1 .. Len(s) + Len(t) : (s \o t)[i] = IF i <= Len(s) THEN s[i] ELSE t[i - Len(s)]
  BY <1>1, <1>2, ConcatProperties
<1>4. Len(s \o t) = c - a + 1
  BY <1>1, <1>2, <1>3
<1>5. ASSUME NEW i \in 1 .. Len(s \o t)
      PROVE  (s \o t)[i] = [frame |-> f, len |-> l, at |-> a + i - 1]
  <2>1. CASE i <= Len(s)
    <3>1. i \in 1 .. Len(s)
      BY <1>1, <1>3, <1>4, <2>1
    <3> QED BY <1>1, <1>3, <2>1, <3>1
  <2>2. CASE ~(i <= Len(s))
    <3>1. i - Len(s) \in 1 .. Len(t) /\ (b + 1) + (i - Len(s)) - 1 = a + i - 1
      BY <1>1, <1>2, <1>3, <2>2
    <3>2. (s \o t)[i] = t[i - Len(s)]
      BY <1>3, <2>2
    <3> QED BY <1>2, <3>1, <3>2
  <2> QED BY <2>1, <2>2
<1> QED BY <1>3, <1>4, <1>5 DEF Part

\* A read takes what is there up to what is wanted, and moves it from the
\* stream to what was taken before.
LEMMA TakenSplits ==
  ASSUME NEW taken0 \in Seq(Byte), NEW stream0 \in Seq(Byte), stream0 # << >>,
         Wanted(taken0) \in Nat \ {0}
  PROVE  \E r \in 1 .. Len(stream0) :
           /\ r = Len(stream0) \/ r = Wanted(taken0)
           /\ r <= Wanted(taken0)
           /\ Taken(stream0, taken0) \in Seq(Byte)
           /\ Left(stream0, taken0) \in Seq(Byte)
           /\ Len(Taken(stream0, taken0)) = Len(taken0) + r
           /\ Len(Left(stream0, taken0)) = Len(stream0) - r
           /\ \A i \in 1 .. Len(taken0) : Taken(stream0, taken0)[i] = taken0[i]
           /\ \A i \in 1 .. r : Taken(stream0, taken0)[Len(taken0) + i] = stream0[i]
           /\ \A i \in 1 .. Len(stream0) - r : Left(stream0, taken0)[i] = stream0[r + i]
<1> DEFINE r == Ready(stream0, taken0)
           n == Len(stream0)
           w == Wanted(taken0)
<1>1. n \in Nat \ {0} /\ Len(taken0) \in Nat
  BY EmptySeq, LenProperties
<1>2. r \in 1 .. n /\ (r = n \/ r = w) /\ r <= w
  <2>1. r = IF n < w THEN n ELSE w
    BY DEF Ready
  <2> HIDE DEF r, n, w
  <2>2. w \in Nat \ {0}
    BY DEF w
  <2> QED BY <1>1, <2>1, <2>2
<1>3. \A i \in 1 .. n : stream0[i] \in Byte
  BY ElementOfSeq
<1>4. Taken(stream0, taken0) = taken0 \o SubSeq(stream0, 1, r)
      /\ Left(stream0, taken0) = SubSeq(stream0, r + 1, n)
  BY DEF Taken, Left
<1> HIDE DEF r, n, w
<1>5. /\ SubSeq(stream0, 1, r) \in Seq(Byte) /\ Len(SubSeq(stream0, 1, r)) = r
      /\ \A i \in 1 .. r : SubSeq(stream0, 1, r)[i] = stream0[i]
  <2>1. \A i \in 1 .. r : stream0[i] \in Byte
    BY <1>1, <1>2, <1>3
  <2>2. r \in Int /\ 1 \in Int /\ 1 <= r /\ r - 1 + 1 = r /\ \A i \in 1 .. r : 1 + i - 1 = i
    BY <1>1, <1>2
  <2> QED BY <2>1, <2>2, SubSeqProperties
<1>6. /\ SubSeq(stream0, r + 1, n) \in Seq(Byte) /\ Len(SubSeq(stream0, r + 1, n)) = n - r
      /\ \A i \in 1 .. n - r : SubSeq(stream0, r + 1, n)[i] = stream0[r + i]
  <2>1. \A i \in r + 1 .. n : stream0[i] \in Byte
    BY <1>1, <1>2, <1>3
  <2>2. r + 1 \in Int /\ n \in Int /\ n - (r + 1) + 1 = n - r
        /\ (r + 1 <= n \/ n - r = 0) /\ \A i \in 1 .. n - r : r + 1 + i - 1 = r + i
    BY <1>1, <1>2
  <2>3. /\ SubSeq(stream0, r + 1, n) \in Seq(Byte)
        /\ Len(SubSeq(stream0, r + 1, n)) = IF r + 1 <= n THEN n - (r + 1) + 1 ELSE 0
        /\ \A i \in 1 .. n - (r + 1) + 1 : SubSeq(stream0, r + 1, n)[i] = stream0[r + 1 + i - 1]
    BY <2>1, <2>2, SubSeqProperties
  <2>4. Len(SubSeq(stream0, r + 1, n)) = n - r
    BY <1>1, <1>2, <2>3
  <2> QED BY <2>2, <2>3, <2>4
<1>7. /\ Taken(stream0, taken0) \in Seq(Byte) /\ Len(Taken(stream0, taken0)) = Len(taken0) + r
      /\ \A i \in 1 .. Len(taken0) + r :
           Taken(stream0, taken0)[i] = IF i <= Len(taken0) THEN taken0[i]
                                       ELSE SubSeq(stream0, 1, r)[i - Len(taken0)]
  BY <1>4, <1>5, ConcatProperties
<1>8. \A i \in 1 .. Len(taken0) : Taken(stream0, taken0)[i] = taken0[i]
  BY <1>1, <1>2, <1>7
<1>9. ASSUME NEW i \in 1 .. r PROVE Taken(stream0, taken0)[Len(taken0) + i] = stream0[i]
  <2>1. /\ Len(taken0) + i \in 1 .. Len(taken0) + r /\ ~(Len(taken0) + i <= Len(taken0))
        /\ (Len(taken0) + i) - Len(taken0) = i
    BY <1>1, <1>2
  <2> QED BY <1>5, <1>7, <2>1
<1> QED BY <1>2, <1>4, <1>6, <1>7, <1>8, <1>9 DEF n, w

\* One read of read_frame: it has taken the part of a frame from a to e - 1 and
\* left the rest of it, up to b.
ReadUpTo(e, taken0, stream0, f, l, a, b) ==
  /\ Part(Taken(stream0, taken0), f, l, a, e - 1)
  /\ Part(Left(stream0, taken0), f, l, e, b)
  /\ e - a <= HeaderLen + l
  /\ Taken(stream0, taken0)[1].frame = f
  /\ Decodes(Taken(stream0, taken0)) <=> (e - a < HeaderLen \/ a = 1)
  /\ Complete(Taken(stream0, taken0)) <=> e - a = HeaderLen + l

\* Of one frame, read_frame takes a longer part than before, and returns when
\* it has the whole of it.
LEMMA ReadingPart ==
  ASSUME NEW f \in Nat, NEW l \in Nat \ {0}, NEW a \in Nat \ {0}, NEW b \in Nat, NEW c \in Nat,
         a <= c, c <= b, c - a < HeaderLen + l,
         NEW taken0, NEW stream0, Part(taken0, f, l, a, c - 1), Part(stream0, f, l, c, b)
  PROVE  \E e \in c + 1 .. b + 1 : ReadUpTo(e, taken0, stream0, f, l, a, b)
<1> USE HeaderLenAssumption
<1>1. /\ taken0 \in Seq(Byte) /\ Len(taken0) = c - a
      /\ \A i \in 1 .. Len(taken0) : taken0[i] = [frame |-> f, len |-> l, at |-> a + i - 1]
  BY DEF Part
<1>2. /\ stream0 \in Seq(Byte) /\ Len(stream0) = b - c + 1
      /\ \A i \in 1 .. Len(stream0) : stream0[i] = [frame |-> f, len |-> l, at |-> c + i - 1]
  BY DEF Part
<1>3. stream0 # << >>
  <2>1. Len(stream0) # 0
    BY <1>2
  <2> QED BY <2>1, EmptySeq
<1>4. Wanted(taken0) = IF c - a < HeaderLen THEN HeaderLen - (c - a) ELSE HeaderLen + l - (c - a)
  <2>1. c - a >= HeaderLen => taken0[1].len = l
    BY <1>1
  <2> QED BY <1>1, <2>1 DEF Wanted
<1>5. Wanted(taken0) \in Nat \ {0}
  BY <1>4
<1>6. PICK r \in 1 .. Len(stream0) :
           /\ r <= Wanted(taken0)
           /\ Taken(stream0, taken0) \in Seq(Byte)
           /\ Left(stream0, taken0) \in Seq(Byte)
           /\ Len(Taken(stream0, taken0)) = Len(taken0) + r
           /\ Len(Left(stream0, taken0)) = Len(stream0) - r
           /\ \A i \in 1 .. Len(taken0) : Taken(stream0, taken0)[i] = taken0[i]
           /\ \A i \in 1 .. r : Taken(stream0, taken0)[Len(taken0) + i] = stream0[i]
           /\ \A i \in 1 .. Len(stream0) - r : Left(stream0, taken0)[i] = stream0[r + i]
  BY <1>1, <1>2, <1>3, <1>5, TakenSplits
<1> DEFINE e == c + r
           now == Taken(stream0, taken0)
           left == Left(stream0, taken0)
<1>7. e \in c + 1 .. b + 1 /\ e - a <= HeaderLen + l
  BY <1>2, <1>4, <1>6
<1>8. Len(now) = e - a /\ Len(left) = b - e + 1
  <2>1. Len(now) = Len(taken0) + r /\ Len(left) = Len(stream0) - r
    BY <1>6
  <2>2. r \in Int /\ (c - a) + r = e - a /\ (b - c + 1) - r = b - e + 1
    BY <1>2
  <2> QED BY <1>1, <1>2, <2>1, <2>2
<1>9. ASSUME NEW i \in 1 .. Len(now) PROVE now[i] = [frame |-> f, len |-> l, at |-> a + i - 1]
  <2>1. CASE i <= c - a
    <3>1. i \in 1 .. Len(taken0)
      BY <1>1, <1>8, <2>1
    <3> QED BY <1>1, <1>6, <3>1
  <2>2. CASE ~(i <= c - a)
    <3> DEFINE k == i - (c - a)
    <3>1. k \in 1 .. r /\ i = Len(taken0) + k /\ c + k - 1 = a + i - 1 /\ k \in 1 .. Len(stream0)
      BY <1>1, <1>2, <1>6, <1>8, <2>2
    <3> HIDE DEF k
    <3>2. now[i] = stream0[k]
      BY <1>6, <3>1
    <3> QED BY <1>2, <3>1, <3>2
  <2> QED BY <2>1, <2>2
<1>10. ASSUME NEW i \in 1 .. Len(left) PROVE left[i] = [frame |-> f, len |-> l, at |-> e + i - 1]
  <2>1. i \in 1 .. Len(stream0) - r
    BY <1>6
  <2>2. r + i \in 1 .. Len(stream0) /\ c + (r + i) - 1 = e + i - 1
    BY <1>2, <1>6, <2>1
  <2> QED BY <1>2, <1>6, <2>1, <2>2
<1>11. Part(now, f, l, a, e - 1) /\ Part(left, f, l, e, b)
  <2>1. Len(now) = (e - 1) - a + 1
    <3>1. e - a = (e - 1) - a + 1
      BY <1>7
    <3> QED BY <1>8, <3>1
  <2> QED BY <1>6, <1>8, <1>9, <1>10, <2>1 DEF Part
<1> HIDE DEF now, left
<1>12. now[1] = [frame |-> f, len |-> l, at |-> a]
  <2>1. 1 \in 1 .. Len(now) /\ a + 1 - 1 = a
    BY <1>7, <1>8
  <2> QED BY <1>9, <2>1
<1>13. Decodes(now) <=> (e - a < HeaderLen \/ a = 1)
  <2>1. Decodes(now) <=> (e - a >= HeaderLen => a = 1)
    BY <1>8, <1>12 DEF Decodes
  <2>2. (e - a >= HeaderLen) <=> ~(e - a < HeaderLen)
    BY <1>7
  <2> QED BY <2>1, <2>2
<1>14. Complete(now) <=> e - a = HeaderLen + l
  <2>1. CASE e - a >= HeaderLen
    <3>1. Wanted(now) = HeaderLen + l - (e - a)
      BY <1>7, <1>8, <1>12, <2>1 DEF Wanted
    <3> QED BY <1>7, <1>8, <2>1, <3>1 DEF Complete
  <2>2. CASE ~(e - a >= HeaderLen)
    BY <1>7, <1>8, <2>2 DEF Complete
  <2> QED BY <2>1, <2>2
<1>15. e \in c + 1 .. b + 1 /\ ReadUpTo(e, taken0, stream0, f, l, a, b)
  BY <1>7, <1>11, <1>12, <1>13, <1>14 DEF ReadUpTo, now, left
<1> QED BY <1>15
-----------------------------------------------------------------------------
(* Requests and answers *)

\* The answer is on its way: the guest has taken the part before c.
AnswerOnItsWay ==
  \E l \in Lengths : \E c \in 1 .. HeaderLen + l :
    Part(gtaken, request, l, 1, c - 1) /\ Part(down, request, l, c, HeaderLen + l)

\* Nothing is left of an earlier answer when a request is sent.
GuestInv ==
  /\ gpc = "idle" => down = << >>
  /\ gpc = "sending" => down = << >> /\ gtaken = << >>
  /\ gpc = "waiting" => (down = << >> /\ gtaken = << >>) \/ AnswerOnItsWay

Unanswered == gpc \in {"sending", "waiting"} => down = << >> /\ gtaken = << >>

\* The current request has come as far as its byte b, and the host has taken
\* the part from a to c - 1; what was before a is lost, its header at least.
OnItsWay(a, c, b) ==
  /\ 1 <= a /\ a <= c /\ c <= b + 1 /\ c - a < HeaderLen + length
  /\ a = 1 \/ (a > HeaderLen /\ c - a < HeaderLen)
  /\ b = HeaderLen \/ b = HeaderLen + length
  /\ gpc = "sending" => b = HeaderLen
  /\ Part(htaken, request, length, a, c - 1)
  /\ Part(up, request, length, c, b)

Pending ==
  /\ hpc = "reading" /\ gpc \in {"sending", "waiting", "closed"} /\ Unanswered
  /\ Len(executed) + 1 = request
  /\ \E a, c, b \in Nat : OnItsWay(a, c, b)

Answering ==
  /\ hpc = "answering" /\ gpc \in {"waiting", "closed"} /\ Unanswered
  /\ Len(executed) = request /\ serving = request
  /\ up = << >> /\ htaken = << >>

Served ==
  /\ hpc = "reading" /\ gpc \in {"idle", "waiting", "closed"}
  /\ Len(executed) = request
  /\ up = << >> /\ htaken = << >>

ExchangeType ==
  /\ request \in Nat /\ length \in Nat /\ (request # 0 => length \in Lengths)
  /\ gpc \in {"idle", "sending", "waiting", "closed"}
  /\ hpc \in {"reading", "answering", "closed"}
  /\ executed \in Seq(Nat)

ExchangeInv ==
  /\ ExchangeType /\ GuestInv /\ CommandsInSequence
  /\ hpc = "closed" \/ Pending \/ Answering \/ Served

LEMMA NothingIsPart ==
  ASSUME NEW f, NEW l, NEW a \in Nat \ {0}
  PROVE  /\ Part(<< >>, f, l, a, a - 1) /\ Part(<< >>, f, l, 1, 0)
         /\ \A s : Part(s, f, l, a, a - 1) => s = << >>
<1>1. << >> \in Seq(Byte) /\ Len(<< >>) = 0 /\ (a - 1) - a + 1 = 0 /\ 0 - 1 + 1 = 0 /\ 1 .. 0 = {}
  BY EmptySeq
<1>2. Part(<< >>, f, l, a, a - 1) /\ Part(<< >>, f, l, 1, 0)
  BY <1>1 DEF Part
<1>3. ASSUME NEW s, Part(s, f, l, a, a - 1) PROVE s = << >>
  <2>1. s \in Seq(Byte) /\ Len(s) = 0
    BY <1>1, <1>3 DEF Part
  <2> QED BY <2>1, EmptySeq
<1> QED BY <1>2, <1>3

LEMMA ExchangeBegins == Init => ExchangeInv
<1> SUFFICES ASSUME Init PROVE ExchangeInv
  OBVIOUS
<1>1. << >> \in Seq(Nat) /\ Len(<< >>) = 0
  BY EmptySeq
<1>2. ExchangeType /\ GuestInv /\ Served
  BY <1>1 DEF Init, ExchangeType, GuestInv, Served
<1>3. CommandsInSequence
  BY <1>1 DEF Init, CommandsInSequence
<1> QED BY <1>2, <1>3 DEF ExchangeInv

\* Sending, in two parts.
LEMMA SendHeaderKeeps ==
  ASSUME ExchangeInv, NEW len \in Lengths, SendHeader(len)
  PROVE  ExchangeInv'
<1> USE HeaderLenAssumption, ExchangeAssumption
<1>1. /\ gpc = "idle" /\ gpc' = "sending" /\ request' = request + 1 /\ length' = len
      /\ gtaken' = << >> /\ up' = up \o Header(request + 1, len)
      /\ UNCHANGED <<hpc, htaken, serving, executed, down>>
  BY DEF SendHeader, hostVars
<1>2. ExchangeType'
  BY <1>1 DEF ExchangeInv, ExchangeType
<1>3. GuestInv'
  BY <1>1 DEF ExchangeInv, GuestInv
<1>4. CommandsInSequence'
  BY <1>1 DEF ExchangeInv, CommandsInSequence
<1>5. hpc = "closed" \/ Served
  BY <1>1 DEF ExchangeInv, Pending, Answering
<1>6. CASE Served
  <2>1. Part(up', request + 1, len, 1, HeaderLen)
    <3>1. Part(Header(request + 1, len), request + 1, len, 1, HeaderLen)
      <4>1. request + 1 \in Nat /\ len \in Nat /\ HeaderLen \in Nat /\ 1 <= HeaderLen + 1
        BY DEF ExchangeInv, ExchangeType
      <4> QED BY <4>1, BytesArePart DEF Header
    <3>2. Header(request + 1, len) \in Seq(Byte)
      BY <3>1 DEF Part
    <3>3. up' = Header(request + 1, len)
      BY <1>1, <1>6, <3>2, ConcatEmptySeq DEF Served
    <3> QED BY <3>1, <3>3
  <2>2. Part(htaken', request + 1, len, 1, 0)
    <3>1. Part(<< >>, request + 1, len, 1, 0)
      BY NothingIsPart
    <3> QED BY <1>1, <1>6, <3>1 DEF Served
  <2>3. OnItsWay(1, 1, HeaderLen)'
    <3>1. 1 - 1 = 0 /\ 0 < HeaderLen + len /\ 1 <= HeaderLen + 1
      OBVIOUS
    <3> QED BY <1>1, <2>1, <2>2, <3>1 DEF OnItsWay
  <2>4. Len(executed') + 1 = request' /\ Unanswered'
    BY <1>1, <1>6 DEF Served, Unanswered, ExchangeInv, GuestInv
  <2>5. Pending'
    <3>1. 1 \in Nat /\ HeaderLen \in Nat
      OBVIOUS
    <3> QED BY <1>1, <1>6, <2>3, <2>4, <3>1 DEF Pending, Served
  <2> QED BY <1>2, <1>3, <1>4, <2>5 DEF ExchangeInv
<1> QED BY <1>1, <1>2, <1>3, <1>4, <1>5, <1>6 DEF ExchangeInv

LEMMA SendPayloadKeeps ==
  ASSUME ExchangeInv, SendPayload
  PROVE  ExchangeInv'
<1> USE HeaderLenAssumption, ExchangeAssumption
<1>1. /\ gpc = "sending" /\ gpc' = "waiting" /\ up' = up \o Payload(request, length)
      /\ UNCHANGED <<request, length, gtaken, hpc, htaken, serving, executed, down>>
  BY DEF SendPayload, hostVars
<1>2. ExchangeType'
  BY <1>1 DEF ExchangeInv, ExchangeType
<1>3. GuestInv'
  BY <1>1 DEF ExchangeInv, GuestInv
<1>4. CommandsInSequence'
  BY <1>1 DEF ExchangeInv, CommandsInSequence
<1>5. hpc = "closed" \/ Pending
  BY <1>1 DEF ExchangeInv, Served, Answering
<1>6. CASE Pending
  <2>1. PICK a, c, b \in Nat : OnItsWay(a, c, b)
    BY <1>6 DEF Pending
  <2>2. b = HeaderLen /\ 1 <= c /\ c <= HeaderLen + 1
    BY <1>1, <2>1 DEF OnItsWay
  <2>3. request \in Nat /\ length \in Nat
    BY DEF ExchangeInv, ExchangeType
  <2>4. Part(Payload(request, length), request, length, HeaderLen + 1, HeaderLen + length)
    <3>1. HeaderLen + 1 \in Nat \ {0} /\ HeaderLen + length \in Nat
          /\ HeaderLen + 1 <= (HeaderLen + length) + 1
      BY <2>3
    <3> QED BY <2>3, <3>1, BytesArePart DEF Payload
  <2>5. Part(up', request, length, c, HeaderLen + length)
    <3>1. c \in Nat \ {0} /\ HeaderLen + length \in Nat /\ HeaderLen <= HeaderLen + length
      BY <2>2, <2>3
    <3>2. Part(up, request, length, c, HeaderLen)
      BY <2>1, <2>2 DEF OnItsWay
    <3> QED BY <1>1, <2>2, <2>3, <2>4, <3>1, <3>2, PartsJoin
  <2>6. OnItsWay(a, c, HeaderLen + length)'
    <3>1. c <= (HeaderLen + length) + 1
      BY <2>2, <2>3
    <3> QED BY <1>1, <2>1, <2>5, <3>1 DEF OnItsWay
  <2>7. Unanswered'
    BY <1>1, <1>6 DEF Pending, Unanswered
  <2>8. Pending'
    <3>1. HeaderLen + length \in Nat
      BY <2>3
    <3> QED BY <1>1, <1>6, <2>6, <2>7, <3>1 DEF Pending
  <2> QED BY <1>2, <1>3, <1>4, <2>8 DEF ExchangeInv
<1> QED BY <1>1, <1>2, <1>3, <1>4, <1>5, <1>6 DEF ExchangeInv

\* The answer that the guest reads is the one to its request.
LEMMA GuestReadsItsAnswer ==
  ASSUME ExchangeInv, GuestReads
  PROVE  ExchangeInv' /\ (accepted' # accepted => accepted' = request)
<1> USE HeaderLenAssumption, ExchangeAssumption
<1> DEFINE now == Taken(down, gtaken)
<1>1. gpc = "waiting" /\ down # << >> /\ down' = Left(down, gtaken)
      /\ UNCHANGED <<request, length, hpc, htaken, serving, executed, up>>
  BY DEF GuestReads, GuestCloses, hostVars
<1> PICK l \in Lengths : \E c \in 1 .. HeaderLen + l :
        Part(gtaken, request, l, 1, c - 1) /\ Part(down, request, l, c, HeaderLen + l)
  BY <1>1 DEF ExchangeInv, GuestInv, AnswerOnItsWay
<1>2. PICK c \in 1 .. HeaderLen + l :
        Part(gtaken, request, l, 1, c - 1) /\ Part(down, request, l, c, HeaderLen + l)
  OBVIOUS
<1>3. request \in Nat /\ l \in Nat \ {0} /\ HeaderLen + l \in Nat /\ c \in Nat /\ c - 1 < HeaderLen + l
  BY DEF ExchangeInv, ExchangeType
<1> PICK e \in c + 1 .. (HeaderLen + l) + 1 : ReadUpTo(e, gtaken, down, request, l, 1, HeaderLen + l)
  <2>1. 1 \in Nat \ {0} /\ 1 <= c /\ c <= HeaderLen + l
    OBVIOUS
  <2> QED BY <1>2, <1>3, <2>1, ReadingPart
<1>4. /\ Part(now, request, l, 1, e - 1)
      /\ Part(Left(down, gtaken), request, l, e, HeaderLen + l)
      /\ e - 1 <= HeaderLen + l
      /\ now[1].frame = request
      /\ Decodes(now)
      /\ Complete(now) <=> e - 1 = HeaderLen + l
  BY DEF ReadUpTo
<1> HIDE DEF now
<1>5. CASE Complete(now)
  <2>1. accepted' = request /\ gpc' = "idle" /\ gtaken' = gtaken
    BY <1>4, <1>5 DEF GuestReads, now
  <2>2. down' = << >>
    <3>1. e \in Nat \ {0} /\ HeaderLen + l = e - 1
      BY <1>3, <1>4, <1>5
    <3> QED BY <1>1, <1>4, <3>1, NothingIsPart
  <2>3. ExchangeType' /\ GuestInv' /\ CommandsInSequence'
    BY <1>1, <2>1, <2>2 DEF ExchangeInv, ExchangeType, GuestInv, CommandsInSequence
  <2>4. hpc' = "closed" \/ Served'
    BY <1>1, <2>1 DEF ExchangeInv, Pending, Answering, Served, Unanswered
  <2> QED BY <2>1, <2>3, <2>4 DEF ExchangeInv
<1>6. CASE ~Complete(now)
  <2>1. gtaken' = now /\ gpc' = gpc /\ accepted' = accepted
    BY <1>4, <1>6 DEF GuestReads, now
  <2>2. AnswerOnItsWay'
    <3>1. e \in 1 .. HeaderLen + l
      BY <1>3, <1>4, <1>6
    <3> QED BY <1>1, <1>4, <2>1, <3>1 DEF AnswerOnItsWay
  <2>3. ExchangeType' /\ GuestInv' /\ CommandsInSequence'
    BY <1>1, <2>1, <2>2 DEF ExchangeInv, ExchangeType, GuestInv, CommandsInSequence
  <2>4. hpc' = "closed" \/ Served'
    BY <1>1, <2>1 DEF ExchangeInv, Pending, Answering, Served, Unanswered
  <2> QED BY <2>1, <2>3, <2>4 DEF ExchangeInv
<1> QED BY <1>5, <1>6

\* The guest ends, between any two steps of the host.
LEMMA GuestEnds ==
  ASSUME ExchangeInv, SendFails \/ GuestTimesOut \/ BridgeDropped
  PROVE  ExchangeInv'
<1>1. /\ gpc' = "closed"
      /\ UNCHANGED <<request, length, gtaken, hpc, htaken, serving, executed, up, down>>
  BY DEF SendFails, GuestTimesOut, BridgeDropped, GuestCloses, hostVars
<1>2. ExchangeType' /\ GuestInv' /\ CommandsInSequence' /\ Unanswered'
  BY <1>1 DEF ExchangeInv, ExchangeType, GuestInv, CommandsInSequence, Unanswered
<1>3. CASE Pending
  <2>1. PICK a, c, b \in Nat : OnItsWay(a, c, b)
    BY <1>3 DEF Pending
  <2>2. OnItsWay(a, c, b)'
    BY <1>1, <2>1 DEF OnItsWay
  <2>3. Pending'
    BY <1>1, <1>2, <1>3, <2>2 DEF Pending
  <2> QED BY <1>2, <2>3 DEF ExchangeInv
<1>4. CASE hpc = "closed" \/ Answering \/ Served
  BY <1>1, <1>2, <1>4 DEF ExchangeInv, Answering, Served
<1> QED BY <1>3, <1>4 DEF ExchangeInv

\* The host takes more of a request, gives it up, or has it and executes it.
LEMMA HostReadsInOrder ==
  ASSUME ExchangeInv, HostReads
  PROVE  ExchangeInv'
<1> USE HeaderLenAssumption, ExchangeAssumption
<1> DEFINE now == Taken(up, htaken)
<1>1. /\ hpc = "reading" /\ up # << >> /\ up' = Left(up, htaken)
      /\ UNCHANGED <<gpc, request, length, gtaken, down>>
  BY DEF HostReads, guestVars
<1>2. Pending
  BY <1>1 DEF ExchangeInv, Answering, Served
<1>3. PICK a, c, b \in Nat : OnItsWay(a, c, b)
  BY <1>2 DEF Pending
<1>4. executed \in Seq(Nat) /\ Len(executed) \in Nat /\ request \in Nat /\ length \in Nat \ {0}
      /\ Len(executed) + 1 = request
  <2>1. executed \in Seq(Nat) /\ request \in Nat
    BY DEF ExchangeInv, ExchangeType
  <2>2. Len(executed) \in Nat
    BY <2>1, LenProperties
  <2>3. request # 0
    BY <1>2, <2>2 DEF Pending
  <2> QED BY <1>2, <2>1, <2>2, <2>3 DEF Pending, ExchangeInv, ExchangeType
<1>5. c <= b
  <2>1. up \in Seq(Byte) /\ Len(up) = b - c + 1
    BY <1>3 DEF OnItsWay, Part
  <2>2. Len(up) # 0 /\ Len(up) \in Nat
    BY <1>1, <2>1, EmptySeq
  <2> QED BY <2>1, <2>2
<1> PICK e \in c + 1 .. b + 1 : ReadUpTo(e, htaken, up, request, length, a, b)
  <2>1. a \in Nat \ {0} /\ a <= c /\ c - a < HeaderLen + length
        /\ Part(htaken, request, length, a, c - 1) /\ Part(up, request, length, c, b)
    BY <1>3 DEF OnItsWay
  <2> QED BY <1>4, <1>5, <2>1, ReadingPart
<1>6. /\ Part(now, request, length, a, e - 1)
      /\ Part(Left(up, htaken), request, length, e, b)
      /\ e - a <= HeaderLen + length
      /\ now[1].frame = request
      /\ Decodes(now) <=> (e - a < HeaderLen \/ a = 1)
      /\ Complete(now) <=> e - a = HeaderLen + length
  BY DEF ReadUpTo
<1> HIDE DEF now
<1>7. GuestInv' /\ Unanswered'
  BY <1>1, <1>2 DEF ExchangeInv, GuestInv, AnswerOnItsWay, Pending, Unanswered
<1>8. CASE ~Decodes(now)
  <2>1. hpc' = "closed" /\ executed' = executed
    BY <1>8 DEF HostReads, HostCloses, now
  <2> QED BY <1>1, <1>7, <2>1 DEF ExchangeInv, ExchangeType, CommandsInSequence
<1>9. CASE Decodes(now) /\ ~Complete(now)
  <2>1. htaken' = now /\ hpc' = hpc /\ executed' = executed
    BY <1>9 DEF HostReads, now
  <2>2. OnItsWay(a, e, b)'
    <3>1. /\ 1 <= a /\ a <= e /\ e <= b + 1 /\ e - a < HeaderLen + length
          /\ a = 1 \/ (a > HeaderLen /\ e - a < HeaderLen)
      <4>1. (a = 1 \/ a > HeaderLen) /\ 1 <= a /\ a <= c
        BY <1>3 DEF OnItsWay
      <4>2. (e - a < HeaderLen \/ a = 1) /\ e - a # HeaderLen + length /\ e - a <= HeaderLen + length
        BY <1>6, <1>9
      <4> QED BY <1>4, <4>1, <4>2
    <3>2. b = HeaderLen \/ b = HeaderLen + length
      BY <1>3 DEF OnItsWay
    <3>3. gpc = "sending" => b = HeaderLen
      BY <1>3 DEF OnItsWay
    <3> QED BY <1>1, <1>6, <2>1, <3>1, <3>2, <3>3 DEF OnItsWay
  <2>3. Pending'
    <3>1. e \in Nat
      BY <1>6
    <3> QED BY <1>1, <1>2, <1>7, <2>1, <2>2, <3>1 DEF Pending
  <2> QED BY <1>1, <1>7, <2>1, <2>3 DEF ExchangeInv, ExchangeType, CommandsInSequence
<1>10. CASE Decodes(now) /\ Complete(now)
  <2>1. /\ executed' = Append(executed, request) /\ serving' = request
        /\ htaken' = << >> /\ hpc' = "answering"
    BY <1>6, <1>10 DEF HostReads, now
  <2>2. b = HeaderLen + length /\ e = b + 1
    BY <1>3, <1>4, <1>6, <1>10 DEF OnItsWay
  <2>3. up' = << >>
    <3>1. e \in Nat \ {0} /\ b = e - 1
      BY <1>4, <2>2
    <3> QED BY <1>1, <1>6, <3>1, NothingIsPart
  <2>4. gpc # "sending"
    BY <1>3, <1>4, <2>2 DEF OnItsWay
  <2>5. executed' \in Seq(Nat) /\ Len(executed') = request
        /\ (\A i \in 1 .. Len(executed) : executed'[i] = executed[i]) /\ executed'[request] = request
    BY <1>4, <2>1, AppendProperties
  <2>6. CommandsInSequence'
    <3>1. \A i \in 1 .. Len(executed') : i \in 1 .. Len(executed) \/ i = request
      BY <1>4, <2>5
    <3> QED BY <2>5, <3>1 DEF ExchangeInv, CommandsInSequence
  <2>7. Answering'
    BY <1>1, <1>2, <1>7, <2>1, <2>3, <2>4, <2>5 DEF Answering, Pending
  <2>8. ExchangeType'
    BY <1>1, <2>1, <2>5 DEF ExchangeInv, ExchangeType
  <2> QED BY <1>7, <2>6, <2>7, <2>8 DEF ExchangeInv
<1> QED BY <1>8, <1>9, <1>10

\* A timeout loses at least the header of what it was taken from.
LEMMA HostTimesOutKeeps ==
  ASSUME ExchangeInv, HostTimesOut
  PROVE  ExchangeInv'
<1> USE HeaderLenAssumption, ExchangeAssumption
<1>1. /\ hpc = "reading" /\ up = << >> /\ htaken' = << >>
      /\ UNCHANGED <<hpc, serving, executed, gpc, request, length, gtaken, up, down>>
  BY DEF HostTimesOut, guestVars
<1>2. ExchangeType' /\ GuestInv' /\ CommandsInSequence'
  BY <1>1 DEF ExchangeInv, ExchangeType, GuestInv, AnswerOnItsWay, CommandsInSequence
<1>3. CASE Served
  BY <1>1, <1>2, <1>3 DEF ExchangeInv, Served
<1>4. CASE Pending
  <2>1. PICK a, c, b \in Nat : OnItsWay(a, c, b)
    BY <1>4 DEF Pending
  <2>2. length \in Nat
    BY DEF ExchangeInv, ExchangeType
  <2>3. b = HeaderLen \/ b = HeaderLen + length
    BY <2>1 DEF OnItsWay
  <2>4. b + 1 \in Nat \ {0} /\ (b + 1) - 1 = b /\ b + 1 > HeaderLen
        /\ (b + 1) - (b + 1) = 0 /\ 0 < HeaderLen /\ 0 < HeaderLen + length
    BY <2>2, <2>3
  <2>5. Part(<< >>, request, length, b + 1, b)
    BY <2>4, NothingIsPart
  <2>6. gpc = "sending" => b = HeaderLen
    BY <2>1 DEF OnItsWay
  <2>7. OnItsWay(b + 1, b + 1, b)'
    BY <1>1, <2>3, <2>4, <2>5, <2>6 DEF OnItsWay
  <2>8. Pending'
    BY <1>1, <1>4, <2>4, <2>7 DEF Pending, Unanswered
  <2> QED BY <1>2, <2>8 DEF ExchangeInv
<1> QED BY <1>1, <1>3, <1>4 DEF ExchangeInv, Answering

LEMMA HostAnswersItsRequest ==
  ASSUME ExchangeInv, NEW len \in Lengths, HostAnswers(len)
  PROVE  ExchangeInv'
<1> USE HeaderLenAssumption, ExchangeAssumption
<1>1. /\ hpc = "answering" /\ gpc # "closed" /\ hpc' = "reading"
      /\ down' = down \o Header(serving, len) \o Payload(serving, len)
      /\ UNCHANGED <<htaken, serving, executed, gpc, request, length, gtaken, up>>
  BY DEF HostAnswers, guestVars
<1>2. Answering
  BY <1>1 DEF ExchangeInv, Pending, Served
<1>3. gpc = "waiting" /\ down = << >> /\ gtaken = << >> /\ serving = request /\ request \in Nat
  BY <1>1, <1>2 DEF Answering, Unanswered, ExchangeInv, ExchangeType
<1>4. Part(Header(request, len), request, len, 1, HeaderLen)
  <2>1. len \in Nat /\ HeaderLen \in Nat /\ 1 <= HeaderLen + 1
    OBVIOUS
  <2> QED BY <1>3, <2>1, BytesArePart DEF Header
<1>5. Part(Payload(request, len), request, len, HeaderLen + 1, HeaderLen + len)
  <2>1. /\ len \in Nat /\ HeaderLen + 1 \in Nat \ {0} /\ HeaderLen + len \in Nat
        /\ HeaderLen + 1 <= (HeaderLen + len) + 1
    OBVIOUS
  <2> QED BY <1>3, <2>1, BytesArePart DEF Payload
<1>6. Part(down', request, len, 1, HeaderLen + len)
  <2>1. << >> \o Header(request, len) = Header(request, len)
    BY <1>4, ConcatEmptySeq DEF Part
  <2>2. down' = Header(request, len) \o Payload(request, len)
    BY <1>1, <1>3, <2>1
  <2>3. len \in Nat /\ HeaderLen \in Nat /\ HeaderLen + len \in Nat /\ 1 \in Nat \ {0}
        /\ 1 <= HeaderLen + 1 /\ HeaderLen <= HeaderLen + len
    OBVIOUS
  <2> QED BY <1>3, <1>4, <1>5, <2>2, <2>3, PartsJoin
<1>7. AnswerOnItsWay'
  <2>1. Part(<< >>, request, len, 1, 0)
    BY NothingIsPart
  <2>2. 1 \in 1 .. HeaderLen + len
    OBVIOUS
  <2> QED BY <1>1, <1>3, <1>6, <2>1, <2>2 DEF AnswerOnItsWay
<1>8. GuestInv'
  BY <1>1, <1>3, <1>7 DEF GuestInv
<1>9. Served'
  BY <1>1, <1>2 DEF Answering, Served
<1> QED BY <1>1, <1>8, <1>9 DEF ExchangeInv, ExchangeType, CommandsInSequence

LEMMA ExchangeStays ==
  ASSUME ExchangeInv, [Next]_vars
  PROVE  ExchangeInv' /\ (accepted' # accepted => accepted' = request)
<1>1. ASSUME NEW len \in Lengths, SendHeader(len) \/ HostAnswers(len)
      PROVE  ExchangeInv' /\ accepted' = accepted
  BY <1>1, SendHeaderKeeps, HostAnswersItsRequest DEF SendHeader, HostAnswers, guestVars
<1>2. CASE SendPayload
  BY <1>2, SendPayloadKeeps DEF SendPayload
<1>3. CASE SendFails \/ GuestTimesOut \/ BridgeDropped
  BY <1>3, GuestEnds DEF SendFails, GuestTimesOut, BridgeDropped, GuestCloses
<1>4. CASE GuestReads
  BY <1>4, GuestReadsItsAnswer
<1>5. CASE HostReads
  BY <1>5, HostReadsInOrder DEF HostReads, guestVars
<1>6. CASE HostTimesOut
  BY <1>6, HostTimesOutKeeps DEF HostTimesOut, guestVars
<1>7. CASE HostSeesEnd \/ HostAnswerFails \/ HostLeaves
  <2>1. /\ hpc' = "closed"
        /\ UNCHANGED <<executed, gpc, request, length, accepted, gtaken, down>>
    BY <1>7 DEF HostSeesEnd, HostAnswerFails, HostLeaves, HostCloses, guestVars
  <2> QED BY <2>1 DEF ExchangeInv, ExchangeType, GuestInv, AnswerOnItsWay, CommandsInSequence
<1>8. CASE UNCHANGED vars
  <2>1. UNCHANGED <<hpc, htaken, serving, executed, gpc, request, length, accepted, gtaken, up, down>>
    BY <1>8 DEF vars, guestVars, hostVars
  <2>2. Pending => Pending'
    BY <2>1 DEF Pending, OnItsWay, Unanswered
  <2>3. (Answering => Answering') /\ (Served => Served')
    BY <2>1 DEF Answering, Served, Unanswered
  <2> QED BY <2>1, <2>2, <2>3 DEF ExchangeInv, ExchangeType, GuestInv, AnswerOnItsWay, CommandsInSequence
<1> QED BY <1>1, <1>2, <1>3, <1>4, <1>5, <1>6, <1>7, <1>8 DEF Next, GuestStep, HostStep
-----------------------------------------------------------------------------
(* Reports *)

\* What the pump has not made reports of, read or not.
Unread == taken \o stream

\* Behind a whole frame the next one begins, and only the last one written may
\* lack its payload.
FrameAt(s, i, sent0, writer0, length0) ==
  LET next == i + HeaderLen + s[i].len
  IN  /\ next <= Len(s) => s[next].at = 1 /\ s[next].frame = s[i].frame + 1
      /\ next = Len(s) + 1 => s[i].frame = sent0 /\ writer0 # "writing"
      /\ next > Len(s) + 1 =>
           \/ writer0 = "closed"
           \/ /\ writer0 = "writing" /\ s[i].frame = sent0 /\ s[i].len = length0
              /\ i + HeaderLen = Len(s) + 1

FramesOf(s, sent0, writer0, length0) ==
  \A i \in 1 .. Len(s) : s[i].len # 0 /\ (s[i].at = 1 => FrameAt(s, i, sent0, writer0, length0))

\* The pump is at the frame behind the last report it pushed.
InStep ==
  /\ taken # << >> => Len(taken) < HeaderLen + taken[1].len
  /\ Unread = << >> => Len(pushed) = sent /\ writer # "writing"
  /\ Unread # << >> => Unread[1].at = 1 /\ Unread[1].frame = Len(pushed) + 1
  /\ FramesOf(Unread, sent, writer, reportLength)

\* The pump has lost a header: what it reads next is of the payload, and is
\* not taken for a frame.
Lost ==
  \/ taken = << >> /\ stream = << >> /\ writer # "reading"
  \/ /\ taken = << >> /\ stream # << >> /\ stream[1].at > HeaderLen
     /\ Len(stream) >= HeaderLen \/ writer = "closed"
  \/ /\ taken # << >> /\ taken[1].at > HeaderLen /\ Len(taken) < HeaderLen
     /\ stream = << >> /\ writer = "closed"

ReportType ==
  /\ sent \in Nat /\ reportLength \in Nat /\ (writer = "writing" => reportLength \in ReportLengths)
  /\ writer \in {"reading", "writing", "closed"} /\ pump \in {"reading", "closed"}
  /\ stream \in Seq(Byte) /\ taken \in Seq(Byte) /\ pushed \in Seq(Nat)

ReportInv ==
  /\ ReportType /\ Input!NoSilentGap
  /\ pump = "reading" => InStep \/ Lost

\* InputStream counts bytes as ControlExchange does.
LEMMA SameFrames ==
  /\ \A s, t : /\ Input!Taken(s, t) = Taken(s, t) /\ Input!Left(s, t) = Left(s, t)
               /\ Input!Wanted(t) = Wanted(t)
  /\ \A t : (Input!Decodes(t) <=> Decodes(t)) /\ (Input!Complete(t) <=> Complete(t))
  /\ \A f, l : Input!Header(f, l) = Header(f, l) /\ Input!Payload(f, l) = Payload(f, l)
BY DEF Input!Taken, Taken, Input!Left, Left, Input!Ready, Ready, Input!Wanted, Wanted,
       Input!Decodes, Decodes, Input!Complete, Complete, Input!Header, Header,
       Input!Payload, Payload, Input!Bytes, Bytes

LEMMA Joined ==
  ASSUME NEW s \in Seq(Byte), NEW t \in Seq(Byte)
  PROVE  /\ s \o t \in Seq(Byte) /\ Len(s \o t) = Len(s) + Len(t)
         /\ Len(s) \in Nat /\ Len(t) \in Nat
         /\ \A i \in 1 .. Len(s) : i \in 1 .. Len(s \o t) /\ (s \o t)[i] = s[i]
         /\ \A i \in 1 .. Len(t) : Len(s) + i \in 1 .. Len(s \o t) /\ (s \o t)[Len(s) + i] = t[i]
         /\ \A i \in 1 .. Len(s \o t) :
              i \in 1 .. Len(s) \/ (i - Len(s) \in 1 .. Len(t) /\ (s \o t)[i] = t[i - Len(s)])
<1>1. /\ s \o t \in Seq(Byte) /\ Len(s \o t) = Len(s) + Len(t)
      /\ \A i \in 1 .. Len(s) + Len(t) : (s \o t)[i] = IF i <= Len(s) THEN s[i] ELSE t[i - Len(s)]
  BY ConcatProperties
<1>2. Len(s) \in Nat /\ Len(t) \in Nat
  BY LenProperties
<1>3. ASSUME NEW i \in 1 .. Len(s) PROVE i \in 1 .. Len(s \o t) /\ (s \o t)[i] = s[i]
  BY <1>1, <1>2
<1>4. ASSUME NEW i \in 1 .. Len(t)
      PROVE  Len(s) + i \in 1 .. Len(s \o t) /\ (s \o t)[Len(s) + i] = t[i]
  <2>1. /\ Len(s) + i \in 1 .. Len(s) + Len(t) /\ ~(Len(s) + i <= Len(s))
        /\ (Len(s) + i) - Len(s) = i
    BY <1>2
  <2> QED BY <1>1, <2>1
<1>5. ASSUME NEW i \in 1 .. Len(s \o t), ~(i \in 1 .. Len(s))
      PROVE  i - Len(s) \in 1 .. Len(t) /\ (s \o t)[i] = t[i - Len(s)]
  <2>1. i \in 1 .. Len(s) + Len(t) /\ ~(i <= Len(s)) /\ i - Len(s) \in 1 .. Len(t)
    BY <1>1, <1>2, <1>5
  <2> QED BY <1>1, <2>1
<1> QED BY <1>1, <1>2, <1>3, <1>4, <1>5

\* A read moves bytes; it changes none of them nor their order.
LEMMA ReadingMoves ==
  ASSUME NEW t \in Seq(Byte), NEW s \in Seq(Byte), s # << >>, Wanted(t) \in Nat \ {0}
  PROVE  /\ Taken(s, t) \in Seq(Byte) /\ Left(s, t) \in Seq(Byte)
         /\ Taken(s, t) \o Left(s, t) = t \o s
         /\ Len(Taken(s, t)) \in Nat /\ Len(t) \in Nat
         /\ Len(t) < Len(Taken(s, t)) /\ Len(Taken(s, t)) <= Len(t) + Wanted(t)
         /\ Left(s, t) = << >> \/ Len(Taken(s, t)) = Len(t) + Wanted(t)
         /\ Left(s, t) = << >> => Len(Taken(s, t)) = Len(t) + Len(s)
         /\ Taken(s, t)[1] = (t \o s)[1]
<1> DEFINE now == Taken(s, t)
           left == Left(s, t)
           w == Wanted(t)
<1>1. PICK r \in 1 .. Len(s) :
           /\ r = Len(s) \/ r = w
           /\ r <= w
           /\ now \in Seq(Byte) /\ left \in Seq(Byte)
           /\ Len(now) = Len(t) + r /\ Len(left) = Len(s) - r
           /\ \A i \in 1 .. Len(t) : now[i] = t[i]
           /\ \A i \in 1 .. r : now[Len(t) + i] = s[i]
           /\ \A i \in 1 .. Len(s) - r : left[i] = s[r + i]
  BY TakenSplits
<1> HIDE DEF now, left, w
<1>2. /\ t \o s \in Seq(Byte) /\ Len(t \o s) = Len(t) + Len(s)
      /\ Len(t) \in Nat /\ Len(s) \in Nat
      /\ \A i \in 1 .. Len(t) : (t \o s)[i] = t[i]
      /\ \A i \in 1 .. Len(s) : (t \o s)[Len(t) + i] = s[i]
  BY Joined
<1>3. /\ now \o left \in Seq(Byte) /\ Len(now \o left) = Len(now) + Len(left)
      /\ \A i \in 1 .. Len(now) : (now \o left)[i] = now[i]
      /\ \A i \in 1 .. Len(left) : (now \o left)[Len(now) + i] = left[i]
  <2>1. now \in Seq(Byte) /\ left \in Seq(Byte)
    BY <1>1
  <2> QED BY <2>1, Joined
<1>4. Len(now \o left) = Len(t \o s)
  BY <1>1, <1>2, <1>3
<1>5. ASSUME NEW i \in 1 .. Len(now \o left) PROVE (now \o left)[i] = (t \o s)[i]
  <2>1. i \in Nat /\ 1 <= i /\ i <= Len(t) + Len(s) /\ r \in Nat /\ Len(now) = Len(t) + r
    BY <1>1, <1>2, <1>4
  <2>2. CASE i <= Len(t)
    <3>1. i \in 1 .. Len(t) /\ i \in 1 .. Len(now)
      BY <1>2, <2>1, <2>2
    <3> QED BY <1>1, <1>2, <1>3, <3>1
  <2>3. CASE ~(i <= Len(t)) /\ i <= Len(t) + r
    <3> DEFINE k == i - Len(t)
    <3>1. k \in 1 .. r /\ k \in 1 .. Len(s) /\ i = Len(t) + k /\ i \in 1 .. Len(now)
      BY <1>2, <2>1, <2>3
    <3> HIDE DEF k
    <3>2. (now \o left)[i] = now[i] /\ now[i] = s[k] /\ (t \o s)[i] = s[k]
      BY <1>1, <1>2, <1>3, <3>1
    <3> QED BY <3>2
  <2>4. CASE ~(i <= Len(t) + r)
    <3> DEFINE k == i - (Len(t) + r)
    <3>1. /\ k \in 1 .. Len(left) /\ k \in 1 .. Len(s) - r /\ r + k \in 1 .. Len(s)
          /\ i = Len(now) + k /\ i = Len(t) + (r + k)
      BY <1>1, <1>2, <2>1, <2>4
    <3> HIDE DEF k
    <3>2. (now \o left)[i] = left[k] /\ left[k] = s[r + k] /\ (t \o s)[i] = s[r + k]
      BY <1>1, <1>2, <1>3, <3>1
    <3> QED BY <3>2
  <2> QED BY <2>2, <2>3, <2>4
<1>6. now \o left = t \o s
  BY <1>2, <1>3, <1>4, <1>5, SeqEqual
<1>7. Len(now) \in Nat /\ Len(t) < Len(now) /\ Len(now) <= Len(t) + w
  BY <1>1, <1>2 DEF w
<1>8. left = << >> \/ Len(now) = Len(t) + w
  <2>1. CASE r = Len(s)
    <3>1. Len(left) = 0
      BY <1>1, <1>2, <2>1
    <3> QED BY <1>1, <3>1, EmptySeq
  <2>2. CASE r = w
    BY <1>1, <2>2
  <2> QED BY <1>1, <2>1, <2>2
<1>9. left = << >> => Len(now) = Len(t) + Len(s)
  <2> SUFFICES ASSUME left = << >> PROVE Len(now) = Len(t) + Len(s)
    OBVIOUS
  <2>1. Len(left) = 0
    BY EmptySeq
  <2>2. Len(s) - r = 0
    BY <1>1, <2>1
  <2>3. r = Len(s)
    BY <1>2, <2>2
  <2> QED BY <1>1, <2>3
<1>10. now[1] = (t \o s)[1]
  <2>1. 1 \in 1 .. Len(now)
    BY <1>2, <1>7
  <2> QED BY <1>3, <1>6, <2>1
<1> QED BY <1>1, <1>2, <1>6, <1>7, <1>8, <1>9, <1>10 DEF now, left, w

\* The header of the next frame, behind whole ones.
LEMMA HeaderWritten ==
  ASSUME NEW s \in Seq(Byte), NEW n \in Nat, NEW len \in Nat \ {0}, NEW l0,
         FramesOf(s, n, "reading", l0)
  PROVE  LET t == s \o Header(n + 1, len)
         IN  /\ t \in Seq(Byte) /\ t # << >> /\ FramesOf(t, n + 1, "writing", len)
             /\ IF s = << >> THEN t[1].at = 1 /\ t[1].frame = n + 1 ELSE t[1] = s[1]
<1> USE HeaderLenAssumption
<1> DEFINE h == Header(n + 1, len)
           t == s \o h
<1>1. Part(h, n + 1, len, 1, HeaderLen)
  <2>1. n + 1 \in Nat /\ len \in Nat /\ HeaderLen \in Nat /\ 1 <= HeaderLen + 1
    OBVIOUS
  <2> QED BY <2>1, BytesArePart DEF Header
<1> HIDE DEF h
<1>2. /\ h \in Seq(Byte) /\ Len(h) = HeaderLen
      /\ \A i \in 1 .. Len(h) : h[i] = [frame |-> n + 1, len |-> len, at |-> i]
  BY <1>1 DEF Part
<1>3. /\ t \in Seq(Byte) /\ Len(t) = Len(s) + Len(h) /\ Len(s) \in Nat
      /\ \A i \in 1 .. Len(s) : i \in 1 .. Len(t) /\ t[i] = s[i]
      /\ \A i \in 1 .. Len(h) : Len(s) + i \in 1 .. Len(t) /\ t[Len(s) + i] = h[i]
      /\ \A i \in 1 .. Len(t) : i \in 1 .. Len(s) \/ (i - Len(s) \in 1 .. Len(h) /\ t[i] = h[i - Len(s)])
  BY <1>2, Joined
<1>4. \A i \in 1 .. Len(s) : s[i].frame \in Nat /\ s[i].len \in Nat
  <2>1. \A i \in 1 .. Len(s) : s[i] \in Byte
    BY ElementOfSeq
  <2> QED BY <2>1 DEF Byte
<1> HIDE DEF t
<1>5. Len(t) = Len(s) + HeaderLen /\ 1 \in 1 .. Len(h)
  BY <1>2, <1>3
<1>6. t[Len(s) + 1].at = 1 /\ t[Len(s) + 1].frame = n + 1
  BY <1>2, <1>3, <1>5
<1>7. ASSUME NEW i \in 1 .. Len(s), s[i].at = 1 PROVE FrameAt(t, i, n + 1, "writing", len)
  <2> DEFINE next == i + HeaderLen + s[i].len
  <2>1. /\ next <= Len(s) => s[next].at = 1 /\ s[next].frame = s[i].frame + 1
        /\ next = Len(s) + 1 => s[i].frame = n
        /\ ~(next > Len(s) + 1)
    BY <1>7 DEF FramesOf, FrameAt
  <2>2. next \in Nat /\ next >= 1 /\ i <= Len(s)
    BY <1>3, <1>4
  <2>3. next = i + HeaderLen + t[i].len /\ t[i].frame = s[i].frame
    BY <1>3
  <2> HIDE DEF next
  <2>4. next <= Len(s) \/ next = Len(s) + 1
    BY <1>3, <2>1, <2>2
  <2>5. ~(next = Len(t) + 1) /\ ~(next > Len(t) + 1)
    BY <1>3, <1>5, <2>2, <2>4
  <2>6. t[next].at = 1 /\ t[next].frame = t[i].frame + 1
    <3>1. CASE next <= Len(s)
      <4>1. next \in 1 .. Len(s)
        BY <1>3, <2>2, <3>1
      <4>2. t[next] = s[next]
        BY <1>3, <4>1
      <4> QED BY <2>1, <2>3, <3>1, <4>2
    <3>2. CASE next = Len(s) + 1
      BY <1>6, <2>1, <2>3, <3>2
    <3> QED BY <2>4, <3>1, <3>2
  <2> QED BY <2>3, <2>5, <2>6 DEF FrameAt
<1>8. ASSUME NEW i \in 1 .. Len(t)
      PROVE  t[i].len # 0 /\ (t[i].at = 1 => FrameAt(t, i, n + 1, "writing", len))
  <2>1. CASE i \in 1 .. Len(s)
    <3>1. t[i] = s[i] /\ s[i].len # 0
      BY <1>3, <2>1 DEF FramesOf
    <3> QED BY <1>7, <2>1, <3>1
  <2>2. CASE i - Len(s) \in 1 .. Len(h) /\ t[i] = h[i - Len(s)]
    <3>1. t[i].frame = n + 1 /\ t[i].len = len /\ t[i].at = i - Len(s)
      BY <1>2, <2>2
    <3>2. ASSUME t[i].at = 1 PROVE FrameAt(t, i, n + 1, "writing", len)
      <4> DEFINE next == i + HeaderLen + t[i].len
      <4>1. i = Len(s) + 1
        BY <1>3, <3>1, <3>2
      <4>2. next > Len(t) + 1 /\ next \in Nat /\ i + HeaderLen = Len(t) + 1
        <5>1. next = Len(s) + 1 + HeaderLen + len
          BY <3>1, <4>1
        <5>2. Len(t) = Len(s) + HeaderLen /\ Len(s) \in Nat
          BY <1>3, <1>5
        <5> HIDE DEF next
        <5> QED BY <4>1, <5>1, <5>2
      <4>3. ~(next <= Len(t)) /\ ~(next = Len(t) + 1)
        BY <1>3, <1>5, <4>2
      <4> HIDE DEF next
      <4>4. FrameAt(t, i, n + 1, "writing", len) <=>
              /\ next <= Len(t) => t[next].at = 1 /\ t[next].frame = t[i].frame + 1
              /\ next = Len(t) + 1 => t[i].frame = n + 1 /\ "writing" # "writing"
              /\ next > Len(t) + 1 =>
                   \/ "writing" = "closed"
                   \/ /\ "writing" = "writing" /\ t[i].frame = n + 1 /\ t[i].len = len
                      /\ i + HeaderLen = Len(t) + 1
        BY DEF FrameAt, next
      <4> QED BY <3>1, <4>2, <4>3, <4>4
    <3> QED BY <3>1, <3>2
  <2> QED BY <1>3, <2>1, <2>2
<1>9. t # << >>
  <2>1. Len(t) # 0
    BY <1>3, <1>5
  <2> QED BY <2>1, EmptySeq
<1>10. IF s = << >> THEN t[1].at = 1 /\ t[1].frame = n + 1 ELSE t[1] = s[1]
  <2>1. CASE s = << >>
    <3>1. Len(s) + 1 = 1
      BY <2>1, EmptySeq
    <3> QED BY <1>6, <2>1, <3>1
  <2>2. CASE s # << >>
    <3>1. 1 \in 1 .. Len(s)
      BY <1>3, <2>2, EmptySeq
    <3> QED BY <1>3, <2>2, <3>1
  <2> QED BY <2>1, <2>2
<1>11. t \in Seq(Byte) /\ FramesOf(t, n + 1, "writing", len)
  BY <1>3, <1>8 DEF FramesOf
<1> QED BY <1>9, <1>10, <1>11 DEF t, h

\* The payload of the frame that lacks it, or a first part of it, and nothing
\* behind a part.
LEMMA PayloadWritten ==
  ASSUME NEW s \in Seq(Byte), NEW n \in Nat, NEW len \in Nat \ {0}, NEW k \in 0 .. len,
         FramesOf(s, n, "writing", len), NEW p, Part(p, n, len, HeaderLen + 1, HeaderLen + k),
         NEW w, w # "writing", k = len \/ w = "closed"
  PROVE  s \o p \in Seq(Byte) /\ FramesOf(s \o p, n, w, len)
<1> USE HeaderLenAssumption
<1> DEFINE t == s \o p
<1>1. /\ p \in Seq(Byte) /\ Len(p) = k
      /\ \A i \in 1 .. Len(p) : p[i].len # 0 /\ p[i].at # 1
  <2>1. /\ p \in Seq(Byte) /\ Len(p) = HeaderLen + k - (HeaderLen + 1) + 1
        /\ \A i \in 1 .. Len(p) : p[i] = [frame |-> n, len |-> len, at |-> HeaderLen + 1 + i - 1]
    BY DEF Part
  <2>2. Len(p) = k
    BY <2>1
  <2>3. ASSUME NEW i \in 1 .. Len(p) PROVE p[i].len # 0 /\ p[i].at # 1
    <3>1. p[i].len = len /\ p[i].at = HeaderLen + 1 + i - 1
      BY <2>1
    <3> QED BY <2>2, <3>1
  <2> QED BY <2>1, <2>2, <2>3
<1>2. /\ t \in Seq(Byte) /\ Len(t) = Len(s) + Len(p) /\ Len(s) \in Nat
      /\ \A i \in 1 .. Len(s) : i \in 1 .. Len(t) /\ t[i] = s[i]
      /\ \A i \in 1 .. Len(t) : i \in 1 .. Len(s) \/ (i - Len(s) \in 1 .. Len(p) /\ t[i] = p[i - Len(s)])
  BY <1>1, Joined
<1>3. \A i \in 1 .. Len(s) : s[i].len \in Nat
  <2>1. \A i \in 1 .. Len(s) : s[i] \in Byte
    BY ElementOfSeq
  <2> QED BY <2>1 DEF Byte
<1> HIDE DEF t
<1>4. ASSUME NEW i \in 1 .. Len(s), s[i].at = 1 PROVE FrameAt(t, i, n, w, len)
  <2> DEFINE next == i + HeaderLen + s[i].len
  <2>1. FrameAt(s, i, n, "writing", len)
    BY <1>4 DEF FramesOf
  <2>2. /\ next <= Len(s) => s[next].at = 1 /\ s[next].frame = s[i].frame + 1
        /\ ~(next = Len(s) + 1)
        /\ next > Len(s) + 1 => s[i].frame = n /\ s[i].len = len /\ i + HeaderLen = Len(s) + 1
    BY <2>1 DEF FrameAt
  <2>3. next \in Nat /\ next >= 1 /\ i <= Len(s)
    BY <1>2, <1>3
  <2>4. next = i + HeaderLen + t[i].len /\ t[i].frame = s[i].frame
    BY <1>2
  <2>5. next > Len(s) + 1 => next = Len(s) + 1 + len
    BY <2>2
  <2> HIDE DEF next
  <2>6. CASE next <= Len(s)
    <3>1. next \in 1 .. Len(s) /\ next <= Len(t) /\ ~(next = Len(t) + 1) /\ ~(next > Len(t) + 1)
      BY <1>1, <1>2, <2>3, <2>6
    <3>2. t[next] = s[next]
      BY <1>2, <3>1
    <3>3. t[next].at = 1 /\ t[next].frame = t[i].frame + 1
      BY <2>2, <2>4, <2>6, <3>2
    <3> QED BY <2>4, <3>1, <3>3 DEF FrameAt
  <2>7. CASE ~(next <= Len(s))
    <3>1. next > Len(s) + 1
      BY <1>2, <2>2, <2>3, <2>7
    <3>2. next = Len(s) + 1 + len
      BY <2>5, <3>1
    <3>3. ~(next <= Len(t)) /\ (k = len => ~(next > Len(t) + 1))
      BY <1>1, <1>2, <3>2
    <3>4. t[i].frame = n
      BY <2>2, <2>4, <3>1
    <3> QED BY <2>4, <3>3, <3>4 DEF FrameAt
  <2> QED BY <2>6, <2>7
<1>5. ASSUME NEW i \in 1 .. Len(t)
      PROVE  t[i].len # 0 /\ (t[i].at = 1 => FrameAt(t, i, n, w, len))
  <2>1. CASE i \in 1 .. Len(s)
    <3>1. t[i] = s[i] /\ s[i].len # 0
      BY <1>2, <2>1 DEF FramesOf
    <3> QED BY <1>4, <2>1, <3>1
  <2>2. CASE i - Len(s) \in 1 .. Len(p) /\ t[i] = p[i - Len(s)]
    BY <1>1, <2>2
  <2> QED BY <1>2, <2>1, <2>2
<1> QED BY <1>2, <1>5 DEF FramesOf, t

\* t is what is behind the first k bytes of s.
Behind(t, k, s) ==
  t \in Seq(Byte) /\ Len(s) = k + Len(t) /\ \A i \in 1 .. Len(t) : s[k + i] = t[i]

\* A whole frame taken away: the next one is first, or there is none.
LEMMA FrameTaken ==
  ASSUME NEW s \in Seq(Byte), NEW n, NEW w, NEW l0, s # << >>, s[1].at = 1, FramesOf(s, n, w, l0),
         NEW left, NEW l \in Nat, s[1].len = l, NEW k \in Nat, k = HeaderLen + l, Behind(left, k, s)
  PROVE  /\ FramesOf(left, n, w, l0)
         /\ left = << >> => s[1].frame = n /\ w # "writing"
         /\ left # << >> => left[1].at = 1 /\ left[1].frame = s[1].frame + 1
<1> USE HeaderLenAssumption
<1>1. /\ left \in Seq(Byte) /\ Len(left) \in Nat /\ Len(s) = k + Len(left)
      /\ \A i \in 1 .. Len(left) : k + i \in 1 .. Len(s) /\ s[k + i] = left[i]
  <2>1. left \in Seq(Byte) /\ Len(s) = k + Len(left) /\ \A i \in 1 .. Len(left) : s[k + i] = left[i]
    BY DEF Behind
  <2>2. Len(left) \in Nat
    BY <2>1, LenProperties
  <2>3. \A i \in 1 .. Len(left) : k + i \in 1 .. k + Len(left)
    BY <2>2
  <2> QED BY <2>1, <2>2, <2>3
<1>2. 1 \in 1 .. Len(s)
  <2>1. Len(s) # 0
    BY EmptySeq
  <2> QED BY <1>1, <2>1
<1>4. \A i \in 1 .. Len(s) : s[i].len \in Nat
  <2>1. \A i \in 1 .. Len(s) : s[i] \in Byte
    BY ElementOfSeq
  <2> QED BY <2>1 DEF Byte
<1>5. FrameAt(s, 1, n, w, l0) /\ 1 + HeaderLen + s[1].len = k + 1
  <2>1. FrameAt(s, 1, n, w, l0)
    BY <1>2 DEF FramesOf
  <2>2. 1 + HeaderLen + l = k + 1
    OBVIOUS
  <2> QED BY <2>1, <2>2
<1>6. /\ k + 1 <= Len(s) => s[k + 1].at = 1 /\ s[k + 1].frame = s[1].frame + 1
      /\ k + 1 = Len(s) + 1 => s[1].frame = n /\ w # "writing"
  BY <1>5 DEF FrameAt
<1>7. left = << >> => s[1].frame = n /\ w # "writing"
  <2> SUFFICES ASSUME left = << >> PROVE s[1].frame = n /\ w # "writing"
    OBVIOUS
  <2>1. Len(left) = 0
    BY EmptySeq
  <2>2. k + 1 = Len(s) + 1
    BY <1>1, <2>1
  <2> QED BY <1>6, <2>2
<1>8. left # << >> => left[1].at = 1 /\ left[1].frame = s[1].frame + 1
  <2> SUFFICES ASSUME left # << >> PROVE left[1].at = 1 /\ left[1].frame = s[1].frame + 1
    OBVIOUS
  <2>1. Len(left) # 0
    BY EmptySeq
  <2>2. 1 \in 1 .. Len(left) /\ k + 1 <= Len(s)
    BY <1>1, <2>1
  <2>3. s[k + 1] = left[1]
    BY <1>1, <2>2
  <2> QED BY <1>6, <2>2, <2>3
<1>9. ASSUME NEW i \in 1 .. Len(left)
      PROVE  left[i].len # 0 /\ (left[i].at = 1 => FrameAt(left, i, n, w, l0))
  <2>1. k + i \in 1 .. Len(s) /\ s[k + i] = left[i] /\ s[k + i].len \in Nat
    BY <1>1, <1>4
  <2>2. left[i].len # 0
    BY <2>1 DEF FramesOf
  <2>3. ASSUME left[i].at = 1 PROVE FrameAt(left, i, n, w, l0)
    <3> DEFINE next == i + HeaderLen + left[i].len
               there == (k + i) + HeaderLen + s[k + i].len
    <3>1. FrameAt(s, k + i, n, w, l0)
      BY <2>1, <2>3 DEF FramesOf
    <3>2. /\ there <= Len(s) => s[there].at = 1 /\ s[there].frame = s[k + i].frame + 1
          /\ there = Len(s) + 1 => s[k + i].frame = n /\ w # "writing"
          /\ there > Len(s) + 1 =>
               \/ w = "closed"
               \/ /\ w = "writing" /\ s[k + i].frame = n /\ s[k + i].len = l0
                  /\ (k + i) + HeaderLen = Len(s) + 1
      BY <3>1 DEF FrameAt
    <3>3. next \in Nat /\ next >= 1 /\ there = k + next /\ k \in Nat /\ Len(s) = k + Len(left)
      <4>1. k \in Nat /\ i \in Nat /\ i >= 1 /\ left[i].len \in Nat /\ Len(s) = k + Len(left)
        BY <1>1, <2>1
      <4>2. there = (k + i) + HeaderLen + left[i].len
        BY <2>1
      <4>3. \A a, b, c \in Nat : (k + a) + b + c = k + (a + b + c) /\ a + b + c \in Nat
        BY <4>1
      <4>4. (k + i) + HeaderLen + left[i].len = k + (i + HeaderLen + left[i].len) /\ next \in Nat
        BY <4>1, <4>3
      <4>5. next >= 1
        BY <4>1
      <4> HIDE DEF there
      <4> QED BY <4>1, <4>2, <4>4, <4>5
    <3>4. /\ (k + i) + HeaderLen = Len(s) + 1 => i + HeaderLen = Len(left) + 1
          /\ next <= Len(left) => there <= Len(s) /\ next \in 1 .. Len(left)
          /\ next = Len(left) + 1 => there = Len(s) + 1
          /\ next > Len(left) + 1 => there > Len(s) + 1
      <4> HIDE DEF next, there
      <4>1. Len(left) \in Nat /\ i \in Nat /\ i >= 1
        BY <1>1
      <4>2. ((k + i) + HeaderLen = Len(s) + 1) => i + HeaderLen = Len(left) + 1
        <5>1. \A a, b, c, d \in Nat : ((d + a) + b = (d + c) + 1) => a + b = c + 1
          OBVIOUS
        <5> QED BY <3>3, <4>1, <5>1
      <4>3. next <= Len(left) => there <= Len(s) /\ next \in 1 .. Len(left)
        BY <3>3, <4>1
      <4>4. (next = Len(left) + 1 => there = Len(s) + 1) /\ (next > Len(left) + 1 => there > Len(s) + 1)
        BY <3>3, <4>1
      <4> QED BY <4>2, <4>3, <4>4
    <3> HIDE DEF there
    <3>5. next <= Len(left) => s[there] = left[next]
      <4> HIDE DEF next
      <4> QED BY <1>1, <3>3, <3>4
    <3> QED BY <2>1, <3>2, <3>4, <3>5 DEF FrameAt
  <2> QED BY <2>2, <2>3
<1> QED BY <1>7, <1>8, <1>9 DEF FramesOf

\* The writer's steps.
LEMMA WriteHeaderKeeps ==
  ASSUME ReportInv, NEW len \in ReportLengths, Input!WriteHeader(len)
  PROVE  ReportInv'
<1> USE HeaderLenAssumption, ReportAssumption
<1> DEFINE h == Header(sent + 1, len)
<1>1. /\ writer = "reading" /\ writer' = "writing" /\ pump = "reading"
      /\ sent' = sent + 1 /\ reportLength' = len /\ stream' = stream \o h
      /\ taken' = taken /\ pump' = pump /\ pushed' = pushed
  <2>1. writer = "reading" /\ pump # "closed" /\ sent' = sent + 1 /\ reportLength' = len
        /\ stream' = stream \o Input!Header(sent + 1, len) /\ writer' = "writing"
        /\ UNCHANGED <<taken, pump, pushed>>
    BY DEF Input!WriteHeader, Input!guestVars
  <2> QED BY <2>1, SameFrames DEF ReportInv, ReportType
<1>2. /\ sent \in Nat /\ len \in Nat \ {0} /\ stream \in Seq(Byte) /\ taken \in Seq(Byte)
      /\ pushed \in Seq(Nat)
  BY DEF ReportInv, ReportType
<1>3. h \in Seq(Byte)
  <2>1. sent + 1 \in Nat /\ len \in Nat /\ HeaderLen \in Nat /\ 1 <= HeaderLen + 1
    BY <1>2
  <2> QED BY <2>1, BytesArePart DEF Header, Part
<1> HIDE DEF h
<1>4. /\ stream' \in Seq(Byte) /\ Len(stream') = Len(stream) + Len(h) /\ Len(stream) \in Nat
      /\ Len(h) \in Nat /\ \A i \in 1 .. Len(stream) : stream'[i] = stream[i]
  BY <1>1, <1>2, <1>3, Joined
<1>5. ReportType'
  BY <1>1, <1>2, <1>4 DEF ReportType
<1>6. CASE InStep
  <2>1. Unread \in Seq(Byte) /\ Unread' = Unread \o h
    <3>1. taken \o stream \in Seq(Byte)
      BY <1>1, <1>2, <1>3, ConcatProperties
    <3>2. (taken \o stream) \o h = taken \o (stream \o h)
      BY <1>1, <1>2, <1>3, ConcatAssociative
    <3>3. taken' \o stream' = taken \o (stream \o h)
      BY <1>1
    <3> QED BY <3>1, <3>2, <3>3 DEF Unread
  <2>2. FramesOf(Unread, sent, "reading", reportLength)
    BY <1>1, <1>6 DEF InStep
  <2>3. /\ Unread' # << >> /\ FramesOf(Unread', sent + 1, "writing", len)
        /\ IF Unread = << >> THEN Unread'[1].at = 1 /\ Unread'[1].frame = sent + 1
                             ELSE Unread'[1] = Unread[1]
    BY <1>2, <2>1, <2>2, HeaderWritten DEF h
  <2>4. Unread'[1].at = 1 /\ Unread'[1].frame = Len(pushed) + 1
    BY <1>6, <2>3 DEF InStep
  <2>5. InStep'
    BY <1>1, <1>6, <2>3, <2>4 DEF InStep
  <2> QED BY <1>1, <1>5, <2>5 DEF ReportInv, Input!NoSilentGap
<1>7. CASE Lost
  <2>1. taken = << >> /\ stream # << >> /\ stream[1].at > HeaderLen /\ Len(stream) >= HeaderLen
    BY <1>1, <1>7 DEF Lost
  <2>2. Len(stream) # 0
    BY <1>2, <2>1, EmptySeq
  <2>3. 1 \in 1 .. Len(stream) /\ Len(stream') # 0 /\ Len(stream') >= HeaderLen
    BY <1>4, <2>1, <2>2
  <2>4. stream' # << >> /\ stream'[1] = stream[1]
    BY <1>4, <2>3, EmptySeq
  <2>5. Lost'
    BY <1>1, <2>1, <2>3, <2>4 DEF Lost
  <2> QED BY <1>1, <1>5, <2>5 DEF ReportInv, Input!NoSilentGap
<1> QED BY <1>1, <1>6, <1>7 DEF ReportInv

\* A payload, or what a failed write leaves of it.
PayloadSent(k, p) ==
  /\ writer = "writing" /\ Part(p, sent, reportLength, HeaderLen + 1, HeaderLen + k)
  /\ stream' = stream \o p /\ writer' \in {"reading", "closed"}
  /\ k = reportLength \/ writer' = "closed"
  /\ UNCHANGED <<sent, reportLength, taken, pump, pushed>>

LEMMA PayloadKeeps ==
  ASSUME ReportInv, NEW k \in 0 .. reportLength, NEW p, PayloadSent(k, p)
  PROVE  ReportInv'
<1>a. stream' = stream \o p
  BY DEF PayloadSent
<1>b. Part(p, sent, reportLength, HeaderLen + 1, HeaderLen + k)
  BY DEF PayloadSent
<1>c. /\ writer = "writing" /\ writer' \in {"reading", "closed"}
      /\ k = reportLength \/ writer' = "closed"
      /\ UNCHANGED <<sent, reportLength, taken, pump, pushed>>
  BY DEF PayloadSent
<1>1. /\ sent \in Nat /\ reportLength \in Nat \ {0} /\ reportLength >= HeaderLen
      /\ stream \in Seq(Byte) /\ taken \in Seq(Byte) /\ pushed \in Seq(Nat)
  BY <1>c, HeaderLenAssumption, ReportAssumption DEF ReportInv, ReportType
<1>2. p \in Seq(Byte) /\ Len(p) = k /\ (\A i \in 1 .. Len(p) : p[i].at = HeaderLen + i)
  <2>1. /\ p \in Seq(Byte) /\ Len(p) = HeaderLen + k - (HeaderLen + 1) + 1
        /\ \A i \in 1 .. Len(p) :
             p[i] = [frame |-> sent, len |-> reportLength, at |-> HeaderLen + 1 + i - 1]
    BY <1>1, <1>b, HeaderLenAssumption DEF Part
  <2>2. Len(p) = k
    BY <1>1, <2>1, HeaderLenAssumption
  <2>3. ASSUME NEW i \in 1 .. Len(p) PROVE p[i].at = HeaderLen + i
    <3>1. p[i].at = HeaderLen + 1 + i - 1
      BY <2>1
    <3> QED BY <1>1, <2>2, <3>1, HeaderLenAssumption
  <2> QED BY <2>1, <2>2, <2>3
<1>d. stream \in Seq(Byte) /\ taken \in Seq(Byte) /\ p \in Seq(Byte)
  BY <1>1, <1>2
<1>3. /\ stream' \in Seq(Byte) /\ Len(stream') = Len(stream) + Len(p) /\ Len(stream) \in Nat
      /\ \A i \in 1 .. Len(stream) : stream'[i] = stream[i]
  <2>1. /\ stream \o p \in Seq(Byte) /\ Len(stream \o p) = Len(stream) + Len(p) /\ Len(stream) \in Nat
        /\ \A i \in 1 .. Len(stream) : (stream \o p)[i] = stream[i]
    BY <1>d, Joined
  <2> QED BY <1>a, <2>1
<1>4. ReportType'
  BY <1>1, <1>3, <1>c DEF ReportInv, ReportType
<1>5. CASE InStep
  <2>1. Unread \in Seq(Byte) /\ Unread' = Unread \o p
    <3>1. taken \o stream \in Seq(Byte)
      BY <1>d, ConcatProperties
    <3>2. (taken \o stream) \o p = taken \o (stream \o p)
      BY <1>d, ConcatAssociative
    <3>3. taken' \o stream' = taken \o (stream \o p)
      BY <1>a, <1>c
    <3> QED BY <3>1, <3>2, <3>3 DEF Unread
  <2>2. FramesOf(Unread, sent, "writing", reportLength)
    BY <1>5, <1>c DEF InStep
  <2>3. FramesOf(Unread', sent, writer', reportLength)
    <3>1. writer' # "writing" /\ (k = reportLength \/ writer' = "closed")
      BY <1>c
    <3> QED BY <1>1, <1>b, <2>1, <2>2, <3>1, PayloadWritten
  <2>4. Unread # << >>
    BY <1>5, <1>c DEF InStep
  <2>5. Unread'[1] = Unread[1] /\ Unread' # << >>
    <3>1. /\ Len(Unread') = Len(Unread) + Len(p) /\ Len(Unread) \in Nat
          /\ \A i \in 1 .. Len(Unread) : Unread'[i] = Unread[i]
      BY <1>2, <2>1, Joined
    <3>2. Unread' \in Seq(Byte)
      BY <1>2, <2>1, ConcatProperties
    <3>3. Len(Unread) # 0
      BY <2>1, <2>4, EmptySeq
    <3>4. 1 \in 1 .. Len(Unread) /\ Len(Unread') # 0
      BY <1>2, <3>1, <3>3
    <3> QED BY <3>1, <3>2, <3>4, EmptySeq
  <2>6. InStep'
    BY <1>5, <1>c, <2>3, <2>4, <2>5 DEF InStep
  <2> QED BY <1>4, <1>c, <2>6 DEF ReportInv, Input!NoSilentGap
<1>6. CASE Lost /\ stream = << >>
  <2>1. taken = << >>
    BY <1>6, <1>c DEF Lost
  <2>2. stream' = p
    BY <1>2, <1>6, <1>a, ConcatEmptySeq
  <2>3. CASE k = 0
    <3>1. stream' = << >> /\ writer' # "reading"
      BY <1>1, <1>2, <1>c, <2>2, <2>3, EmptySeq
    <3>2. Lost'
      BY <1>c, <2>1, <3>1 DEF Lost
    <3> QED BY <1>4, <1>c, <3>2 DEF ReportInv, Input!NoSilentGap
  <2>4. CASE k # 0
    <3>1. 1 \in 1 .. Len(p) /\ HeaderLen + 1 > HeaderLen
      BY <1>1, <1>2, <2>4, HeaderLenAssumption
    <3>2. p # << >> /\ p[1].at > HeaderLen
      <4>1. Len(p) # 0
        BY <1>2, <2>4
      <4> QED BY <1>2, <3>1, <4>1, EmptySeq
    <3>3. Len(p) >= HeaderLen \/ writer' = "closed"
      BY <1>1, <1>2, <1>c
    <3>4. Lost'
      BY <1>c, <2>1, <2>2, <3>2, <3>3 DEF Lost
    <3> QED BY <1>4, <1>c, <3>4 DEF ReportInv, Input!NoSilentGap
  <2> QED BY <2>3, <2>4
<1>7. CASE Lost /\ stream # << >>
  <2>1. taken = << >> /\ stream[1].at > HeaderLen /\ Len(stream) >= HeaderLen
    BY <1>7, <1>c DEF Lost
  <2>2. Len(stream) # 0
    BY <1>1, <1>7, EmptySeq
  <2>3. 1 \in 1 .. Len(stream) /\ Len(stream') # 0 /\ Len(stream') >= HeaderLen
    BY <1>1, <1>2, <1>3, <2>1, <2>2, HeaderLenAssumption
  <2>4. stream' # << >> /\ stream'[1] = stream[1]
    BY <1>3, <2>3, EmptySeq
  <2>5. Lost'
    BY <1>c, <2>1, <2>3, <2>4 DEF Lost
  <2> QED BY <1>4, <1>c, <2>5 DEF ReportInv, Input!NoSilentGap
<1> QED BY <1>4, <1>5, <1>6, <1>7, <1>c DEF ReportInv, Input!NoSilentGap

LEMMA WriterLeaves ==
  ASSUME ReportInv, Input!ReadFails
  PROVE  ReportInv'
<1>1. /\ writer = "reading" /\ writer' = "closed"
      /\ UNCHANGED <<sent, reportLength, stream, taken, pump, pushed>>
  BY DEF Input!ReadFails, Input!guestVars
<1>2. FramesOf(Unread, sent, "reading", reportLength) => FramesOf(Unread, sent, "closed", reportLength)
  BY DEF FramesOf, FrameAt
<1>3. InStep => InStep'
  BY <1>1, <1>2 DEF InStep, Unread
<1>4. Lost => Lost'
  BY <1>1 DEF Lost
<1> QED BY <1>1, <1>3, <1>4 DEF ReportInv, ReportType, Input!NoSilentGap

-----------------------------------------------------------------------------
\* The pump's steps.
LEMMA PumpReadsOf ==
  ASSUME Input!PumpReads
  PROVE  /\ pump = "reading" /\ stream # << >> /\ stream' = Left(stream, taken)
         /\ UNCHANGED <<writer, sent, reportLength>>
         /\ LET now == Taken(stream, taken)
            IN  /\ ~Decodes(now) => pump' = "closed" /\ taken' = taken /\ pushed' = pushed
                /\ Decodes(now) /\ Complete(now) =>
                     taken' = << >> /\ pushed' = Append(pushed, now[1].frame) /\ pump' = pump
                /\ Decodes(now) /\ ~Complete(now) =>
                     taken' = now /\ pushed' = pushed /\ pump' = pump
BY SameFrames DEF Input!PumpReads, Input!hostVars

LEMMA PumpReadsInStep ==
  ASSUME ReportInv, InStep, Input!PumpReads
  PROVE  ReportInv'
<1> USE HeaderLenAssumption
<1> DEFINE now == Taken(stream, taken)
           left == Left(stream, taken)
           l == Unread[1].len
<1>1. /\ pump = "reading" /\ stream # << >> /\ stream' = left
      /\ UNCHANGED <<writer, sent, reportLength>>
  BY PumpReadsOf
<1>2. /\ Decodes(now) /\ Complete(now) =>
           taken' = << >> /\ pushed' = Append(pushed, now[1].frame) /\ pump' = pump
      /\ Decodes(now) /\ ~Complete(now) => taken' = now /\ pushed' = pushed /\ pump' = pump
  BY PumpReadsOf
<1>3. taken \in Seq(Byte) /\ stream \in Seq(Byte) /\ pushed \in Seq(Nat)
  BY DEF ReportInv, ReportType
<1>4. Len(taken) \in Nat /\ Len(stream) \in Nat /\ Len(stream) # 0 /\ Len(pushed) \in Nat
  BY <1>1, <1>3, EmptySeq, LenProperties
<1>5. /\ Unread \in Seq(Byte) /\ 1 \in 1 .. Len(Unread) /\ Unread # << >>
      /\ taken # << >> => taken[1] = Unread[1]
  <2>1. /\ Unread \in Seq(Byte) /\ Len(Unread) = Len(taken) + Len(stream)
        /\ \A i \in 1 .. Len(taken) : Unread[i] = taken[i]
    BY <1>3, Joined DEF Unread
  <2>2. Len(Unread) # 0 /\ 1 \in 1 .. Len(Unread)
    BY <1>4, <2>1
  <2>3. taken # << >> => 1 \in 1 .. Len(taken)
    <3>1. taken # << >> => Len(taken) # 0
      BY <1>3, EmptySeq
    <3> QED BY <1>4, <3>1
  <2> QED BY <2>1, <2>2, <2>3, EmptySeq
<1>6. /\ l \in Nat \ {0} /\ Unread[1].at = 1 /\ Unread[1].frame \in Nat
      /\ Unread[1].frame = Len(pushed) + 1
  <2>1. Unread[1] \in Byte
    BY <1>5, ElementOfSeq
  <2>2. Unread[1].len # 0
    BY <1>5 DEF InStep, FramesOf
  <2> QED BY <1>5, <2>1, <2>2 DEF Byte, InStep
<1>7. Wanted(taken) = IF Len(taken) < HeaderLen THEN HeaderLen - Len(taken)
                      ELSE HeaderLen + l - Len(taken)
  <2>1. ~(Len(taken) < HeaderLen) => taken # << >>
    BY EmptySeq
  <2> QED BY <1>5, <2>1 DEF Wanted
<1>8. Len(taken) < HeaderLen + l
  <2>1. taken = << >> => Len(taken) = 0
    BY EmptySeq
  <2>2. taken # << >> => Len(taken) < HeaderLen + l
    BY <1>5 DEF InStep
  <2> QED BY <1>6, <2>1, <2>2
<1> HIDE DEF l
<1>9. Wanted(taken) \in Nat \ {0} /\ Len(taken) + Wanted(taken) <= HeaderLen + l
  BY <1>4, <1>6, <1>7, <1>8
<1>10. /\ now \in Seq(Byte) /\ left \in Seq(Byte) /\ now \o left = Unread
       /\ Len(now) \in Nat /\ Len(taken) < Len(now) /\ Len(now) <= Len(taken) + Wanted(taken)
       /\ now[1] = Unread[1]
  BY <1>1, <1>3, <1>9, ReadingMoves DEF Unread
<1> HIDE DEF now, left
<1>11. Len(now) <= HeaderLen + l /\ 1 <= Len(now)
  BY <1>4, <1>6, <1>9, <1>10
<1>12. Decodes(now)
  BY <1>6, <1>10 DEF Decodes
<1>13. Complete(now) <=> Len(now) = HeaderLen + l
  <2>1. CASE Len(now) < HeaderLen
    BY <1>6, <1>10, <2>1 DEF Complete
  <2>2. CASE ~(Len(now) < HeaderLen)
    <3>1. Wanted(now) = HeaderLen + l - Len(now)
      BY <1>10, <2>2 DEF Wanted, l
    <3>2. Len(now) >= HeaderLen
      BY <1>10, <2>2
    <3>3. Wanted(now) = 0 <=> Len(now) = HeaderLen + l
      BY <1>6, <1>10, <1>11, <3>1
    <3> QED BY <3>2, <3>3 DEF Complete
  <2> QED BY <2>1, <2>2
<1>14. CASE ~Complete(now)
  <2>1. taken' = now /\ pushed' = pushed /\ pump' = pump
    BY <1>2, <1>12, <1>14
  <2>2. Unread' = Unread
    BY <1>1, <1>10, <2>1 DEF Unread
  <2>3. Len(now) < HeaderLen + now[1].len
    <3>1. Len(now) # HeaderLen + l
      BY <1>13, <1>14
    <3>2. Len(now) < HeaderLen + l
      BY <1>6, <1>10, <1>11, <3>1
    <3> QED BY <1>10, <3>2 DEF l
  <2>4. InStep'
    BY <1>1, <2>1, <2>2, <2>3 DEF InStep
  <2>5. ReportType'
    BY <1>1, <1>10, <2>1 DEF ReportInv, ReportType
  <2> QED BY <2>1, <2>4, <2>5 DEF ReportInv, Input!NoSilentGap
<1>15. CASE Complete(now)
  <2>1. taken' = << >> /\ pushed' = Append(pushed, Len(pushed) + 1) /\ pump' = pump
    BY <1>2, <1>6, <1>10, <1>12, <1>15
  <2>2. Unread' = left
    BY <1>1, <1>10, <2>1, ConcatEmptySeq DEF Unread
  <2>3. Behind(left, Len(now), Unread)
    <3>1. /\ Len(now \o left) = Len(now) + Len(left)
          /\ \A i \in 1 .. Len(left) : (now \o left)[Len(now) + i] = left[i]
      <4>1. now \in Seq(Byte) /\ left \in Seq(Byte)
        BY <1>10
      <4> QED BY <4>1, Joined
    <3> QED BY <1>10, <3>1 DEF Behind
  <2>4. FramesOf(Unread, sent, writer, reportLength)
    BY DEF InStep
  <2>5. Len(now) = HeaderLen + l
    BY <1>13, <1>15
  <2>6. /\ FramesOf(left, sent, writer, reportLength)
        /\ left = << >> => Unread[1].frame = sent /\ writer # "writing"
        /\ left # << >> => left[1].at = 1 /\ left[1].frame = Unread[1].frame + 1
    <3>1. Unread[1].len = l
      BY DEF l
    <3>2. Len(now) \in Nat /\ l \in Nat
      BY <1>6, <1>10
    <3>3. Unread \in Seq(Byte) /\ Unread # << >> /\ Unread[1].at = 1
      BY <1>5, <1>6
    <3> QED BY <2>3, <2>4, <2>5, <3>1, <3>2, <3>3, FrameTaken
  <2>7. /\ pushed' \in Seq(Nat) /\ Len(pushed') = Len(pushed) + 1
        /\ (\A i \in 1 .. Len(pushed) : pushed'[i] = pushed[i])
        /\ pushed'[Len(pushed) + 1] = Len(pushed) + 1
    BY <1>3, <1>4, <2>1, AppendProperties
  <2>8. Input!NoSilentGap'
    <3>1. \A i \in 1 .. Len(pushed') : i \in 1 .. Len(pushed) \/ i = Len(pushed) + 1
      BY <1>4, <2>7
    <3> QED BY <2>7, <3>1 DEF ReportInv, Input!NoSilentGap
  <2>9. InStep'
    BY <1>1, <1>6, <2>1, <2>2, <2>6, <2>7 DEF InStep
  <2>10. ReportType'
    BY <1>1, <1>10, <2>1, <2>7, EmptySeq DEF ReportInv, ReportType
  <2> QED BY <2>8, <2>9, <2>10 DEF ReportInv
<1> QED BY <1>14, <1>15

\* Behind a lost header, a whole header's worth of bytes does not decode, and
\* less than that is the end of the stream.
LEMMA PumpReadsLost ==
  ASSUME ReportInv, Lost, Input!PumpReads
  PROVE  ReportInv'
<1> USE HeaderLenAssumption
<1> DEFINE now == Taken(stream, taken)
           left == Left(stream, taken)
<1>1. /\ pump = "reading" /\ stream # << >> /\ stream' = left
      /\ UNCHANGED <<writer, sent, reportLength>>
  BY PumpReadsOf
<1>2. /\ ~Decodes(now) => pump' = "closed" /\ taken' = taken /\ pushed' = pushed
      /\ Decodes(now) /\ ~Complete(now) => taken' = now /\ pushed' = pushed /\ pump' = pump
  BY PumpReadsOf
<1>3. stream \in Seq(Byte) /\ taken = << >> /\ stream[1].at > HeaderLen
      /\ (Len(stream) >= HeaderLen \/ writer = "closed")
  BY <1>1 DEF Lost, ReportInv, ReportType
<1>4. << >> \in Seq(Byte) /\ Len(<< >>) = 0
  BY EmptySeq
<1>5. Wanted(taken) = HeaderLen
  BY <1>3, <1>4 DEF Wanted
<1>6. stream[1].at # 1
  <2>1. 1 \in 1 .. Len(stream)
    <3>1. Len(stream) # 0 /\ Len(stream) \in Nat
      BY <1>1, <1>3, EmptySeq, LenProperties
    <3> QED BY <3>1
  <2>2. stream[1] \in Byte
    BY <1>3, <2>1, ElementOfSeq
  <2>3. stream[1].at \in Nat
    BY <2>2 DEF Byte
  <2> QED BY <1>3, <2>3
<1>7. << >> \o stream = stream
  BY <1>3, ConcatEmptySeq
<1>8. /\ now \in Seq(Byte) /\ left \in Seq(Byte) /\ Len(now) \in Nat /\ 0 < Len(now)
      /\ Len(now) <= HeaderLen /\ (left = << >> \/ Len(now) = HeaderLen)
      /\ (left = << >> => Len(now) = Len(stream)) /\ now[1] = stream[1]
  <2>1. taken \in Seq(Byte) /\ Len(taken) = 0 /\ Wanted(taken) \in Nat \ {0}
    BY <1>3, <1>4, <1>5
  <2>2. /\ now \in Seq(Byte) /\ left \in Seq(Byte)
        /\ Len(now) \in Nat /\ Len(taken) < Len(now) /\ Len(now) <= Len(taken) + Wanted(taken)
        /\ (left = << >> \/ Len(now) = Len(taken) + Wanted(taken))
        /\ (left = << >> => Len(now) = Len(taken) + Len(stream))
        /\ now[1] = (taken \o stream)[1]
    BY <1>1, <1>3, <2>1, ReadingMoves
  <2>3. Len(taken) + Wanted(taken) = HeaderLen /\ Len(taken) + Len(stream) = Len(stream)
    BY <1>3, <1>5, <2>1, LenProperties
  <2>4. taken \o stream = stream
    BY <1>3, <1>7
  <2> QED BY <2>1, <2>2, <2>3, <2>4
<1> HIDE DEF now, left
<1>9. CASE Len(now) = HeaderLen
  <2>1. ~Decodes(now)
    BY <1>6, <1>8, <1>9 DEF Decodes
  <2> QED BY <1>1, <1>2, <1>8, <2>1 DEF ReportInv, ReportType, Input!NoSilentGap
<1>10. CASE Len(now) # HeaderLen
  <2>1. Len(now) < HeaderLen /\ left = << >> /\ Len(now) = Len(stream)
    BY <1>8, <1>10
  <2>2. writer = "closed"
    BY <1>3, <1>8, <2>1
  <2>3. Decodes(now) /\ ~Complete(now)
    BY <1>8, <2>1 DEF Decodes, Complete
  <2>4. taken' = now /\ pushed' = pushed /\ pump' = pump
    BY <1>2, <2>3
  <2>5. now # << >>
    BY <1>4, <1>8
  <2>6. Lost'
    BY <1>1, <1>3, <1>8, <2>1, <2>2, <2>4, <2>5 DEF Lost
  <2> QED BY <1>1, <1>8, <2>4, <2>6 DEF ReportInv, ReportType, Input!NoSilentGap
<1> QED BY <1>9, <1>10

\* A timeout between two frames loses nothing; in the middle of one it loses
\* the header, and the payload is still to come.
LEMMA PumpTimesOutKeeps ==
  ASSUME ReportInv, Input!PumpTimesOut
  PROVE  ReportInv'
<1> USE HeaderLenAssumption
<1>1. /\ pump = "reading" /\ stream = << >> /\ writer # "closed" /\ taken' = << >>
      /\ UNCHANGED <<pump, pushed, stream, writer, sent, reportLength>>
  BY DEF Input!PumpTimesOut, Input!hostVars
<1>2. ReportType'
  BY <1>1, EmptySeq DEF ReportInv, ReportType
<1>3. CASE taken = << >>
  <2>1. taken' = taken
    BY <1>1, <1>3
  <2> QED BY <1>1, <1>2, <2>1 DEF ReportInv, InStep, Lost, Unread, Input!NoSilentGap
<1>4. CASE InStep /\ taken # << >>
  <2>1. Unread = taken /\ taken \in Seq(Byte)
    <3>1. taken \in Seq(Byte)
      BY DEF ReportInv, ReportType
    <3> QED BY <1>1, <3>1, ConcatEmptySeq DEF Unread
  <2>2. 1 \in 1 .. Len(taken) /\ Len(taken) \in Nat
    <3>1. Len(taken) # 0 /\ Len(taken) \in Nat
      BY <1>4, <2>1, EmptySeq, LenProperties
    <3> QED BY <3>1
  <2>3. taken[1].at = 1 /\ FrameAt(taken, 1, sent, writer, reportLength)
    BY <1>4, <2>1, <2>2 DEF InStep, FramesOf
  <2>4. taken[1].len \in Nat
    <3>1. taken[1] \in Byte
      BY <2>1, <2>2, ElementOfSeq
    <3> QED BY <3>1 DEF Byte
  <2>5. Len(taken) < HeaderLen + taken[1].len
    BY <1>4 DEF InStep
  <2>6. 1 + HeaderLen + taken[1].len > Len(taken) + 1
    BY <2>2, <2>4, <2>5
  <2>7. writer # "reading"
    BY <2>3, <2>6 DEF FrameAt
  <2> QED BY <1>1, <1>2, <2>7 DEF ReportInv, Lost, Input!NoSilentGap
<1>5. CASE Lost /\ taken # << >>
  BY <1>1, <1>5 DEF Lost
<1> QED BY <1>1, <1>3, <1>4, <1>5 DEF ReportInv

LEMMA WholePayload ==
  ASSUME ReportInv, Input!WritePayload
  PROVE  ReportInv'
<1> USE HeaderLenAssumption, ReportAssumption
<1>1. /\ writer = "writing" /\ writer' = "reading"
      /\ stream' = stream \o Payload(sent, reportLength)
      /\ UNCHANGED <<sent, reportLength, taken, pump, pushed>>
  BY SameFrames DEF Input!WritePayload, Input!guestVars
<1>2. sent \in Nat /\ reportLength \in Nat /\ reportLength \in 0 .. reportLength
  BY DEF ReportInv, ReportType
<1>3. Part(Payload(sent, reportLength), sent, reportLength, HeaderLen + 1, HeaderLen + reportLength)
  <2>1. HeaderLen + 1 \in Nat \ {0} /\ HeaderLen + reportLength \in Nat
        /\ HeaderLen + 1 <= (HeaderLen + reportLength) + 1
    BY <1>2
  <2> QED BY <1>2, <2>1, BytesArePart DEF Payload
<1>4. PayloadSent(reportLength, Payload(sent, reportLength))
  BY <1>1, <1>3 DEF PayloadSent
<1> QED BY <1>2, <1>4, PayloadKeeps

LEMMA BrokenPayload ==
  ASSUME ReportInv, Input!WriteFails
  PROVE  ReportInv'
<1> USE HeaderLenAssumption, ReportAssumption
<1> DEFINE whole == Payload(sent, reportLength)
<1>1. /\ writer = "writing" /\ writer' = "closed"
      /\ \E n \in 0 .. reportLength - 1 : stream' = stream \o SubSeq(whole, 1, n)
      /\ UNCHANGED <<sent, reportLength, taken, pump, pushed>>
  BY SameFrames DEF Input!WriteFails, Input!guestVars
<1>2. sent \in Nat /\ reportLength \in Nat
  BY DEF ReportInv, ReportType
<1>3. Part(whole, sent, reportLength, HeaderLen + 1, HeaderLen + reportLength)
  <2>1. HeaderLen + 1 \in Nat \ {0} /\ HeaderLen + reportLength \in Nat
        /\ HeaderLen + 1 <= (HeaderLen + reportLength) + 1
    BY <1>2
  <2> QED BY <1>2, <2>1, BytesArePart DEF Payload
<1> HIDE DEF whole
<1>4. PICK n \in 0 .. reportLength - 1 : stream' = stream \o SubSeq(whole, 1, n)
  BY <1>1
<1> DEFINE p == SubSeq(whole, 1, n)
<1>5. n \in 0 .. reportLength
  BY <1>2
<1>6. Part(p, sent, reportLength, HeaderLen + 1, HeaderLen + n)
  <2>1. /\ whole \in Seq(Byte) /\ Len(whole) = HeaderLen + reportLength - (HeaderLen + 1) + 1
        /\ \A i \in 1 .. Len(whole) :
             whole[i] = [frame |-> sent, len |-> reportLength, at |-> HeaderLen + 1 + i - 1]
    BY <1>2, <1>3 DEF Part
  <2>2. Len(whole) = reportLength
    BY <1>2, <2>1
  <2>3. \A i \in 1 .. n : whole[i] \in Byte
    <3>1. \A i \in 1 .. n : i \in 1 .. Len(whole)
      BY <1>2, <2>2
    <3> QED BY <2>1, <3>1, ElementOfSeq
  <2>4. /\ p \in Seq(Byte) /\ Len(p) = n
        /\ \A i \in 1 .. n : p[i] = whole[i]
    <3>1. /\ p \in Seq(Byte) /\ Len(p) = IF 1 <= n THEN n - 1 + 1 ELSE 0
          /\ \A i \in 1 .. n - 1 + 1 : p[i] = whole[1 + i - 1]
      BY <2>3, SubSeqProperties
    <3>2. n \in Nat /\ n - 1 + 1 = n /\ (1 <= n \/ n = 0) /\ \A i \in 1 .. n : 1 + i - 1 = i
      BY <1>2
    <3> QED BY <3>1, <3>2
  <2> HIDE DEF p
  <2>5. n = HeaderLen + n - (HeaderLen + 1) + 1 /\ \A i \in 1 .. n : i \in 1 .. Len(whole)
    BY <1>2, <2>2
  <2> QED BY <2>1, <2>4, <2>5 DEF Part
<1>7. PayloadSent(n, p)
  BY <1>1, <1>4, <1>6 DEF PayloadSent
<1> HIDE DEF p
<1> QED BY <1>5, <1>7, PayloadKeeps

LEMMA ReportsBegin == Input!Init => ReportInv
<1> SUFFICES ASSUME Input!Init PROVE ReportInv
  OBVIOUS
<1>1. /\ writer = "reading" /\ sent = 0 /\ reportLength = 0 /\ stream = << >>
      /\ taken = << >> /\ pump = "reading" /\ pushed = << >>
  BY DEF Input!Init
<1>2. << >> \in Seq(Byte) /\ << >> \in Seq(Nat) /\ Len(<< >>) = 0 /\ 1 .. 0 = {}
  BY EmptySeq
<1>3. Unread = << >>
  BY <1>1, <1>2, ConcatEmptySeq DEF Unread
<1>4. FramesOf(Unread, sent, writer, reportLength)
  BY <1>2, <1>3 DEF FramesOf
<1>5. ReportType /\ InStep /\ Input!NoSilentGap
  BY <1>1, <1>2, <1>3, <1>4 DEF ReportType, InStep, Input!NoSilentGap
<1> QED BY <1>5 DEF ReportInv

LEMMA ReportsStay ==
  ASSUME ReportInv, [InputStep]_inputVars
  PROVE  ReportInv'
<1>1. ASSUME NEW len \in ReportLengths, Input!WriteHeader(len) PROVE ReportInv'
  BY <1>1, WriteHeaderKeeps
<1>2. CASE Input!WritePayload \/ Input!WriteFails \/ Input!ReadFails
  BY <1>2, WholePayload, BrokenPayload, WriterLeaves
<1>3. CASE Input!PumpReads
  <2>1. InStep \/ Lost
    BY <1>3, PumpReadsOf DEF ReportInv
  <2> QED BY <1>3, <2>1, PumpReadsInStep, PumpReadsLost
<1>4. CASE Input!PumpTimesOut
  BY <1>4, PumpTimesOutKeeps
<1>5. CASE Input!PumpSeesEnd \/ PumpStops
  <2>1. pump' = "closed" /\ UNCHANGED <<taken, pushed, stream, writer, sent, reportLength>>
    BY <1>5 DEF Input!PumpSeesEnd, PumpStops, Input!PumpStops, Input!PumpCloses, Input!hostVars
  <2> QED BY <2>1 DEF ReportInv, ReportType, Input!NoSilentGap
<1>6. CASE UNCHANGED inputVars
  BY <1>6 DEF inputVars, ReportInv, ReportType, InStep, Lost, Unread, Input!NoSilentGap
<1> QED BY <1>1, <1>2, <1>3, <1>4, <1>5, <1>6 DEF InputStep, Input!HostStep

-----------------------------------------------------------------------------
\* Wherever a read times out, in a header or behind it, the requests executed
\* are the first ones sent, in order and once each, and the reports pushed are
\* the first ones written: no stream goes on behind a gap.
THEOREM InSequence == StreamsSpec => []StreamsInSequence
<1>1. StreamsInit => ExchangeInv /\ ReportInv
  BY ExchangeBegins, ReportsBegin DEF StreamsInit
<1>2. ExchangeInv /\ ReportInv /\ [StreamsNext]_streamVars => ExchangeInv' /\ ReportInv'
  <2> SUFFICES ASSUME ExchangeInv, ReportInv, [StreamsNext]_streamVars PROVE ExchangeInv' /\ ReportInv'
    OBVIOUS
  <2>1. [Next]_vars /\ [InputStep]_inputVars
    BY DEF StreamsNext, streamVars
  <2> QED BY <2>1, ExchangeStays, ReportsStay
<1>3. ExchangeInv /\ ReportInv => StreamsInSequence
  BY DEF ExchangeInv, ReportInv, StreamsInSequence
<1> QED BY <1>1, <1>2, <1>3, PTL DEF StreamsSpec

\* A caller that gets an answer gets the one to its own request, for every
\* range of ids: that ids come around is harmless.
THEOREM AnswersBelong == StreamsSpec => AnswerBelongsToRequest
<1>1. StreamsInit => ExchangeInv
  BY ExchangeBegins DEF StreamsInit
<1>2. [StreamsNext]_streamVars => [Next]_vars
  BY DEF StreamsNext, streamVars
<1>3. ExchangeInv /\ [Next]_vars => ExchangeInv' /\ [accepted' # accepted => accepted' = request]_vars
  BY ExchangeStays
<1> QED BY <1>1, <1>2, <1>3, PTL DEF StreamsSpec, AnswerBelongsToRequest
=============================================================================
