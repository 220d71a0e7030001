--------------------------- MODULE TransferProofs ---------------------------
(* What is proved of Transfer, for every size of header, buffer and window:  *)
(* its types, for every source and both receivers; that ReadFrom and WriteTo *)
(* implement MessageChannel; and when WriteTo stays in step with the sender. *)
EXTENDS Transfer, SequenceTheorems, TLAPS

LEMMA Parameters ==
    /\ HdrLen \in Nat \ {0} /\ BufSize \in Nat \ {0} /\ Window \in Nat \ {0}
    /\ \A r \in Reads : r[1] \in Nat
    /\ MaxChunks \in Nat
BY TransferAssumption DEF TransferAssumption

\* A part of a sequence of bytes.
LEMMA Part ==
    ASSUME NEW s \in Seq(Bytes), NEW a \in Nat, NEW b \in Nat, a >= 1, b <= Len(s), a <= b + 1
    PROVE  SubSeq(s, a, b) \in Seq(Bytes) /\ Len(SubSeq(s, a, b)) = b - a + 1
BY SubSeqProperties, LenProperties

LEMMA HeaderType ==
    ASSUME NEW n \in Nat
    PROVE  /\ Header(n) \in Seq(Bytes) /\ Len(Header(n)) = HdrLen
           /\ Header(n)[1].chunk = n
<1>1. \A i \in 1..HdrLen : HdrByte(n, i) \in Bytes
  BY Parameters DEF HdrByte, Bytes
<1>2. Header(n) \in [1..HdrLen -> Bytes] /\ HdrLen \in Nat /\ 1 \in 1..HdrLen
  BY <1>1, Parameters DEF Header
<1>3. Header(n)[1].chunk = n
  BY <1>2 DEF Header, HdrByte
<1>4. QED BY <1>2, <1>3

LEMMA YieldType ==
    ASSUME TypeOK, NEW n \in Nat
    PROVE  Yield(n) \in Seq(Bytes)
<1>1. Len(sent) \in Nat /\ Len(source) \in Nat
  BY DEF TypeOK
<1>2. \A i \in 1..n : DataByte(Len(sent) + 1, Len(source) + i) \in Bytes
  BY <1>1 DEF DataByte, Bytes
<1>3. Yield(n) \in [1..n -> Bytes]
  BY <1>2 DEF Yield
<1>4. QED BY <1>3

\* What a Read takes from the stream and what it leaves there.
LEMMA NetParts ==
    ASSUME TypeOK, NEW n \in Nat, n <= Len(net)
    PROVE  /\ Take(n) \in Seq(Bytes) /\ Len(Take(n)) = n
           /\ Leave(n) \in Seq(Bytes) /\ Len(Leave(n)) = Len(net) - n
<1>1. net \in Seq(Bytes) /\ Len(net) \in Nat
  BY DEF TypeOK
<1>2. Take(n) \in Seq(Bytes) /\ Len(Take(n)) = n - 1 + 1
  BY <1>1, Part DEF Take
<1>3. Leave(n) \in Seq(Bytes) /\ Len(Leave(n)) = Len(net) - (n + 1) + 1
  BY <1>1, Part DEF Leave
<1>4. QED BY <1>1, <1>2, <1>3

LEMMA ZerosType ==
    ASSUME NEW n \in Nat
    PROVE  [i \in 1..n |-> Zero] \in Seq(Bytes) /\ Len([i \in 1..n |-> Zero]) = n
<1>1. Zero \in Bytes
  BY DEF Zero, Bytes
<1>2. [i \in 1..n |-> Zero] \in [1..n -> Bytes]
  BY <1>1
<1>3. QED BY <1>2

LEMMA PutType ==
    ASSUME TypeOK, Len(buf) = size, NEW n \in Nat, NEW s \in Seq(Bytes)
    PROVE  Put(n, s) \in Seq(Bytes) /\ Len(Put(n, s)) = size
<1>1. size \in Nat /\ buf \in Seq(Bytes) /\ Len(s) \in Nat
  BY DEF TypeOK
<1>2. \A i \in 1..size : (IF i \in n + 1..n + Len(s) THEN s[i - n] ELSE buf[i]) \in Bytes
  <2> TAKE i \in 1..size
  <2>1. CASE i \in n + 1..n + Len(s)
    <3>1. i - n \in 1..Len(s)
      BY <1>1, <2>1
    <3>2. QED BY <2>1, <3>1, ElementOfSeq
  <2>2. CASE i \notin n + 1..n + Len(s)
    BY <1>1, <2>2, ElementOfSeq
  <2>3. QED BY <2>1, <2>2
<1>3. Put(n, s) \in [1..size -> Bytes]
  BY <1>2 DEF Put
<1>4. QED BY <1>1, <1>3

-----------------------------------------------------------------------------

LEMMA SenderStep ==
    ASSUME TypeOK, StartMessage \/ CloseStream \/ Cut \/ SendStep
    PROVE  TypeOK'
<1> USE DEF sendVars, recvVars
<1>1. CASE StartMessage
  <2>1. source' \in Seq(Bytes) /\ chunks' \in 0..MaxChunks
    BY <1>1, Parameters, EmptySeq DEF StartMessage
  <2>2. QED BY <1>1, <2>1 DEF StartMessage, TypeOK
<1>2. CASE CloseStream
  BY <1>2 DEF CloseStream, TypeOK
<1>3. CASE Cut
  <2>1. PICK n \in 0..Len(net) : net' = Take(n)
    BY <1>3 DEF Cut
  <2>2. n \in Nat /\ n <= Len(net) /\ Len(net) \in Nat /\ Len(net) <= Window
    BY <2>1 DEF TypeOK
  <2>3. net' \in Seq(Bytes) /\ Len(net') <= Window
    BY <2>1, <2>2, NetParts, Parameters
  <2>4. out' \in Seq(Bytes) /\ next' \in Seq(Bytes)
    BY <1>3, EmptySeq DEF Cut
  <2>5. QED BY <1>3, <2>3, <2>4 DEF Cut, TypeOK
<1>4. ASSUME NEW r \in Reads, ReadChunk(r[1])
      PROVE  TypeOK'
  <2>1. r[1] \in Nat
    BY Parameters
  <2>2. Yield(r[1]) \in Seq(Bytes) /\ Header(r[1]) \in Seq(Bytes)
    BY <2>1, YieldType, HeaderType
  <2>3. source' \in Seq(Bytes)
    BY <1>4, <2>2, ConcatProperties DEF ReadChunk, TypeOK
  <2>4. chunks' \in 0..MaxChunks
    BY <1>4, Parameters DEF ReadChunk, TypeOK
  <2>5. QED BY <1>4, <2>2, <2>3, <2>4 DEF ReadChunk, TypeOK
<1>5. ASSUME NEW r \in Reads, ReadError(r[1], r[2])
      PROVE  TypeOK'
  <2>1. r[1] \in Nat
    BY Parameters
  <2>2. source' \in Seq(Bytes)
    BY <1>5, <2>1, YieldType, ConcatProperties DEF ReadError, TypeOK
  <2>3. sent' \in Seq(Seq(Bytes))
    BY <1>5, <2>2, AppendProperties DEF ReadError, TypeOK
  <2>4. spc' \in {"end", "idle"} /\ out' \in Seq(Bytes)
    <3>1. Header(0) \in Seq(Bytes)
      BY HeaderType
    <3>2. QED BY <1>5, <3>1 DEF ReadError, TypeOK
  <2>5. QED BY <1>5, <2>2, <2>3, <2>4 DEF ReadError, TypeOK
<1>6. CASE Push
  <2> DEFINE n == Lesser(Window - Len(net), Len(out))
             left == SubSeq(out, n + 1, Len(out))
             gone == SubSeq(out, 1, n)
  <2>1. /\ Len(net) \in Nat /\ Len(out) \in Nat /\ Len(net) <= Window
        /\ net \in Seq(Bytes) /\ out \in Seq(Bytes) /\ next \in Seq(Bytes)
    BY DEF TypeOK
  <2>2. n \in Nat /\ n > 0 /\ n <= Len(out) /\ n <= Window - Len(net)
    <3>1. n > 0
      BY <1>6 DEF Push
    <3>2. QED BY <2>1, <3>1, Parameters DEF Lesser
  <2> HIDE DEF n
  <2>3. left \in Seq(Bytes)
    BY <2>1, <2>2, Part
  <2>4. gone \in Seq(Bytes) /\ Len(gone) = n
    <3>1. gone \in Seq(Bytes) /\ Len(gone) = n - 1 + 1
      BY <2>1, <2>2, Part
    <3>2. QED BY <2>2, <3>1
  <2>5. net' = net \o gone
    BY <1>6 DEF Push, n
  <2>6. net' \in Seq(Bytes) /\ Len(net') <= Window
    <3>1. net' \in Seq(Bytes) /\ Len(net') = Len(net) + Len(gone)
      BY <2>1, <2>4, <2>5, ConcatProperties
    <3>2. QED BY <2>1, <2>2, <2>4, <3>1, Parameters
  <2>7. /\ out' \in Seq(Bytes) /\ next' \in Seq(Bytes)
        /\ spc' \in {"idle", "read", "write", "end"}
    <3>1. CASE left # <<>>
      BY <1>6, <2>1, <2>3, <3>1 DEF Push, TypeOK, n
    <3>2. CASE left = <<>>
      BY <1>6, <2>1, <3>2, EmptySeq DEF Push, TypeOK, n
    <3>3. QED BY <3>1, <3>2
  <2>8. UNCHANGED <<source, chunks, sent, finished, recvVars>>
    BY <1>6 DEF Push
  <2>9. QED BY <2>6, <2>7, <2>8 DEF TypeOK
<1>7. QED BY <1>1, <1>2, <1>3, <1>4, <1>5, <1>6 DEF SendStep

LEMMA ReceiverStep ==
    ASSUME TypeOK, RecvStep
    PROVE  TypeOK'
<1> USE DEF sendVars
<1>a. /\ net \in Seq(Bytes) /\ Len(net) \in Nat /\ Len(net) <= Window /\ Window \in Nat
      /\ got \in Seq(Bytes) /\ delivered \in Seq(Seq(Bytes)) /\ size \in Nat /\ count \in Nat
      /\ wt \in Nat /\ broken \subseteq Nat /\ Len(delivered) \in Nat
  BY Parameters DEF TypeOK
<1>0. ASSUME EndMessage
      PROVE  /\ delivered' \in Seq(Seq(Bytes)) /\ got' \in Seq(Bytes)
             /\ UNCHANGED <<size, buf, count, wt, broken>>
  BY <1>0, <1>a, AppendProperties, EmptySeq DEF EndMessage
<1>1. CASE ReadHeader
  <2> DEFINE n == Lesser(HdrLen, Len(net))
  <2>1. n \in Nat /\ n > 0 /\ n <= Len(net)
    <3>1. n > 0
      BY <1>1 DEF ReadHeader
    <3>2. QED BY <1>a, <3>1, Parameters DEF Lesser
  <2>2. net' = Leave(n)
    BY <1>1 DEF ReadHeader
  <2>3. net' \in Seq(Bytes) /\ Len(net') <= Window
    BY <1>a, <2>1, <2>2, NetParts
  <2>4. net[1].chunk \in Nat
    <3>1. net[1] \in Bytes
      BY <1>a, <2>1, ElementOfSeq
    <3>2. QED BY <3>1 DEF Bytes
  <2>5. CASE Take(n) = Header(0)
    <3>1. rpc' = "header" /\ EndMessage /\ UNCHANGED sendVars
      BY <1>1, <2>5 DEF ReadHeader
    <3>2. QED BY <1>0, <2>3, <3>1 DEF TypeOK
  <2>6. CASE Take(n) # Header(0)
    <3>1. /\ size' = net[1].chunk /\ count' = 0
          /\ buf' = [i \in 1..net[1].chunk |-> Zero]
          /\ UNCHANGED <<wt, got, delivered, broken>> /\ UNCHANGED sendVars
          /\ rpc' \in {"garbled", "panicked", "data"}
          /\ rpc' = "data" => Take(n) = Header(net[1].chunk)
      BY <1>1, <2>6 DEF ReadHeader
    <3>2. buf' \in Seq(Bytes) /\ Len(buf') = size'
      BY <2>4, <3>1, ZerosType
    <3>3. rpc' = "data" => count' < size'
      BY <2>4, <2>6, <3>1
    <3>4. QED BY <1>a, <2>3, <2>4, <3>1, <3>2, <3>3 DEF TypeOK
  <2>7. QED BY <2>5, <2>6
<1>2. CASE ReadEnd
  <2>1. got' \in Seq(Bytes) /\ delivered' \in Seq(Seq(Bytes)) /\ UNCHANGED <<size, buf, count, wt, broken>>
    BY <1>2, <1>0, <1>a DEF ReadEnd
  <2>2. QED BY <1>2, <2>1 DEF ReadEnd, TypeOK
<1>3. CASE ReadData
  <2> DEFINE n == Lesser(IF Receiver = "WriteTo" THEN size - count ELSE size, Len(net))
             at == IF Receiver = "WriteTo" THEN count ELSE 0
  <2>1. rpc = "data" /\ n > 0 /\ net' = Leave(n) /\ count' = count + n /\ buf' = Put(at, Take(n))
    BY <1>3 DEF ReadData
  <2>2. count < size /\ Len(buf) = size
    BY <2>1 DEF TypeOK
  <2>3. n \in Nat /\ n <= Len(net) /\ at \in Nat
    BY <1>a, <2>2 DEF Lesser
  <2>4. Take(n) \in Seq(Bytes) /\ net' \in Seq(Bytes) /\ Len(net') <= Window
    BY <1>a, <2>1, <2>3, NetParts
  <2>5. buf' \in Seq(Bytes) /\ Len(buf') = size
    BY <2>1, <2>2, <2>3, <2>4, PutType
  <2>6. count' \in Nat
    BY <1>a, <2>1, <2>3
  <2> HIDE DEF n, at
  <2>7. /\ UNCHANGED <<sendVars, size, delivered, broken>> /\ got' \in Seq(Bytes)
        /\ rpc' \in {"data", "sink", "header", "garbled"} /\ wt' \in Nat
        /\ rpc' = "data" => count' < size'
        /\ rpc' = "sink" => wt' < size'
    <3>1. UNCHANGED <<sendVars, size, delivered, broken>>
      BY <1>3 DEF ReadData
    <3>2. got \o buf' \in Seq(Bytes)
      BY <1>a, <2>5, ConcatProperties
    <3>3. size > 0
      BY <1>a, <2>2
    <3>4. CASE count' < size /\ UNCHANGED <<rpc, wt, got>>
      BY <1>a, <2>1, <3>1, <3>4
    <3>5. CASE ChunkRead
      <4>1. \/ rpc' = "sink" /\ wt' = 0 /\ got' = got
            \/ rpc' = "header" /\ got' = got \o buf' /\ wt' = wt
        BY <3>5 DEF ChunkRead
      <4>2. size' = size
        BY <3>1
      <4>3. wt \in Nat /\ got \in Seq(Bytes)
        BY <1>a
      <4>4. got' \in Seq(Bytes) /\ rpc' \in {"sink", "header"} /\ wt' \in Nat
        <5>1. CASE rpc' = "sink" /\ wt' = 0 /\ got' = got
          BY <4>3, <5>1
        <5>2. CASE rpc' = "header" /\ got' = got \o buf' /\ wt' = wt
          <6>1. got' \in Seq(Bytes)
            BY <3>2, <5>2, Zenon
          <6>2. QED BY <4>3, <5>2, <6>1
        <5>3. QED BY <4>1, <5>1, <5>2
      <4>5. rpc' = "sink" => wt' < size'
        BY <3>3, <4>1, <4>2
      <4>6. QED BY <3>1, <4>4, <4>5
    <3>6. CASE rpc' = "garbled" /\ UNCHANGED <<wt, got>>
      BY <1>a, <3>1, <3>6
    <3>7. QED BY <1>3, <3>4, <3>5, <3>6 DEF ReadData
  <2>8. QED BY <1>a, <2>4, <2>5, <2>6, <2>7 DEF TypeOK
<1>4. CASE ReadCut \/ StreamClosed
  BY <1>4 DEF ReadCut, StreamClosed, TypeOK
<1>5. ASSUME NEW w \in Writes, NEW k \in 0..size, SinkWrite(w, k)
      PROVE  TypeOK'
  <2>1. /\ rpc = "sink" /\ UNCHANGED <<sendVars, net, size, buf, count, delivered>>
        /\ wt < size /\ Len(buf) = size /\ buf \in Seq(Bytes) /\ k \in Nat /\ k <= size
    BY <1>a, <1>5 DEF SinkWrite, TypeOK
  <2>2. SubSeq(buf, 1, k) \in Seq(Bytes)
    BY <1>a, <2>1, Part
  <2>3. got \o SubSeq(buf, 1, k) \in Seq(Bytes)
    BY <1>a, <2>2, ConcatProperties
  <2>4. /\ got' \in Seq(Bytes) /\ wt' \in Nat /\ rpc' \in {"header", "sink"}
        /\ rpc' = "sink" => wt' < size
        /\ broken' = broken \/ broken' = broken \cup {Len(delivered) + 1}
    <3>1. CASE SinkFailed
      BY <3>1, EmptySeq DEF SinkFailed
    <3>2. CASE /\ ~(wt + k > size) /\ got' = got \o SubSeq(buf, 1, k) /\ wt' = wt + k
               /\ rpc' = (IF wt + k = size THEN "header" ELSE "sink") /\ UNCHANGED broken
      BY <1>a, <2>1, <2>3, <3>2
    <3>3. QED BY <1>5, <3>1, <3>2 DEF SinkWrite
  <2>5. broken' \subseteq Nat
    <3>1. broken \subseteq Nat /\ Len(delivered) + 1 \in Nat
      BY <1>a
    <3>2. (broken \cup {Len(delivered) + 1}) \subseteq Nat
      BY <3>1
    <3>3. QED BY <2>4, <3>1, <3>2
  <2>6. QED BY <1>a, <2>1, <2>4, <2>5 DEF TypeOK
<1>6. QED BY <1>1, <1>2, <1>3, <1>4, <1>5 DEF RecvStep

\* The types of Transfer hold: in particular the window is never exceeded, and a
\* receiver within a chunk has a buffer of its length that is not yet full, for
\* either receiver and however the chunks arrive.
THEOREM TypeCorrect == Spec => []TypeOK
<1>1. Init => TypeOK
  BY Parameters, EmptySeq DEF Init, TypeOK
<1>2. TypeOK /\ [Next]_vars => TypeOK'
  <2>1. TypeOK /\ UNCHANGED vars => TypeOK'
    BY DEF TypeOK, vars, sendVars, recvVars
  <2>2. QED BY <2>1, SenderStep, ReceiverStep DEF Next
<1>3. QED BY <1>1, <1>2, PTL DEF Spec

-----------------------------------------------------------------------------
(* What is under way.                                                       *)

\* The bytes that have been written, or are about to be, and not yet read.
Pending == net \o (out \o next)

\* q is p without its first n bytes.
Without(p, n, q) ==
    /\ Len(q) = Len(p) - n
    /\ \A i \in 1..Len(q) : q[i] = p[i + n]

\* p is the sequence a, and then b.
IsJoin(p, a, b) ==
    /\ p \in Seq(Bytes) /\ Len(p) = Len(a) + Len(b)
    /\ \A i \in 1..Len(a) : p[i] = a[i]
    /\ \A i \in 1..Len(b) : p[Len(a) + i] = b[i]

LEMMA SequenceTypes ==
    ASSUME TypeOK
    PROVE  /\ net \in Seq(Bytes) /\ out \in Seq(Bytes) /\ next \in Seq(Bytes) /\ source \in Seq(Bytes)
           /\ Len(net) \in Nat /\ Len(out) \in Nat /\ Len(next) \in Nat /\ Len(source) \in Nat
           /\ sent \in Seq(Seq(Bytes)) /\ Len(sent) \in Nat
           /\ delivered \in Seq(Seq(Bytes)) /\ Len(delivered) \in Nat
<1>1. net \in Seq(Bytes) /\ out \in Seq(Bytes) /\ next \in Seq(Bytes) /\ source \in Seq(Bytes)
  BY DEF TypeOK
<1>2. sent \in Seq(Seq(Bytes)) /\ delivered \in Seq(Seq(Bytes))
  BY DEF TypeOK
<1>3. Len(net) \in Nat /\ Len(out) \in Nat /\ Len(next) \in Nat /\ Len(source) \in Nat
  BY <1>1
<1>4. Len(sent) \in Nat /\ Len(delivered) \in Nat
  BY <1>2
<1>5. QED BY <1>1, <1>2, <1>3, <1>4

LEMMA Joined == \A a, b \in Seq(Bytes) : IsJoin(a \o b, a, b)
<1> SUFFICES ASSUME NEW a \in Seq(Bytes), NEW b \in Seq(Bytes)
             PROVE  IsJoin(a \o b, a, b)
  OBVIOUS
<1>1. /\ a \o b \in Seq(Bytes) /\ Len(a \o b) = Len(a) + Len(b)
      /\ \A i \in 1..(Len(a) + Len(b)) : (a \o b)[i] = IF i <= Len(a) THEN a[i] ELSE b[i - Len(a)]
  BY ConcatProperties
<1>2. Len(a) \in Nat /\ Len(b) \in Nat
  OBVIOUS
<1>3. ASSUME NEW i \in 1..Len(b)
      PROVE  (a \o b)[Len(a) + i] = b[i]
  <2>1. Len(a) + i \in 1..(Len(a) + Len(b)) /\ ~(Len(a) + i <= Len(a)) /\ Len(a) + i - Len(a) = i
    BY <1>2
  <2>2. QED BY <1>1, <2>1
<1>4. QED BY <1>1, <1>2, <1>3 DEF IsJoin

Regroups(a, b, c, d) == (a \o b) \o (c \o d) = a \o ((b \o c) \o d)

LEMMA Regrouped == \A a, b, c, d \in Seq(Bytes) : Regroups(a, b, c, d)
<1> SUFFICES ASSUME NEW a \in Seq(Bytes), NEW b \in Seq(Bytes), NEW c \in Seq(Bytes), NEW d \in Seq(Bytes)
             PROVE  (a \o b) \o (c \o d) = a \o ((b \o c) \o d)
  BY DEF Regroups
<1>1. c \o d \in Seq(Bytes) /\ b \o c \in Seq(Bytes)
  BY ConcatProperties
<1> DEFINE e == c \o d
<1>2. e \in Seq(Bytes)
  BY <1>1
<1> HIDE DEF e
<1>3. (a \o b) \o e = a \o (b \o e)
  BY <1>2, ConcatAssociative, SMTT(30)
<1>4. b \o e = (b \o c) \o d
  BY ConcatAssociative, SMTT(30) DEF e
<1>5. QED BY <1>3, <1>4 DEF e

LEMMA PendingBytes ==
    ASSUME TypeOK
    PROVE  /\ Pending \in Seq(Bytes)
           /\ Len(Pending) = Len(net) + Len(out) + Len(next)
           /\ \A i \in 1..Len(net) : i \in 1..Len(Pending) /\ Pending[i] = net[i]
<1>1. net \in Seq(Bytes) /\ out \in Seq(Bytes) /\ next \in Seq(Bytes)
  BY DEF TypeOK
<1>2. out \o next \in Seq(Bytes) /\ Len(out \o next) = Len(out) + Len(next)
  BY <1>1, ConcatProperties
<1>3. Len(net) \in Nat /\ Len(out) \in Nat /\ Len(next) \in Nat
  BY <1>1
<1>4. Pending \in Seq(Bytes) /\ Len(Pending) = Len(net) + Len(out \o next)
  BY <1>1, <1>2, ConcatProperties DEF Pending
<1>5. ASSUME NEW i \in 1..Len(net)
      PROVE  i \in 1..Len(Pending) /\ Pending[i] = net[i]
  BY <1>1, <1>2, <1>3, <1>4, ConcatProperties DEF Pending
<1>6. QED BY <1>2, <1>3, <1>4, <1>5

\* A Read takes the first bytes, ...
LEMMA ReadTakes ==
    ASSUME TypeOK, TypeOK', NEW n \in Nat, n <= Len(net), net' = Leave(n),
           UNCHANGED <<out, next>>
    PROVE  Without(Pending, n, Pending')
<1> DEFINE rest == out \o next
<1>1. net \in Seq(Bytes) /\ rest \in Seq(Bytes) /\ Len(net) \in Nat /\ Len(rest) \in Nat
  <2>1. net \in Seq(Bytes) /\ out \in Seq(Bytes) /\ next \in Seq(Bytes) /\ Len(net) \in Nat
    BY SequenceTypes
  <2>2. rest \in Seq(Bytes)
    BY <2>1, ConcatProperties
  <2> HIDE DEF rest
  <2>3. QED BY <2>1, <2>2
<1>2. Leave(n) \in Seq(Bytes) /\ Len(Leave(n)) = Len(net) - n
  BY NetParts
<1>3. \A i \in 1..(Len(net) - n) : Leave(n)[i] = net[i + n]
  <2>1. \A i \in (n + 1)..Len(net) : net[i] \in Bytes
    BY <1>1
  <2>2. n + 1 \in Int /\ Len(net) \in Int
    BY <1>1
  <2>3. \A i \in 1..(Len(net) - (n + 1) + 1) : Leave(n)[i] = net[(n + 1) + i - 1]
    BY <2>1, <2>2, SubSeqProperties DEF Leave
  <2>4. QED BY <1>1, <2>3
<1>4. Pending = net \o rest /\ Pending' = Leave(n) \o rest
  BY DEF Pending
<1> HIDE DEF rest
<1>5. Len(Pending) = Len(net) + Len(rest) /\ Len(Pending') = Len(net) - n + Len(rest)
  BY <1>1, <1>2, <1>4, ConcatProperties
<1>6. ASSUME NEW i \in 1..(Len(net) - n + Len(rest))
      PROVE  Pending'[i] = Pending[i + n]
  <2>0. i \in Nat /\ i + n \in 1..(Len(net) + Len(rest))
    BY <1>1
  <2>1. Pending'[i] = IF i <= Len(net) - n THEN Leave(n)[i] ELSE rest[i - (Len(net) - n)]
    BY <1>1, <1>2, <1>4, ConcatProperties
  <2>2. Pending[i + n] = IF i + n <= Len(net) THEN net[i + n] ELSE rest[i + n - Len(net)]
    BY <1>1, <1>4, <2>0, ConcatProperties
  <2>3. CASE i <= Len(net) - n
    BY <1>1, <1>3, <2>0, <2>1, <2>2, <2>3
  <2>4. CASE ~(i <= Len(net) - n)
    <3>1. i - (Len(net) - n) = i + n - Len(net) /\ ~(i + n <= Len(net))
      BY <1>1, <2>0, <2>4
    <3>2. QED BY <2>1, <2>2, <2>4, <3>1
  <2>5. QED BY <2>3, <2>4
<1>7. QED BY <1>1, <1>5, <1>6 DEF Without

\* ... a Write puts in what was to be written, ...
LEMMA PushKeepsPending ==
    ASSUME TypeOK, Push
    PROVE  Pending' = Pending
<1> DEFINE n == Lesser(Window - Len(net), Len(out))
           gone == SubSeq(out, 1, n)
           left == SubSeq(out, n + 1, Len(out))
<1>1. /\ net \in Seq(Bytes) /\ out \in Seq(Bytes) /\ next \in Seq(Bytes)
      /\ Len(net) \in Nat /\ Len(out) \in Nat /\ Len(net) <= Window
  BY DEF TypeOK
<1>2. n \in Nat /\ n > 0 /\ n <= Len(out)
  <2>1. n > 0
    BY DEF Push
  <2>2. QED BY <1>1, <2>1, Parameters DEF Lesser
<1>3. net' = net \o gone /\ (left # <<>> => out' = left /\ next' = next)
      /\ (left = <<>> => out' = next /\ next' = <<>>)
  BY DEF Push
<1> HIDE DEF n
<1>4. gone \in Seq(Bytes) /\ left \in Seq(Bytes)
  BY <1>1, <1>2, Part
<1>5. gone \o left = out
  <2>1. 1 \in 1..(Len(out) + 1) /\ n \in (1 - 1)..Len(out) /\ Len(out) \in n..Len(out)
    BY <1>1, <1>2
  <2>2. gone \o left = SubSeq(out, 1, Len(out))
    BY <1>1, <2>1, ConcatAdjacentSubSeq
  <2>3. QED BY <1>1, <2>2, SubSeqFull
<1> HIDE DEF gone, left
<1>6. left \o next = out' \o next'
  <2>1. CASE left = <<>>
    BY <1>1, <1>3, <2>1, ConcatEmptySeq
  <2>2. CASE left # <<>>
    BY <1>3, <2>2
  <2>3. QED BY <2>1, <2>2
<1>7. (net \o gone) \o (left \o next) = net \o ((gone \o left) \o next)
  <2>1. Regroups(net, gone, left, next)
    BY <1>1, <1>4, Regrouped
  <2>2. QED BY <2>1 DEF Regroups
<1>8. Pending' = (net \o gone) \o (left \o next)
  BY <1>3, <1>6 DEF Pending
<1>9. QED BY <1>5, <1>7, <1>8 DEF Pending

\* ... and a cut leaves a beginning.
LEMMA CutKeepsBeginning ==
    ASSUME TypeOK, TypeOK', Cut
    PROVE  /\ Len(Pending') <= Len(Pending)
           /\ \A i \in 1..Len(Pending') : Pending'[i] = Pending[i]
<1>1. PICK n \in 0..Len(net) : net' = Take(n)
  BY DEF Cut
<1>2. net \in Seq(Bytes) /\ Len(net) \in Nat /\ n \in Nat /\ n <= Len(net)
  BY <1>1 DEF TypeOK
<1>3. Take(n) \in Seq(Bytes) /\ Len(Take(n)) = n
  BY <1>2, NetParts
<1>4. Pending' = Take(n)
  <2>1. out' = <<>> /\ next' = <<>> /\ Pending' = Take(n) \o (<<>> \o <<>>)
    BY <1>1 DEF Cut, Pending
  <2>2. <<>> \o <<>> = <<>>
    BY EmptySeq, ConcatEmptySeq
  <2>3. QED BY <1>3, <2>1, <2>2, ConcatEmptySeq
<1>5. \A i \in 1..n : Take(n)[i] = net[i]
  <2>1. \A i \in 1..n : net[i] \in Bytes
    BY <1>2
  <2>2. \A i \in 1..(n - 1 + 1) : Take(n)[i] = net[1 + i - 1]
    BY <1>2, <2>1, SubSeqProperties DEF Take
  <2>3. QED BY <1>2, <2>2
<1>6. QED BY <1>2, <1>3, <1>4, <1>5, PendingBytes

LEMMA HeaderBytes ==
    ASSUME NEW n \in Nat
    PROVE  \A i \in 1..HdrLen : Header(n)[i] = HdrByte(n, i)
BY DEF Header

\* A new chunk is put at the end.
LEMMA ChunkPends ==
    ASSUME TypeOK, TypeOK', NEW n \in Nat, net' = net, out = <<>>, next = <<>>,
           out' = Header(n), next' = Yield(n)
    PROVE  /\ Len(Pending') = Len(Pending) + HdrLen + n
           /\ \A i \in 1..Len(Pending) : Pending'[i] = Pending[i]
           /\ \A i \in 1..HdrLen : Pending'[Len(Pending) + i] = HdrByte(n, i)
           /\ \A i \in 1..n : Pending'[Len(Pending) + HdrLen + i] = DataByte(Len(sent) + 1, Len(source) + i)
<1>1. Pending = net
  <2>1. Pending = net \o (<<>> \o <<>>) /\ net \in Seq(Bytes)
    BY DEF Pending, TypeOK
  <2>2. <<>> \o <<>> = <<>>
    BY EmptySeq, ConcatEmptySeq
  <2>3. QED BY <2>1, <2>2, ConcatEmptySeq
<1>2. /\ net \in Seq(Bytes) /\ Len(net) \in Nat
      /\ Header(n) \in Seq(Bytes) /\ Len(Header(n)) = HdrLen
      /\ Yield(n) \in Seq(Bytes) /\ Len(Yield(n)) = n
  <2>1. Len(Yield(n)) = n
    BY DEF Yield
  <2>2. Header(n) \in Seq(Bytes) /\ Len(Header(n)) = HdrLen
    BY HeaderType
  <2>3. Yield(n) \in Seq(Bytes)
    BY YieldType
  <2>4. QED BY <2>1, <2>2, <2>3, SequenceTypes
<1> DEFINE head == Header(n)
           data == Yield(n)
<1>3. /\ \A i \in 1..HdrLen : head[i] = HdrByte(n, i)
      /\ \A i \in 1..n : data[i] = DataByte(Len(sent) + 1, Len(source) + i)
  BY HeaderBytes DEF Yield
<1>4. Pending' = net \o (head \o data)
  BY DEF Pending
<1>5. HdrLen \in Nat
  BY Parameters
<1> HIDE DEF head, data
<1> DEFINE chunk == head \o data
<1>6. /\ chunk \in Seq(Bytes) /\ Len(chunk) = HdrLen + n
      /\ \A i \in 1..HdrLen : chunk[i] = head[i]
      /\ \A i \in 1..n : chunk[HdrLen + i] = data[i]
  <2>1. head \in Seq(Bytes) /\ Len(head) = HdrLen /\ data \in Seq(Bytes) /\ Len(data) = n
    BY <1>2 DEF head, data
  <2>2. IsJoin(chunk, head, data)
    BY <2>1, Joined
  <2>3. QED BY <2>1, <2>2 DEF IsJoin
<1> HIDE DEF chunk
<1>7. /\ Len(Pending') = Len(net) + (HdrLen + n)
      /\ \A i \in 1..Len(net) : Pending'[i] = net[i]
      /\ \A i \in 1..(HdrLen + n) : Pending'[Len(net) + i] = chunk[i]
  <2>1. IsJoin(Pending', net, chunk)
    BY <1>2, <1>4, <1>6, Joined DEF chunk
  <2>2. QED BY <1>6, <2>1 DEF IsJoin
<1>8. ASSUME NEW i \in 1..HdrLen
      PROVE  Pending'[Len(net) + i] = HdrByte(n, i)
  <2>1. i \in 1..(HdrLen + n)
    BY <1>5
  <2>2. QED BY <1>3, <1>6, <1>7, <2>1
<1>9. ASSUME NEW i \in 1..n
      PROVE  Pending'[Len(net) + HdrLen + i] = DataByte(Len(sent) + 1, Len(source) + i)
  <2>1. HdrLen + i \in 1..(HdrLen + n) /\ Len(net) + HdrLen + i = Len(net) + (HdrLen + i)
    BY <1>2, <1>5
  <2>2. Pending'[Len(net) + (HdrLen + i)] = chunk[HdrLen + i]
    BY <1>7, <2>1
  <2>3. chunk[HdrLen + i] = data[i]
    BY <1>6
  <2>4. QED BY <1>3, <2>1, <2>2, <2>3
<1>10. Len(Pending') = Len(Pending) + HdrLen + n
  BY <1>1, <1>2, <1>5, <1>7
<1>11. QED BY <1>1, <1>7, <1>8, <1>9, <1>10
-----------------------------------------------------------------------------
(* ReadFrom and WriteTo.                                                    *)

\* WriteTo reads what ReadFrom sends of a source that returns a full buffer or
\* less, and at its end EOF alone; its sinks take all they are given, or fail.
Fit ==
    /\ Receiver = "WriteTo" /\ "short" \notin Writes
    /\ Reads \subseteq ((1..BufSize) \X {"nil"}) \cup {<<0, "EOF">>}

\* The first n bytes of message m.
First(m, n) == [i \in 1..n |-> DataByte(m, i)]

\* A chunk: where it stands in the stream and in its message, and its length.
Chunk == [off : Nat, msg : Nat \ {0}, start : Nat, len : Nat]

\* b is the place after the chunk a.
Follows(a, b) ==
    /\ b.off = a.off + HdrLen + a.len
    /\ a.len = 0 => b.msg = a.msg + 1 /\ b.start = 0
    /\ a.len # 0 => b.msg = a.msg /\ b.start = a.start + a.len

\* The bytes p, of which c come before, agree with the chunk a.
InPlace(p, c, a) ==
    /\ \A i \in 1..Len(p), k \in 1..HdrLen :
          c + i = a.off + k => p[i] = HdrByte(a.len, k)
    /\ \A i \in 1..Len(p), k \in 1..a.len :
          c + i = a.off + HdrLen + k => p[i] = DataByte(a.msg, a.start + k)

\* The place of a is in a message that is among those sent, or is the one that
\* the source is in.
Reached(a, msgs, src) ==
    /\ a.msg <= Len(msgs) + 1 /\ (a.start # 0 => a.msg <= MaxMsgs)
    /\ a.start <= MaxChunks * BufSize
    /\ a.msg <= Len(msgs) => a.start <= Len(msgs[a.msg])
    /\ a.msg = Len(msgs) + 1 => a.start <= Len(src)

\* So is the whole chunk; and an empty one stands at the end of its message.
Written(a, msgs, src) ==
    /\ a.len <= BufSize
    /\ a.msg <= Len(msgs) =>
          a.start + a.len <= Len(msgs[a.msg]) /\ (a.len = 0 => a.start = Len(msgs[a.msg]))
    /\ a.msg = Len(msgs) + 1 => a.len # 0 /\ a.start + a.len <= Len(src)

\* Where the next chunk will be.
Cursor(a) ==
    /\ a.msg = Len(sent) + 1
    /\ a.start = IF spc \in {"read", "write"} THEN Len(source) ELSE 0

\* The stream consists of the chunks 0..(k - 1) of l; c bytes have been read.
Layout(l, k, c) ==
    /\ c + Len(Pending) <= l[k].off
    /\ finished = "no" => c + Len(Pending) = l[k].off /\ Cursor(l[k])
    /\ \A j \in 0..(k - 1) :
          /\ Follows(l[j], l[j + 1]) /\ l[j].off + HdrLen + l[j].len <= l[k].off
          /\ InPlace(Pending, c, l[j]) /\ Written(l[j], sent, source)
          /\ finished = "no" /\ spc \in {"idle", "end"} => l[j].msg <= Len(sent)
    /\ \A j \in 0..k : Reached(l[j], sent, source)

\* The receiver is at the header of chunk r, or within its data. In a message in
\* which no sink has failed, the sink has what comes before.
At(l, k, c, r) ==
    /\ l[r].msg = Len(delivered) + 1
    /\ l[r].msg \notin broken => l[r].start = Len(got) /\ got = First(l[r].msg, Len(got))
    /\ Len(got) # 0 => l[r].start # 0
    /\ rpc = "header" => c = l[r].off
    /\ rpc \in {"data", "sink"} =>
          /\ r # k /\ size = l[r].len /\ c = l[r].off + HdrLen + count
          /\ \A i \in 1..count : buf[i] = DataByte(l[r].msg, l[r].start + i)

SenderInv ==
    /\ spc # "idle" => finished = "no"
    /\ spc \in {"idle", "read"} => out = <<>> /\ next = <<>>
    /\ spc = "end" => next = <<>>
    /\ spc \in {"read", "write"} =>
          /\ Len(sent) < MaxMsgs
          /\ source = First(Len(sent) + 1, Len(source)) /\ Len(source) <= chunks * BufSize
    /\ \A m \in 1..Len(sent) :
          sent[m] = First(m, Len(sent[m])) /\ Len(sent[m]) <= MaxChunks * BufSize

ReceiverInv ==
    /\ rpc # "panicked"
    /\ rpc = "stopped" => finished # "no"
    /\ rpc # "stopped" => Len(delivered) <= Len(sent)
    /\ rpc = "sink" => count = size /\ wt = 0
    /\ rpc \in {"header", "data", "sink"} =>
          \E l \in [Nat -> Chunk], k \in Nat, c \in Nat : \E r \in 0..k :
              Layout(l, k, c) /\ At(l, k, c, r)

TransferInv == TypeOK /\ SenderInv /\ ReceiverInv

-----------------------------------------------------------------------------

LEMMA ReadsAreFit ==
    ASSUME Fit, NEW r \in Reads
    PROVE  \/ r[1] \in 1..BufSize /\ r[2] = "nil"
           \/ r[1] = 0 /\ r[2] = "EOF"
BY DEF Fit

LEMMA FirstBytes ==
    ASSUME NEW m \in Nat, NEW n \in Nat
    PROVE  /\ First(m, n) \in Seq(Bytes) /\ Len(First(m, n)) = n
           /\ \A i \in 1..n : First(m, n)[i] = DataByte(m, i)
<1>1. \A i \in 1..n : DataByte(m, i) \in Bytes
  BY DEF DataByte, Bytes
<1>2. First(m, n) \in [1..n -> Bytes]
  BY <1>1 DEF First
<1>3. QED BY <1>2 DEF First

\* A sequence is the beginning of message m when its bytes are.
LEMMA IsFirst ==
    ASSUME NEW s \in Seq(Bytes), NEW m \in Nat, \A i \in 1..Len(s) : s[i] = DataByte(m, i)
    PROVE  s = First(m, Len(s))
<1>1. Len(s) \in Nat
  OBVIOUS
<1>2. First(m, Len(s)) \in Seq(Bytes) /\ Len(First(m, Len(s))) = Len(s)
      /\ \A i \in 1..Len(s) : First(m, Len(s))[i] = DataByte(m, i)
  BY <1>1, FirstBytes
<1> DEFINE t == First(m, Len(s))
<1> HIDE DEF t
<1>3. t \in Seq(Bytes) /\ Len(s) = Len(t) /\ \A i \in 1..Len(s) : s[i] = t[i]
  BY <1>2 DEF t
<1>4. s = t
  BY <1>3, SeqEqual
<1>5. QED BY <1>4 DEF t

LEMMA BytesOfFirst ==
    ASSUME NEW s \in Seq(Bytes), NEW m \in Nat, s = First(m, Len(s))
    PROVE  \A i \in 1..Len(s) : s[i] = DataByte(m, i)
<1> DEFINE n == Len(s)
<1>1. n \in Nat /\ s = First(m, n)
  OBVIOUS
<1> HIDE DEF n
<1>2. \A i \in 1..n : First(m, n)[i] = DataByte(m, i)
  BY <1>1, FirstBytes
<1>3. \A i \in 1..n : s[i] = DataByte(m, i)
  BY <1>1, <1>2
<1>4. QED BY <1>3 DEF n

\* A message grows by the bytes that follow.
LEMMA FirstGrows ==
    ASSUME NEW m \in Nat, NEW s \in Seq(Bytes), NEW t \in Seq(Bytes), s = First(m, Len(s)),
           \A i \in 1..Len(t) : t[i] = DataByte(m, Len(s) + i)
    PROVE  s \o t = First(m, Len(s) + Len(t)) /\ Len(s \o t) = Len(s) + Len(t)
<1>1. IsJoin(s \o t, s, t) /\ Len(s) \in Nat /\ Len(t) \in Nat
  BY Joined
<1> DEFINE p == s \o t
<1> HIDE DEF p
<1>2. /\ p \in Seq(Bytes) /\ Len(p) = Len(s) + Len(t)
      /\ \A i \in 1..Len(s) : p[i] = s[i]
      /\ \A i \in 1..Len(t) : p[Len(s) + i] = t[i]
  BY <1>1 DEF p, IsJoin
<1>3. \A i \in 1..Len(s) : s[i] = DataByte(m, i)
  BY BytesOfFirst
<1>4. ASSUME NEW i \in 1..Len(p)
      PROVE  p[i] = DataByte(m, i)
  <2>1. CASE i <= Len(s)
    BY <1>1, <1>2, <1>3, <2>1
  <2>2. CASE ~(i <= Len(s))
    <3>1. i - Len(s) \in 1..Len(t) /\ Len(s) + (i - Len(s)) = i
      BY <1>1, <1>2, <2>2
    <3>2. p[Len(s) + (i - Len(s))] = t[i - Len(s)]
      BY <1>2, <3>1
    <3>3. t[i - Len(s)] = DataByte(m, Len(s) + (i - Len(s)))
      BY <3>1
    <3>4. QED BY <3>1, <3>2, <3>3
  <2>3. QED BY <2>1, <2>2
<1>5. p = First(m, Len(p))
  BY <1>2, <1>4, IsFirst
<1>6. QED BY <1>2, <1>5 DEF p

\* Reading takes the agreement along.
LEMMA InPlaceRead ==
    ASSUME NEW p, NEW q, NEW n \in Nat, NEW c \in Nat, NEW a, Len(p) \in Nat, Len(q) \in Nat,
           Without(p, n, q), InPlace(p, c, a)
    PROVE  InPlace(q, c + n, a)
<1>1. \A i \in 1..Len(q) : i + n \in 1..Len(p) /\ q[i] = p[i + n]
  BY DEF Without
<1>2. \A i \in 1..Len(q) : c + (i + n) = c + n + i
  OBVIOUS
<1>3. ASSUME NEW i \in 1..Len(q), NEW k \in 1..HdrLen, c + n + i = a.off + k
      PROVE  q[i] = HdrByte(a.len, k)
  <2>1. i + n \in 1..Len(p) /\ q[i] = p[i + n] /\ c + (i + n) = a.off + k
    BY <1>1, <1>2, <1>3
  <2>2. QED BY <2>1 DEF InPlace
<1>4. ASSUME NEW i \in 1..Len(q), NEW k \in 1..a.len, c + n + i = a.off + HdrLen + k
      PROVE  q[i] = DataByte(a.msg, a.start + k)
  <2>1. i + n \in 1..Len(p) /\ q[i] = p[i + n] /\ c + (i + n) = a.off + HdrLen + k
    BY <1>1, <1>2, <1>4
  <2>2. QED BY <2>1 DEF InPlace
<1>5. QED BY <1>3, <1>4 DEF InPlace

LEMMA InPlaceBeginning ==
    ASSUME NEW p, NEW q, NEW c \in Nat, NEW a, Len(p) \in Nat, Len(q) \in Nat,
           Len(q) <= Len(p), \A i \in 1..Len(q) : q[i] = p[i], InPlace(p, c, a)
    PROVE  InPlace(q, c, a)
<1>1. \A i \in 1..Len(q) : i \in 1..Len(p)
  OBVIOUS
<1>2. QED BY <1>1 DEF InPlace

-----------------------------------------------------------------------------
(* The sender.                                                              *)

LEMMA TransferInit == Init => TransferInv
<1> SUFFICES ASSUME Init
             PROVE  TransferInv
  OBVIOUS
<1>1. TypeOK
  BY Parameters, EmptySeq DEF Init, TypeOK
<1>2. SenderInv
  BY DEF Init, SenderInv
<1>3. ReceiverInv
  <2> DEFINE a == [off |-> 0, msg |-> 1, start |-> 0, len |-> 0]
             l == [j \in Nat |-> a]
  <2>1. Pending \in Seq(Bytes) /\ Len(Pending) = 0
    BY <1>1, PendingBytes DEF Init
  <2>2. a \in Chunk /\ l \in [Nat -> Chunk] /\ l[0] = a
    BY DEF Chunk
  <2>3. Layout(l, 0, 0)
    <3>1. Cursor(a)
      BY DEF Init, Cursor
    <3>2. Reached(a, sent, source)
      BY Parameters DEF Init, Reached
    <3>3. a.off = 0
      OBVIOUS
    <3> HIDE DEF a, l
    <3>4. \A j \in 0..0 : j = 0
      OBVIOUS
    <3>5. QED BY <2>1, <2>2, <3>1, <3>2, <3>3, <3>4 DEF Layout
  <2>4. At(l, 0, 0, 0)
    <3>1. got = <<>> /\ First(1, 0) = <<>> /\ Len(got) = 0
      BY DEF Init, First
    <3>2. QED BY <2>2, <3>1 DEF Init, At
  <2> HIDE DEF l
  <2>5. QED BY <2>2, <2>3, <2>4 DEF Init, ReceiverInv
<1>4. QED BY <1>1, <1>2, <1>3 DEF TransferInv

LEMMA BoundParameters == MaxMsgs \in Nat /\ MaxChunks \in Nat /\ BufSize \in Nat /\ MaxChunks * BufSize \in Nat
BY TransferAssumption DEF TransferAssumption

LEMMA PushSender ==
    ASSUME TypeOK, SenderInv, Push
    PROVE  /\ SenderInv' /\ UNCHANGED <<source, chunks, sent, finished>> /\ UNCHANGED recvVars
           /\ spc' \in {"idle", "end"} <=> spc \in {"idle", "end"}
           /\ spc' \in {"read", "write"} <=> spc \in {"read", "write"}
<1>1. /\ UNCHANGED <<source, chunks, sent, finished>> /\ UNCHANGED recvVars
      /\ spc \in {"write", "end"}
      /\ \/ spc' = spc /\ next' = next /\ spc' \in {"write", "end"}
         \/ spc' = spc /\ next' = <<>> /\ spc' \in {"write", "end"}
         \/ out' = next /\ next' = <<>> /\ next = <<>> /\ spc = "end" /\ spc' = "idle"
         \/ out' = next /\ next' = <<>> /\ next = <<>> /\ spc = "write" /\ spc' = "read"
  BY DEF Push
<1>2. QED BY <1>1 DEF SenderInv

\* The layout stays when the sender only goes on, or ends.
LEMMA LayoutStays ==
    ASSUME NEW l, NEW k \in Nat, NEW c \in Nat, Layout(l, k, c),
           Pending' = Pending, UNCHANGED <<sent, source>>,
           finished' = "no" => /\ finished = "no"
                               /\ spc' \in {"idle", "end"} <=> spc \in {"idle", "end"}
                               /\ spc' \in {"read", "write"} <=> spc \in {"read", "write"}
    PROVE  Layout(l, k, c)'
BY DEF Layout, Cursor

LEMMA AtStays ==
    ASSUME NEW l, NEW k, NEW c, NEW r, At(l, k, c, r), UNCHANGED recvVars
    PROVE  At(l, k, c, r)'
BY DEF At, recvVars

LEMMA QuietSender ==
    ASSUME TransferInv, TypeOK', Push \/ CloseStream \/ UNCHANGED vars
    PROVE  TransferInv'
<1> USE DEF TransferInv
<1>1. /\ SenderInv' /\ Pending' = Pending /\ UNCHANGED <<sent, source>> /\ UNCHANGED recvVars
      /\ finished' = "no" => /\ finished = "no"
                             /\ spc' \in {"idle", "end"} <=> spc \in {"idle", "end"}
                             /\ spc' \in {"read", "write"} <=> spc \in {"read", "write"}
      /\ finished # "no" => finished' # "no"
  <2>1. CASE Push
    BY <2>1, PushSender, PushKeepsPending
  <2>2. CASE CloseStream
    BY <2>2 DEF CloseStream, SenderInv, Pending
  <2>3. CASE UNCHANGED vars
    BY <2>3 DEF vars, sendVars, SenderInv, Pending
  <2>4. QED BY <2>1, <2>2, <2>3
<1>2. ReceiverInv'
  <2>1. rpc' = rpc
    BY <1>1 DEF recvVars
  <2>2. ASSUME rpc \in {"header", "data", "sink"}
        PROVE  \E l \in [Nat -> Chunk], k \in Nat, c \in Nat : \E r \in 0..k :
                   Layout(l, k, c)' /\ At(l, k, c, r)'
    <3>1. PICK l \in [Nat -> Chunk], k \in Nat, c \in Nat : \E r \in 0..k :
                   Layout(l, k, c) /\ At(l, k, c, r)
      BY <2>2 DEF ReceiverInv
    <3>2. Layout(l, k, c)'
      BY <1>1, <3>1, LayoutStays
    <3>3. \E r \in 0..k : At(l, k, c, r)'
      BY <1>1, <3>1, AtStays
    <3>4. QED BY <3>2, <3>3
  <2>3. rpc' = "stopped" => finished' # "no"
    BY <1>1, <2>1 DEF ReceiverInv
  <2>4. /\ rpc' # "stopped" => Len(delivered') <= Len(sent')
        /\ rpc' = "sink" => count' = size' /\ wt' = 0
    BY <1>1 DEF ReceiverInv, recvVars
  <2>5. QED BY <2>1, <2>2, <2>3, <2>4 DEF ReceiverInv
<1>3. QED BY <1>1, <1>2

LEMMA CutKeeps ==
    ASSUME TransferInv, TypeOK', Cut
    PROVE  TransferInv'
<1> USE DEF TransferInv
<1>1. SenderInv'
  BY DEF Cut, SenderInv
<1>2. ReceiverInv'
  <2>1. UNCHANGED recvVars /\ UNCHANGED <<sent, source>> /\ finished' = "cut" /\ rpc' = rpc
    BY DEF Cut, recvVars
  <2>2. ASSUME rpc \in {"header", "data", "sink"}
        PROVE  \E l \in [Nat -> Chunk], k \in Nat, c \in Nat : \E r \in 0..k :
                   Layout(l, k, c)' /\ At(l, k, c, r)'
    <3>1. PICK l \in [Nat -> Chunk], k \in Nat, c \in Nat : \E r \in 0..k :
                   Layout(l, k, c) /\ At(l, k, c, r)
      BY <2>2 DEF ReceiverInv
    <3>2. Layout(l, k, c)'
      <4>1. /\ Len(Pending') <= Len(Pending) /\ Len(Pending') \in Nat /\ Len(Pending) \in Nat
            /\ \A i \in 1..Len(Pending') : Pending'[i] = Pending[i]
        BY CutKeepsBeginning, PendingBytes
      <4>2. ASSUME NEW j \in 0..(k - 1)
            PROVE  InPlace(Pending', c, l[j])
        <5>1. InPlace(Pending, c, l[j])
          BY <3>1 DEF Layout
        <5>2. QED BY <4>1, <5>1, InPlaceBeginning
      <4>3. c + Len(Pending') <= l[k].off
        <5>1. c + Len(Pending) <= l[k].off /\ l[k].off \in Nat
          BY <3>1 DEF Layout, Chunk
        <5>2. QED BY <4>1, <5>1
      <4>4. QED BY <2>1, <3>1, <4>2, <4>3 DEF Layout
    <3>3. \E r \in 0..k : At(l, k, c, r)'
      BY <2>1, <3>1, AtStays
    <3>4. QED BY <3>2, <3>3
  <2>3. QED BY <2>1, <2>2 DEF ReceiverInv, recvVars
<1>3. QED BY <1>1, <1>2

LEMMA StartKeeps ==
    ASSUME TransferInv, TypeOK', StartMessage
    PROVE  TransferInv'
<1> USE DEF TransferInv
<1>1. SenderInv'
  <2>1. source' = <<>> /\ chunks' = 0 /\ Len(source') = 0 /\ source' = First(Len(sent) + 1, 0)
    BY DEF StartMessage, First
  <2>2. QED BY <2>1, BoundParameters DEF StartMessage, SenderInv
<1>2. ReceiverInv'
  <2>1. /\ UNCHANGED recvVars /\ UNCHANGED <<sent, finished>> /\ rpc' = rpc /\ Pending' = Pending
        /\ finished = "no" /\ spc = "idle" /\ spc' = "read" /\ source' = <<>> /\ Len(source') = 0
    BY DEF StartMessage, recvVars, Pending
  <2>2. ASSUME rpc \in {"header", "data", "sink"}
        PROVE  \E l \in [Nat -> Chunk], k \in Nat, c \in Nat : \E r \in 0..k :
                   Layout(l, k, c)' /\ At(l, k, c, r)'
    <3>1. PICK l \in [Nat -> Chunk], k \in Nat, c \in Nat : \E r \in 0..k :
                   Layout(l, k, c) /\ At(l, k, c, r)
      BY <2>2 DEF ReceiverInv
    <3>2. Layout(l, k, c)'
      <4>1. c + Len(Pending) <= l[k].off /\ c + Len(Pending) = l[k].off
        BY <2>1, <3>1 DEF Layout
      <4>2. l[k].msg = Len(sent) + 1 /\ l[k].start = 0 /\ Len(sent) \in Nat
        BY <2>1, <3>1 DEF Layout, Cursor, TypeOK
      <4>3. ASSUME NEW j \in 0..(k - 1)
            PROVE  /\ Written(l[j], sent, source') /\ Reached(l[j], sent, source')
                   /\ Follows(l[j], l[j + 1]) /\ l[j].off + HdrLen + l[j].len <= l[k].off
                   /\ InPlace(Pending, c, l[j])
        <5>1. /\ Written(l[j], sent, source) /\ Reached(l[j], sent, source) /\ l[j].msg <= Len(sent)
              /\ Follows(l[j], l[j + 1]) /\ l[j].off + HdrLen + l[j].len <= l[k].off
              /\ InPlace(Pending, c, l[j])
          BY <2>1, <3>1 DEF Layout
        <5>2. l[j].msg \in Nat
          BY <3>1 DEF Chunk
        <5>3. ~(l[j].msg = Len(sent) + 1)
          BY <4>2, <5>1, <5>2
        <5>4. QED BY <5>1, <5>3 DEF Written, Reached
      <4>4. Reached(l[k], sent, source')
        BY <2>1, <3>1, <4>2 DEF Layout, Reached
      <4>5. \A j \in 0..k : j \in 0..(k - 1) \/ j = k
        BY <3>1
      <4>6. Cursor(l[k])'
        BY <2>1, <4>2 DEF Cursor
      <4>7. QED BY <2>1, <4>1, <4>3, <4>4, <4>5, <4>6 DEF Layout
    <3>3. \E r \in 0..k : At(l, k, c, r)'
      BY <2>1, <3>1, AtStays
    <3>4. QED BY <3>2, <3>3
  <2>3. QED BY <2>1, <2>2 DEF ReceiverInv, recvVars
<1>3. QED BY <1>1, <1>2

\* The chunks l with one of n bytes put after the first k.
Extend(l, k, n) ==
    [j \in Nat |->
        IF j = k THEN [off |-> l[k].off, msg |-> l[k].msg, start |-> l[k].start, len |-> n]
        ELSE IF j = k + 1
             THEN [off |-> l[k].off + HdrLen + n,
                   msg |-> IF n = 0 THEN l[k].msg + 1 ELSE l[k].msg,
                   start |-> IF n = 0 THEN 0 ELSE l[k].start + n, len |-> 0]
        ELSE l[j]]

\* e is l with one more chunk, of n bytes, after the first k.
IsExtension(e, l, k, n) ==
    /\ e \in [Nat -> Chunk] /\ \A j \in 0..(k - 1) : e[j] = l[j]
    /\ e[k].off = l[k].off /\ e[k].msg = l[k].msg /\ e[k].start = l[k].start /\ e[k].len = n
    /\ Follows(e[k], e[k + 1])

LEMMA Extended ==
    ASSUME NEW l \in [Nat -> Chunk], NEW k \in Nat, NEW n \in Nat
    PROVE  IsExtension(Extend(l, k, n), l, k, n)
<1> DEFINE e == Extend(l, k, n)
           msg == IF n = 0 THEN l[k].msg + 1 ELSE l[k].msg
           start == IF n = 0 THEN 0 ELSE l[k].start + n
           this == [off |-> l[k].off, msg |-> l[k].msg, start |-> l[k].start, len |-> n]
           that == [off |-> l[k].off + HdrLen + n, msg |-> msg, start |-> start, len |-> 0]
<1>1. HdrLen \in Nat /\ k + 1 \in Nat /\ k # k + 1 /\ l[k] \in Chunk
  BY Parameters
<1>2. /\ l[k].off \in Nat /\ l[k].msg \in Nat \ {0} /\ l[k].start \in Nat
  BY <1>1 DEF Chunk
<1>3. msg \in Nat \ {0} /\ start \in Nat /\ l[k].off + HdrLen + n \in Nat
  BY <1>1, <1>2
<1>4. that.msg = msg /\ that.start = start /\ that.off = l[k].off + HdrLen + n
  OBVIOUS
<1>5. (n = 0 => msg = l[k].msg + 1 /\ start = 0) /\ (n # 0 => msg = l[k].msg /\ start = l[k].start + n)
  OBVIOUS
<1> HIDE DEF msg, start
<1>6. this \in Chunk /\ that \in Chunk
  BY <1>2, <1>3 DEF Chunk
<1>7. e = [j \in Nat |-> IF j = k THEN this ELSE IF j = k + 1 THEN that ELSE l[j]]
  BY DEF Extend, msg, start
<1>8. this.off = l[k].off /\ this.msg = l[k].msg /\ this.start = l[k].start /\ this.len = n
  OBVIOUS
<1> HIDE DEF e, this, that
<1>9. e \in [Nat -> Chunk] /\ e[k] = this /\ e[k + 1] = that
  BY <1>1, <1>6, <1>7
<1>10. \A j \in 0..(k - 1) : e[j] = l[j]
  BY <1>7
<1>11. Follows(e[k], e[k + 1])
  BY <1>4, <1>5, <1>8, <1>9 DEF Follows
<1>12. IsExtension(e, l, k, n)
  BY <1>8, <1>9, <1>10, <1>11 DEF IsExtension
<1>13. QED BY <1>12 DEF e

\* A chunk that is put at the end is in its place, and the others stay in theirs.
LEMMA ChunkInPlace ==
    ASSUME NEW p, NEW q, NEW c \in Nat, NEW a, NEW n \in Nat, Len(p) \in Nat, Len(q) \in Nat,
           a.off = c + Len(p), a.len = n, Len(q) = Len(p) + HdrLen + n,
           \A i \in 1..HdrLen : q[Len(p) + i] = HdrByte(n, i),
           \A i \in 1..n : q[Len(p) + HdrLen + i] = DataByte(a.msg, a.start + i)
    PROVE  InPlace(q, c, a)
<1>1. HdrLen \in Nat
  BY Parameters
<1>2. ASSUME NEW i \in 1..Len(q), NEW k \in 1..HdrLen, c + i = a.off + k
      PROVE  q[i] = HdrByte(a.len, k)
  <2>1. i = Len(p) + k
    BY <1>1, <1>2
  <2>2. QED BY <2>1
<1>3. ASSUME NEW i \in 1..Len(q), NEW k \in 1..a.len, c + i = a.off + HdrLen + k
      PROVE  q[i] = DataByte(a.msg, a.start + k)
  <2>1. k \in 1..n
    OBVIOUS
  <2>2. i = Len(p) + HdrLen + k
    BY <1>1, <1>3, <2>1
  <2>3. QED BY <2>1, <2>2
<1>4. QED BY <1>2, <1>3 DEF InPlace

LEMMA OthersInPlace ==
    ASSUME NEW p, NEW q, NEW c \in Nat, NEW a \in Chunk, Len(p) \in Nat, Len(q) \in Nat,
           a.off + HdrLen + a.len <= c + Len(p), \A i \in 1..Len(p) : q[i] = p[i],
           InPlace(p, c, a)
    PROVE  InPlace(q, c, a)
<1>1. HdrLen \in Nat /\ a.off \in Nat /\ a.len \in Nat
  BY Parameters DEF Chunk
<1> DEFINE d == a.off
           m == a.len
           n == Len(p)
<1>a. ASSUME NEW i \in Nat, i >= 1, c + i <= d + HdrLen + m, d \in Nat, m \in Nat, HdrLen \in Nat,
             n \in Nat, d + HdrLen + m <= c + n
      PROVE  i \in 1..n
  <2> HIDE DEF d, m, n
  <2>1. QED BY <1>a
<1>2. ASSUME NEW i \in 1..Len(q), NEW k \in 1..HdrLen, c + i = a.off + k
      PROVE  q[i] = HdrByte(a.len, k)
  <2>1. i \in Nat /\ i >= 1 /\ c + i <= a.off + HdrLen + a.len
    BY <1>1, <1>2
  <2>2. i \in 1..Len(p)
    BY <1>1, <1>a, <2>1
  <2>3. QED BY <1>2, <2>2 DEF InPlace
<1>3. ASSUME NEW i \in 1..Len(q), NEW k \in 1..a.len, c + i = a.off + HdrLen + k
      PROVE  q[i] = DataByte(a.msg, a.start + k)
  <2>1. i \in 1..Len(p)
    BY <1>1, <1>3
  <2>2. QED BY <1>3, <2>1 DEF InPlace
<1>4. QED BY <1>2, <1>3 DEF InPlace

\* What the layout is when the source has returned n bytes, or EOF.
LEMMA LayoutExtends ==
    ASSUME TypeOK, TypeOK', NEW n \in Nat, NEW l \in [Nat -> Chunk], NEW k \in Nat, NEW c \in Nat,
           Layout(l, k, c), finished = "no", spc = "read",
           net' = net, out = <<>>, next = <<>>, out' = Header(n), next' = Yield(n)
    PROVE  LET e == Extend(l, k, n) IN
             /\ e[k].msg = Len(sent) + 1 /\ e[k].start = Len(source) /\ e[k].len = n
             /\ c + Len(Pending') = e[k + 1].off
             /\ \A j \in 0..k :
                   /\ Follows(e[j], e[j + 1]) /\ e[j].off + HdrLen + e[j].len <= e[k + 1].off
                   /\ InPlace(Pending', c, e[j])
             /\ \A j \in 0..(k - 1) : Written(e[j], sent, source)
             /\ \A j \in 0..k : Reached(e[j], sent, source)
<1> DEFINE e == Extend(l, k, n)
<1>1. /\ e \in [Nat -> Chunk] /\ \A j \in 0..(k - 1) : e[j] = l[j]
      /\ e[k].off = l[k].off /\ e[k].msg = l[k].msg /\ e[k].start = l[k].start /\ e[k].len = n
      /\ Follows(e[k], e[k + 1])
  <2>1. IsExtension(e, l, k, n)
    BY Extended
  <2> HIDE DEF e
  <2>2. QED BY <2>1 DEF IsExtension
<1> HIDE DEF e
<1>2. /\ l[k].msg = Len(sent) + 1 /\ l[k].start = Len(source) /\ c + Len(Pending) = l[k].off
      /\ \A j \in 0..(k - 1) :
            /\ Follows(l[j], l[j + 1]) /\ l[j].off + HdrLen + l[j].len <= l[k].off
            /\ InPlace(Pending, c, l[j]) /\ Written(l[j], sent, source)
      /\ \A j \in 0..k : Reached(l[j], sent, source)
  BY DEF Layout, Cursor
<1>3. /\ Len(Pending') = Len(Pending) + HdrLen + n
      /\ \A i \in 1..Len(Pending) : Pending'[i] = Pending[i]
      /\ \A i \in 1..HdrLen : Pending'[Len(Pending) + i] = HdrByte(n, i)
      /\ \A i \in 1..n : Pending'[Len(Pending) + HdrLen + i] = DataByte(Len(sent) + 1, Len(source) + i)
  BY ChunkPends
<1>4. Len(Pending) \in Nat /\ Len(Pending') \in Nat /\ HdrLen \in Nat
  BY PendingBytes, Parameters
<1>5. e[k + 1].off = l[k].off + HdrLen + n
  BY <1>1 DEF Follows
<1>6. c + Len(Pending') = e[k + 1].off
  BY <1>2, <1>3, <1>4, <1>5
<1>7. InPlace(Pending', c, e[k])
  <2>1. e[k].off = c + Len(Pending) /\ e[k].len = n
    BY <1>1, <1>2
  <2>2. \A i \in 1..n : Pending'[Len(Pending) + HdrLen + i] = DataByte(e[k].msg, e[k].start + i)
    BY <1>1, <1>2, <1>3
  <2>3. Len(Pending') = Len(Pending) + HdrLen + n
        /\ \A i \in 1..HdrLen : Pending'[Len(Pending) + i] = HdrByte(n, i)
    BY <1>3
  <2> HIDE DEF e
  <2>4. QED BY <1>4, <2>1, <2>2, <2>3, ChunkInPlace
<1>8. ASSUME NEW j \in 0..(k - 1)
      PROVE  /\ Follows(e[j], e[j + 1]) /\ e[j].off + HdrLen + e[j].len <= e[k + 1].off
             /\ InPlace(Pending', c, e[j])
  <2>1. e[j] = l[j] /\ l[j] \in Chunk /\ l[j].off \in Nat /\ l[j].len \in Nat /\ l[k].off \in Nat
    <3>1. e[j] = l[j] /\ j \in Nat
      BY <1>1
    <3>2. l[j] \in Chunk /\ l[k] \in Chunk
      BY <3>1
    <3>3. QED BY <3>1, <3>2 DEF Chunk
  <2>2. l[j].off + HdrLen + l[j].len <= l[k].off
    BY <1>2
  <2>3. e[j].off + HdrLen + e[j].len <= e[k + 1].off
    <3> DEFINE from == l[j].off
               len == l[j].len
               end == l[k].off
               after == e[k + 1].off
    <3>1. /\ from \in Nat /\ len \in Nat /\ end \in Nat /\ HdrLen \in Nat
          /\ from + HdrLen + len <= end /\ after = end + HdrLen + n
      BY <1>4, <1>5, <2>1, <2>2
    <3> HIDE DEF from, len, end, after
    <3>2. from + HdrLen + len <= after
      BY <3>1
    <3>3. QED BY <2>1, <3>2 DEF from, len, after
  <2>4. InPlace(Pending', c, e[j])
    <3>1. l[j].off + HdrLen + l[j].len <= c + Len(Pending)
      BY <1>2, <2>2
    <3>2. InPlace(Pending, c, l[j])
      BY <1>2
    <3>3. QED BY <1>3, <1>4, <2>1, <3>1, <3>2, OthersInPlace
  <2>5. Follows(e[j], e[j + 1])
    <3>1. CASE j = k - 1
      <4>1. j + 1 = k /\ Follows(l[j], l[k])
        BY <1>2, <3>1
      <4>2. QED BY <1>1, <2>1, <4>1 DEF Follows
    <3>2. CASE j # k - 1
      <4>1. j + 1 \in 0..(k - 1)
        BY <3>2
      <4>2. QED BY <1>1, <1>2, <2>1, <4>1
    <3>3. QED BY <3>1, <3>2
  <2>6. QED BY <2>3, <2>4, <2>5
<1>9. e[k].off + HdrLen + e[k].len <= e[k + 1].off
  <2>1. l[k].off \in Nat
    BY DEF Chunk
  <2>2. QED BY <1>1, <1>4, <1>5, <2>1
<1>10. \A j \in 0..k : j \in 0..(k - 1) \/ j = k
  OBVIOUS
<1>11. Reached(e[k], sent, source)
  <2>1. Reached(l[k], sent, source)
    BY <1>2
  <2>2. QED BY <1>1, <2>1 DEF Reached
<1>12. \A j \in 0..(k - 1) : Written(e[j], sent, source) /\ Reached(e[j], sent, source)
  BY <1>1, <1>2
<1>13. /\ \A j \in 0..k :
             /\ Follows(e[j], e[j + 1]) /\ e[j].off + HdrLen + e[j].len <= e[k + 1].off
             /\ InPlace(Pending', c, e[j])
       /\ \A j \in 0..k : Reached(e[j], sent, source)
  BY <1>1, <1>7, <1>8, <1>9, <1>10, <1>11, <1>12
<1>14. e[k].msg = Len(sent) + 1 /\ e[k].start = Len(source) /\ e[k].len = n
  BY <1>1, <1>2
<1>15. QED BY <1>6, <1>12, <1>13, <1>14 DEF e

\* The parts of Layout that a step of the source must establish.
LEMMA LayoutFrom ==
    ASSUME NEW e, NEW k \in Nat, NEW c, c + Len(Pending') = e[k + 1].off,
           c + Len(Pending') <= e[k + 1].off, Cursor(e[k + 1])',
           \A j \in 0..k :
                /\ Follows(e[j], e[j + 1]) /\ e[j].off + HdrLen + e[j].len <= e[k + 1].off
                /\ InPlace(Pending', c, e[j]) /\ Written(e[j], sent', source')
                /\ finished' = "no" /\ spc' \in {"idle", "end"} => e[j].msg <= Len(sent'),
           \A j \in 0..(k + 1) : Reached(e[j], sent', source')
    PROVE  Layout(e, k + 1, c)'
<1> DEFINE d == k + 1
<1>1. d - 1 = k /\ d = k + 1
  OBVIOUS
<1> HIDE DEF d
<1>2. Layout(e, d, c)'
  BY <1>1 DEF Layout
<1>3. QED BY <1>2 DEF d

LEMMA AtMoves ==
    ASSUME NEW l, NEW e, NEW k \in Nat, NEW c, NEW r \in 0..k, At(l, k, c, r), UNCHANGED recvVars,
           e[r].msg = l[r].msg, e[r].start = l[r].start, e[r].off = l[r].off,
           r # k => e[r].len = l[r].len
    PROVE  At(e, k + 1, c, r)'
<1>1. r # k + 1
  OBVIOUS
<1>2. QED BY <1>1 DEF At, recvVars

LEMMA ReadChunkKeeps ==
    ASSUME TransferInv, TypeOK', NEW n \in 1..BufSize, ReadChunk(n)
    PROVE  TransferInv'
<1> USE DEF TransferInv
<1>1. /\ spc = "read" /\ spc' = "write" /\ out' = Header(n) /\ next' = Yield(n)
      /\ source' = source \o Yield(n) /\ chunks < MaxChunks /\ chunks' = chunks + 1
      /\ UNCHANGED <<sent, finished, net>> /\ UNCHANGED recvVars /\ rpc' = rpc
  BY DEF ReadChunk, recvVars
<1>2. /\ finished = "no" /\ out = <<>> /\ next = <<>> /\ Len(sent) < MaxMsgs
      /\ source = First(Len(sent) + 1, Len(source)) /\ Len(source) <= chunks * BufSize
  BY <1>1 DEF SenderInv
<1>3. /\ n \in Nat /\ n <= BufSize /\ n # 0 /\ Len(sent) \in Nat /\ Len(source) \in Nat
      /\ source \in Seq(Bytes) /\ chunks \in Nat
  <2>1. n \in Nat /\ n <= BufSize /\ n # 0
    BY Parameters
  <2>2. chunks \in Nat
    BY DEF TypeOK
  <2>3. QED BY <2>1, <2>2, SequenceTypes
<1>4. /\ source' = First(Len(sent) + 1, Len(source) + n) /\ Len(source') = Len(source) + n
  <2>1. Yield(n) \in Seq(Bytes)
    BY <1>3, YieldType
  <2>2. Len(Yield(n)) = n /\ \A i \in 1..n : Yield(n)[i] = DataByte(Len(sent) + 1, Len(source) + i)
    BY <1>3 DEF Yield
  <2> DEFINE t == Yield(n)
  <2> HIDE DEF t
  <2>3. t \in Seq(Bytes) /\ Len(t) = n /\ \A i \in 1..Len(t) : t[i] = DataByte(Len(sent) + 1, Len(source) + i)
    BY <2>1, <2>2 DEF t
  <2>4. Len(sent) + 1 \in Nat
    BY <1>3
  <2>5. source \o t = First(Len(sent) + 1, Len(source) + Len(t)) /\ Len(source \o t) = Len(source) + Len(t)
    BY <1>2, <1>3, <2>3, <2>4, FirstGrows
  <2>6. QED BY <1>1, <2>3, <2>5 DEF t
<1>5. Len(source') <= chunks' * BufSize /\ chunks' * BufSize <= MaxChunks * BufSize
  <2>1. (chunks + 1) * BufSize = chunks * BufSize + BufSize
    BY <1>3, BoundParameters
  <2>2. chunks + 1 <= MaxChunks
    BY <1>1, <1>3, BoundParameters
  <2>3. (chunks + 1) * BufSize <= MaxChunks * BufSize
    BY <1>3, <2>2, BoundParameters
  <2>4. chunks * BufSize \in Nat
    BY <1>3, BoundParameters
  <2>5. QED BY <1>1, <1>2, <1>3, <1>4, <2>1, <2>3, <2>4, BoundParameters
<1>6. SenderInv'
  <2>1. source' = First(Len(sent') + 1, Len(source'))
    BY <1>1, <1>4
  <2>2. QED BY <1>1, <1>2, <1>5, <2>1 DEF SenderInv
<1>7. ReceiverInv'
  <2>1. ASSUME rpc \in {"header", "data", "sink"}
        PROVE  \E l \in [Nat -> Chunk], k \in Nat, c \in Nat : \E r \in 0..k :
                   Layout(l, k, c)' /\ At(l, k, c, r)'
    <3>1. PICK l \in [Nat -> Chunk], k \in Nat, c \in Nat : \E r \in 0..k :
                   Layout(l, k, c) /\ At(l, k, c, r)
      BY <2>1 DEF ReceiverInv
    <3> DEFINE e == Extend(l, k, n)
    <3>2. /\ e[k].msg = Len(sent) + 1 /\ e[k].start = Len(source) /\ e[k].len = n
          /\ c + Len(Pending') = e[k + 1].off
          /\ \A j \in 0..k :
                /\ Follows(e[j], e[j + 1]) /\ e[j].off + HdrLen + e[j].len <= e[k + 1].off
                /\ InPlace(Pending', c, e[j])
          /\ \A j \in 0..(k - 1) : Written(e[j], sent, source)
          /\ \A j \in 0..k : Reached(e[j], sent, source)
      BY <1>1, <1>2, <1>3, <3>1, LayoutExtends
    <3>3. IsExtension(e, l, k, n)
      BY <1>3, <3>1, Extended
    <3> HIDE DEF e
    <3>4. e \in [Nat -> Chunk] /\ e[k + 1] \in Chunk /\ e[k + 1].off \in Nat
      <4>1. e \in [Nat -> Chunk] /\ k + 1 \in Nat
        BY <3>3 DEF IsExtension
      <4>2. e[k + 1] \in Chunk
        BY <4>1
      <4>3. QED BY <4>1, <4>2 DEF Chunk
    <3>5. e[k + 1].msg = Len(sent) + 1 /\ e[k + 1].start = Len(source')
      BY <1>3, <1>4, <3>2, <3>3 DEF IsExtension, Follows
    <3>6. ASSUME NEW j \in 0..k
          PROVE  Written(e[j], sent, source') /\ Reached(e[j], sent, source')
      <4>0. e[j] \in Chunk
        BY <3>4
      <4>1. e[j].start \in Nat /\ e[j].len \in Nat /\ e[j].msg \in Nat
        BY <4>0 DEF Chunk
      <4>2. Reached(e[j], sent, source')
        <5>1. Reached(e[j], sent, source)
          BY <3>2
        <5>2. Len(source') \in Nat /\ Len(source) <= Len(source')
          BY <1>3, <1>4
        <5>3. QED BY <1>3, <4>1, <5>1, <5>2 DEF Reached
      <4>3. CASE j = k
        <5>1. e[j].len = n /\ e[j].len <= BufSize /\ e[j].len # 0
          BY <1>3, <3>2, <4>3
        <5>2. ~(e[j].msg <= Len(sent))
          BY <1>3, <3>2, <4>3
        <5>3. e[j].start + e[j].len <= Len(source')
          BY <1>3, <1>4, <3>2, <4>3
        <5>4. QED BY <4>2, <5>1, <5>2, <5>3 DEF Written
      <4>4. CASE j # k
        <5>1. Written(e[j], sent, source)
          BY <3>2, <4>4
        <5>2. QED BY <1>3, <1>4, <4>1, <4>2, <5>1 DEF Written
      <4>5. QED BY <4>2, <4>3, <4>4
    <3>7. Reached(e[k + 1], sent, source')
      <4>1. e[k + 1].msg <= MaxMsgs /\ e[k + 1].msg <= Len(sent) + 1 /\ ~(e[k + 1].msg <= Len(sent))
        BY <1>2, <1>3, <3>5, BoundParameters
      <4>2. chunks' * BufSize \in Nat
        BY <1>1, <1>3, BoundParameters
      <4>3. e[k + 1].start <= MaxChunks * BufSize
        BY <1>3, <1>4, <1>5, <3>5, <4>2, BoundParameters
      <4>4. QED BY <1>3, <1>4, <3>5, <4>1, <4>3 DEF Reached
    <3>8. Layout(e, k + 1, c)'
      <4>1. Cursor(e[k + 1])'
        BY <1>1, <3>5 DEF Cursor
      <4>2. \A j \in 0..(k + 1) : j \in 0..k \/ j = k + 1
        BY <3>1
      <4>3. \A j \in 0..(k + 1) : Reached(e[j], sent', source')
        BY <1>1, <3>6, <3>7, <4>2
      <4>4. \A j \in 0..k :
               /\ Follows(e[j], e[j + 1]) /\ e[j].off + HdrLen + e[j].len <= e[k + 1].off
               /\ InPlace(Pending', c, e[j]) /\ Written(e[j], sent', source')
        BY <1>1, <3>2, <3>6
      <4>5. spc' \notin {"idle", "end"}
        BY <1>1
      <4>6. c + Len(Pending') <= e[k + 1].off
        BY <3>2, <3>4
      <4>7. QED BY <3>2, <4>1, <4>3, <4>4, <4>5, <4>6, LayoutFrom
    <3>9. \E r \in 0..(k + 1) : At(e, k + 1, c, r)'
      <4>1. PICK r \in 0..k : At(l, k, c, r)
        BY <3>1
      <4>2. r \in 0..(k + 1) /\ r \in Nat
        BY <3>1
      <4>3. /\ e[r].msg = l[r].msg /\ e[r].start = l[r].start /\ e[r].off = l[r].off
            /\ r # k => e[r].len = l[r].len
        BY <3>3, <4>2 DEF IsExtension
      <4>4. At(e, k + 1, c, r)'
        BY <1>1, <4>1, <4>3, AtMoves
      <4>5. QED BY <4>2, <4>4
    <3>10. k + 1 \in Nat
      OBVIOUS
    <3>11. QED BY <3>4, <3>8, <3>9, <3>10
  <2>2. QED BY <1>1, <2>1 DEF ReceiverInv, recvVars
<1>8. QED BY <1>6, <1>7

LEMMA EndsKeeps ==
    ASSUME TransferInv, TypeOK', ReadError(0, "EOF")
    PROVE  TransferInv' /\ source' = source /\ sent' = Append(sent, source)
<1> USE DEF TransferInv
<1>0. Yield(0) = <<>>
  BY DEF Yield
<1>1. /\ spc = "read" /\ spc' = "end" /\ out' = Header(0) /\ next' = next
      /\ source' = source \o Yield(0) /\ sent' = Append(sent, source')
      /\ UNCHANGED <<chunks, finished, net>> /\ UNCHANGED recvVars /\ rpc' = rpc
  BY DEF ReadError, recvVars
<1>2. /\ finished = "no" /\ out = <<>> /\ next = <<>> /\ Len(sent) < MaxMsgs
      /\ source = First(Len(sent) + 1, Len(source)) /\ Len(source) <= chunks * BufSize
  BY <1>1 DEF SenderInv
<1>3. /\ Len(sent) \in Nat /\ Len(source) \in Nat /\ source \in Seq(Bytes) /\ chunks \in Nat
      /\ chunks <= MaxChunks /\ sent \in Seq(Seq(Bytes))
  <2>1. chunks \in Nat /\ chunks <= MaxChunks
    BY BoundParameters DEF TypeOK
  <2>2. QED BY <2>1, SequenceTypes
<1>4. source' = source
  BY <1>0, <1>1, <1>3, ConcatEmptySeq
<1>5. /\ sent' = Append(sent, source) /\ Len(sent') = Len(sent) + 1
      /\ \A m \in 1..Len(sent) : sent'[m] = sent[m]
      /\ sent'[Len(sent) + 1] = source
  BY <1>1, <1>3, <1>4, AppendProperties
<1>6. Len(source) <= MaxChunks * BufSize
  <2>1. chunks * BufSize <= MaxChunks * BufSize /\ chunks * BufSize \in Nat
    BY <1>3, BoundParameters
  <2> DEFINE have == chunks * BufSize
             most == MaxChunks * BufSize
  <2>2. have \in Nat /\ have <= most /\ most \in Nat /\ Len(source) <= have
    BY <1>2, <2>1, BoundParameters
  <2> HIDE DEF have, most
  <2>3. Len(source) <= most
    BY <1>3, <2>2
  <2>4. QED BY <2>3 DEF most
<1>7. SenderInv'
  <2>1. ASSUME NEW m \in 1..Len(sent')
        PROVE  sent'[m] = First(m, Len(sent'[m])) /\ Len(sent'[m]) <= MaxChunks * BufSize
    <3>1. CASE m = Len(sent) + 1
      BY <1>2, <1>5, <1>6, <3>1
    <3>2. CASE m # Len(sent) + 1
      <4>1. m \in 1..Len(sent)
        BY <1>3, <1>5, <3>2
      <4>2. QED BY <1>5, <4>1 DEF SenderInv
    <3>3. QED BY <3>1, <3>2
  <2>2. QED BY <1>1, <1>2, <2>1 DEF SenderInv
<1>8. ReceiverInv'
  <2>1. ASSUME rpc \in {"header", "data", "sink"}
        PROVE  \E l \in [Nat -> Chunk], k \in Nat, c \in Nat : \E r \in 0..k :
                   Layout(l, k, c)' /\ At(l, k, c, r)'
    <3>1. PICK l \in [Nat -> Chunk], k \in Nat, c \in Nat : \E r \in 0..k :
                   Layout(l, k, c) /\ At(l, k, c, r)
      BY <2>1 DEF ReceiverInv
    <3> DEFINE e == Extend(l, k, 0)
    <3>2. /\ e[k].msg = Len(sent) + 1 /\ e[k].start = Len(source) /\ e[k].len = 0
          /\ c + Len(Pending') = e[k + 1].off
          /\ \A j \in 0..k :
                /\ Follows(e[j], e[j + 1]) /\ e[j].off + HdrLen + e[j].len <= e[k + 1].off
                /\ InPlace(Pending', c, e[j])
          /\ \A j \in 0..(k - 1) : Written(e[j], sent, source)
          /\ \A j \in 0..k : Reached(e[j], sent, source)
      <4>1. next' = Yield(0) /\ net' = net /\ 0 \in Nat
        BY <1>0, <1>1, <1>2
      <4>2. QED BY <1>1, <1>2, <3>1, <4>1, LayoutExtends
    <3>3. IsExtension(e, l, k, 0)
      BY <3>1, Extended
    <3> HIDE DEF e
    <3>4. e \in [Nat -> Chunk] /\ e[k + 1] \in Chunk /\ e[k + 1].off \in Nat
      <4>1. e \in [Nat -> Chunk] /\ k + 1 \in Nat
        BY <3>3 DEF IsExtension
      <4>2. e[k + 1] \in Chunk
        BY <4>1
      <4>3. QED BY <4>1, <4>2 DEF Chunk
    <3>5. e[k + 1].msg = Len(sent') + 1 /\ e[k + 1].start = 0
      BY <1>3, <1>5, <3>2, <3>3 DEF IsExtension, Follows
    <3>6. ASSUME NEW j \in 0..k
          PROVE  Written(e[j], sent', source) /\ Reached(e[j], sent', source) /\ e[j].msg <= Len(sent')
      <4>0. e[j] \in Chunk
        BY <3>4
      <4>1. e[j].start \in Nat /\ e[j].len \in Nat /\ e[j].msg \in Nat /\ e[j].msg # 0
        BY <4>0 DEF Chunk
      <4>2. Reached(e[j], sent, source)
        BY <3>2
      <4>3. e[j].msg <= Len(sent')
        BY <1>3, <1>5, <4>1, <4>2 DEF Reached
      <4>4. CASE e[j].msg = Len(sent) + 1
        <5>1. sent'[e[j].msg] = source /\ ~(e[j].msg <= Len(sent)) /\ ~(e[j].msg = Len(sent') + 1)
          BY <1>3, <1>5, <4>4
        <5>2. Reached(e[j], sent', source)
          BY <1>3, <1>5, <4>1, <4>2, <4>4, <5>1 DEF Reached
        <5>3. e[j].len <= BufSize /\ e[j].start + e[j].len <= Len(source) /\ (e[j].len = 0 => e[j].start = Len(source))
          <6>1. CASE j = k
            BY <1>3, <3>2, <6>1, BoundParameters
          <6>2. CASE j # k
            <7>1. Written(e[j], sent, source)
              BY <3>2, <6>2
            <7>2. QED BY <4>4, <7>1 DEF Written
          <6>3. QED BY <6>1, <6>2
        <5>4. QED BY <4>3, <5>1, <5>2, <5>3 DEF Written
      <4>5. CASE e[j].msg # Len(sent) + 1
        <5>1. /\ e[j].msg \in 1..Len(sent) /\ sent'[e[j].msg] = sent[e[j].msg]
              /\ ~(e[j].msg = Len(sent') + 1) /\ e[j].msg <= Len(sent)
          BY <1>3, <1>5, <4>1, <4>2, <4>5 DEF Reached
        <5>2. j # k
          BY <3>2, <4>5
        <5>3. Written(e[j], sent, source)
          BY <3>2, <5>2
        <5>4. Written(e[j], sent', source)
          BY <5>1, <5>3 DEF Written
        <5>5. Reached(e[j], sent', source)
          BY <4>2, <4>3, <5>1, <1>5, <1>3, <4>1 DEF Reached
        <5>6. QED BY <4>3, <5>4, <5>5
      <4>6. QED BY <4>4, <4>5
    <3>7. Reached(e[k + 1], sent', source)
      <4>1. e[k + 1].msg <= Len(sent') + 1 /\ ~(e[k + 1].msg <= Len(sent'))
        BY <1>3, <1>5, <3>5
      <4>2. QED BY <1>3, <3>5, <4>1, BoundParameters DEF Reached
    <3>8. Layout(e, k + 1, c)'
      <4>1. Cursor(e[k + 1])'
        BY <1>1, <3>5 DEF Cursor
      <4>2. \A j \in 0..(k + 1) : j \in 0..k \/ j = k + 1
        BY <3>1
      <4>3. \A j \in 0..(k + 1) : Reached(e[j], sent', source')
        BY <1>4, <3>6, <3>7, <4>2
      <4>4. \A j \in 0..k :
               /\ Follows(e[j], e[j + 1]) /\ e[j].off + HdrLen + e[j].len <= e[k + 1].off
               /\ InPlace(Pending', c, e[j]) /\ Written(e[j], sent', source')
               /\ e[j].msg <= Len(sent')
        BY <1>4, <3>2, <3>6
      <4>5. c + Len(Pending') <= e[k + 1].off
        BY <3>2, <3>4
      <4>6. QED BY <3>2, <4>1, <4>3, <4>4, <4>5, LayoutFrom
    <3>9. \E r \in 0..(k + 1) : At(e, k + 1, c, r)'
      <4>1. PICK r \in 0..k : At(l, k, c, r)
        BY <3>1
      <4>2. r \in 0..(k + 1) /\ r \in Nat
        BY <3>1
      <4>3. /\ e[r].msg = l[r].msg /\ e[r].start = l[r].start /\ e[r].off = l[r].off
            /\ r # k => e[r].len = l[r].len
        BY <3>3, <4>2 DEF IsExtension
      <4>4. At(e, k + 1, c, r)'
        BY <1>1, <4>1, <4>3, AtMoves
      <4>5. QED BY <4>2, <4>4
    <3>10. k + 1 \in Nat
      OBVIOUS
    <3>11. QED BY <3>4, <3>8, <3>9, <3>10
  <2>2. rpc' # "stopped" => Len(delivered') <= Len(sent')
    BY <1>1, <1>3, <1>5 DEF ReceiverInv, recvVars, TypeOK
  <2>3. rpc' = "sink" => count' = size' /\ wt' = 0
    BY <1>1 DEF ReceiverInv, recvVars
  <2>4. QED BY <1>1, <2>1, <2>2, <2>3 DEF ReceiverInv
<1>9. QED BY <1>4, <1>5, <1>7, <1>8

-----------------------------------------------------------------------------
(* The receiver's steps.                                                    *)

LEMMA LayoutRead ==
    ASSUME TypeOK, TypeOK', NEW l \in [Nat -> Chunk], NEW k \in Nat, NEW c \in Nat, Layout(l, k, c),
           NEW n \in Nat, n <= Len(net), net' = Leave(n), UNCHANGED sendVars
    PROVE  Layout(l, k, c + n)'
<1>1. Without(Pending, n, Pending') /\ Len(Pending) \in Nat /\ Len(Pending') \in Nat
  <2>1. UNCHANGED <<out, next>>
    BY DEF sendVars
  <2>2. Pending \in Seq(Bytes)
    BY PendingBytes
  <2>3. net' \in Seq(Bytes) /\ out' \in Seq(Bytes) /\ next' \in Seq(Bytes)
    BY DEF TypeOK
  <2>4. Pending' \in Seq(Bytes)
    BY <2>3, ConcatProperties DEF Pending
  <2>5. QED BY <2>1, <2>2, <2>4, ReadTakes
<1>2. c + n + Len(Pending') = c + Len(Pending)
  BY <1>1 DEF Without
<1>3. /\ UNCHANGED <<sent, source, finished, spc>>
      /\ Cursor(l[k]) <=> Cursor(l[k])'
  BY DEF sendVars, Cursor
<1>4. ASSUME NEW j \in 0..(k - 1)
      PROVE  InPlace(Pending', c + n, l[j])
  <2>1. InPlace(Pending, c, l[j])
    BY DEF Layout
  <2> DEFINE p == Pending
             q == Pending'
  <2>2. InPlace(p, c, l[j]) /\ Without(p, n, q) /\ Len(p) \in Nat /\ Len(q) \in Nat
    BY <1>1, <2>1
  <2> HIDE DEF p, q
  <2>3. InPlace(q, c + n, l[j])
    BY <2>2, InPlaceRead
  <2>4. QED BY <2>3 DEF q
<1>5. QED BY <1>2, <1>3, <1>4 DEF Layout

\* A receiver that is at a header has a header before it.
LEMMA HeaderIsNext ==
    ASSUME TypeOK, NEW l \in [Nat -> Chunk], NEW k \in Nat, NEW c \in Nat, Layout(l, k, c),
           NEW r \in 0..k, At(l, k, c, r), rpc = "header", Len(net) > 0
    PROVE  /\ r \in 0..(k - 1) /\ c = l[r].off /\ net[1].chunk = l[r].len
           /\ \A i \in 1..Len(net) : i <= HdrLen => net[i] = HdrByte(l[r].len, i)
<1>1. /\ c = l[r].off /\ Len(net) \in Nat /\ Len(out) \in Nat /\ Len(next) \in Nat
      /\ HdrLen \in Nat /\ HdrLen >= 1
  BY Parameters DEF At, TypeOK
<1>2. /\ Len(Pending) = Len(net) + Len(out) + Len(next)
      /\ \A i \in 1..Len(net) : i \in 1..Len(Pending) /\ Pending[i] = net[i]
  BY PendingBytes
<1>3. r # k
  BY <1>1, <1>2 DEF Layout
<1>4. r \in 0..(k - 1)
  BY <1>3
<1>5. InPlace(Pending, c, l[r])
  BY <1>4 DEF Layout
<1>6. ASSUME NEW i \in 1..Len(net), i <= HdrLen
      PROVE  net[i] = HdrByte(l[r].len, i)
  <2>1. i \in 1..HdrLen /\ c + i = l[r].off + i /\ i \in 1..Len(Pending)
    BY <1>1, <1>2, <1>6
  <2>2. Pending[i] = HdrByte(l[r].len, i)
    BY <1>5, <2>1 DEF InPlace
  <2>3. QED BY <1>2, <2>2
<1>7. net[1].chunk = l[r].len
  <2>1. 1 \in 1..Len(net)
    BY <1>1
  <2>2. net[1] = HdrByte(l[r].len, 1)
    BY <1>1, <1>6, <2>1
  <2>3. QED BY <2>2 DEF HdrByte
<1>8. QED BY <1>1, <1>4, <1>6, <1>7

LEMMA TakenBytes ==
    ASSUME TypeOK, NEW n \in Nat, n <= Len(net)
    PROVE  \A i \in 1..n : Take(n)[i] = net[i]
<1>1. net \in Seq(Bytes) /\ Len(net) \in Nat
  BY DEF TypeOK
<1>2. \A i \in 1..n : net[i] \in Bytes
  BY <1>1
<1>3. \A i \in 1..(n - 1 + 1) : Take(n)[i] = net[1 + i - 1]
  BY <1>1, <1>2, SubSeqProperties DEF Take
<1>4. QED BY <1>1, <1>3

\* What follows the chunk at which the receiver is.
LEMMA NextPlace ==
    ASSUME NEW l \in [Nat -> Chunk], NEW k \in Nat, NEW c \in Nat, Layout(l, k, c),
           NEW r \in 0..(k - 1)
    PROVE  /\ r \in Nat /\ r + 1 \in 0..k /\ r + 1 \in Nat
           /\ l[r] \in Chunk /\ l[r].off \in Nat /\ l[r].msg \in Nat /\ l[r].msg # 0
           /\ l[r].start \in Nat /\ l[r].len \in Nat
           /\ Follows(l[r], l[r + 1]) /\ Written(l[r], sent, source) /\ Reached(l[r], sent, source)
<1>1. r \in Nat /\ r + 1 \in 0..k /\ r + 1 \in Nat /\ r \in 0..k
  OBVIOUS
<1>2. l[r] \in Chunk
  BY <1>1
<1>3. QED BY <1>1, <1>2 DEF Chunk, Layout

\* An empty chunk ends the message that the receiver has, as the source ended it.
LEMMA EndsWhole ==
    ASSUME TypeOK, SenderInv, NEW l \in [Nat -> Chunk], NEW k \in Nat, NEW c \in Nat,
           Layout(l, k, c), NEW r \in 0..(k - 1), At(l, k, c, r), l[r].len = 0
    PROVE  /\ Len(delivered) < Len(sent)
           /\ Len(delivered) + 1 \notin broken => got = sent[Len(delivered) + 1]
<1>1. l[r].msg = Len(delivered) + 1 /\ Len(delivered) \in Nat /\ Len(sent) \in Nat
  BY DEF At, TypeOK
<1>2. l[r].msg <= Len(sent) /\ l[r].start = Len(sent[l[r].msg])
  <2>1. Written(l[r], sent, source) /\ l[r].msg <= Len(sent) + 1
    BY NextPlace DEF Reached
  <2>2. l[r].msg # Len(sent) + 1
    BY <2>1 DEF Written
  <2>3. l[r].msg <= Len(sent)
    BY <1>1, <2>1, <2>2
  <2>4. QED BY <1>1, <2>1, <2>3 DEF Written
<1>3. l[r].msg \in 1..Len(sent)
  BY <1>1, <1>2
<1>4. sent[l[r].msg] = First(l[r].msg, Len(sent[l[r].msg]))
  BY <1>3 DEF SenderInv
<1>5. ASSUME Len(delivered) + 1 \notin broken
      PROVE  got = sent[Len(delivered) + 1]
  <2>1. l[r].start = Len(got) /\ got = First(l[r].msg, Len(got))
    BY <1>1, <1>5 DEF At
  <2>2. QED BY <1>1, <1>2, <1>4, <2>1
<1>6. QED BY <1>1, <1>2, <1>5

LEMMA ReadHeaderKeeps ==
    ASSUME TransferInv, TypeOK', ReadHeader
    PROVE  /\ TransferInv' /\ UNCHANGED broken
           /\ \/ UNCHANGED delivered
              \/ /\ Len(delivered) < Len(sent) /\ delivered' = Append(delivered, got)
                 /\ Len(delivered) + 1 \notin broken => got = sent[Len(delivered) + 1]
<1> USE DEF TransferInv
<1> DEFINE taken == Lesser(HdrLen, Len(net))
<1>1. PICK n \in Nat : n = taken
  <2>1. Len(net) \in Nat /\ HdrLen \in Nat
    BY Parameters DEF TypeOK
  <2>2. QED BY <2>1 DEF Lesser
<1>2. /\ rpc = "header" /\ n > 0 /\ net' = Leave(n) /\ UNCHANGED sendVars
      /\ Take(n) = Header(0) => rpc' = "header" /\ EndMessage
      /\ Take(n) # Header(0) =>
            /\ rpc' = IF Take(n) # Header(net[1].chunk) THEN "garbled"
                      ELSE IF Receiver = "WriteTo" /\ net[1].chunk > BufSize THEN "panicked"
                      ELSE "data"
            /\ size' = net[1].chunk /\ count' = 0
            /\ UNCHANGED <<got, delivered>>
      /\ UNCHANGED broken
  BY <1>1 DEF ReadHeader, EndMessage
<1>3. /\ n \in Nat /\ n <= Len(net) /\ Len(net) > 0 /\ Len(net) \in Nat
      /\ HdrLen \in Nat /\ HdrLen >= 1 /\ BufSize \in Nat
  <2>1. Len(net) \in Nat /\ HdrLen \in Nat \ {0} /\ BufSize \in Nat
    BY Parameters DEF TypeOK
  <2>2. QED BY <1>1, <1>2, <2>1 DEF Lesser
<1> HIDE DEF taken
<1>4. SenderInv'
  BY <1>2 DEF SenderInv, sendVars
<1>5. PICK l \in [Nat -> Chunk], k \in Nat, c \in Nat : \E r \in 0..k :
          Layout(l, k, c) /\ At(l, k, c, r)
  BY <1>2 DEF ReceiverInv
<1>6. PICK r \in 0..k : At(l, k, c, r)
  BY <1>5
<1>7. /\ r \in 0..(k - 1) /\ c = l[r].off /\ net[1].chunk = l[r].len
  BY <1>2, <1>3, <1>5, <1>6, HeaderIsNext
<1>8. /\ r + 1 \in 0..k /\ Follows(l[r], l[r + 1]) /\ Written(l[r], sent, source)
      /\ l[r].off \in Nat /\ l[r].msg \in Nat /\ l[r].start \in Nat /\ l[r].len \in Nat
  BY <1>5, <1>7, NextPlace
<1>9. ASSUME NEW m \in Nat, Take(n) = Header(m)
      PROVE  n = HdrLen /\ m = l[r].len
  <2>1. Len(Take(n)) = n /\ Len(Header(m)) = HdrLen /\ Header(m)[1].chunk = m
    BY <1>3, NetParts, HeaderType
  <2>2. n = HdrLen /\ 1 \in 1..n
    BY <1>3, <1>9, <2>1
  <2>3. Take(n)[1] = net[1]
    BY <1>3, <2>2, TakenBytes
  <2>4. QED BY <1>7, <1>9, <2>1, <2>2, <2>3
<1>10. Layout(l, k, c + n)' /\ c + n \in Nat
  BY <1>2, <1>3, <1>5, LayoutRead
<1>11. CASE Take(n) = Header(0)
  <2>1. n = HdrLen /\ l[r].len = 0
    BY <1>9, <1>11
  <2>2. rpc' = "header" /\ delivered' = Append(delivered, got) /\ got' = <<>> /\ sent' = sent
    BY <1>2, <1>11 DEF EndMessage, sendVars
  <2>3. /\ Len(delivered) < Len(sent) /\ Len(delivered) \in Nat /\ Len(sent) \in Nat
        /\ Len(delivered) + 1 \notin broken => got = sent[Len(delivered) + 1]
    <3>1. Len(delivered) \in Nat /\ Len(sent) \in Nat
      BY SequenceTypes
    <3>2. QED BY <1>5, <1>6, <1>7, <2>1, <3>1, EndsWhole
  <2>4. Len(delivered') = Len(delivered) + 1 /\ Len(got') = 0
    BY <2>2, AppendProperties DEF TypeOK
  <2>5. l[r + 1].msg = l[r].msg + 1 /\ l[r + 1].start = 0 /\ l[r + 1].off = c + n
    BY <1>3, <1>7, <1>8, <2>1 DEF Follows
  <2>6. l[r].msg = Len(delivered) + 1
    BY <1>6 DEF At
  <2>7. got' = First(l[r + 1].msg, Len(got'))
    BY <2>2, <2>4 DEF First
  <2>8. At(l, k, c + n, r + 1)'
    BY <2>2, <2>4, <2>5, <2>6, <2>7 DEF At
  <2>9. Len(delivered') <= Len(sent')
    BY <2>2, <2>3, <2>4
  <2>10. ReceiverInv'
    BY <1>5, <1>8, <1>10, <2>2, <2>8, <2>9 DEF ReceiverInv
  <2>11. QED BY <1>2, <1>4, <2>2, <2>3, <2>10
<1>12. CASE Take(n) # Header(0)
  <2>0. Len(delivered') <= Len(sent')
    BY <1>2, <1>12 DEF ReceiverInv, sendVars
  <2>1. ~(net[1].chunk > BufSize)
    BY <1>3, <1>7, <1>8 DEF Written
  <2>2. CASE rpc' = "data"
    <3>1. Take(n) = Header(net[1].chunk) /\ size' = l[r].len /\ count' = 0 /\ UNCHANGED <<got, delivered>>
      BY <1>2, <1>7, <1>12, <2>2
    <3>2. n = HdrLen
      BY <1>7, <1>8, <1>9, <3>1
    <3>3. /\ l[r].msg = Len(delivered) + 1 /\ (Len(got) # 0 => l[r].start # 0)
          /\ l[r].msg \notin broken' => l[r].start = Len(got) /\ got = First(l[r].msg, Len(got))
      BY <1>2, <1>6 DEF At
    <3>4. r # k /\ c + n = l[r].off + HdrLen + count'
      BY <1>3, <1>7, <3>1, <3>2
    <3>5. At(l, k, c + n, r)'
      BY <2>2, <3>1, <3>3, <3>4 DEF At
    <3>6. QED BY <1>2, <1>4, <1>5, <1>6, <1>10, <2>0, <2>2, <3>1, <3>5 DEF ReceiverInv
  <2>3. CASE rpc' = "garbled"
    BY <1>2, <1>4, <1>12, <2>0, <2>3 DEF ReceiverInv
  <2>4. QED BY <1>2, <1>12, <2>1, <2>2, <2>3
<1>13. QED BY <1>11, <1>12

LEMMA Sums ==
    \A a, b, c, d \in Nat : a + b + c + d = a + b + (c + d)
OBVIOUS

\* WriteTo reads a chunk's bytes in their order, and never more than are missing.
LEMMA ReadDataKeeps ==
    ASSUME Fit, TransferInv, TypeOK', ReadData
    PROVE  TransferInv' /\ UNCHANGED <<delivered, broken>> /\ rpc' \in {"data", "sink"}
<1> USE DEF TransferInv
<1> DEFINE taken == Lesser(size - count, Len(net))
<1>1. /\ rpc = "data" /\ Len(net) \in Nat /\ size \in Nat /\ count \in Nat /\ count < size
      /\ Len(buf) = size /\ HdrLen \in Nat /\ got \in Seq(Bytes) /\ Receiver = "WriteTo"
  BY Parameters DEF TypeOK, ReadData, Fit
<1>2. PICK n \in Nat : n = taken
  BY <1>1 DEF Lesser
<1>3. /\ n > 0 /\ net' = Leave(n) /\ count' = count + n /\ buf' = Put(count, Take(n))
      /\ \/ count' < size /\ UNCHANGED rpc
         \/ count' = size /\ rpc' = "sink" /\ wt' = 0
         \/ count' > size /\ rpc' = "garbled"
      /\ UNCHANGED sendVars /\ UNCHANGED <<size, got, delivered, broken>>
  BY <1>1, <1>2 DEF ReadData, ChunkRead
<1>4. n <= Len(net) /\ count + n <= size
  BY <1>1, <1>2 DEF Lesser
<1> HIDE DEF taken
<1>5. SenderInv'
  BY <1>3 DEF SenderInv, sendVars
<1>6. PICK l \in [Nat -> Chunk], k \in Nat, c \in Nat : \E r \in 0..k :
          Layout(l, k, c) /\ At(l, k, c, r)
  BY <1>1 DEF ReceiverInv
<1>7. PICK r \in 0..k : At(l, k, c, r)
  BY <1>6
<1>8. /\ r \in 0..(k - 1) /\ size = l[r].len /\ c = l[r].off + HdrLen + count
      /\ \A i \in 1..count : buf[i] = DataByte(l[r].msg, l[r].start + i)
  BY <1>1, <1>7 DEF At
<1>9. /\ r + 1 \in 0..k /\ Follows(l[r], l[r + 1])
      /\ l[r].off \in Nat /\ l[r].msg \in Nat /\ l[r].start \in Nat /\ l[r].len \in Nat
  BY <1>6, <1>8, NextPlace
<1>10. Layout(l, k, c + n)' /\ c + n \in Nat
  BY <1>3, <1>4, <1>6, LayoutRead
<1>11. ASSUME NEW i \in 1..n
       PROVE  net[i] = DataByte(l[r].msg, l[r].start + (count + i))
  <2>0. size = l[r].len /\ c = l[r].off + HdrLen + count /\ l[r].off \in Nat
    BY <1>8, <1>9
  <2>1. i \in 1..Len(net) /\ count + i \in 1..l[r].len /\ c + i = l[r].off + HdrLen + (count + i)
    <3>1. i \in 1..Len(net)
      BY <1>1, <1>4
    <3>2. count + i \in 1..size
      BY <1>1, <1>4
    <3>3. c + i = l[r].off + HdrLen + (count + i)
      BY <1>1, <2>0, Sums
    <3>4. QED BY <2>0, <3>1, <3>2, <3>3
  <2>2. i \in 1..Len(Pending) /\ Pending[i] = net[i]
    BY <2>1, PendingBytes
  <2>3. InPlace(Pending, c, l[r])
    BY <1>6, <1>8 DEF Layout
  <2>4. QED BY <2>1, <2>2, <2>3 DEF InPlace
<1>12. Take(n) \in Seq(Bytes) /\ Len(Take(n)) = n
  BY <1>4, NetParts
<1>13. buf' \in Seq(Bytes) /\ Len(buf') = size
  BY <1>1, <1>3, <1>12, PutType
<1>14. ASSUME NEW i \in 1..(count + n)
       PROVE  buf'[i] = DataByte(l[r].msg, l[r].start + i)
  <2>1. buf'[i] = IF i \in count + 1..count + n THEN Take(n)[i - count] ELSE buf[i]
    BY <1>1, <1>3, <1>4, <1>12 DEF Put
  <2>2. CASE i <= count
    BY <1>1, <1>8, <2>1, <2>2
  <2>3. CASE ~(i <= count)
    <3>1. i - count \in 1..n /\ count + (i - count) = i /\ i \in count + 1..count + n
      BY <1>1, <2>3
    <3>2. Take(n)[i - count] = net[i - count]
      BY <1>4, <3>1, TakenBytes
    <3>3. net[i - count] = DataByte(l[r].msg, l[r].start + (count + (i - count)))
      BY <1>11, <3>1
    <3>4. QED BY <2>1, <3>1, <3>2, <3>3
  <2>4. QED BY <2>2, <2>3
<1>15. At(l, k, c + n, r)'
  <2>1. r # k /\ c + n = l[r].off + HdrLen + count'
    <3>1. HdrLen \in Nat /\ count \in Nat /\ l[r].off \in Nat
      BY <1>1, <1>9
    <3>2. c = l[r].off + HdrLen + count
      BY <1>8
    <3>3. c + n = l[r].off + HdrLen + (count + n)
      BY <3>1, <3>2, Sums
    <3>4. QED BY <1>3, <1>8, <3>3
  <2>2. \A i \in 1..count' : buf'[i] = DataByte(l[r].msg, l[r].start + i)
    BY <1>3, <1>14
  <2>3. rpc' # "header" /\ size' = l[r].len
    BY <1>1, <1>3, <1>8
  <2>4. QED BY <1>3, <1>7, <2>1, <2>2, <2>3 DEF At
<1>16. /\ rpc' \in {"data", "sink"} /\ (rpc' = "sink" => count' = size' /\ wt' = 0)
       /\ Len(delivered') <= Len(sent')
  <2>1. ~(count' > size)
    BY <1>1, <1>3, <1>4
  <2>2. QED BY <1>1, <1>3, <2>1 DEF ReceiverInv, sendVars
<1>17. ReceiverInv'
  BY <1>6, <1>7, <1>10, <1>15, <1>16 DEF ReceiverInv
<1>18. QED BY <1>3, <1>5, <1>16, <1>17

\* Its sink takes the chunk, or WriteTo returns: then nothing more is known of this
\* message but where it ends.
LEMMA SinkKeeps ==
    ASSUME Fit, TransferInv, TypeOK', NEW w \in Writes, NEW q \in 0..size, SinkWrite(w, q)
    PROVE  /\ TransferInv' /\ UNCHANGED <<delivered, sent>> /\ rpc = "sink" /\ rpc' = "header"
           /\ broken' = broken \/ broken' = broken \cup {Len(delivered) + 1}
<1> USE DEF TransferInv
<1>1. /\ rpc = "sink" /\ UNCHANGED <<sendVars, net, size, buf, count, delivered>>
      /\ count = size /\ wt = 0 /\ size \in Nat /\ size # 0 /\ Len(buf) = size
      /\ buf \in Seq(Bytes) /\ got \in Seq(Bytes) /\ HdrLen \in Nat
      /\ Len(delivered) <= Len(sent)
  BY Parameters DEF SinkWrite, ReceiverInv, TypeOK
<1>2. w \in {"full", "fails"}
  BY TransferAssumption DEF Fit, TransferAssumption
<1>3. \/ SinkFailed
      \/ got' = got \o buf /\ rpc' = "header" /\ UNCHANGED broken
  <2>1. CASE w = "full"
    <3>1. q = size /\ wt + q = size /\ ~(wt + q > size)
      BY <1>1, <2>1 DEF SinkWrite
    <3>2. SubSeq(buf, 1, q) = buf
      BY <1>1, <3>1, SubSeqFull
    <3>3. QED BY <2>1, <3>1, <3>2 DEF SinkWrite
  <2>2. CASE w = "fails"
    BY <2>2 DEF SinkWrite
  <2>3. QED BY <1>2, <2>1, <2>2
<1>4. /\ rpc' = "header" /\ UNCHANGED sent
      /\ broken' = broken \/ broken' = broken \cup {Len(delivered) + 1}
  BY <1>1, <1>3 DEF SinkFailed, sendVars
<1>5. SenderInv'
  BY <1>1 DEF SenderInv, sendVars
<1>6. PICK l \in [Nat -> Chunk], k \in Nat, c \in Nat : \E r \in 0..k :
          Layout(l, k, c) /\ At(l, k, c, r)
  BY <1>1 DEF ReceiverInv
<1>7. PICK r \in 0..k : At(l, k, c, r)
  BY <1>6
<1>8. /\ r \in 0..(k - 1) /\ size = l[r].len /\ c = l[r].off + HdrLen + count
      /\ \A i \in 1..count : buf[i] = DataByte(l[r].msg, l[r].start + i)
      /\ l[r].msg = Len(delivered) + 1
      /\ l[r].msg \notin broken => l[r].start = Len(got) /\ got = First(l[r].msg, Len(got))
  BY <1>1, <1>7 DEF At
<1>9. /\ r + 1 \in 0..k /\ Follows(l[r], l[r + 1])
      /\ l[r].off \in Nat /\ l[r].msg \in Nat /\ l[r].start \in Nat /\ l[r].len \in Nat
  BY <1>6, <1>8, NextPlace
<1>10. Layout(l, k, c)'
  <2>1. Pending' = Pending /\ UNCHANGED <<sent, source, finished, spc>>
    BY <1>1 DEF Pending, sendVars
  <2>2. QED BY <1>6, <2>1, LayoutStays
<1>11. /\ l[r + 1].msg = l[r].msg /\ l[r + 1].start = l[r].start + l[r].len
       /\ l[r + 1].off = c /\ l[r + 1].start # 0
  <2>1. l[r].len # 0 /\ count = l[r].len
    BY <1>1, <1>8
  <2>2. /\ l[r + 1].msg = l[r].msg /\ l[r + 1].start = l[r].start + l[r].len
        /\ l[r + 1].off = l[r].off + HdrLen + l[r].len
    BY <1>9, <2>1 DEF Follows
  <2>3. l[r].start + l[r].len # 0
    BY <1>9, <2>1
  <2>4. QED BY <1>8, <2>1, <2>2, <2>3
<1>12. ASSUME l[r].msg \notin broken'
       PROVE  l[r + 1].start = Len(got') /\ got' = First(l[r].msg, Len(got'))
  <2>1. ~SinkFailed /\ got' = got \o buf /\ l[r].msg \notin broken
    BY <1>3, <1>8, <1>12 DEF SinkFailed
  <2>2. got = First(l[r].msg, Len(got)) /\ l[r].start = Len(got)
    BY <1>8, <2>1
  <2>3. \A i \in 1..Len(buf) : buf[i] = DataByte(l[r].msg, Len(got) + i)
    BY <1>1, <1>8, <2>2
  <2>4. got \o buf = First(l[r].msg, Len(got) + Len(buf)) /\ Len(got \o buf) = Len(got) + Len(buf)
    BY <1>1, <1>9, <2>2, <2>3, FirstGrows
  <2>5. QED BY <1>1, <1>8, <1>11, <2>1, <2>2, <2>4
<1>13. At(l, k, c, r + 1)'
  BY <1>1, <1>4, <1>8, <1>11, <1>12 DEF At
<1>14. ReceiverInv'
  BY <1>1, <1>4, <1>6, <1>9, <1>10, <1>13 DEF ReceiverInv
<1>15. QED BY <1>1, <1>4, <1>5, <1>14

\* A beginning of a message within the bounds is one that the channel may carry, ...
LEMMA IsMessage ==
    ASSUME NEW m \in 1..MaxMsgs, NEW s \in Seq(Bytes), s = First(m, Len(s)), Len(s) <= MaxChunks * BufSize
    PROVE  s \in Messages
<1>1. (MaxChunks + 1) * BufSize = MaxChunks * BufSize + BufSize
  BY BoundParameters
<1> DEFINE most == MaxChunks * BufSize
           more == (MaxChunks + 1) * BufSize
<1>2. more = most + BufSize /\ most \in Nat /\ BufSize \in Nat /\ Len(s) <= most /\ Len(s) \in Nat
  BY <1>1, BoundParameters
<1> HIDE DEF most, more
<1>3. Len(s) \in 0..more
  BY <1>2
<1>4. \E i \in 1..MaxMsgs, n \in 0..(MaxChunks + 1) * BufSize : s = First(i, n)
  BY <1>3 DEF more
<1>5. QED BY <1>4 DEF Messages, First

\* ... and the shorter of two beginnings is one of the other.
LEMMA FirstIsPrefix ==
    ASSUME NEW d \in Nat, NEW s \in Seq(Bytes), NEW t \in Seq(Bytes),
           s = First(d, Len(s)), t = First(d, Len(t)), Len(s) <= Len(t)
    PROVE  IsPrefix(s, t)
<1>1. (\A i \in 1..Len(s) : s[i] = DataByte(d, i)) /\ (\A i \in 1..Len(t) : t[i] = DataByte(d, i))
  BY BytesOfFirst
<1>2. SubSeq(s, 1, Len(s)) = s /\ Len(s) \in Nat /\ Len(t) \in Nat
  BY SubSeqFull
<1> DEFINE b == SubSeq(t, 1, Len(s))
<1>3. b \in Seq(Bytes) /\ Len(b) = Len(s) /\ \A i \in 1..Len(s) : b[i] = t[i]
  <2>1. b \in Seq(Bytes) /\ Len(b) = Len(s) - 1 + 1
    BY <1>2, Part
  <2>2. \A i \in 1..Len(s) : t[i] \in Bytes
    BY <1>2
  <2>3. \A i \in 1..(Len(s) - 1 + 1) : b[i] = t[1 + i - 1]
    BY <1>2, <2>2, SubSeqProperties
  <2>4. QED BY <1>2, <2>1, <2>3
<1> HIDE DEF b
<1>4. \A i \in 1..Len(s) : s[i] = b[i]
  BY <1>1, <1>2, <1>3
<1>5. s = b
  BY <1>3, <1>4, SeqEqual
<1>6. QED BY <1>2, <1>5 DEF IsPrefix, b

\* The receiver is in a message that the bounds allow.
LEMMA MessageReached ==
    ASSUME TransferInv, rpc \in {"header", "data"}, got # <<>>
    PROVE  /\ Len(delivered) + 1 \in 1..MaxMsgs
           /\ Len(delivered) + 1 \notin broken =>
                 /\ got = First(Len(delivered) + 1, Len(got)) /\ Len(got) <= MaxChunks * BufSize
                 /\ Len(delivered) + 1 <= Len(sent) => Len(got) <= Len(sent[Len(delivered) + 1])
<1> USE DEF TransferInv
<1>1. PICK l \in [Nat -> Chunk], k \in Nat, c \in Nat : \E r \in 0..k :
          Layout(l, k, c) /\ At(l, k, c, r)
  BY DEF ReceiverInv
<1>2. PICK r \in 0..k : At(l, k, c, r)
  BY <1>1
<1>3. got \in Seq(Bytes) /\ Len(got) \in Nat /\ Len(got) # 0 /\ Len(delivered) \in Nat
  BY EmptySeq DEF TypeOK
<1>4. /\ l[r].msg = Len(delivered) + 1 /\ l[r].start # 0 /\ Reached(l[r], sent, source)
      /\ l[r].msg \notin broken => l[r].start = Len(got) /\ got = First(l[r].msg, Len(got))
  BY <1>1, <1>2, <1>3 DEF At, Layout
<1>5. QED BY <1>3, <1>4, BoundParameters DEF Reached

\* What is kept of a message that the receiver takes for ended.
LastKept ==
    LET d == Len(delivered) + 1 IN
    IF d \notin broken THEN got ELSE IF d <= Len(sent) THEN sent[d] ELSE <<>>

\* Of the message in which the stream ends, this is a beginning.
LEMMA LastMessage ==
    ASSUME TransferInv, rpc \in {"header", "data"}, got # <<>>
    PROVE  /\ LastKept \in Messages
           /\ Len(delivered) < Len(sent) => IsPrefix(LastKept, sent[Len(delivered) + 1])
<1> USE DEF TransferInv
<1> DEFINE d == Len(delivered) + 1
<1>1. /\ d \in 1..MaxMsgs /\ d \in Nat /\ Len(delivered) \in Nat /\ Len(sent) \in Nat
      /\ d \notin broken =>
            /\ got = First(d, Len(got)) /\ Len(got) <= MaxChunks * BufSize
            /\ d <= Len(sent) => Len(got) <= Len(sent[d])
  BY MessageReached DEF TypeOK
<1>2. d <= Len(sent) =>
         sent[d] \in Seq(Bytes) /\ sent[d] = First(d, Len(sent[d])) /\ Len(sent[d]) <= MaxChunks * BufSize
  BY <1>1 DEF SenderInv, TypeOK
<1> HIDE DEF d
<1>3. /\ LastKept \in Seq(Bytes) /\ LastKept = First(d, Len(LastKept)) /\ Len(LastKept) <= MaxChunks * BufSize
      /\ d <= Len(sent) => Len(LastKept) <= Len(sent[d])
  <2>1. CASE d \notin broken
    <3>1. LastKept = got /\ got \in Seq(Bytes)
      BY <2>1 DEF LastKept, d, TypeOK
    <3>2. QED BY <1>1, <2>1, <3>1
  <2>2. CASE d \in broken /\ d <= Len(sent)
    <3>1. LastKept = sent[d]
      BY <2>2 DEF LastKept, d
    <3>2. Len(sent[d]) \in Nat
      BY <1>2, <2>2
    <3>3. QED BY <1>2, <2>2, <3>1, <3>2
  <2>3. CASE d \in broken /\ ~(d <= Len(sent))
    <3>1. LastKept = <<>>
      BY <2>3 DEF LastKept, d
    <3>2. <<>> = First(d, 0) /\ Len(<<>>) = 0 /\ <<>> \in Seq(Bytes)
      BY EmptySeq DEF First
    <3>3. QED BY <2>3, <3>1, <3>2, BoundParameters
  <2>4. QED BY <2>1, <2>2, <2>3
<1>4. LastKept \in Messages
  BY <1>1, <1>3, IsMessage
<1>5. ASSUME d <= Len(sent)
      PROVE  IsPrefix(LastKept, sent[d])
  BY <1>1, <1>2, <1>3, <1>5, FirstIsPrefix
<1>6. QED BY <1>1, <1>4, <1>5 DEF d

LEMMA ReadEndKeeps ==
    ASSUME Fit, TransferInv, TypeOK', ReadEnd \/ ReadCut \/ StreamClosed
    PROVE  /\ TransferInv' /\ rpc \in {"header", "data"} /\ rpc' = "stopped" /\ UNCHANGED <<sent, broken>>
           /\ \/ UNCHANGED delivered
              \/ got # <<>> /\ delivered' = Append(delivered, got)
<1> USE DEF TransferInv
<1>1. /\ rpc \in {"header", "data"} /\ rpc' = "stopped" /\ finished # "no" /\ UNCHANGED sendVars
      /\ UNCHANGED broken
      /\ \/ UNCHANGED delivered
         \/ got # <<>> /\ delivered' = Append(delivered, got)
  BY DEF ReadEnd, ReadCut, StreamClosed, Fit, EndMessage
<1>2. SenderInv' /\ UNCHANGED sent /\ finished' # "no"
  BY <1>1 DEF SenderInv, sendVars
<1>3. ReceiverInv'
  BY <1>1, <1>2 DEF ReceiverInv
<1>4. QED BY <1>1, <1>2, <1>3

-----------------------------------------------------------------------------
(* The refinement. A step of the source that ends a message is Send, a read *)
(* of an EOF frame Deliver, the end of the stream End, and all else stutters. *)

ChannelStep == [Channel!Next]_(Channel!vars)

\* What the type invariant says of the messages and of what is under way.
LEMMA MessageTypes ==
    ASSUME TypeOK
    PROVE  /\ delivered \in Seq(Seq(Bytes)) /\ Len(delivered) \in Nat /\ got \in Seq(Bytes)
           /\ sent \in Seq(Seq(Bytes)) /\ Len(sent) \in Nat
BY DEF TypeOK

LEMMA NetTypes ==
    ASSUME TypeOK
    PROVE  net \in Seq(Bytes) /\ Len(net) \in Nat
BY DEF TypeOK

\* What is kept does not change when more is sent, or a sink fails, ...
LEMMA KeptStays ==
    ASSUME TypeOK, TypeOK', UNCHANGED delivered,
           \A i \in 1..Len(delivered) : i \in broken' <=> i \in broken,
           \/ UNCHANGED sent
           \/ Len(delivered) <= Len(sent) /\ \E m \in Seq(Bytes) : sent' = Append(sent, m)
    PROVE  Kept' = Kept
<1>1. Len(delivered) \in Nat /\ Len(sent) \in Nat /\ sent \in Seq(Seq(Bytes))
  BY MessageTypes
<1>2. ASSUME NEW i \in 1..Len(delivered)
      PROVE  (IF i <= Len(sent') THEN sent'[i] ELSE <<>>) = (IF i <= Len(sent) THEN sent[i] ELSE <<>>)
  <2>1. ASSUME Len(delivered) <= Len(sent), NEW m \in Seq(Bytes), sent' = Append(sent, m)
        PROVE  i <= Len(sent) /\ i <= Len(sent') /\ sent'[i] = sent[i]
    BY <1>1, <2>1, AppendProperties
  <2>2. QED BY <2>1
<1>3. QED BY <1>2 DEF Kept

\* ... and grows with what is delivered.
LEMMA KeptGrows ==
    ASSUME TypeOK, TypeOK', delivered' = Append(delivered, got), UNCHANGED <<sent, broken>>
    PROVE  Kept' = Append(Kept, LastKept) /\ Len(Kept) = Len(delivered)
<1> DEFINE d == Len(delivered)
           other(i) == IF i <= Len(sent) THEN sent[i] ELSE <<>>
<1>1. /\ d \in Nat /\ delivered \in Seq(Seq(Bytes)) /\ got \in Seq(Bytes)
      /\ sent \in Seq(Seq(Bytes)) /\ Len(sent) \in Nat
  BY MessageTypes
<1>2. /\ Len(delivered') = d + 1 /\ delivered'[d + 1] = got
      /\ \A i \in 1..d : delivered'[i] = delivered[i]
  BY <1>1, AppendProperties
<1>3. Kept = [i \in 1..d |-> IF i \notin broken THEN delivered[i] ELSE other(i)]
  BY DEF Kept
<1>4. Kept' = [i \in 1..(d + 1) |-> IF i \notin broken THEN delivered'[i] ELSE other(i)]
  BY <1>2 DEF Kept
<1>5. LastKept = IF d + 1 \notin broken THEN got ELSE other(d + 1)
  BY DEF LastKept
<1>6. \A i \in 1..(d + 1) : other(i) \in Seq(Bytes)
  BY <1>1, EmptySeq
<1> HIDE DEF other
<1>7. \A i \in 1..d : (IF i \notin broken THEN delivered[i] ELSE other(i)) \in Seq(Bytes)
  BY <1>1, <1>6
<1> HIDE DEF d
<1>8. \A i \in 1..(d + 1) : (IF i \notin broken THEN delivered'[i] ELSE other(i)) \in Seq(Bytes)
  <2> TAKE i \in 1..(d + 1)
  <2>1. delivered' \in Seq(Seq(Bytes))
    BY DEF TypeOK
  <2>2. delivered'[i] \in Seq(Bytes)
    BY <1>2, <2>1, ElementOfSeq
  <2>3. QED BY <1>6, <2>2
<1> DEFINE a == Kept
           b == Kept'
           e == LastKept
<1>9. /\ a \in Seq(Seq(Bytes)) /\ Len(a) = d
      /\ \A i \in 1..d : a[i] = IF i \notin broken THEN delivered[i] ELSE other(i)
  <2>1. a \in [1..d -> Seq(Bytes)]
    BY <1>3, <1>7
  <2>2. QED BY <1>1, <1>3, <2>1
<1>10. /\ b \in Seq(Seq(Bytes)) /\ Len(b) = d + 1
       /\ \A i \in 1..(d + 1) : b[i] = IF i \notin broken THEN delivered'[i] ELSE other(i)
  <2> DEFINE n == d + 1
             f(i) == IF i \notin broken THEN delivered'[i] ELSE other(i)
  <2>1. b = [i \in 1..n |-> f(i)]
    BY <1>4
  <2>0. n \in Nat
    BY <1>1
  <2>a. \A i \in 1..n : f(i) \in Seq(Bytes)
    BY <1>8
  <2> HIDE DEF b, n, f
  <2>2. b \in [1..n -> Seq(Bytes)]
    BY <2>0, <2>1, <2>a
  <2>3. b \in Seq(Seq(Bytes)) /\ Len(b) = n /\ \A i \in 1..n : b[i] = f(i)
    BY <2>0, <2>1, <2>2, <2>a
  <2>4. QED BY <2>3 DEF n, f
<1>11. e \in Seq(Bytes) /\ e = IF d + 1 \notin broken THEN got ELSE other(d + 1)
  <2>1. d + 1 \in 1..(d + 1)
    BY <1>1
  <2>2. QED BY <1>1, <1>5, <1>6, <2>1
<1> HIDE DEF a, b, e
<1>12. /\ Append(a, e) \in Seq(Seq(Bytes)) /\ Len(Append(a, e)) = d + 1
       /\ Append(a, e)[d + 1] = e /\ \A i \in 1..d : Append(a, e)[i] = a[i]
  BY <1>9, <1>11, AppendProperties
<1> DEFINE f == Append(a, e)
<1>13. ASSUME NEW i \in 1..(d + 1)
       PROVE  b[i] = f[i]
  <2>1. CASE i = d + 1
    BY <1>2, <1>10, <1>11, <1>12, <2>1
  <2>2. CASE i # d + 1
    <3>1. i \in 1..d
      BY <1>1, <2>2
    <3>2. QED BY <1>2, <1>9, <1>10, <1>12, <3>1
  <2>3. QED BY <2>1, <2>2
<1> HIDE DEF f
<1>14. b = f
  <2>1. f \in Seq(Seq(Bytes)) /\ Len(b) = Len(f)
    BY <1>10, <1>12 DEF f
  <2>2. QED BY <1>10, <1>13, <2>1, SeqEqual
<1>15. QED BY <1>9, <1>14 DEF a, b, e, f, d

LEMMA TransferStep ==
    ASSUME Fit, TransferInv, [Next]_vars
    PROVE  TransferInv' /\ ChannelStep
<1>0. TypeOK /\ TypeOK'
  <2>1. TypeOK /\ UNCHANGED vars => TypeOK'
    BY DEF TypeOK, vars, sendVars, recvVars
  <2>2. TypeOK
    BY DEF TransferInv
  <2>3. QED BY <2>1, <2>2, SenderStep, ReceiverStep DEF Next
<1>a. ASSUME UNCHANGED <<sent, delivered>>, rpc' = "stopped" <=> rpc = "stopped",
             broken' = broken \/ broken' = broken \cup {Len(delivered) + 1}
      PROVE  ChannelStep
  <2>1. \A i \in 1..Len(delivered) : i # Len(delivered) + 1
    BY <1>0 DEF TypeOK
  <2>2. \A i \in 1..Len(delivered) : i \in broken' <=> i \in broken
    BY <1>a, <2>1
  <2>3. Kept' = Kept
    BY <1>0, <1>a, <2>2, KeptStays
  <2>4. QED BY <1>a, <2>3 DEF ChannelStep, Channel!vars
<1>1. CASE Push \/ CloseStream \/ UNCHANGED vars
  <2>1. UNCHANGED <<sent, delivered, rpc, broken>>
    BY <1>1 DEF Push, CloseStream, vars, recvVars, sendVars
  <2>2. QED BY <1>0, <1>1, <1>a, <2>1, QuietSender
<1>2. CASE StartMessage
  <2>1. UNCHANGED <<sent, delivered, rpc, broken>>
    BY <1>2 DEF StartMessage, recvVars
  <2>2. QED BY <1>0, <1>2, <1>a, <2>1, StartKeeps
<1>3. CASE Cut
  <2>1. UNCHANGED <<sent, delivered, rpc, broken>>
    BY <1>3 DEF Cut, recvVars
  <2>2. QED BY <1>0, <1>3, <1>a, <2>1, CutKeeps
<1>4. ASSUME NEW n \in 1..BufSize, ReadChunk(n)
      PROVE  TransferInv' /\ ChannelStep
  <2>1. UNCHANGED <<sent, delivered, rpc, broken>>
    BY <1>4 DEF ReadChunk, recvVars
  <2>2. QED BY <1>0, <1>4, <1>a, <2>1, ReadChunkKeeps
<1>5. ASSUME ReadError(0, "EOF")
      PROVE  TransferInv' /\ ChannelStep
  <2>1. TransferInv' /\ sent' = Append(sent, source)
    BY <1>0, <1>5, EndsKeeps
  <2>2. /\ spc = "read" /\ UNCHANGED <<delivered, rpc, broken>>
    BY <1>5 DEF ReadError, recvVars
  <2>3. rpc # "stopped" /\ rpc' # "stopped" /\ Len(delivered) <= Len(sent)
    BY <2>2 DEF TransferInv, SenderInv, ReceiverInv
  <2>4. source \in Messages
    <3>1. /\ source = First(Len(sent) + 1, Len(source)) /\ Len(source) <= chunks * BufSize
          /\ Len(sent) < MaxMsgs /\ Len(sent) \in Nat /\ Len(source) \in Nat
          /\ chunks \in Nat /\ chunks <= MaxChunks
      BY <2>2, BoundParameters DEF TransferInv, SenderInv, TypeOK
    <3>2. chunks * BufSize <= MaxChunks * BufSize /\ chunks * BufSize \in Nat
      BY <3>1, BoundParameters
    <3> DEFINE have == chunks * BufSize
               most == MaxChunks * BufSize
    <3>3. have <= most /\ Len(source) <= have /\ have \in Nat /\ most \in Nat
      BY <3>1, <3>2, BoundParameters
    <3> HIDE DEF have, most
    <3>4. Len(source) <= most
      BY <3>1, <3>3
    <3>5. Len(sent) + 1 \in 1..MaxMsgs /\ source \in Seq(Bytes)
      BY <3>1, BoundParameters DEF TransferInv, TypeOK
    <3>6. QED BY <3>1, <3>4, <3>5, IsMessage DEF most
  <2>5. Kept' = Kept
    <3>1. source \in Seq(Bytes)
      BY <1>0 DEF TypeOK
    <3>2. QED BY <1>0, <2>1, <2>2, <2>3, <3>1, KeptStays
  <2>6. Channel!Send(source)
    BY <2>1, <2>2, <2>3, <2>5 DEF Channel!Send
  <2>7. QED BY <2>1, <2>4, <2>6 DEF ChannelStep, Channel!Next
<1>6. CASE ReadHeader
  <2>1. /\ TransferInv' /\ UNCHANGED broken
        /\ \/ UNCHANGED delivered
           \/ /\ Len(delivered) < Len(sent) /\ delivered' = Append(delivered, got)
              /\ Len(delivered) + 1 \notin broken => got = sent[Len(delivered) + 1]
    BY <1>0, <1>6, ReadHeaderKeeps
  <2>2. rpc # "stopped" /\ rpc' # "stopped" /\ UNCHANGED sent
    BY <1>6 DEF ReadHeader, sendVars
  <2>3. CASE UNCHANGED delivered
    BY <1>a, <2>1, <2>2, <2>3
  <2>4. CASE /\ Len(delivered) < Len(sent) /\ delivered' = Append(delivered, got)
             /\ Len(delivered) + 1 \notin broken => got = sent[Len(delivered) + 1]
    <3>1. Kept' = Append(Kept, LastKept) /\ Len(Kept) = Len(delivered)
      BY <1>0, <2>1, <2>2, <2>4, KeptGrows
    <3>2. Len(delivered) \in Nat /\ Len(sent) \in Nat
      BY <1>0, SequenceTypes
    <3>3. LastKept = sent[Len(delivered) + 1]
      BY <2>4, <3>2 DEF LastKept
    <3>4. Channel!Deliver
      BY <2>2, <2>4, <3>1, <3>3 DEF Channel!Deliver
    <3>5. QED BY <2>1, <3>4 DEF ChannelStep, Channel!Next
  <2>5. QED BY <2>1, <2>3, <2>4
<1>7. CASE ReadData
  <2>1. TransferInv' /\ UNCHANGED <<delivered, broken>> /\ rpc' \in {"data", "sink"}
    BY <1>0, <1>7, ReadDataKeeps
  <2>2. rpc = "data" /\ UNCHANGED sent
    BY <1>7 DEF ReadData, sendVars
  <2>3. QED BY <1>a, <2>1, <2>2
<1>b. ASSUME NEW w \in Writes, NEW q \in 0..size, SinkWrite(w, q)
      PROVE  TransferInv' /\ ChannelStep
  <2>1. /\ TransferInv' /\ UNCHANGED <<delivered, sent>> /\ rpc = "sink" /\ rpc' = "header"
        /\ broken' = broken \/ broken' = broken \cup {Len(delivered) + 1}
    BY <1>0, <1>b, SinkKeeps
  <2>2. QED BY <1>a, <2>1
<1>8. CASE ReadEnd \/ ReadCut \/ StreamClosed
  <2>1. /\ TransferInv' /\ rpc \in {"header", "data"} /\ rpc' = "stopped" /\ UNCHANGED <<sent, broken>>
        /\ \/ UNCHANGED delivered
           \/ got # <<>> /\ delivered' = Append(delivered, got)
    BY <1>0, <1>8, ReadEndKeeps
  <2>2. Channel!End
    <3>1. CASE UNCHANGED delivered
      <4>1. Kept' = Kept
        BY <1>0, <2>1, <3>1, KeptStays
      <4>2. QED BY <2>1, <4>1 DEF Channel!End
    <3>2. CASE got # <<>> /\ delivered' = Append(delivered, got)
      <4>1. /\ LastKept \in Messages
            /\ Len(delivered) < Len(sent) => IsPrefix(LastKept, sent[Len(delivered) + 1])
        BY <2>1, <3>2, LastMessage
      <4>2. Kept' = Append(Kept, LastKept) /\ Len(Kept) = Len(delivered)
        BY <1>0, <2>1, <3>2, KeptGrows
      <4>3. \E m \in Messages :
               /\ Len(Kept) < Len(sent) => Channel!IsPrefix(m, sent[Len(Kept) + 1])
               /\ Kept' = Append(Kept, m)
        BY <4>1, <4>2 DEF IsPrefix, Channel!IsPrefix
      <4>4. QED BY <2>1, <4>3 DEF Channel!End
    <3>3. QED BY <2>1, <3>1, <3>2
  <2>3. QED BY <2>1, <2>2 DEF ChannelStep, Channel!Next
<1>9. ASSUME SendStep
      PROVE  Push \/ ReadError(0, "EOF") \/ \E n \in 1..BufSize : ReadChunk(n)
  <2>1. CASE Push
    BY <2>1
  <2>2. ASSUME NEW q \in Reads, (q[2] = "nil" /\ ReadChunk(q[1])) \/ (q[2] # "nil" /\ ReadError(q[1], q[2]))
        PROVE  ReadError(0, "EOF") \/ \E n \in 1..BufSize : ReadChunk(n)
    <3>1. (q[1] \in 1..BufSize /\ q[2] = "nil") \/ (q[1] = 0 /\ q[2] = "EOF")
      BY ReadsAreFit
    <3>2. QED BY <2>2, <3>1
  <2>3. QED BY <1>9, <2>1, <2>2 DEF SendStep
<1>10. QED BY <1>1, <1>2, <1>3, <1>4, <1>5, <1>6, <1>7, <1>8, <1>9, <1>b DEF Next, RecvStep

\* ReadFrom and WriteTo implement MessageChannel: messages arrive whole, once each
\* and in order, however the window splits chunks and wherever the stream is
\* closed, the session is cut, or a sink fails; the failure of a sink spoils the
\* message that it was given and no other (stream.go:156-241).
THEOREM WriteToIsChannel == Fit => (Spec => IsChannel)
<1> SUFFICES ASSUME Fit
             PROVE  Spec => IsChannel
  OBVIOUS
<1>1. Init => TransferInv
  BY TransferInit
<1>2. TransferInv /\ [Next]_vars => TransferInv'
  BY TransferStep
<1>3. Init => Channel!Init
  <2> SUFFICES ASSUME Init
               PROVE  Channel!Init
    OBVIOUS
  <2>1. Len(delivered) = 0 /\ sent = <<>> /\ rpc # "stopped"
    BY DEF Init
  <2>2. Kept = <<>>
    BY <2>1 DEF Kept
  <2>3. QED BY <2>1, <2>2 DEF Channel!Init
<1>4. TransferInv /\ [Next]_vars => [Channel!Next]_(Channel!vars)
  BY TransferStep DEF ChannelStep
<1>5. QED BY <1>1, <1>2, <1>3, <1>4, PTL DEF Spec, IsChannel, Channel!Spec

-----------------------------------------------------------------------------
(* When no header is split. Transfer stops at a header that is, so this says *)
(* for which sources and windows the refinement reaches to the end.          *)

Whole(n) == \E q \in Nat : n = q * HdrLen

\* The window and the chunks are made of whole headers.
Aligned == Whole(Window) /\ \A r \in Reads : Whole(r[1])

WholeHeaders(s) == \A i \in 1..Len(s) : s[i].kind = "hdr" => Whole(s[i].chunk)

\* The receiver has not lost a part of a header, unless the session was cut.
InStepUnlessCut == rpc = "garbled" => finished = "cut"

AlignedInv ==
    /\ InStepUnlessCut
    /\ finished # "cut" =>
          /\ Whole(Len(net)) /\ Whole(Len(out)) /\ Whole(Len(next)) /\ WholeHeaders(Pending)
          /\ rpc = "data" => Whole(size - count)

LEMMA WholeSum ==
    ASSUME NEW a, NEW b, Whole(a), Whole(b)
    PROVE  Whole(a + b)
<1>1. PICK p \in Nat : a = p * HdrLen
  BY DEF Whole
<1>2. PICK q \in Nat : b = q * HdrLen
  BY DEF Whole
<1>3. (p + q) * HdrLen = p * HdrLen + q * HdrLen /\ p + q \in Nat
  BY Parameters
<1>4. QED BY <1>1, <1>2, <1>3 DEF Whole

LEMMA WholeDifference ==
    ASSUME NEW a \in Nat, NEW b \in Nat, Whole(a), Whole(b), b <= a
    PROVE  Whole(a - b)
<1>1. PICK p \in Nat : a = p * HdrLen
  BY DEF Whole
<1>2. PICK q \in Nat : b = q * HdrLen
  BY DEF Whole
<1>3. q <= p
  <2>1. SUFFICES ASSUME p + 1 <= q
                 PROVE  FALSE
    OBVIOUS
  <2>2. (p + 1) * HdrLen <= q * HdrLen /\ (p + 1) * HdrLen = p * HdrLen + HdrLen
    BY <2>1, Parameters
  <2> DEFINE x == p * HdrLen
             y == q * HdrLen
             z == (p + 1) * HdrLen
  <2>3. z <= y /\ z = x + HdrLen /\ a = x /\ b = y /\ HdrLen \in Nat \ {0}
    BY <1>1, <1>2, <2>2, Parameters
  <2> HIDE DEF x, y, z
  <2>4. QED BY <2>3
<1>4. (p - q) * HdrLen = p * HdrLen - q * HdrLen /\ p - q \in Nat
  BY <1>3, Parameters
<1>5. QED BY <1>1, <1>2, <1>4 DEF Whole

LEMMA WholeSizes ==
    /\ Whole(0) /\ Whole(HdrLen)
    /\ \A a \in Nat : Whole(a) /\ a > 0 => HdrLen <= a
<1>1. 0 = 0 * HdrLen /\ HdrLen = 1 * HdrLen
  BY Parameters
<1>2. ASSUME NEW a \in Nat, Whole(a), a > 0
      PROVE  HdrLen <= a
  <2>1. PICK q \in Nat : a = q * HdrLen
    BY <1>2 DEF Whole
  <2>2. q # 0
    BY <1>2, <2>1, Parameters
  <2>3. 1 <= q
    BY <2>2
  <2>4. 1 * HdrLen <= q * HdrLen
    BY <2>3, Parameters
  <2>5. QED BY <1>1, <2>1, <2>4
<1>3. QED BY <1>1, <1>2 DEF Whole

LEMMA PushAligned ==
    ASSUME Aligned, TypeOK, AlignedInv, Push
    PROVE  AlignedInv'
<1> DEFINE n == Lesser(Window - Len(net), Len(out))
           left == SubSeq(out, n + 1, Len(out))
           gone == SubSeq(out, 1, n)
<1>1. /\ Len(net) \in Nat /\ Len(out) \in Nat /\ Len(net) <= Window /\ Window \in Nat
      /\ net \in Seq(Bytes) /\ out \in Seq(Bytes) /\ next \in Seq(Bytes)
  BY Parameters DEF TypeOK
<1>2. n > 0 /\ net' = net \o gone /\ UNCHANGED <<finished, rpc, size, count>>
      /\ (left # <<>> => out' = left /\ next' = next)
      /\ (left = <<>> => out' = next /\ next' = <<>>)
  BY DEF Push, recvVars
<1>3. SUFFICES ASSUME finished # "cut"
               PROVE  Whole(Len(net')) /\ Whole(Len(out')) /\ Whole(Len(next')) /\ WholeHeaders(Pending')
  BY <1>2 DEF AlignedInv, InStepUnlessCut, WholeHeaders, Pending
<1>4. Whole(Len(net)) /\ Whole(Len(out)) /\ Whole(Len(next)) /\ WholeHeaders(Pending)
  BY <1>3 DEF AlignedInv
<1>5. Whole(n) /\ n \in Nat /\ n <= Len(out)
  <2>1. Whole(Window - Len(net))
    BY <1>1, <1>4, WholeDifference DEF Aligned
  <2>2. QED BY <1>1, <1>2, <1>4, <2>1 DEF Lesser
<1> HIDE DEF n
<1>6. /\ left \in Seq(Bytes) /\ Len(left) = Len(out) - n
      /\ gone \in Seq(Bytes) /\ Len(gone) = n
  <2>1. /\ left \in Seq(Bytes) /\ Len(left) = Len(out) - (n + 1) + 1
    BY <1>1, <1>2, <1>5, Part
  <2>2. gone \in Seq(Bytes) /\ Len(gone) = n - 1 + 1
    BY <1>1, <1>2, <1>5, Part
  <2>3. QED BY <1>1, <1>5, <2>1, <2>2
<1> HIDE DEF left, gone
<1>7. Whole(Len(net'))
  <2>1. Len(net') = Len(net) + n
    BY <1>1, <1>2, <1>6, ConcatProperties
  <2>2. QED BY <1>4, <1>5, <2>1, WholeSum
<1>8. Whole(Len(out')) /\ Whole(Len(next'))
  <2>1. Whole(Len(left))
    BY <1>1, <1>4, <1>5, <1>6, WholeDifference
  <2>2. Len(<<>>) = 0
    OBVIOUS
  <2>3. CASE left # <<>>
    BY <1>2, <1>4, <2>1, <2>3
  <2>4. CASE left = <<>>
    BY <1>2, <1>4, <2>2, <2>4, WholeSizes
  <2>5. QED BY <2>3, <2>4
<1>9. WholeHeaders(Pending')
  BY <1>4, PushKeepsPending
<1>10. QED BY <1>7, <1>8, <1>9

LEMMA ChunkAligned ==
    ASSUME TypeOK, TypeOK', AlignedInv, NEW n \in Nat, Whole(n),
           UNCHANGED <<net, finished, rpc, size, count>>, out = <<>>, next = <<>>,
           out' = Header(n), next' = Yield(n)
    PROVE  AlignedInv'
<1>1. SUFFICES ASSUME finished # "cut"
               PROVE  Whole(Len(net')) /\ Whole(Len(out')) /\ Whole(Len(next')) /\ WholeHeaders(Pending')
  BY DEF AlignedInv, InStepUnlessCut, WholeHeaders, Pending
<1>2. Whole(Len(net')) /\ WholeHeaders(Pending)
  BY <1>1 DEF AlignedInv
<1>3. Whole(Len(out')) /\ Whole(Len(next'))
  <2>1. Len(out') = HdrLen /\ Len(next') = n
    <3>1. Len(Yield(n)) = n
      BY DEF Yield
    <3>2. QED BY <3>1, HeaderType
  <2>2. QED BY <2>1, WholeSizes
<1>4. /\ Len(Pending') = Len(Pending) + HdrLen + n
      /\ \A i \in 1..Len(Pending) : Pending'[i] = Pending[i]
      /\ \A i \in 1..HdrLen : Pending'[Len(Pending) + i] = HdrByte(n, i)
      /\ \A i \in 1..n : Pending'[Len(Pending) + HdrLen + i] = DataByte(Len(sent) + 1, Len(source) + i)
  BY ChunkPends
<1> DEFINE p == Pending
           q == Pending'
<1>5. Len(p) \in Nat /\ HdrLen \in Nat /\ WholeHeaders(p)
  BY <1>2, PendingBytes, Parameters
<1>6. /\ Len(q) = Len(p) + HdrLen + n
      /\ \A i \in 1..Len(p) : q[i] = p[i]
      /\ \A i \in 1..HdrLen : q[Len(p) + i] = HdrByte(n, i)
      /\ \A i \in 1..n : q[Len(p) + HdrLen + i] = DataByte(Len(sent) + 1, Len(source) + i)
  BY <1>4
<1> HIDE DEF p, q
<1>7. ASSUME NEW i \in 1..Len(q), q[i].kind = "hdr"
      PROVE  Whole(q[i].chunk)
  <2>1. CASE i <= Len(p)
    BY <1>5, <1>6, <1>7, <2>1 DEF WholeHeaders
  <2>2. CASE i > Len(p) /\ i <= Len(p) + HdrLen
    <3>1. i - Len(p) \in 1..HdrLen /\ Len(p) + (i - Len(p)) = i
      BY <1>5, <2>2
    <3>2. q[i] = HdrByte(n, i - Len(p))
      BY <1>6, <3>1
    <3>3. QED BY <3>2 DEF HdrByte
  <2>3. CASE i > Len(p) + HdrLen
    <3>1. i - Len(p) - HdrLen \in 1..n /\ Len(p) + HdrLen + (i - Len(p) - HdrLen) = i
      BY <1>5, <1>6, <2>3
    <3>2. q[i] = DataByte(Len(sent) + 1, Len(source) + (i - Len(p) - HdrLen))
      BY <1>6, <3>1
    <3>3. QED BY <1>7, <3>2 DEF DataByte
  <2>4. QED BY <1>5, <1>6, <2>1, <2>2, <2>3
<1>8. WholeHeaders(Pending')
  BY <1>7 DEF WholeHeaders, q
<1>9. QED BY <1>2, <1>3, <1>8

LEMMA TakingAligned ==
    ASSUME TypeOK, TypeOK', NEW n \in Nat, n <= Len(net), Whole(n), Whole(Len(net)),
           net' = Leave(n), UNCHANGED sendVars, WholeHeaders(Pending)
    PROVE  /\ Whole(Len(net')) /\ WholeHeaders(Pending')
           /\ Len(out') = Len(out) /\ Len(next') = Len(next)
<1>1. UNCHANGED <<out, next>>
  BY DEF sendVars
<1>2. Whole(Len(net'))
  <2>1. Len(net') = Len(net) - n
    BY NetParts
  <2>2. Len(net) \in Nat
    BY DEF TypeOK
  <2>3. QED BY <2>1, <2>2, WholeDifference
<1>3. Without(Pending, n, Pending')
  BY <1>1, ReadTakes
<1> DEFINE p == Pending
           q == Pending'
<1>4. Without(p, n, q) /\ Len(p) \in Nat /\ WholeHeaders(p)
  BY <1>3, PendingBytes
<1> HIDE DEF p, q
<1>5. \A i \in 1..Len(q) : i + n \in 1..Len(p) /\ q[i] = p[i + n]
  BY <1>4 DEF Without
<1>6. WholeHeaders(q)
  BY <1>4, <1>5 DEF WholeHeaders
<1>7. QED BY <1>1, <1>2, <1>6 DEF q

LEMMA ReadHeaderAligned ==
    ASSUME TransferInv, TypeOK', AlignedInv, ReadHeader
    PROVE  AlignedInv'
<1> DEFINE taken == Lesser(HdrLen, Len(net))
<1>1. /\ Len(net) \in Nat /\ HdrLen \in Nat /\ HdrLen >= 1 /\ TypeOK /\ net \in Seq(Bytes)
  BY Parameters, NetTypes DEF TransferInv
<1>2. PICK n \in Nat : n = taken
  BY <1>1 DEF Lesser
<1>3. /\ rpc = "header" /\ n > 0 /\ net' = Leave(n) /\ UNCHANGED sendVars /\ finished' = finished
      /\ Take(n) = Header(0) => rpc' = "header"
      /\ Take(n) # Header(0) =>
            /\ rpc' = "garbled" => Take(n) # Header(net[1].chunk)
            /\ size' = net[1].chunk /\ count' = 0
  BY <1>2 DEF ReadHeader, sendVars
<1>4. SUFFICES ASSUME finished # "cut"
               PROVE  /\ rpc' # "garbled"
                      /\ rpc' = "data" => Whole(size' - count')
                      /\ Whole(Len(net')) /\ Whole(Len(out')) /\ Whole(Len(next')) /\ WholeHeaders(Pending')
  BY <1>3 DEF AlignedInv, InStepUnlessCut, WholeHeaders, Pending
<1>5. Whole(Len(net)) /\ Whole(Len(out)) /\ Whole(Len(next)) /\ WholeHeaders(Pending)
  BY <1>4 DEF AlignedInv
<1>6. n = HdrLen /\ n <= Len(net)
  <2>1. Len(net) > 0
    BY <1>1, <1>2, <1>3 DEF Lesser
  <2>2. HdrLen <= Len(net)
    BY <1>1, <1>5, <2>1, WholeSizes
  <2>3. QED BY <1>1, <1>2, <2>2 DEF Lesser
<1> HIDE DEF taken
<1>7. /\ Whole(Len(net')) /\ WholeHeaders(Pending') /\ Whole(Len(out')) /\ Whole(Len(next'))
  BY <1>1, <1>3, <1>5, <1>6, TakingAligned, WholeSizes
<1>8. PICK l \in [Nat -> Chunk], k \in Nat, c \in Nat : \E r \in 0..k :
          Layout(l, k, c) /\ At(l, k, c, r)
  BY <1>3 DEF ReceiverInv, TransferInv
<1>9. PICK r \in 0..k : At(l, k, c, r)
  BY <1>8
<1>10. /\ r \in 0..(k - 1) /\ net[1].chunk = l[r].len /\ l[r].len \in Nat
       /\ \A i \in 1..Len(net) : i <= HdrLen => net[i] = HdrByte(l[r].len, i)
  <2>1. /\ r \in 0..(k - 1) /\ net[1].chunk = l[r].len
        /\ \A i \in 1..Len(net) : i <= HdrLen => net[i] = HdrByte(l[r].len, i)
    BY <1>1, <1>3, <1>6, <1>8, <1>9, HeaderIsNext
  <2>2. QED BY <1>8, <2>1, NextPlace
<1>11. Take(n) = Header(net[1].chunk)
  <2> DEFINE s == Take(n)
             t == Header(l[r].len)
  <2>1. s \in Seq(Bytes) /\ Len(s) = n /\ \A i \in 1..n : s[i] = net[i]
    BY <1>1, <1>6, NetParts, TakenBytes
  <2>2. t \in Seq(Bytes) /\ Len(t) = n /\ \A i \in 1..n : t[i] = HdrByte(l[r].len, i)
    BY <1>6, <1>10, HeaderType, HeaderBytes
  <2> HIDE DEF s, t
  <2>3. \A i \in 1..n : s[i] = t[i]
    BY <1>1, <1>6, <1>10, <2>1, <2>2
  <2>4. s = t
    BY <2>1, <2>2, <2>3, SeqEqual
  <2>5. QED BY <1>10, <2>4 DEF s, t
<1>12. Whole(net[1].chunk) /\ net[1].chunk - 0 = net[1].chunk
  <2>1. 1 \in 1..Len(Pending) /\ Pending[1] = net[1] /\ 1 \in 1..Len(net)
    BY <1>1, <1>6, PendingBytes
  <2>2. net[1].kind = "hdr"
    <3>1. net[1] = HdrByte(l[r].len, 1)
      BY <1>1, <1>10, <2>1
    <3>2. QED BY <3>1 DEF HdrByte
  <2>3. QED BY <1>5, <1>10, <2>1, <2>2 DEF WholeHeaders
<1>13. QED BY <1>3, <1>7, <1>11, <1>12

LEMMA ReadDataAligned ==
    ASSUME Fit, TransferInv, TypeOK', AlignedInv, ReadData
    PROVE  AlignedInv'
<1> DEFINE taken == Lesser(size - count, Len(net))
<1>1. /\ rpc = "data" /\ Len(net) \in Nat /\ size \in Nat /\ count \in Nat /\ count < size
      /\ Receiver = "WriteTo" /\ TypeOK
  <2>1. TypeOK /\ rpc = "data" /\ Receiver = "WriteTo"
    BY DEF ReadData, Fit, TransferInv
  <2>2. Len(net) \in Nat
    BY <2>1, SequenceTypes
  <2>3. size \in Nat /\ count \in Nat /\ count < size
    BY <2>1 DEF TypeOK
  <2>4. QED BY <2>1, <2>2, <2>3
<1>2. PICK n \in Nat : n = taken
  BY <1>1 DEF Lesser
<1>3. net' = Leave(n) /\ count' = count + n /\ size' = size /\ UNCHANGED sendVars /\ finished' = finished
  BY <1>1, <1>2 DEF ReadData, sendVars
<1>4. rpc' # "garbled"
  BY ReadDataKeeps
<1>5. SUFFICES ASSUME finished # "cut"
               PROVE  /\ Whole(size' - count')
                      /\ Whole(Len(net')) /\ Whole(Len(out')) /\ Whole(Len(next')) /\ WholeHeaders(Pending')
  BY <1>3, <1>4 DEF AlignedInv, InStepUnlessCut, WholeHeaders, Pending
<1>6. /\ Whole(Len(net)) /\ Whole(Len(out)) /\ Whole(Len(next)) /\ WholeHeaders(Pending)
      /\ Whole(size - count)
  BY <1>1, <1>5 DEF AlignedInv
<1>7. n <= Len(net) /\ n <= size - count /\ Whole(n) /\ size - count \in Nat
  BY <1>1, <1>2, <1>6 DEF Lesser
<1> HIDE DEF taken
<1>8. /\ Whole(Len(net')) /\ WholeHeaders(Pending') /\ Whole(Len(out')) /\ Whole(Len(next'))
  BY <1>1, <1>3, <1>6, <1>7, TakingAligned
<1>9. Whole(size' - count')
  <2>1. size' - count' = (size - count) - n
    BY <1>1, <1>3
  <2>2. Whole((size - count) - n)
    BY <1>6, <1>7, WholeDifference
  <2>3. QED BY <2>1, <2>2
<1>10. QED BY <1>8, <1>9

LEMMA AlignedStep ==
    ASSUME Fit, Aligned, TransferInv, AlignedInv, [Next]_vars
    PROVE  AlignedInv'
<1>0. TypeOK /\ TypeOK' /\ SenderInv
  BY TransferStep DEF TransferInv
<1>a. ASSUME UNCHANGED <<net, out, next>>, rpc' \in {rpc, "stopped", "header"}, UNCHANGED <<size, count>>,
             finished' = "cut" <=> finished = "cut"
      PROVE  AlignedInv'
  <2>1. Pending' = Pending
    BY <1>a DEF Pending
  <2>2. rpc' = "garbled" => rpc = "garbled"
    BY <1>a
  <2>3. rpc' = "data" => rpc = "data"
    BY <1>a
  <2>4. WholeHeaders(Pending) => WholeHeaders(Pending')
    BY <2>1
  <2>5. QED BY <1>a, <2>2, <2>3, <2>4 DEF AlignedInv, InStepUnlessCut, WholeHeaders, Pending
<1>1. CASE StartMessage \/ CloseStream \/ UNCHANGED vars
  <2>1. /\ UNCHANGED <<net, out, next, rpc, size, count>>
        /\ finished' = "cut" <=> finished = "cut"
    BY <1>1 DEF StartMessage, CloseStream, vars, recvVars, sendVars
  <2>2. QED BY <1>a, <2>1
<1>2. CASE Cut
  BY <1>2 DEF Cut, AlignedInv, InStepUnlessCut
<1>3. CASE Push
  BY <1>0, <1>3, PushAligned
<1>4. ASSUME NEW q \in Reads, (q[2] = "nil" /\ ReadChunk(q[1])) \/ (q[2] # "nil" /\ ReadError(q[1], q[2]))
      PROVE  AlignedInv'
  <2>1. q[1] \in Nat /\ Whole(q[1])
    BY Parameters DEF Aligned
  <2>2. /\ UNCHANGED <<net, finished, rpc, size, count>> /\ spc = "read"
    BY <1>4 DEF ReadChunk, ReadError, recvVars
  <2>3. out = <<>> /\ next = <<>>
    BY <1>0, <2>2 DEF SenderInv
  <2>4. out' = Header(q[1]) /\ next' = Yield(q[1])
    <3>1. CASE q[2] = "nil" /\ ReadChunk(q[1])
      BY <3>1 DEF ReadChunk
    <3>2. CASE q[2] # "nil" /\ ReadError(q[1], q[2])
      <4>1. q[1] = 0 /\ q[2] = "EOF"
        BY <3>2, ReadsAreFit
      <4>2. Yield(0) = <<>>
        BY DEF Yield
      <4>3. QED BY <2>3, <3>2, <4>1, <4>2 DEF ReadError
    <3>3. QED BY <1>4, <3>1, <3>2
  <2>5. QED BY <1>0, <2>1, <2>2, <2>3, <2>4, ChunkAligned
<1>5. CASE ReadHeader
  BY <1>0, <1>5, ReadHeaderAligned
<1>6. CASE ReadData
  BY <1>0, <1>6, ReadDataAligned
<1>7. CASE ReadEnd \/ ReadCut \/ StreamClosed
  <2>1. UNCHANGED <<net, out, next, size, count, finished>> /\ rpc' = "stopped"
    BY <1>7 DEF ReadEnd, ReadCut, StreamClosed, EndMessage, Fit, sendVars
  <2>2. QED BY <1>a, <2>1
<1>8. ASSUME NEW w \in Writes, NEW q \in 0..size, SinkWrite(w, q)
      PROVE  AlignedInv'
  <2>1. UNCHANGED <<net, out, next, size, count, finished>>
    BY <1>8 DEF SinkWrite, sendVars
  <2>2. rpc' = "header"
    BY <1>0, <1>8, SinkKeeps
  <2>3. QED BY <1>a, <2>1, <2>2
<1>9. QED BY <1>1, <1>2, <1>3, <1>4, <1>5, <1>6, <1>7, <1>8 DEF Next, SendStep, RecvStep

\* When the window and every chunk are a multiple of the header, as the window of
\* 256 KiB and full buffers of 1 KiB are, readHeader gets a header in one Read, so
\* WriteTo never falls out of step with the sender, unless the session is cut
\* (stream.go:111-118).
THEOREM WholeHeadersKeepStep == Fit /\ Aligned => (Spec => []InStepUnlessCut)
<1> SUFFICES ASSUME Fit, Aligned
             PROVE  Spec => []InStepUnlessCut
  OBVIOUS
<1>1. Init => TransferInv
  BY TransferInit
<1>2. TransferInv /\ [Next]_vars => TransferInv'
  BY TransferStep
<1>3. Init => AlignedInv
  <2> SUFFICES ASSUME Init
               PROVE  AlignedInv
    OBVIOUS
  <2>1. net = <<>> /\ out = <<>> /\ next = <<>> /\ rpc = "header" /\ Len(<<>>) = 0
    BY DEF Init
  <2>2. Len(Pending) = 0
    <3>1. TypeOK
      BY TransferInit DEF TransferInv
    <3>2. QED BY <2>1, <3>1, PendingBytes
  <2>3. WholeHeaders(Pending)
    BY <2>2 DEF WholeHeaders
  <2>4. QED BY <2>1, <2>3, WholeSizes DEF AlignedInv, InStepUnlessCut
<1>4. TransferInv /\ AlignedInv /\ [Next]_vars => AlignedInv'
  BY AlignedStep
<1>5. AlignedInv => InStepUnlessCut
  BY DEF AlignedInv
<1>6. QED BY <1>1, <1>2, <1>3, <1>4, <1>5, PTL DEF Spec
=============================================================================
