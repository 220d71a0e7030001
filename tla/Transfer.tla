------------------------------ MODULE Transfer ------------------------------
(***************************************************************************)
(* One direction of a named stream (stream.go): one side sends messages    *)
(* with ReadFrom or with a Writer, the other side reads them with WriteTo  *)
(* or with a Reader. Each chunk travels as a header of HdrLen bytes, which *)
(* holds its length, and its bytes; a header that holds zero ends the      *)
(* message.                                                                *)
(*                                                                         *)
(* In between is a yamux stream: a queue of at most Window bytes. A Write  *)
(* puts in as much as there is room for and waits for more; a Read takes   *)
(* what there is, up to what it asked for.                                 *)
(***************************************************************************)
EXTENDS Naturals, Sequences, SequencesExt

CONSTANTS
    HdrLen,     \* hdrLen
    BufSize,    \* BufSize: the largest chunk of ReadFrom, the buffer of WriteTo
    Window,     \* the yamux send window
    Reads,      \* what the source may return from a Read, <<length, error>>; a
                \* Writer's Write(p) is <<Len(p), "nil">> and its Close <<0, "EOF">>
    Receiver,   \* "WriteTo" or "Reader"
    Writes,     \* what a Write to WriteTo's sink may do: "full", "fails" with an
                \* error, or "short", which takes less than it is given without one
    Cuts,       \* may the session be closed under the stream?
    MaxMsgs,    \* bound: messages sent
    MaxChunks   \* bound: chunks of one message

ASSUME TransferAssumption ==
    /\ HdrLen \in Nat \ {0} /\ BufSize \in Nat \ {0} /\ Window \in Nat \ {0}
    /\ Reads \subseteq Nat \X {"nil", "EOF", "err"}
    /\ Receiver \in {"WriteTo", "Reader"} /\ Writes \subseteq {"full", "fails", "short"}
    /\ Cuts \in BOOLEAN
    /\ MaxMsgs \in Nat /\ MaxChunks \in Nat

VARIABLES
    spc,        \* where the sender is
    out,        \* what is left of the Write it is in
    next,       \* the Write that follows
    source,     \* what the source has returned of the current message
    chunks,     \* how many chunks of it
    sent,       \* the messages that the source has ended
    net,        \* the bytes under way
    finished,   \* "closed" by the sender, or "cut" with the session
    rpc,        \* where the receiver is
    size,       \* the length of the chunk it is reading
    buf,        \* the size bytes that the chunk goes to
    count,      \* how many bytes it has counted (n in read)
    wt,         \* how many bytes of the chunk the sink has been counted for
    got,        \* what it has of the current message; of WriteTo, its sink
    delivered,  \* the messages that the receiver took for ended
    broken      \* the numbers of those within which a WriteTo failed on its sink

sendVars == <<spc, out, next, source, chunks, sent, finished>>
recvVars == <<rpc, size, buf, count, wt, got, delivered, broken>>
vars == <<sendVars, net, recvVars>>

\* Bytes: of a header, and of a message, by number.
HdrByte(n, i) == [kind |-> "hdr", chunk |-> n, at |-> i]
DataByte(m, i) == [kind |-> "data", chunk |-> m, at |-> i]

Header(n) == [i \in 1..HdrLen |-> HdrByte(n, i)]

\* The next n bytes that the source yields.
Yield(n) == [i \in 1..n |-> DataByte(Len(sent) + 1, Len(source) + i)]

Lesser(a, b) == IF a <= b THEN a ELSE b
Take(n) == SubSeq(net, 1, n)
Leave(n) == SubSeq(net, n + 1, Len(net))

\* What a byte of a new buffer holds.
Zero == [kind |-> "zero", chunk |-> 0, at |-> 0]

Bytes == [kind : {"hdr", "data", "zero"}, chunk : Nat, at : Nat]

TypeOK ==
    /\ spc \in {"idle", "read", "write", "end"}
    /\ out \in Seq(Bytes) /\ next \in Seq(Bytes) /\ net \in Seq(Bytes)
    /\ source \in Seq(Bytes) /\ chunks \in 0..MaxChunks
    /\ sent \in Seq(Seq(Bytes)) /\ finished \in {"no", "closed", "cut"}
    /\ rpc \in {"header", "data", "sink", "garbled", "panicked", "stopped"}
    /\ size \in Nat /\ count \in Nat /\ wt \in Nat /\ broken \subseteq Nat
    /\ buf \in Seq(Bytes) /\ got \in Seq(Bytes)
    /\ delivered \in Seq(Seq(Bytes))
    /\ Len(net) <= Window
    /\ rpc = "data" => count < size /\ Len(buf) = size
    /\ rpc = "sink" => wt < size /\ Len(buf) = size

Init ==
    /\ spc = "idle" /\ out = <<>> /\ next = <<>> /\ source = <<>> /\ chunks = 0
    /\ sent = <<>> /\ net = <<>> /\ finished = "no"
    /\ rpc = "header" /\ size = 0 /\ buf = <<>> /\ count = 0 /\ wt = 0
    /\ got = <<>> /\ delivered = <<>> /\ broken = {}

-----------------------------------------------------------------------------
(* The sender.                                                             *)

\* A call of ReadFrom, or the first Write of a message.
StartMessage ==
    /\ spc = "idle" /\ finished = "no" /\ Len(sent) < MaxMsgs
    /\ spc' = "read" /\ source' = <<>> /\ chunks' = 0
    /\ UNCHANGED <<out, next, sent, finished, net, recvVars>>

\* As a mutant: the bytes go before their header.
ReadChunkSwapped(n) ==
    /\ spc = "read" /\ chunks < MaxChunks
    /\ spc' = "write" /\ out' = Yield(n) /\ next' = Header(n)
    /\ source' = source \o Yield(n)
    /\ chunks' = chunks + 1
    /\ UNCHANGED <<sent, finished, net, recvVars>>

\* The source returns n bytes and no error: a header, and the bytes if any.
ReadChunk(n) ==
    /\ spc = "read" /\ chunks < MaxChunks
    /\ spc' = "write" /\ out' = Header(n) /\ next' = Yield(n)
    /\ source' = source \o Yield(n)
    /\ chunks' = chunks + 1
    /\ UNCHANGED <<sent, finished, net, recvVars>>

\* As a mutant: no EOF frame.
ReadErrorSilent(n, e) ==
    /\ spc = "read"
    /\ source' = source \o Yield(n)
    /\ sent' = IF e = "EOF" THEN Append(sent, source') ELSE sent
    /\ spc' = "idle"
    /\ UNCHANGED <<out, next, chunks, finished, net, recvVars>>

\* The source returns n bytes and an error. At EOF, or when there are no bytes,
\* an EOF frame ends the message; the bytes that came with the error are not
\* sent.
ReadError(n, e) ==
    /\ spc = "read"
    /\ source' = source \o Yield(n)
    /\ sent' = IF e = "EOF" THEN Append(sent, source') ELSE sent
    /\ IF e = "EOF" \/ n = 0 THEN spc' = "end" /\ out' = Header(0)
       ELSE spc' = "idle" /\ UNCHANGED out
    /\ UNCHANGED <<next, chunks, finished, net, recvVars>>

\* conn.Write: what fits goes; when all is gone, the next Write or Read.
Push ==
    LET n == Lesser(Window - Len(net), Len(out))
        left == SubSeq(out, n + 1, Len(out)) IN
    /\ spc \in {"write", "end"} /\ n > 0
    /\ net' = net \o SubSeq(out, 1, n)
    /\ IF left # <<>> THEN out' = left /\ UNCHANGED <<next, spc>>
       ELSE /\ out' = next /\ next' = <<>>
            /\ spc' = IF next # <<>> THEN spc ELSE IF spc = "end" THEN "idle" ELSE "read"
    /\ UNCHANGED <<source, chunks, sent, finished, recvVars>>

\* The sender closes the stream between two messages, or after a failed one.
CloseStream ==
    /\ spc = "idle" /\ finished = "no"
    /\ finished' = "closed"
    /\ UNCHANGED <<spc, out, next, source, chunks, sent, net, recvVars>>

\* The session is closed under the stream: of what is under way, the end is lost.
Cut ==
    /\ Cuts /\ finished = "no"
    /\ finished' = "cut" /\ spc' = "idle" /\ out' = <<>> /\ next' = <<>>
    /\ \E n \in 0..Len(net) : net' = Take(n)
    /\ UNCHANGED <<source, chunks, sent, recvVars>>

-----------------------------------------------------------------------------
(* The receiver.                                                           *)

EndMessage ==
    /\ delivered' = Append(delivered, got)
    /\ got' = <<>>
    /\ UNCHANGED <<size, buf, count, wt, broken>>

\* As a mutant: the count of the last chunk stays.
ReadHeaderKeepsCount ==
    LET n == Lesser(HdrLen, Len(net)) IN
    /\ rpc = "header" /\ n > 0
    /\ net' = Leave(n)
    /\ IF Take(n) = Header(0)
       THEN rpc' = "header" /\ EndMessage
       ELSE /\ rpc' = "data" /\ size' = net[1].chunk
            /\ buf' = [i \in 1..net[1].chunk |-> Zero]
            /\ UNCHANGED <<count, wt, got, delivered, broken>>
    /\ UNCHANGED sendVars

\* readHeader: one Read. Less than a whole header is an error that WriteTo does
\* not look at and Reader.Read drops: the bytes are gone, and what follows is no
\* longer read from a header on ("garbled", where the model stops). WriteTo has
\* a buffer of BufSize and slices it to the chunk's length.
ReadHeader ==
    LET n == Lesser(HdrLen, Len(net)) IN
    /\ rpc = "header" /\ n > 0
    /\ net' = Leave(n)
    /\ IF Take(n) = Header(0)
       THEN rpc' = "header" /\ EndMessage
       ELSE /\ rpc' = IF Take(n) # Header(net[1].chunk) THEN "garbled"
                      ELSE IF Receiver = "WriteTo" /\ net[1].chunk > BufSize THEN "panicked"
                      ELSE "data"
            /\ size' = net[1].chunk /\ count' = 0
            /\ buf' = [i \in 1..net[1].chunk |-> Zero]
            /\ UNCHANGED <<wt, got, delivered, broken>>
    /\ UNCHANGED sendVars

\* The buffer with s after its first n bytes.
Put(n, s) ==
    [i \in 1..size |-> IF i \in n + 1..n + Len(s) THEN s[i - n] ELSE buf[i]]

\* A chunk is complete: WriteTo turns to its sink, a Reader has the bytes.
ChunkRead ==
    IF Receiver = "WriteTo" THEN rpc' = "sink" /\ wt' = 0 /\ UNCHANGED got
    ELSE rpc' = "header" /\ got' = got \o buf' /\ UNCHANGED wt

\* As a mutant: one Read for a chunk, whatever it returns.
ReadDataOnce ==
    LET n == Lesser(size, Len(net)) IN
    /\ rpc = "data" /\ n > 0
    /\ net' = Leave(n) /\ count' = n /\ buf' = Put(0, Take(n))
    /\ ChunkRead
    /\ UNCHANGED <<sendVars, size, delivered, broken>>

\* stream.read asks for what is missing and puts it after what is there;
\* reader.read asks for the whole chunk and puts it at the start. A count that
\* has gone past the chunk is an error, and the chunk is dropped.
ReadData ==
    LET n == Lesser(IF Receiver = "WriteTo" THEN size - count ELSE size, Len(net)) IN
    /\ rpc = "data" /\ n > 0
    /\ net' = Leave(n) /\ count' = count + n
    /\ buf' = Put(IF Receiver = "WriteTo" THEN count ELSE 0, Take(n))
    /\ \/ count' < size /\ UNCHANGED <<rpc, wt, got>>
       \/ count' = size /\ ChunkRead
       \/ count' > size /\ rpc' = "garbled" /\ UNCHANGED <<wt, got>>
    /\ UNCHANGED <<sendVars, size, delivered, broken>>

\* WriteTo returns with an error. What it has given to this sink is the user's to
\* sort out; the next WriteTo finds what follows in the stream, and takes it for a
\* message.
SinkFailed ==
    /\ rpc' = "header" /\ wt' = 0 /\ got' = <<>>
    /\ broken' = broken \cup {Len(delivered) + 1}

\* One w.Write(p), which takes k bytes: the whole chunk again each time, until as
\* many bytes are counted as it has. An error ends it; so does a count beyond that,
\* after short writes (ErrShortWrite).
SinkWrite(w, k) ==
    /\ rpc = "sink"
    /\ (w = "full" => k = size) /\ (w = "short" => k < size)
    /\ IF w = "fails" \/ wt + k > size THEN SinkFailed
       ELSE /\ got' = got \o SubSeq(buf, 1, k)
            /\ wt' = wt + k
            /\ rpc' = IF wt + k = size THEN "header" ELSE "sink"
            /\ UNCHANGED broken
    /\ UNCHANGED <<sendVars, net, size, buf, count, delivered>>

\* The stream has ended where a header should be: this is taken for the end of
\* the message, if one has begun.
ReadEnd ==
    /\ rpc = "header" /\ net = <<>> /\ finished # "no"
    /\ rpc' = "stopped"
    /\ IF got # <<>> THEN EndMessage ELSE UNCHANGED <<size, buf, count, wt, got, delivered, broken>>
    /\ UNCHANGED <<sendVars, net>>

\* The stream has ended within a chunk: WriteTo returns the error; reader.fill
\* returns it to Read, which drops it and the chunk.
ReadCut ==
    /\ rpc = "data" /\ net = <<>> /\ finished # "no"
    /\ rpc' = IF Receiver = "WriteTo" THEN "stopped" ELSE "header"
    /\ UNCHANGED <<sendVars, net, size, buf, count, wt, got, delivered, broken>>

\* Between two chunks the receiver looks whether the session has closed the stream,
\* and returns ErrStreamClosed.
StreamClosed ==
    /\ rpc = "header" /\ finished = "cut"
    /\ rpc' = "stopped"
    /\ UNCHANGED <<sendVars, net, size, buf, count, wt, got, delivered, broken>>

-----------------------------------------------------------------------------

SendStep ==
    \/ Push
    \/ \E r \in Reads : (r[2] = "nil" /\ ReadChunk(r[1])) \/ (r[2] # "nil" /\ ReadError(r[1], r[2]))

RecvStep ==
    \/ ReadHeader \/ ReadEnd \/ ReadData \/ ReadCut \/ StreamClosed
    \/ \E w \in Writes, k \in 0..size : SinkWrite(w, k)

Next == StartMessage \/ CloseStream \/ Cut \/ SendStep \/ RecvStep

Spec == Init /\ [][Next]_vars

\* Both sides go on with the message they are in, and the receiver reads again
\* when it has one; the sender need not send.
FairSpec == Spec /\ WF_vars(SendStep) /\ WF_vars(RecvStep)

-----------------------------------------------------------------------------

\* What a source may yield: a message's bytes are told apart by their numbers.
Messages ==
    {[i \in 1..n |-> DataByte(m, i)] : m \in 1..MaxMsgs, n \in 0..(MaxChunks + 1) * BufSize}

\* Of a message in which a sink failed nothing is said but that it counts as one.
Kept ==
    [i \in 1..Len(delivered) |->
        IF i \notin broken THEN delivered[i] ELSE IF i <= Len(sent) THEN sent[i] ELSE <<>>]

Channel == INSTANCE MessageChannel WITH
    Message <- Messages, delivered <- Kept, ended <- rpc = "stopped"

\* Refinement: what is sent is delivered, whole, once each and in order; only
\* the last message, when the stream is closed within it, may be cut short, and
\* only a message in which WriteTo returned its sink's error is lost to the user:
\* the failure of a sink leaves the messages before and after it alone.
\* This is what ReadFrom and WriteTo do together as long as no header is split
\* over two reads (stream.go:156-241) and sinks keep the contract of io.Writer.
IsChannel == Channel!Spec

\* Every message that the source has ended reaches the receiver, unless the
\* session is cut: the sender blocked on a full window and the receiver waiting
\* for a whole chunk do not wait for each other.
AllArrive ==
    \A n \in 1..MaxMsgs : (Len(sent) >= n) ~> (Len(delivered) >= n \/ finished = "cut")

-----------------------------------------------------------------------------
(* What the documentation says, and the code does not do for every source  *)
(* and every receiver.                                                     *)

\* Every message that the receiver has read is the one that was sent
\* (README.md:166-217, stream.go:19-21).
DeliveredIntact ==
    \A i \in 1..Len(delivered) : i <= Len(sent) => delivered[i] = sent[i]

\* The receiver always reads from a header on (stream.go:111-118).
InStep == rpc # "garbled"
=============================================================================
