----------------------------- MODULE NamedStream -----------------------------
(***************************************************************************)
(* One named stream from its opening to its end (session.go, frame.go,     *)
(* stream.go): over one hop, when the wire it reaches has the handler; over*)
(* two, when that wire is a hub, which opens a stream of the same name to  *)
(* the session that provides it and copies the bytes both ways.            *)
(*                                                                         *)
(* A hop is a yamux stream: a queue of bounded length in each direction,   *)
(* ends that are closed one by one, and a connection that may be lost, with*)
(* the tail of what is under way. Frames and payload share the queues: a   *)
(* frame is its header and its body, and Decode returns a frame whose body *)
(* is missing, without an error, when the connection is lost in between.   *)
(***************************************************************************)
EXTENDS Naturals, Sequences, FiniteSets

CONSTANTS
    MaxBytes,  \* bound: bytes written in each direction
    BufSize,   \* the most bytes that one Read of pipe returns
    Window     \* the most that a hop holds in one direction

ASSUME NamedStreamAssumption ==
    /\ MaxBytes \in [{"fwd", "back"} -> Nat]
    /\ BufSize \in Nat \ {0}
    /\ Window \in Nat \ {0, 1}

VARIABLES
    opener,   \* where Session.OpenStream is: the user's (near), the hub's (far)
    server,   \* where dispatchStream is, at the far end of each hop
    verdict,  \* what readFrame's checks of token and name said
    line,     \* what is under way on each hop, in each direction
    shut,     \* the ends of each hop on which conn.Close was called
    lost,     \* the hops whose connection is closed or lost
    pipe,     \* where the hub's two copying goroutines are
    hold,     \* what each has read and not yet written
    counted,  \* the hops whose session at the hub counts the stream
    closing,  \* the hops whose session at the hub is being closed
    expired,  \* has the close timeout of the hub's sessions passed?
    wrote,    \* how many bytes were written: "fwd" by the opener, "back" by the handler
    got       \* what was read at the other end

opening == <<opener, server, verdict>>
ends    == <<shut, lost>>
pipes   == <<pipe, hold>>
hub     == <<counted, closing, expired>>
data    == <<wrote, got>>
vars    == <<opening, line, ends, pipes, hub, data>>

Hops == {"near", "far"}
Dirs == {"fwd", "back"}
Sides == {"out", "in"}  \* the end that opened the hop, and the other

ReaderEnd(d) == IF d = "fwd" THEN "in" ELSE "out"
WriterEnd(d) == IF d = "fwd" THEN "out" ELSE "in"

\* Where a direction enters the hub and where it leaves it.
Source(d) == IF d = "fwd" THEN "near" ELSE "far"
Target(d) == IF d = "fwd" THEN "far" ELSE "near"

Byte(n)  == [kind |-> "byte", part |-> n]
Frame(t) == << [kind |-> t, part |-> 0], [kind |-> t, part |-> 1] >>

FrameKinds == {"perm", "recv", "err"}
Items == [kind : FrameKinds, part : {0, 1}] \cup [kind : {"byte"}, part : Nat]

OpenerStates == {"idle", "asking", "opened", "refused", "failed", "ended"}

\* "reading": in readFrame; "checked": the frame is decoded and judged;
\* "lookup": answered with a recv frame; "dialing" and "piping": in serveHub;
\* "handling": in the handler; "over": dispatchStream has returned.
ServerStates == {"idle", "reading", "checked", "lookup", "dialing", "piping", "handling", "over"}

\* The hub copies once it has its far hop, counts that hop for as long as it
\* copies, and has at most one buffer of each direction in its hands.
HubOK ==
    /\ "far" \in counted => server["near"] = "piping"
    /\ \A d \in Dirs :
          /\ pipe[d] # "off" => server["near"] \in {"piping", "over"}
          /\ Len(hold[d]) <= BufSize

\* Types, and what the hub keeps of a stream that it pipes.
TypeOK ==
    /\ opener \in [Hops -> OpenerStates]
    /\ server \in [Hops -> ServerStates]
    /\ verdict \in [Hops -> {"none", "accepted", "refused"}]
    /\ line \in [Hops -> [Dirs -> Seq(Items)]]
    /\ shut \in [Hops -> SUBSET Sides] /\ lost \subseteq Hops
    /\ pipe \in [Dirs -> {"off", "reading", "writing", "done"}]
    /\ hold \in [Dirs -> Seq(Items)]
    /\ counted \subseteq Hops /\ closing \subseteq Hops /\ expired \in BOOLEAN
    /\ wrote \in [Dirs -> Nat] /\ got \in [Dirs -> Seq(Items)]
    /\ HubOK

Init ==
    /\ opener = [h \in Hops |-> "idle"] /\ server = [h \in Hops |-> "idle"]
    /\ verdict = [h \in Hops |-> "none"]
    /\ line = [h \in Hops |-> [d \in Dirs |-> <<>>]]
    /\ shut = [h \in Hops |-> {}] /\ lost = {}
    /\ pipe = [d \in Dirs |-> "off"] /\ hold = [d \in Dirs |-> <<>>]
    /\ counted = {} /\ closing = {} /\ expired = FALSE
    /\ wrote = [d \in Dirs |-> 0] /\ got = [d \in Dirs |-> <<>>]

-----------------------------------------------------------------------------
(* A yamux stream, as the code uses it.                                    *)

Room(h, d) == Window - Len(line[h][d])

CanWrite(h, d) == h \notin lost /\ WriterEnd(d) \notin shut[h]

\* Read returns io.EOF: nothing is left and nothing will come, or this end is
\* closed (then what is still under way may come or not).
AtEnd(h, d) ==
    \/ line[h][d] = <<>> /\ (h \in lost \/ shut[h] # {})
    \/ ReaderEnd(d) \in shut[h]

Put(h, d, items) == line' = [line EXCEPT ![h][d] = @ \o items]
Drop(h, d, n)    == line' = [line EXCEPT ![h][d] = SubSeq(@, n + 1, Len(@))]

CloseEnd(h, side) == shut' = [shut EXCEPT ![h] = @ \cup {side}]

\* The connection of a hop ends, with any tail of what is under way.
LoseTail(h) ==
    /\ lost' = lost \cup {h}
    /\ \E f \in 0..Len(line[h]["fwd"]), b \in 0..Len(line[h]["back"]) :
          line' = [line EXCEPT ![h] = [d \in Dirs |->
                      SubSeq(@[d], 1, IF d = "fwd" THEN f ELSE b)]]

-----------------------------------------------------------------------------
(* Frames: what Decode returns.                                            *)

Whole(h, d) == Len(line[h][d]) >= 2
Torn(h, d) == Len(line[h][d]) = 1 /\ h \in lost
Missing(h, d) == line[h][d] = <<>> /\ AtEnd(h, d)

Decoded(h, d) == (Whole(h, d) \/ Torn(h, d)) /\ Drop(h, d, 2)

FrameType(h, d) == Head(line[h][d]).kind

-----------------------------------------------------------------------------
(* Opening a hop: OpenStream and sendFrame.                                *)

Opener(h, state) == opener' = [opener EXCEPT ![h] = state]
Server(h, state) == server' = [server EXCEPT ![h] = state]

\* OpenStream asks IsClosed, opens a yamux stream and sends the perm frame. The
\* far hop is opened by serveHub.
Ask(h) ==
    /\ opener[h] = "idle" /\ (h = "far" => server["near"] = "dialing")
    /\ IF h \in lost \/ (h = "far" /\ h \in closing)
       THEN Opener(h, "failed") /\ UNCHANGED line
       ELSE Opener(h, "asking") /\ Put(h, "fwd", Frame("perm"))
    /\ UNCHANGED <<server, verdict, ends, pipes, hub, data>>

\* As a mutant: sendFrame does not look for an err frame, whose name is right.
TakeAnswerUnchecked(h) ==
    /\ opener[h] = "asking" /\ Decoded(h, "back")
    /\ Opener(h, "opened") /\ UNCHANGED shut
    /\ UNCHANGED <<server, verdict, lost, pipes, hub, data>>

\* The answer: an err frame is an error; a frame of type recv is accepted
\* whatever its name reads, so a torn one is as well.
TakeAnswer(h) ==
    /\ opener[h] = "asking" /\ Decoded(h, "back")
    /\ IF FrameType(h, "back") = "err"
       THEN Opener(h, "refused") /\ CloseEnd(h, "out")
       ELSE Opener(h, "opened") /\ UNCHANGED shut
    /\ UNCHANGED <<server, verdict, lost, pipes, hub, data>>

NoAnswer(h) ==
    /\ opener[h] = "asking" /\ Missing(h, "back")
    /\ Opener(h, "failed") /\ CloseEnd(h, "out")
    /\ UNCHANGED <<server, verdict, line, lost, pipes, hub, data>>

-----------------------------------------------------------------------------
(* Serving a hop: dispatchStream, readFrame and recvFrame.                 *)

\* dispatchStream's deferred conn.Close.
Return(h) == Server(h, "over") /\ CloseEnd(h, "in")

\* The accept loop closes a stream that comes when its session or its wire is
\* closed already.
Accept(h) ==
    /\ opener[h] = "asking" /\ server[h] = "idle" /\ h \notin lost
    /\ \/ Server(h, "reading") /\ UNCHANGED shut
       \/ Return(h)
    /\ UNCHANGED <<opener, verdict, line, lost, pipes, hub, data>>

\* readFrame decodes the frame and asks for the token and the name in it.
Check(h) ==
    /\ server[h] = "reading" /\ Decoded(h, "fwd")
    /\ \E v \in {"accepted", "refused"} : verdict' = [verdict EXCEPT ![h] = v]
    /\ Server(h, "checked")
    /\ UNCHANGED <<opener, ends, pipes, hub, data>>

\* recvFrame answers: a recv frame, or an err frame and out.
Answer(h) ==
    /\ server[h] = "checked" /\ CanWrite(h, "back")
    /\ IF verdict[h] = "accepted"
       THEN Put(h, "back", Frame("recv")) /\ Server(h, "lookup") /\ UNCHANGED shut
       ELSE Put(h, "back", Frame("err")) /\ Return(h)
    /\ UNCHANGED <<opener, verdict, lost, pipes, hub, data>>

\* As a mutant: the stream is left open when its name is not found any more.
GiveUpSilently(h) ==
    /\ \/ server[h] = "reading" /\ Missing(h, "fwd")
       \/ server[h] = "checked" /\ ~CanWrite(h, "back")
       \/ h = "near" /\ server[h] = "lookup"
       \/ h = "near" /\ server[h] = "dialing" /\ opener["far"] \in {"refused", "failed"}
    /\ Server(h, "over")
    /\ UNCHANGED <<opener, verdict, line, shut, lost, pipes, hub, data>>

\* No frame, no way to answer; or, at the hub, no session or handler any more,
\* or a far hop that was not opened.
GiveUp(h) ==
    /\ \/ server[h] = "reading" /\ Missing(h, "fwd")
       \/ server[h] = "checked" /\ ~CanWrite(h, "back")
       \/ h = "near" /\ server[h] = "lookup"
       \/ h = "near" /\ server[h] = "dialing" /\ opener["far"] \in {"refused", "failed"}
    /\ Return(h)
    /\ UNCHANGED <<opener, verdict, line, lost, pipes, hub, data>>

\* serve: the handler is found, the stream registered, the handler called.
Serve(h) ==
    /\ server[h] = "lookup"
    /\ Server(h, "handling")
    /\ counted' = IF h = "near" THEN counted \cup {h} ELSE counted
    /\ UNCHANGED <<opener, verdict, line, ends, pipes, closing, expired, data>>

-----------------------------------------------------------------------------
(* The hub: serveHub and its two pipes.                                    *)

\* findSession found a session; its OpenStream is Ask("far").
Relay ==
    /\ server["near"] = "lookup"
    /\ Server("near", "dialing")
    /\ UNCHANGED <<opener, verdict, line, ends, pipes, hub, data>>

\* openStream registers the far hop with its session (which may be closed by
\* now), and the two goroutines start. Nobody registers the near hop.
StartPipes ==
    /\ server["near"] = "dialing" /\ opener["far"] = "opened"
    /\ Server("near", "piping")
    /\ counted' = counted \cup {"far"}
    /\ pipe' = [d \in Dirs |-> "reading"]
    /\ UNCHANGED <<opener, verdict, line, ends, hold, closing, expired, data>>

\* One Read: what there is, up to the size of the buffer.
PipeRead(d) ==
    /\ pipe[d] = "reading"
    /\ \E n \in 1..BufSize :
          /\ n <= Len(line[Source(d)][d])
          /\ hold' = [hold EXCEPT ![d] = SubSeq(line[Source(d)][d], 1, n)]
          /\ Drop(Source(d), d, n)
    /\ pipe' = [pipe EXCEPT ![d] = "writing"]
    /\ UNCHANGED <<opening, ends, hub, data>>

\* As a mutant: what a Write did not take is forgotten.
PipeWriteShort(d) ==
    /\ pipe[d] = "writing" /\ CanWrite(Target(d), d) /\ Room(Target(d), d) > 0
    /\ LET k == IF Room(Target(d), d) < Len(hold[d]) THEN Room(Target(d), d) ELSE Len(hold[d])
       IN  Put(Target(d), d, SubSeq(hold[d], 1, k))
    /\ hold' = [hold EXCEPT ![d] = <<>>]
    /\ pipe' = [pipe EXCEPT ![d] = "reading"]
    /\ UNCHANGED <<opening, ends, hub, data>>

\* Write puts what the window has room for, and goes on until all is written.
PipeWrite(d) ==
    /\ pipe[d] = "writing" /\ CanWrite(Target(d), d) /\ Room(Target(d), d) > 0
    /\ LET k == IF Room(Target(d), d) < Len(hold[d]) THEN Room(Target(d), d) ELSE Len(hold[d])
       IN  /\ Put(Target(d), d, SubSeq(hold[d], 1, k))
           /\ hold' = [hold EXCEPT ![d] = SubSeq(@, k + 1, Len(@))]
           /\ pipe' = [pipe EXCEPT ![d] = IF k = Len(hold[d]) THEN "reading" ELSE @]
    /\ UNCHANGED <<opening, ends, hub, data>>

\* The source has ended, or the target cannot be written.
PipeEnd(d) ==
    /\ \/ pipe[d] = "reading" /\ AtEnd(Source(d), d)
       \/ pipe[d] = "writing" /\ ~CanWrite(Target(d), d)
    /\ pipe' = [pipe EXCEPT ![d] = "done"]
    /\ hold' = [hold EXCEPT ![d] = <<>>]
    /\ UNCHANGED <<opening, line, ends, hub, data>>

\* As a mutant: the far hop is counted no more, and not closed.
ServeHubReturnLeaks ==
    /\ server["near"] = "piping" /\ pipe["fwd"] = "done"
    /\ Return("near")
    /\ counted' = counted \ {"far"}
    /\ UNCHANGED <<opener, verdict, line, lost, pipes, closing, expired, data>>

\* As a mutant: both hops are closed, and the far one stays counted.
ServeHubReturnCounted ==
    /\ server["near"] = "piping" /\ pipe["fwd"] = "done"
    /\ Server("near", "over")
    /\ shut' = [shut EXCEPT !["near"] = @ \cup {"in"}, !["far"] = @ \cup {"out"}]
    /\ UNCHANGED <<counted, opener, verdict, line, lost, pipes, closing, expired, data>>

\* serveHub returns with its own pipe, the one from the opener: both hops are
\* closed, which ends the other pipe. The end of that other one closes nothing.
ServeHubReturn ==
    /\ server["near"] = "piping" /\ pipe["fwd"] = "done"
    /\ Server("near", "over")
    /\ shut' = [shut EXCEPT !["near"] = @ \cup {"in"}, !["far"] = @ \cup {"out"}]
    /\ counted' = counted \ {"far"}
    /\ UNCHANGED <<opener, verdict, line, lost, pipes, closing, expired, data>>

-----------------------------------------------------------------------------
(* The hub's sessions: Session.Close and its shutdown goroutine.           *)

CloseSession(h) ==
    /\ h \notin closing
    /\ closing' = closing \cup {h}
    /\ UNCHANGED <<opening, line, ends, pipes, counted, expired, data>>

Expire ==
    /\ closing # {} /\ ~expired
    /\ expired' = TRUE
    /\ UNCHANGED <<opening, line, ends, pipes, counted, closing, data>>

\* After the timeout a stream that is still counted is closed by force.
ForceClose(h) ==
    /\ h \in closing \cap counted /\ expired
    /\ counted' = counted \ {h}
    /\ CloseEnd(h, IF h = "near" THEN "in" ELSE "out")
    /\ UNCHANGED <<opening, line, lost, pipes, closing, expired, data>>

\* As a mutant: the connection is closed at once.
CutSessionAtOnce(h) ==
    /\ h \in closing \ lost
    /\ LoseTail(h)
    /\ UNCHANGED <<opening, shut, pipes, hub, data>>

\* No stream is counted: the connection is closed.
CutSession(h) ==
    /\ h \in closing \ (counted \cup lost)
    /\ LoseTail(h)
    /\ UNCHANGED <<opening, shut, pipes, hub, data>>

-----------------------------------------------------------------------------
(* The users at both ends, and the network.                                *)

OpenerWrites ==
    /\ opener["near"] = "opened" /\ CanWrite("near", "fwd")
    /\ wrote["fwd"] < MaxBytes["fwd"] /\ Room("near", "fwd") > 0
    /\ Put("near", "fwd", <<Byte(wrote["fwd"] + 1)>>)
    /\ wrote' = [wrote EXCEPT !["fwd"] = @ + 1]
    /\ UNCHANGED <<opening, ends, pipes, hub, got>>

OpenerReads ==
    /\ opener["near"] = "opened" /\ line["near"]["back"] # <<>>
    /\ got' = [got EXCEPT !["back"] = Append(@, Head(line["near"]["back"]))]
    /\ Drop("near", "back", 1)
    /\ UNCHANGED <<opening, ends, pipes, hub, wrote>>

OpenerCloses ==
    /\ opener["near"] = "opened"
    /\ Opener("near", "ended") /\ CloseEnd("near", "out")
    /\ UNCHANGED <<server, verdict, line, lost, pipes, hub, data>>

HandlerWrites(h) ==
    /\ server[h] = "handling" /\ CanWrite(h, "back")
    /\ wrote["back"] < MaxBytes["back"] /\ Room(h, "back") > 0
    /\ Put(h, "back", <<Byte(wrote["back"] + 1)>>)
    /\ wrote' = [wrote EXCEPT !["back"] = @ + 1]
    /\ UNCHANGED <<opening, ends, pipes, hub, got>>

HandlerReads(h) ==
    /\ server[h] = "handling" /\ line[h]["fwd"] # <<>>
    /\ got' = [got EXCEPT !["fwd"] = Append(@, Head(line[h]["fwd"]))]
    /\ Drop(h, "fwd", 1)
    /\ UNCHANGED <<opening, ends, pipes, hub, wrote>>

\* The handler returns or panics; either way dispatchStream closes the stream,
\* and serve or the forced close uncounts it (after a panic only the latter).
HandlerReturns(h) ==
    /\ server[h] = "handling"
    /\ Return(h)
    /\ counted' \in {counted, counted \ {h}}
    /\ UNCHANGED <<opener, verdict, line, lost, pipes, closing, expired, data>>

Lose(h) ==
    /\ h \notin lost
    /\ LoseTail(h)
    /\ UNCHANGED <<opening, shut, pipes, hub, data>>

-----------------------------------------------------------------------------

\* What the library does by itself on a hop, at the hub, and for its sessions.
HopStep(h) ==
    \/ Accept(h) \/ Check(h) \/ Answer(h) \/ Serve(h) \/ GiveUp(h)
    \/ TakeAnswer(h) \/ NoAnswer(h) \/ (h = "far" /\ Ask(h))
HubStep == Relay \/ StartPipes \/ ServeHubReturn
PipeStep(d) == PipeRead(d) \/ PipeWrite(d) \/ PipeEnd(d)
SessionStep(h) == ForceClose(h) \/ CutSession(h) \/ (h \in lost /\ CloseSession(h))

UserStep ==
    \/ Ask("near") \/ OpenerWrites \/ OpenerReads \/ OpenerCloses
    \/ \E h \in Hops : HandlerWrites(h) \/ HandlerReads(h) \/ HandlerReturns(h)

Next ==
    \/ \E h \in Hops : HopStep(h) \/ SessionStep(h) \/ CloseSession(h) \/ Lose(h)
    \/ HubStep \/ Expire
    \/ \E d \in Dirs : PipeStep(d)
    \/ UserStep

Spec == Init /\ [][Next]_vars

\* The goroutines of the library run; users, peers and the network owe nothing.
FairSpec ==
    Spec /\ \A h \in Hops : WF_vars(HopStep(h)) /\ WF_vars(SessionStep(h))
         /\ WF_vars(HubStep) /\ WF_vars(Expire)
         /\ \A d \in Dirs : WF_vars(PipeStep(d))

-----------------------------------------------------------------------------
(* What a named stream promises.                                           *)

FirstBytes(n) == [i \in 1..n |-> Byte(i)]

\* q is made of frames, if any, and then of the bytes after the n-th up to the
\* m-th.
Carries(q, n, m) ==
    /\ n <= m /\ m - n <= Len(q)
    /\ \A i \in 1..Len(q) :
          IF i <= Len(q) - (m - n) THEN q[i].kind # "byte" ELSE q[i] = Byte(m - Len(q) + i)

\* What each end reads is a beginning of what the other end wrote, in order and
\* without a frame among it, however the reads and writes of the hub's pipes are
\* cut and whenever a hop ends. Until an end is closed or a connection lost,
\* every byte not yet read is under way, in order and behind the frames: on the
\* one hop, in the hands of a pipe, or on the other.
BytesInOrder ==
    \A d \in Dirs :
        /\ got[d] = FirstBytes(Len(got[d]))
        /\ lost = {} /\ (\A h \in Hops : shut[h] = {}) =>
              \E a, b \in 0..wrote[d] :
                 /\ Carries(line[Target(d)][d], Len(got[d]), a)
                 /\ Carries(hold[d], a, b)
                 /\ Carries(line[Source(d)][d], b, wrote[d])

\* OpenStream returns a stream only if the other side accepted the token and the
\* name: a refused opener never takes the answer, whole or torn, for a consent.
OpenedIsAccepted == \A h \in Hops : opener[h] \in {"opened", "ended"} => verdict[h] = "accepted"

\* The hub has nothing more to do with the stream.
HubIsFree ==
    /\ server["near"] = "over" /\ "far" \notin counted
    /\ \A d \in Dirs : pipe[d] \in {"off", "done"}
    /\ opener["far"] \in {"opened", "refused"} => "out" \in shut["far"]

\* An opener that was told its stream is open gets a handler, or a hub that pipes
\* it, or sees the stream end: also when between the answer and the second look
\* at the tables the session that provides the name has gone.
ConfirmedIsServed ==
    opener["near"] = "opened"
        ~> \/ server["near"] \in {"piping", "handling"}
           \/ AtEnd("near", "back") \/ "in" \in shut["near"]

\* When the opener closes the stream or its connection is lost, the hub lets go
\* of both hops, and both of its goroutines end, provided that the far end
\* takes what the hub has still to write.
OpenerEndFreesHub ==
    []<>(Room("far", "fwd") > 0 \/ ~CanWrite("far", "fwd"))
        => (server["near"] \in {"dialing", "piping"} /\ AtEnd("near", "fwd") ~> HubIsFree)

-----------------------------------------------------------------------------
(* What the documentation says, and the code does not do.                  *)

\* Before the timeout, the close of a session at the hub waits for the streams
\* that go through it.
PipedIsWaitedFor ==
    [][\A h \in Hops : CutSession(h) /\ ~expired => server["near"] # "piping"]_vars

\* The end of the handler, or of its connection, reaches the opener, as it does
\* on a stream over one hop.
HandlerEndReachesOpener ==
    server["near"] = "piping" /\ AtEnd("far", "back") ~> AtEnd("near", "back")
=============================================================================
