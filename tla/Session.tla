------------------------------ MODULE Session ------------------------------
(***************************************************************************)
(* One session (session.go) of a wire: the goroutines that open, serve and *)
(* close its named streams, the goroutines that call Close, and the        *)
(* shutdown goroutine that drains the streams, closes the yamux connection *)
(* and answers the winning Close call.                                     *)
(*                                                                         *)
(* A step is what one goroutine does between two points where another can  *)
(* interleave: one critical section of s.mu or of a stream's mutex, one    *)
(* channel rendezvous, one answer of the peer.  One critical section is    *)
(* split, because it waits inside: unregisterStream takes s.mu and then,   *)
(* to read the stream's id, the stream's mutex, while ReadFrom and WriteTo *)
(* take the two in the opposite order.                                     *)
(***************************************************************************)
EXTENDS Naturals, FiniteSets

CONSTANTS
    Opened,      \* streams this side opens with Session.OpenStream
    Served,      \* streams the peer opens, run by dispatchStream
    Callers,     \* goroutines that call Close; a stream in Callers calls it itself
    Acceptor,    \* the accept loop open(), whose deferred call is also a Close
    NoOne,       \* no stream, no caller
    MaxCloses,   \* bound: Close calls the user makes on one stream
    PeerCloses,  \* may the peer (or the network) end the connection?
    MayPanic     \* may a stream handler panic?

Streams == Opened \cup Served
Closers == Callers \cup {Acceptor}

ASSUME SessionAssumption ==
    /\ IsFiniteSet(Streams)
    /\ Opened \cap Served = {}
    /\ Acceptor \notin Streams \cup Callers
    /\ NoOne \notin Streams \cup Closers
    /\ MaxCloses \in Nat
    /\ PeerCloses \in BOOLEAN /\ MayPanic \in BOOLEAN

VARIABLES
    closed,      \* session.closed
    active,      \* session.activeStreams
    streams,     \* the keys of session.streams
    registered,  \* is the session in wire.sessions?
    connClosed,  \* is the yamux connection closed (by either side)?
    sd,          \* where the shutdown goroutine is
    expired,     \* has the session close timeout passed?
    todo,        \* streams present when the forced range loop began
    victim,      \* the stream the shutdown goroutine is closing by force
    client,      \* the caller whose errCh the shutdown goroutine holds
    cpc,         \* where each Close call is
    spc,         \* where the goroutine that uses each stream is
    marked,      \* streams whose stream.closed is set
    closes       \* how often the user has called Close on each stream

sessVars == <<closed, active, streams, registered, connClosed>>
sdVars   == <<sd, expired, todo, victim, client>>
userVars == <<spc, marked, closes>>
vars     == <<sessVars, sdVars, cpc, userVars>>

\* "recv": blocked on closeCh; "wait": polling the counter; "range", "lock",
\* "unreg" and "delete": the forced loop, choosing a stream, waiting for its
\* mutex, for s.mu, and holding s.mu; "cancelled": the context is cancelled;
\* "reply": the connection is closed.
SdStates == {"recv", "wait", "range", "lock", "unreg", "delete",
             "cancelled", "reply", "done"}

\* "refused" is a Close that returned ErrSessionClosed, "returned" any other.
CallStates == {"start", "idle", "mark", "send", "wait", "unreg", "returned", "refused"}

\* "opening": the permission frame is under way; "confirmed": it was answered
\* with a recv frame; "open": in user code; "entering" and "busy": inside
\* ReadFrom or WriteTo, holding the stream's mutex, about to ask whether the
\* session is closed, and transferring; "closing": inside the user's Close;
\* "left", "mustClose" and "leaving": serve, after the handler returned;
\* "panicked": serve, after the handler panicked.
StreamStates == {"idle", "opening", "confirmed", "open", "entering", "busy",
                 "closing", "left", "mustClose", "leaving", "done",
                 "panicked", "failed"}

TypeOK ==
    /\ closed \in BOOLEAN /\ registered \in BOOLEAN /\ connClosed \in BOOLEAN
    /\ expired \in BOOLEAN
    /\ active \in Nat
    /\ streams \in SUBSET Streams /\ marked \in SUBSET Streams /\ todo \in SUBSET Streams
    /\ sd \in SdStates
    /\ victim \in Streams \cup {NoOne}
    /\ client \in Closers \cup {NoOne}
    /\ cpc \in [Closers -> CallStates]
    /\ spc \in [Streams -> StreamStates]
    /\ closes \in [Streams -> 0..MaxCloses]

Init ==
    /\ closed = FALSE /\ active = 0 /\ streams = {}
    /\ registered = FALSE /\ connClosed = FALSE
    /\ sd = "recv" /\ expired = FALSE /\ todo = {} /\ victim = NoOne /\ client = NoOne
    /\ cpc = [c \in Closers |-> IF c = Acceptor THEN "start" ELSE "idle"]
    /\ spc = [st \in Streams |-> "idle"]
    /\ marked = {} /\ closes = [st \in Streams |-> 0]

-----------------------------------------------------------------------------
(* Bookkeeping under s.mu.                                                 *)

\* As a mutant: the counter is not kept.
RegisterStreamUncounted(st) ==
    /\ streams' = streams \cup {st}
    /\ UNCHANGED active

RegisterStream(st) ==
    /\ streams' = streams \cup {st}
    /\ active' = active + 1

\* As mutants: the counter is dropped below zero, or not dropped at all.
UnregisterStreamUnchecked(st) ==
    /\ streams' = streams \ {st}
    /\ active' = active - 1

UnregisterStreamUncounted(st) ==
    /\ streams' = streams \ {st}
    /\ UNCHANGED active

\* The entry is deleted if it is there; the counter drops either way.
UnregisterStream(st) ==
    /\ streams' = streams \ {st}
    /\ active' = IF active > 0 THEN active - 1 ELSE active

Goto(st, pc) == spc' = [spc EXCEPT ![st] = pc]

\* A stream whose user is inside Session.Close does nothing else meanwhile.
Free(st) == st \in Callers => cpc[st] \in {"idle", "returned", "refused"}

Running == cpc[Acceptor] # "start"

\* s.mu is held across steps only by the forced unregisterStream.
SessionFree == sd # "delete"

HoldsMutex(st) == spc[st] \in {"entering", "busy"}

-----------------------------------------------------------------------------
(* Streams.                                                                *)

\* OpenStream, up to the IsClosed test.
OpenStream(st) ==
    /\ st \in Opened /\ spc[st] = "idle" /\ Running /\ SessionFree
    /\ Goto(st, IF closed THEN "failed" ELSE "opening")
    /\ UNCHANGED <<sessVars, sdVars, cpc, marked, closes>>

\* The accept loop takes a stream of the peer; it closes the stream when the
\* session is closed, or when the wire is (which this module leaves open).
AcceptStream(st) ==
    /\ st \in Served /\ spc[st] = "idle"
    /\ cpc[Acceptor] = "idle" /\ ~connClosed /\ SessionFree
    /\ \/ ~closed /\ Goto(st, "opening")
       \/ Goto(st, "failed")
    /\ UNCHANGED <<sessVars, sdVars, cpc, marked, closes>>

\* The permission frame is answered: sendFrame on the opening side, recvFrame
\* (which answers before the stream is registered) on the serving side.
Confirm(st) ==
    /\ spc[st] = "opening" /\ ~connClosed
    /\ Goto(st, "confirmed")
    /\ UNCHANGED <<sessVars, sdVars, cpc, marked, closes>>

\* The token or the name is refused, or the connection ends meanwhile.
Refuse(st) ==
    /\ spc[st] = "opening"
    /\ Goto(st, "failed")
    /\ UNCHANGED <<sessVars, sdVars, cpc, marked, closes>>

\* openStream(): the stream is registered and handed to its user.
StartStream(st) ==
    /\ spc[st] = "confirmed" /\ SessionFree
    /\ RegisterStream(st)
    /\ Goto(st, "open")
    /\ UNCHANGED <<closed, registered, connClosed, sdVars, cpc, marked, closes>>

\* ReadFrom and WriteTo take the stream's mutex; if its closed flag is set they
\* go on to ask IsClosed of the session, ...
BeginTransfer(st) ==
    /\ spc[st] = "open" /\ Free(st)
    /\ Goto(st, IF st \in marked THEN "entering" ELSE "busy")
    /\ UNCHANGED <<sessVars, sdVars, cpc, marked, closes>>

\* ... and give up (ErrStreamClosed) when both are closed.
EnterTransfer(st) ==
    /\ spc[st] = "entering" /\ SessionFree
    /\ Goto(st, IF closed THEN "open" ELSE "busy")
    /\ UNCHANGED <<sessVars, sdVars, cpc, marked, closes>>

EndTransfer(st) ==
    /\ spc[st] = "busy"
    /\ Goto(st, "open")
    /\ UNCHANGED <<sessVars, sdVars, cpc, marked, closes>>

\* The user calls stream.Close: the flag under the stream's mutex, ...
CloseStream(st) ==
    /\ spc[st] = "open" /\ Free(st) /\ closes[st] < MaxCloses
    /\ marked' = marked \cup {st}
    /\ closes' = [closes EXCEPT ![st] = @ + 1]
    /\ Goto(st, "closing")
    /\ UNCHANGED <<sessVars, sdVars, cpc>>

\* ... then unregisterStream and conn.Close.
CloseStreamEnd(st) ==
    /\ spc[st] = "closing" /\ SessionFree
    /\ UnregisterStream(st)
    /\ Goto(st, "open")
    /\ UNCHANGED <<closed, registered, connClosed, sdVars, cpc, marked, closes>>

HandlerReturn(st) ==
    /\ st \in Served /\ spc[st] = "open" /\ Free(st)
    /\ Goto(st, "left")
    /\ UNCHANGED <<sessVars, sdVars, cpc, marked, closes>>

\* serve's recover() swallows the panic and skips the close that follows the
\* handler; the deferred unlock has freed the stream's mutex.
HandlerPanic(st) ==
    /\ MayPanic /\ st \in Served /\ spc[st] \in {"open", "busy"} /\ Free(st)
    /\ Goto(st, "panicked")
    /\ UNCHANGED <<sessVars, sdVars, cpc, marked, closes>>

\* As a mutant: the test is inverted.
ServeCheckInverted(st) ==
    /\ spc[st] = "left"
    /\ Goto(st, IF st \in marked THEN "mustClose" ELSE "done")
    /\ UNCHANGED <<sessVars, sdVars, cpc, marked, closes>>

\* serve closes the stream unless its closed flag is already set, ...
ServeCheck(st) ==
    /\ spc[st] = "left"
    /\ Goto(st, IF st \in marked THEN "done" ELSE "mustClose")
    /\ UNCHANGED <<sessVars, sdVars, cpc, marked, closes>>

ServeClose(st) ==
    /\ spc[st] = "mustClose"
    /\ marked' = marked \cup {st}
    /\ Goto(st, "leaving")
    /\ UNCHANGED <<sessVars, sdVars, cpc, closes>>

\* ... and dispatchStream ends.
ServeEnd(st) ==
    /\ spc[st] = "leaving" /\ SessionFree
    /\ UnregisterStream(st)
    /\ Goto(st, "done")
    /\ UNCHANGED <<closed, registered, connClosed, sdVars, cpc, marked, closes>>

-----------------------------------------------------------------------------
(* session.open and session.Close.                                         *)

\* open(): start the shutdown goroutine, register with the wire, accept.
Open ==
    /\ cpc[Acceptor] = "start"
    /\ cpc' = [cpc EXCEPT ![Acceptor] = "idle"]
    /\ registered' = TRUE
    /\ UNCHANGED <<closed, active, streams, connClosed, sdVars, userVars>>

MayCall(c) ==
    IF c = Acceptor THEN connClosed            \* AcceptStream failed
    ELSE Running /\ (c \in Streams => spc[c] = "open")

\* The IsClosed test at the top of Close, ...
CloseCheck(c) ==
    /\ cpc[c] = "idle" /\ MayCall(c) /\ SessionFree
    /\ cpc' = [cpc EXCEPT ![c] = IF closed THEN "refused" ELSE "mark"]
    /\ UNCHANGED <<sessVars, sdVars, userVars>>

\* ... the flag, set in a second critical section, ...
CloseMark(c) ==
    /\ cpc[c] = "mark" /\ SessionFree
    /\ closed' = TRUE
    /\ cpc' = [cpc EXCEPT ![c] = "send"]
    /\ UNCHANGED <<active, streams, registered, connClosed, sdVars, userVars>>

\* ... and, once answered, unregisterSession and the close hook.
CloseEnd(c) ==
    /\ cpc[c] = "unreg"
    /\ registered' = FALSE
    /\ cpc' = [cpc EXCEPT ![c] = "returned"]
    /\ UNCHANGED <<closed, active, streams, connClosed, sdVars, userVars>>

-----------------------------------------------------------------------------
(* The goroutine of session.shutdown.                                      *)

\* As a mutant: the caller does not wait for the answer.
ShutdownRecvNoWait(c) ==
    /\ sd = "recv" /\ cpc[c] = "send"
    /\ sd' = "wait" /\ client' = c
    /\ cpc' = [cpc EXCEPT ![c] = "unreg"]
    /\ UNCHANGED <<sessVars, expired, todo, victim, userVars>>

\* The rendezvous on the unbuffered closeCh; it happens once.
ShutdownRecv(c) ==
    /\ sd = "recv" /\ cpc[c] = "send"
    /\ sd' = "wait" /\ client' = c
    /\ cpc' = [cpc EXCEPT ![c] = "wait"]
    /\ UNCHANGED <<sessVars, expired, todo, victim, userVars>>

Expire ==
    /\ sd = "wait" /\ ~expired
    /\ expired' = TRUE
    /\ UNCHANGED <<sessVars, sd, todo, victim, client, cpc, userVars>>

\* As a mutant: the comparison is strict.
WaitDoneStrict ==
    /\ sd = "wait" /\ active < 0
    /\ sd' = "cancelled"
    /\ UNCHANGED <<sessVars, expired, todo, victim, client, cpc, userVars>>

\* The counter is zero: leave the loop and cancel the handlers' context.
WaitDone ==
    /\ sd = "wait" /\ active <= 0
    /\ sd' = "cancelled"
    /\ UNCHANGED <<sessVars, expired, todo, victim, client, cpc, userVars>>

\* The timeout has passed: range over s.streams, without s.mu, ...
ForceBegin ==
    /\ sd = "wait" /\ active > 0 /\ expired
    /\ sd' = "range" /\ todo' = streams
    /\ UNCHANGED <<sessVars, expired, victim, client, cpc, userVars>>

\* ... which yields an entry not yet deleted (one added meanwhile may or may
\* not be yielded), ...
ForceNext(st) ==
    /\ sd = "range" /\ st \in streams
    /\ sd' = "lock" /\ victim' = st
    /\ UNCHANGED <<sessVars, expired, todo, client, cpc, userVars>>

\* ... whose Close first waits for the stream's mutex ...
ForceMark ==
    /\ sd = "lock" /\ victim \in Streams /\ ~HoldsMutex(victim)
    /\ marked' = marked \cup {victim}
    /\ sd' = "unreg"
    /\ UNCHANGED <<sessVars, expired, todo, victim, client, cpc, spc, closes>>

\* ... and then unregisters it: s.mu first, then the stream's mutex again.
ForceLock ==
    /\ sd = "unreg"
    /\ sd' = "delete"
    /\ UNCHANGED <<sessVars, expired, todo, victim, client, cpc, userVars>>

ForceUnregister ==
    /\ sd = "delete" /\ victim \in Streams /\ ~HoldsMutex(victim)
    /\ UnregisterStream(victim)
    /\ sd' = "range" /\ victim' = NoOne
    /\ UNCHANGED <<closed, registered, connClosed, expired, todo, client, cpc, userVars>>

ForceEnd ==
    /\ sd = "range" /\ todo \cap streams = {}
    /\ sd' = "wait" /\ todo' = {}
    /\ UNCHANGED <<sessVars, expired, victim, client, cpc, userVars>>

CloseConn ==
    /\ sd = "cancelled"
    /\ connClosed' = TRUE
    /\ sd' = "reply"
    /\ UNCHANGED <<closed, active, streams, registered, expired, todo, victim, client,
                   cpc, userVars>>

\* As a mutant: the goroutine goes back to receive instead of ending.
ReplyLoops ==
    /\ sd = "reply" /\ client \in Closers
    /\ cpc' = [cpc EXCEPT ![client] = "unreg"]
    /\ sd' = "recv"
    /\ UNCHANGED <<sessVars, expired, todo, victim, client, userVars>>

Reply ==
    /\ sd = "reply" /\ client \in Closers
    /\ cpc' = [cpc EXCEPT ![client] = "unreg"]
    /\ sd' = "done"
    /\ UNCHANGED <<sessVars, expired, todo, victim, client, userVars>>

-----------------------------------------------------------------------------
(* The environment.                                                        *)

PeerClose ==
    /\ PeerCloses /\ ~connClosed /\ Running
    /\ connClosed' = TRUE
    /\ UNCHANGED <<closed, active, streams, registered, sdVars, cpc, userVars>>

-----------------------------------------------------------------------------

\* What the library's own code does on a stream, once called.
StreamStep(st) ==
    \/ StartStream(st) \/ EnterTransfer(st) \/ CloseStreamEnd(st)
    \/ ServeCheck(st) \/ ServeClose(st) \/ ServeEnd(st)

\* What the program that uses the library, or the peer, chooses to do.
UserStep(st) ==
    \/ OpenStream(st) \/ AcceptStream(st) \/ Confirm(st) \/ Refuse(st) \/ BeginTransfer(st) \/ EndTransfer(st)
    \/ CloseStream(st) \/ HandlerReturn(st) \/ HandlerPanic(st)

CallStep(c) == CloseMark(c) \/ CloseEnd(c)

ShutdownStep ==
    \/ \E c \in Closers : ShutdownRecv(c)
    \/ Expire \/ WaitDone
    \/ ForceBegin \/ (\E st \in Streams : ForceNext(st)) \/ ForceMark
    \/ ForceLock \/ ForceUnregister \/ ForceEnd
    \/ CloseConn \/ Reply

Next ==
    \/ \E st \in Streams : StreamStep(st) \/ UserStep(st)
    \/ Open
    \/ \E c \in Closers : CloseCheck(c) \/ CallStep(c)
    \/ ShutdownStep
    \/ PeerClose

Spec == Init /\ [][Next]_vars

\* Every goroutine the library starts keeps running; the user's code and the
\* peer owe nothing. Go's mutexes hand over in bounded time, so a Close that
\* waits for a stream's mutex is not overtaken for ever by new transfers.
Fairness ==
    /\ WF_vars(Open)
    /\ WF_vars(ShutdownStep)
    /\ SF_vars(ForceMark \/ ForceUnregister)
    /\ \A st \in Streams : WF_vars(StreamStep(st))
    /\ \A c \in Closers : WF_vars(CallStep(c))
    /\ WF_vars(CloseCheck(Acceptor))

FairSpec == Spec /\ Fairness

-----------------------------------------------------------------------------
(* What a session promises.                                                *)

\* activeStreams never exceeds the number of entries of s.streams. The forced
\* loop runs while the counter is positive and lowers it only through entries
\* of the map: with more streams counted than kept it would never end.
CounterBound == active <= Cardinality(streams)

\* When the shutdown goroutine stops waiting before the timeout, no stream is
\* registered: the counter it polls has not lost count of one.
GracefulDrain ==
    [][sd = "wait" /\ sd' = "cancelled" /\ ~expired => streams = {}]_vars

\* A session leaves wire.sessions only after its connection is closed and its
\* shutdown goroutine has ended, whoever called Close and in whatever order.
UnregisteredMeansCut == Running /\ ~registered => connClosed /\ sd = "done"

\* Of all the goroutines that pass the IsClosed test together, one at most is
\* answered: unregisterSession and the close hook run once per session.
OneWinner == Cardinality({c \in Closers : cpc[c] \in {"wait", "unreg", "returned"}}) <= 1

\* When dispatchStream ends after a handler that returned, its stream is no
\* longer registered, or the forced loop has it in hand: no path through the
\* handler's Close, serve's and the forced one leaves it to nobody.
ReleasedOnReturn ==
    \A st \in Served : spc[st] = "done" => st \notin streams \/ victim = st

\* The forced unregisterStream holds s.mu and waits for the stream's mutex; the
\* transfer that holds the stream's mutex waits for s.mu in IsClosed.
LockCycle == sd = "delete" /\ victim \in Streams /\ spc[victim] = "entering"

\* A session whose Close has begun is at last unregistered, provided that no
\* transfer holds its stream's mutex for ever and the two locks are never
\* taken in a cycle.
ClosingCompletes ==
    (\A st \in Streams : []<>(spc[st] # "busy")) /\ []~LockCycle
        => (closed ~> ~registered)

\* One of the wire's sessions, as the rest of the wire sees it.
Life == INSTANCE SessionLife WITH
    Sess  <- {Acceptor},
    life  <- [s \in {Acceptor} |-> IF ~Running THEN "new"
                                   ELSE IF ~registered THEN "gone"
                                   ELSE IF closed THEN "closing" ELSE "open"],
    taken <- IF client = NoOne THEN {} ELSE {Acceptor},
    cut   <- IF connClosed THEN {Acceptor} ELSE {}

\* Opening, closing, forcing, panicking and losing the peer, the session goes
\* through its life in order: it leaves the wire's table only after Close was
\* called, the streams were waited for and the connection was closed.
SessionLives == Life!Spec

-----------------------------------------------------------------------------
(* What the documentation or the tests say, and the code does not do.      *)

\* Closing is "graceful" even when handlers must be closed by force: the forced
\* loop is not stopped by a goroutine of the session it is closing.
NoLockCycle == ~LockCycle

\* ... and its range over s.streams, which runs without s.mu, meets no goroutine
\* about to write that map: the Go runtime stops the process when it does
\* ("concurrent map iteration and map write").
NoMapRace ==
    sd = "range" => \A st \in Streams : spc[st] \notin {"confirmed", "closing", "leaving"}

\* The close timeout bounds how long a closing session is waited for.
TimeoutBounds == closed ~> ~registered

\* Close returns, to every goroutine that called it.
EveryCloseReturns ==
    \A c \in Closers : cpc[c] = "send" ~> cpc[c] = "returned"

\* A stream that the peer was told is accepted is waited for.
ConfirmedIsWaitedFor ==
    [][sd = "wait" /\ sd' = "cancelled" /\ ~expired
          => \A st \in Served : spc[st] # "confirmed"]_vars

\* A handler that is gone is not waited for.
PanickedIsReleased == \A st \in Served : spc[st] = "panicked" => st \notin streams

=============================================================================
