----------------------------- MODULE ClientWire -----------------------------
(***************************************************************************)
(* The client side of a wire (wirenet.go): the goroutine in Connect that   *)
(* dials, opens a session, waits for its end and dials again; the          *)
(* goroutines that call Wire.Close; the goroutine wire.shutdown of each    *)
(* connection; and the goroutines that close the connection's session,     *)
(* the last of which closes the wire's connection.                         *)
(*                                                                         *)
(* Connections are numbered; so are the channels closeCh and waitCh, which *)
(* Connect makes anew for each one (0 is the closeCh of newWire, which no  *)
(* one ever receives from). A session is closed as module Session says: of *)
(* the callers that pass the IsClosed test one is answered, the others     *)
(* never.                                                                  *)
(***************************************************************************)
EXTENDS Naturals, FiniteSets

CONSTANTS
    Users,       \* goroutines that call Wire.Close
    RetryMax,    \* wire.retryMax
    MaxConns,    \* bound: connections made
    PeerDrops,   \* may a connection be lost?
    UserCloses   \* may the user close a session?

ASSUME ClientAssumption ==
    /\ IsFiniteSet(Users)
    /\ RetryMax \in Nat /\ MaxConns \in Nat
    /\ PeerDrops \in BOOLEAN /\ UserCloses \in BOOLEAN
    /\ Users \cap ((1..MaxConns) \X {"accept", "user", "wire"}) = {}

Conns == 1..MaxConns

\* Who calls Close on the session of a connection: its accept loop, the user,
\* and wire.shutdown.
SessionClosers == Conns \X {"accept", "user", "wire"}
Procs == Users \cup SessionClosers

VARIABLES
    closed,    \* wire.closed
    conn,      \* wire.conn
    attempts,  \* wire.connCounter
    gen,       \* the number of wire.closeCh and wire.waitCh
    con,       \* where Connect is
    err,       \* its variable err, or what it returned
    sess,      \* where each session is; "open" is in wire.sessions
    sclosed,   \* connections whose session.closed is set
    taken,     \* connections whose session.shutdown has taken a caller
    lost,      \* connections that are closed
    sd,        \* where wire.shutdown of each connection is
    pc,        \* where each closing goroutine is
    chan       \* the channel on which it is sending to wire.shutdown

wireVars == <<closed, conn, attempts, gen>>
sessVars == <<sess, sclosed, taken, lost>>
vars == <<wireVars, con, err, sessVars, sd, pc, chan>>

ConStates == {"loop", "reset", "dialing", "backoff", "handshake", "waiting", "returned"}
SessStates == {"none", "starting", "open", "gone"}
SdStates == {"none", "recv", "closing", "reply", "done"}

\* Wire.Close: "shortcut", "checked", "closeup". Session.Close: "called",
\* "mark", "sendSession", "drain", "unreg". wire.close, reached from both:
\* "send", "blocked", "wait". "refused" is ErrWireClosed or ErrSessionClosed.
ProcStates == {"idle", "shortcut", "checked", "closeup",
               "called", "mark", "sendSession", "drain", "unreg",
               "send", "blocked", "wait", "returned", "refused"}

TypeOK ==
    /\ closed \in BOOLEAN /\ conn \in BOOLEAN
    /\ attempts \in 0..RetryMax
    /\ gen \in 0..MaxConns
    /\ con \in ConStates
    /\ err \in {"nil", "dial", "handshake"}
    /\ sess \in [Conns -> SessStates]
    /\ sclosed \subseteq Conns /\ taken \subseteq Conns /\ lost \subseteq Conns
    /\ sd \in [Conns -> SdStates]
    /\ pc \in [Procs -> ProcStates]
    /\ chan \in [Procs -> 0..MaxConns]

Init ==
    /\ closed = FALSE /\ conn = FALSE /\ attempts = 0 /\ gen = 0
    /\ con = "loop" /\ err = "nil"
    /\ sess = [g \in Conns |-> "none"]
    /\ sclosed = {} /\ taken = {} /\ lost = {}
    /\ sd = [g \in Conns |-> "none"]
    /\ pc = [p \in Procs |-> "idle"]
    /\ chan = [p \in Procs |-> 0]

Sessions == {g \in Conns : sess[g] = "open"}   \* wire.sessions

Goto(p, state) == pc' = [pc EXCEPT ![p] = state]

-----------------------------------------------------------------------------
(* Connect: acceptClient.                                                  *)

\* As a mutant: one attempt more than retryMax.
LoopCheckOneMore ==
    /\ con = "loop"
    /\ con' = IF attempts > RetryMax \/ closed THEN "returned" ELSE "reset"
    /\ UNCHANGED <<wireVars, err, sessVars, sd, pc, chan>>

LoopCheck ==
    /\ con = "loop"
    /\ con' = IF attempts >= RetryMax \/ closed THEN "returned" ELSE "reset"
    /\ UNCHANGED <<wireVars, err, sessVars, sd, pc, chan>>

Reset ==
    /\ con = "reset" /\ gen < MaxConns
    /\ attempts' = attempts + 1
    /\ conn' = FALSE
    /\ con' = "dialing"
    /\ UNCHANGED <<closed, gen, err, sessVars, sd, pc, chan>>

\* The connection is refused, and Connect waits, or dial fails otherwise.
DialFails ==
    /\ con = "dialing"
    /\ con' \in {"backoff", "returned"}
    /\ err' = "dial"
    /\ UNCHANGED <<wireVars, sessVars, sd, pc, chan>>

\* The wait is over, or the wire is closed.
BackoffEnds ==
    /\ con = "backoff"
    /\ con' = "loop"
    /\ UNCHANGED <<wireVars, err, sessVars, sd, pc, chan>>

\* As a mutant: the flag is not set.
DialForgetsFlag ==
    /\ con = "dialing"
    /\ attempts' = 0
    /\ con' = "handshake"
    /\ UNCHANGED <<closed, conn, gen, err, sessVars, sd, pc, chan>>

DialSucceeds ==
    /\ con = "dialing"
    /\ conn' = TRUE /\ attempts' = 0
    /\ con' = "handshake"
    /\ UNCHANGED <<closed, gen, err, sessVars, sd, pc, chan>>

HandshakeFails ==
    /\ con = "handshake"
    /\ conn' = FALSE
    /\ con' = "returned" /\ err' = "handshake"
    /\ UNCHANGED <<closed, attempts, gen, sessVars, sd, pc, chan>>

\* The session is agreed: new channels, the two goroutines, and wait.
HandshakeSucceeds ==
    /\ con = "handshake"
    /\ gen' = gen + 1
    /\ sd' = [sd EXCEPT ![gen'] = "recv"]
    /\ sess' = [sess EXCEPT ![gen'] = "starting"]
    /\ con' = "waiting"
    /\ UNCHANGED <<closed, conn, attempts, err, sclosed, taken, lost, pc, chan>>

\* wire.shutdown has closed waitCh.
Wake ==
    /\ con = "waiting" /\ sd[gen] \in {"reply", "done"}
    /\ con' = "loop"
    /\ UNCHANGED <<wireVars, err, sessVars, sd, pc, chan>>

-----------------------------------------------------------------------------
(* Wire.Close, called by the user.                                         *)

\* isConnOk ...
CloseCheckConn(u) ==
    /\ pc[u] = "idle"
    /\ Goto(u, IF conn THEN "checked" ELSE "shortcut")
    /\ UNCHANGED <<wireVars, con, err, sessVars, sd, chan>>

\* ... was false: mark the wire closed and return nil, ...
CloseShortcut(u) ==
    /\ pc[u] = "shortcut"
    /\ closed' = TRUE
    /\ Goto(u, "returned")
    /\ UNCHANGED <<conn, attempts, gen, con, err, sessVars, sd, chan>>

\* ... or true: test isClosed, ...
CloseCheckClosed(u) ==
    /\ pc[u] = "checked"
    /\ Goto(u, IF closed THEN "refused" ELSE "closeup")
    /\ UNCHANGED <<wireVars, con, err, sessVars, sd, chan>>

\* As a mutant: the wire is not marked closed before close().
CloseUpLate(u) ==
    /\ pc[u] = "closeup"
    /\ Goto(u, "send")
    /\ UNCHANGED <<wireVars, con, err, sessVars, sd, chan>>

\* ... then mark the wire closed and go on to close().
CloseUp(u) ==
    /\ pc[u] = "closeup"
    /\ closed' = TRUE
    /\ Goto(u, "send")
    /\ UNCHANGED <<conn, attempts, gen, con, err, sessVars, sd, chan>>

\* close() reads the field closeCh and blocks on that channel.
SendOn(p) ==
    /\ pc[p] = "send"
    /\ chan' = [chan EXCEPT ![p] = gen]
    /\ Goto(p, "blocked")
    /\ UNCHANGED <<wireVars, con, err, sessVars, sd>>

-----------------------------------------------------------------------------
(* The session of a connection.                                            *)

\* session.open registers the session.
RegisterSession(g) ==
    /\ sess[g] = "starting"
    /\ sess' = [sess EXCEPT ![g] = "open"]
    /\ UNCHANGED <<wireVars, con, err, sclosed, taken, lost, sd, pc, chan>>

\* The accept loop ends when the connection does; the user closes when it likes.
CallSessionClose(g, who) ==
    /\ pc[<<g, who>>] = "idle" /\ sess[g] \in {"open", "gone"}
    /\ \/ who = "accept" /\ g \in lost
       \/ who = "user" /\ UserCloses
    /\ Goto(<<g, who>>, "called")
    /\ UNCHANGED <<wireVars, con, err, sessVars, sd, chan>>

SessionCheck(g, who) ==
    /\ pc[<<g, who>>] = "called"
    /\ Goto(<<g, who>>, IF g \in sclosed THEN "refused" ELSE "mark")
    /\ UNCHANGED <<wireVars, con, err, sessVars, sd, chan>>

SessionMark(g, who) ==
    /\ pc[<<g, who>>] = "mark"
    /\ sclosed' = sclosed \cup {g}
    /\ Goto(<<g, who>>, "sendSession")
    /\ UNCHANGED <<wireVars, con, err, sess, taken, lost, sd, chan>>

\* session.shutdown takes one caller, ...
SessionTake(g, who) ==
    /\ pc[<<g, who>>] = "sendSession" /\ g \notin taken
    /\ taken' = taken \cup {g}
    /\ Goto(<<g, who>>, "drain")
    /\ UNCHANGED <<wireVars, con, err, sess, sclosed, lost, sd, chan>>

\* As a mutant: the connection is left to the peer to close.
SessionAnswersUncut(g, who) ==
    /\ pc[<<g, who>>] = "drain"
    /\ Goto(<<g, who>>, "unreg")
    /\ UNCHANGED <<wireVars, con, err, sessVars, sd, chan>>

\* ... drains the streams, closes the connection and answers it.
SessionCut(g, who) ==
    /\ pc[<<g, who>>] = "drain"
    /\ lost' = lost \cup {g}
    /\ Goto(<<g, who>>, "unreg")
    /\ UNCHANGED <<wireVars, con, err, sess, sclosed, taken, sd, chan>>

\* As a mutant: the wire's connection is closed even if the wire is closed.
UnregisterAlwaysCloses(g, who) ==
    /\ pc[<<g, who>>] = "unreg"
    /\ sess' = [sess EXCEPT ![g] = "gone"]
    /\ Goto(<<g, who>>, IF Sessions \ {g} = {} THEN "send" ELSE "returned")
    /\ UNCHANGED <<wireVars, con, err, sclosed, taken, lost, sd, chan>>

\* As a mutant: the session is not deleted from the table.
UnregisterForgets(g, who) ==
    /\ pc[<<g, who>>] = "unreg"
    /\ Goto(<<g, who>>, IF Sessions \ {g} = {} /\ ~closed THEN "send" ELSE "returned")
    /\ UNCHANGED <<wireVars, con, err, sessVars, sd, chan>>

\* As a mutant: the last session does not close the wire's connection.
UnregisterNeverCloses(g, who) ==
    /\ pc[<<g, who>>] = "unreg"
    /\ sess' = [sess EXCEPT ![g] = "gone"]
    /\ Goto(<<g, who>>, "returned")
    /\ UNCHANGED <<wireVars, con, err, sclosed, taken, lost, sd, chan>>

\* unregisterSession; the last session, unless the wire is closed, calls close().
UnregisterSession(g, who) ==
    /\ pc[<<g, who>>] = "unreg"
    /\ sess' = [sess EXCEPT ![g] = "gone"]
    /\ Goto(<<g, who>>, IF Sessions \ {g} = {} /\ ~closed THEN "send" ELSE "returned")
    /\ UNCHANGED <<wireVars, con, err, sclosed, taken, lost, sd, chan>>

LoseConn(g) ==
    /\ PeerDrops /\ g \notin lost /\ sess[g] # "none"
    /\ lost' = lost \cup {g}
    /\ UNCHANGED <<wireVars, con, err, sess, sclosed, taken, sd, pc, chan>>

-----------------------------------------------------------------------------
(* The goroutine wire.shutdown of a connection.                            *)

\* It receives one request and calls Close on the sessions it finds, ...
ShutdownRecv(g, p) ==
    /\ sd[g] = "recv" /\ pc[p] = "blocked" /\ chan[p] = g
    /\ sd' = [sd EXCEPT ![g] = "closing"]
    /\ pc' = [q \in Procs |->
                IF q = p THEN "wait"
                ELSE IF \E s \in Sessions : q = <<s, "wire">> THEN "called" ELSE pc[q]]
    /\ UNCHANGED <<wireVars, con, err, sessVars, chan>>

\* ... then closes the connection and waitCh, ...
ShutdownConn(g) ==
    /\ sd[g] = "closing"
    /\ \A s \in Conns : pc[<<s, "wire">>] \in {"idle", "returned", "refused"}
    /\ lost' = lost \cup {g}
    /\ sd' = [sd EXCEPT ![g] = "reply"]
    /\ UNCHANGED <<wireVars, con, err, sess, sclosed, taken, pc, chan>>

\* ... and answers.
ShutdownReply(g) ==
    /\ sd[g] = "reply"
    /\ sd' = [sd EXCEPT ![g] = "done"]
    /\ pc' = [p \in Procs |-> IF pc[p] = "wait" /\ chan[p] = g THEN "returned" ELSE pc[p]]
    /\ UNCHANGED <<wireVars, con, err, sessVars, chan>>

-----------------------------------------------------------------------------

ConnectStep == LoopCheck \/ Reset \/ DialFails \/ BackoffEnds \/ DialSucceeds
               \/ HandshakeFails \/ HandshakeSucceeds \/ Wake

CloseStep(u) == CloseShortcut(u) \/ CloseCheckClosed(u) \/ CloseUp(u)

SessionCloseStep(g, who) ==
    \/ SessionCheck(g, who) \/ SessionMark(g, who) \/ SessionTake(g, who)
    \/ SessionCut(g, who) \/ UnregisterSession(g, who)

ShutdownStep(g) == (\E p \in Procs : ShutdownRecv(g, p)) \/ ShutdownConn(g) \/ ShutdownReply(g)

Next ==
    \/ ConnectStep
    \/ \E u \in Users : CloseCheckConn(u) \/ CloseStep(u)
    \/ \E p \in Procs : SendOn(p)
    \/ \E g \in Conns, who \in {"accept", "user", "wire"} :
          CallSessionClose(g, who) \/ SessionCloseStep(g, who)
    \/ \E g \in Conns : RegisterSession(g) \/ LoseConn(g) \/ ShutdownStep(g)

Spec == Init /\ [][Next]_vars

\* Goroutines run; dial, the handshake (which has a deadline) and the wait
\* between attempts end; a session's drain ends (Session.ClosingCompletes).
\* Nothing makes a dial succeed, a user close or a connection fail.
Fairness ==
    /\ WF_vars(ConnectStep)
    /\ \A u \in Users : WF_vars(CloseStep(u))
    /\ \A p \in Procs : WF_vars(SendOn(p))
    /\ \A g \in Conns :
        /\ WF_vars(RegisterSession(g))
        /\ WF_vars(CallSessionClose(g, "accept"))
        /\ WF_vars(ShutdownStep(g))
        /\ \A who \in {"accept", "user", "wire"} : WF_vars(SessionCloseStep(g, who))

FairSpec == Spec /\ Fairness

-----------------------------------------------------------------------------
(* What the client side promises.                                          *)

\* At most one session is in the table: Connect dials again only when the
\* previous session has left it, so "the last session" is the only one.
OneSession == Cardinality(Sessions) <= 1

\* Close never takes its shortcut past a session: conn is true while one is
\* registered, although Connect clears the flag before each dial.
ConnWhileSession == Sessions # {} => conn

\* wire.shutdown never asks itself to shut down: the session it closes does
\* not reach close(), whose request only that goroutine could receive.
NoSelfWait == \A g \in Conns : pc[<<g, "wire">>] \notin {"send", "blocked", "wait"}

\* A connection that no goroutine is told to leave is not left: waitCh is
\* closed only once the session is out of the table, unless the wire is closed.
WokenWhenGone ==
    \A g \in Conns : sd[g] \in {"reply", "done"} /\ ~closed => sess[g] = "gone"

\* When the connection is lost and nobody closes the wire, Connect notices: it
\* leaves the wait, whoever else is closing the session.
LossIsNoticed ==
    []~closed => \A g \in Conns : (g \in lost /\ gen = g) ~> (con # "waiting")

Life == INSTANCE SessionLife WITH
    Sess <- Conns,
    life <- [g \in Conns |-> CASE sess[g] = "open" -> IF g \in sclosed THEN "closing" ELSE "open"
                               [] sess[g] = "gone" -> "gone"
                               [] OTHER -> "new"],
    cut  <- lost

\* What is said here of a session is what a session does: however the accept
\* loop, the user and wire.shutdown race to close it, its connection is closed
\* before it leaves the table and lets Connect dial again.
SessionsLive == Life!Spec

-----------------------------------------------------------------------------
(* What the documentation or the tests say, and the code does not do.      *)

\* Close returns.
CloseReturns == \A u \in Users : pc[u] = "send" ~> pc[u] \in {"returned", "refused"}

\* Once Close has returned nil, Connect returns.
CloseEndsConnect == \A u \in Users : pc[u] = "returned" ~> con = "returned"

\* A session that has been closed has its close hook run: the hook comes after
\* unregisterSession in session.Close.
CloseHookRuns ==
    \A p \in SessionClosers : pc[p] = "unreg" ~> pc[p] = "returned"

\* Connect reports no dial error from before a connection that was made since.
ErrorIsFresh == con = "returned" /\ err = "dial" => attempts > 0
=============================================================================
