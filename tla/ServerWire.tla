----------------------------- MODULE ServerWire -----------------------------
(***************************************************************************)
(* The server side of a wire (wirenet.go): the goroutine in Connect that   *)
(* accepts connections and confirms a session on each, one at a time; the  *)
(* goroutines that call Wire.Close; the goroutine wire.shutdown; and the   *)
(* goroutines that close the sessions. A session is closed as module       *)
(* Session says: of the callers that pass the IsClosed test one is         *)
(* answered, the others never.                                             *)
(***************************************************************************)
EXTENDS Naturals, FiniteSets

CONSTANTS
    Clients,    \* connections, each made once
    Users,      \* goroutines that call Wire.Close, the connect hook included
    NoClient,
    PeerDrops   \* may a connection be lost?

\* Who calls Close on a session: its accept loop and wire.shutdown.
SessionClosers == Clients \X {"accept", "wire"}
Procs == Users \cup SessionClosers

ASSUME ServerAssumption ==
    /\ NoClient \notin Clients
    /\ PeerDrops \in BOOLEAN
    /\ Users \cap SessionClosers = {}

VARIABLES
    closed,     \* wire.closed
    conn,       \* wire.conn
    con,        \* where Connect is
    client,     \* the connection it is confirming
    err,        \* is its result an error?
    listening,  \* is the listener open?
    sess,       \* where each session is; "open" is in wire.sessions
    sclosed,    \* connections whose session.closed is set
    taken,      \* connections whose session.shutdown has taken a caller
    lost,       \* connections that are closed
    sd,         \* where wire.shutdown is
    pc          \* where each closing goroutine is

wireVars == <<closed, conn, con, client, err, listening>>
sessVars == <<sess, sclosed, taken, lost>>
vars == <<wireVars, sessVars, sd, pc>>

ConStates == {"start", "flag", "accept", "check", "confirm", "leave", "returned"}
SessStates == {"none", "starting", "open", "gone"}
SdStates == {"none", "recv", "closing", "reply", "done"}

\* As in ClientWire.
ProcStates == {"idle", "shortcut", "checked", "closeup", "blocked", "wait",
               "called", "mark", "sendSession", "drain", "unreg",
               "returned", "refused"}

TypeOK ==
    /\ closed \in BOOLEAN /\ conn \in BOOLEAN /\ err \in BOOLEAN /\ listening \in BOOLEAN
    /\ con \in ConStates
    /\ client \in Clients \cup {NoClient}
    /\ sess \in [Clients -> SessStates]
    /\ sclosed \subseteq Clients /\ taken \subseteq Clients /\ lost \subseteq Clients
    /\ sd \in SdStates
    /\ pc \in [Procs -> ProcStates]

Init ==
    /\ closed = FALSE /\ conn = FALSE
    /\ con = "start" /\ client = NoClient /\ err = FALSE /\ listening = FALSE
    /\ sess = [c \in Clients |-> "none"]
    /\ sclosed = {} /\ taken = {} /\ lost = {}
    /\ sd = "none"
    /\ pc = [p \in Procs |-> "idle"]

Sessions == {c \in Clients : sess[c] = "open"}   \* wire.sessions

Goto(p, state) == pc' = [pc EXCEPT ![p] = state]

-----------------------------------------------------------------------------
(* Connect: acceptServer.                                                  *)

\* listen, and start wire.shutdown and the connect hook.
Listen ==
    /\ con = "start"
    /\ listening' = TRUE
    /\ sd' = "recv"
    /\ con' = "flag"
    /\ UNCHANGED <<closed, conn, client, err, sessVars, pc>>

SetConnFlag ==
    /\ con = "flag"
    /\ conn' = TRUE
    /\ con' = "accept"
    /\ UNCHANGED <<closed, client, err, listening, sessVars, sd, pc>>

\* As a mutant: the connection is not kept.
AcceptForgets(c) ==
    /\ con = "accept" /\ listening /\ sess[c] = "none" /\ c \notin lost
    /\ con' = "check"
    /\ UNCHANGED <<closed, conn, client, err, listening, sessVars, sd, pc>>

Accept(c) ==
    /\ con = "accept" /\ listening /\ sess[c] = "none" /\ c \notin lost
    /\ client' = c
    /\ con' = "check"
    /\ UNCHANGED <<closed, conn, err, listening, sessVars, sd, pc>>

\* Accept fails, because the listener is closed: an error unless the wire is too.
AcceptFails ==
    /\ con = "accept" /\ ~listening
    /\ err' = ~closed
    /\ con' = "leave"
    /\ UNCHANGED <<closed, conn, client, listening, sessVars, sd, pc>>

\* Accept fails while the listener is open, as it does when the process is out of
\* descriptors. The loop ends all the same; a wire that is closed makes it no error.
AcceptErrs ==
    /\ con = "accept" /\ listening
    /\ err' = ~closed
    /\ con' = "leave"
    /\ UNCHANGED <<closed, conn, client, listening, sessVars, sd, pc>>

\* A closed wire closes the connection at once.
CheckClosed ==
    /\ con = "check"
    /\ IF closed
       THEN con' = "accept" /\ client' = NoClient /\ lost' = lost \cup {client}
       ELSE con' = "confirm" /\ UNCHANGED <<client, lost>>
    /\ UNCHANGED <<closed, conn, err, listening, sess, sclosed, taken, sd, pc>>

\* yamux.Server fails: the loop ends, and the connection is left open.
ServeFails ==
    /\ con = "check" /\ ~closed
    /\ err' = TRUE
    /\ con' = "leave" /\ client' = NoClient
    /\ UNCHANGED <<closed, conn, listening, sessVars, sd, pc>>

\* confirmSession succeeds, and the session's goroutine is started, ...
Confirm ==
    /\ con = "confirm" /\ client \notin lost
    /\ sess' = [sess EXCEPT ![client] = "starting"]
    /\ con' = "accept" /\ client' = NoClient
    /\ UNCHANGED <<closed, conn, err, listening, sclosed, taken, lost, sd, pc>>

\* ... or fails. Its AcceptStream has no deadline: it may also never end.
ConfirmFails ==
    /\ con = "confirm"
    /\ lost' = lost \cup {client}
    /\ con' = "accept" /\ client' = NoClient
    /\ UNCHANGED <<closed, conn, err, listening, sess, sclosed, taken, sd, pc>>

\* The deferred listener.Close and setConnFlag(false).
Leave ==
    /\ con = "leave"
    /\ listening' = FALSE /\ conn' = FALSE
    /\ con' = "returned"
    /\ UNCHANGED <<closed, client, err, sessVars, sd, pc>>

-----------------------------------------------------------------------------
(* Wire.Close, called by the user once Connect is running.                 *)

CloseCheckConn(u) ==
    /\ pc[u] = "idle" /\ con # "start"
    /\ Goto(u, IF conn THEN "checked" ELSE "shortcut")
    /\ UNCHANGED <<wireVars, sessVars, sd>>

CloseShortcut(u) ==
    /\ pc[u] = "shortcut"
    /\ closed' = TRUE
    /\ Goto(u, "returned")
    /\ UNCHANGED <<conn, con, client, err, listening, sessVars, sd>>

CloseCheckClosed(u) ==
    /\ pc[u] = "checked"
    /\ Goto(u, IF closed THEN "refused" ELSE "closeup")
    /\ UNCHANGED <<wireVars, sessVars, sd>>

\* As a mutant: the wire is not marked closed before close().
CloseUpLate(u) ==
    /\ pc[u] = "closeup"
    /\ Goto(u, "blocked")
    /\ UNCHANGED <<wireVars, sessVars, sd>>

\* Mark the wire closed and send to wire.shutdown.
CloseUp(u) ==
    /\ pc[u] = "closeup"
    /\ closed' = TRUE
    /\ Goto(u, "blocked")
    /\ UNCHANGED <<conn, con, client, err, listening, sessVars, sd>>

-----------------------------------------------------------------------------
(* Sessions.                                                               *)

RegisterSession(c) ==
    /\ sess[c] = "starting"
    /\ sess' = [sess EXCEPT ![c] = "open"]
    /\ UNCHANGED <<wireVars, sclosed, taken, lost, sd, pc>>

\* The session's accept loop ends with its connection.
AcceptLoopEnds(c) ==
    /\ pc[<<c, "accept">>] = "idle" /\ sess[c] \in {"open", "gone"} /\ c \in lost
    /\ Goto(<<c, "accept">>, "called")
    /\ UNCHANGED <<wireVars, sessVars, sd>>

SessionCheck(c, who) ==
    /\ pc[<<c, who>>] = "called"
    /\ Goto(<<c, who>>, IF c \in sclosed THEN "refused" ELSE "mark")
    /\ UNCHANGED <<wireVars, sessVars, sd>>

\* As a mutant: a session whose connection is lost is not drained.
SessionMarkShort(c, who) ==
    /\ pc[<<c, who>>] = "mark"
    /\ sclosed' = sclosed \cup {c}
    /\ Goto(<<c, who>>, IF c \in lost THEN "unreg" ELSE "sendSession")
    /\ UNCHANGED <<wireVars, sess, taken, lost, sd>>

SessionMark(c, who) ==
    /\ pc[<<c, who>>] = "mark"
    /\ sclosed' = sclosed \cup {c}
    /\ Goto(<<c, who>>, "sendSession")
    /\ UNCHANGED <<wireVars, sess, taken, lost, sd>>

\* session.shutdown takes one caller, ...
SessionTake(c, who) ==
    /\ pc[<<c, who>>] = "sendSession" /\ c \notin taken
    /\ taken' = taken \cup {c}
    /\ Goto(<<c, who>>, "drain")
    /\ UNCHANGED <<wireVars, sess, sclosed, lost, sd>>

\* ... drains the streams, closes the connection and answers it.
SessionCut(c, who) ==
    /\ pc[<<c, who>>] = "drain"
    /\ lost' = lost \cup {c}
    /\ Goto(<<c, who>>, "unreg")
    /\ UNCHANGED <<wireVars, sess, sclosed, taken, sd>>

UnregisterSession(c, who) ==
    /\ pc[<<c, who>>] = "unreg"
    /\ sess' = [sess EXCEPT ![c] = "gone"]
    /\ Goto(<<c, who>>, "returned")
    /\ UNCHANGED <<wireVars, sclosed, taken, lost, sd>>

LoseConn(c) ==
    /\ PeerDrops /\ c \notin lost
    /\ lost' = lost \cup {c}
    /\ UNCHANGED <<wireVars, sess, sclosed, taken, sd, pc>>

-----------------------------------------------------------------------------
(* The goroutine wire.shutdown.                                            *)

\* It receives one request and calls Close on each session in the table, ...
ShutdownRecv(u) ==
    /\ sd = "recv" /\ pc[u] = "blocked"
    /\ sd' = "closing"
    /\ pc' = [p \in Procs |->
                IF p = u THEN "wait"
                ELSE IF p \in Sessions \X {"wire"} THEN "called" ELSE pc[p]]
    /\ UNCHANGED <<wireVars, sessVars>>

\* As a mutant: it does not wait for the sessions.
ShutdownListenerAtOnce ==
    /\ sd = "closing"
    /\ listening' = FALSE
    /\ sd' = "reply"
    /\ UNCHANGED <<closed, conn, con, client, err, sessVars, pc>>

\* As a mutant: it does not close the listener.
ShutdownKeepsListener ==
    /\ sd = "closing"
    /\ \A c \in Clients : pc[<<c, "wire">>] \in {"idle", "returned", "refused"}
    /\ sd' = "reply"
    /\ UNCHANGED <<wireVars, sessVars, pc>>

\* ... then closes the listener ...
ShutdownListener ==
    /\ sd = "closing"
    /\ \A c \in Clients : pc[<<c, "wire">>] \in {"idle", "returned", "refused"}
    /\ listening' = FALSE
    /\ sd' = "reply"
    /\ UNCHANGED <<closed, conn, con, client, err, sessVars, pc>>

\* ... and answers.
ShutdownReply ==
    /\ sd = "reply"
    /\ sd' = "done"
    /\ pc' = [p \in Procs |-> IF pc[p] = "wait" THEN "returned" ELSE pc[p]]
    /\ UNCHANGED <<wireVars, sessVars>>

-----------------------------------------------------------------------------

ConnectStep == Listen \/ SetConnFlag \/ AcceptFails \/ CheckClosed \/ Leave

CloseStep(u) == CloseShortcut(u) \/ CloseCheckClosed(u) \/ CloseUp(u)

SessionStep(c) ==
    \/ RegisterSession(c) \/ AcceptLoopEnds(c)
    \/ \E who \in {"accept", "wire"} :
          SessionCheck(c, who) \/ SessionMark(c, who) \/ SessionTake(c, who)
          \/ SessionCut(c, who) \/ UnregisterSession(c, who)

ShutdownStep == (\E u \in Users : ShutdownRecv(u)) \/ ShutdownListener \/ ShutdownReply

Next ==
    \/ ConnectStep \/ AcceptErrs \/ ServeFails \/ Confirm \/ ConfirmFails
    \/ \E c \in Clients : Accept(c) \/ SessionStep(c) \/ LoseConn(c)
    \/ \E u \in Users : CloseCheckConn(u) \/ CloseStep(u)
    \/ ShutdownStep

Spec == Init /\ [][Next]_vars

\* Goroutines run, and a session's drain ends (Session.ClosingCompletes). No
\* client has to connect, speak or leave, and neither Accept nor yamux has to fail.
Fairness ==
    /\ WF_vars(ConnectStep)
    /\ WF_vars(ShutdownStep)
    /\ \A u \in Users : WF_vars(CloseStep(u))
    /\ \A c \in Clients, who \in {"accept", "wire"} :
        /\ WF_vars(RegisterSession(c)) /\ WF_vars(AcceptLoopEnds(c))
        /\ WF_vars(SessionCheck(c, who) \/ SessionMark(c, who) \/ SessionTake(c, who)
                   \/ SessionCut(c, who) \/ UnregisterSession(c, who))

FairSpec == Spec /\ Fairness

-----------------------------------------------------------------------------
(* What the server side promises.                                          *)

\* When wire.shutdown closes the listener and answers, each session that it found
\* is out of the table, or the session's own accept loop was first to close it and
\* has still to take it out: none is left that nobody is closing.
FoundAreClosed ==
    sd \in {"reply", "done"} =>
        \A c \in Clients : pc[<<c, "wire">>] # "idle" =>
            \/ sess[c] = "gone"
            \/ pc[<<c, "wire">>] = "refused"
               /\ pc[<<c, "accept">>] \in {"sendSession", "drain", "unreg"}

\* The accept loop of Connect ends without an error when it ends because a Close
\* has closed its listener, whichever of its goroutines came first.
CleanCloseIsNil == [][con = "accept" /\ con' = "leave" /\ ~listening => ~err']_vars

\* A Close that wire.shutdown has received makes Connect return, unless a
\* client keeps it in confirmSession, or a session's closers race.
ReceivedCloseEnds ==
    []<>(con # "confirm") /\ []<>(sd # "closing") => ((sd = "closing") ~> con = "returned")

Life == INSTANCE SessionLife WITH
    Sess <- Clients,
    life <- [c \in Clients |-> CASE sess[c] = "open" -> IF c \in sclosed THEN "closing" ELSE "open"
                                 [] sess[c] = "gone" -> "gone"
                                 [] OTHER -> "new"],
    cut  <- lost

\* What is said here of a session is what a session does: however its accept
\* loop and wire.shutdown race to close it, its connection is closed before it
\* leaves the table.
SessionsLive == Life!Spec

-----------------------------------------------------------------------------
(* What the documentation or the tests say, and the code does not do.      *)

\* When Close is answered, the sessions that it found are out of the table.
FoundAreGone ==
    sd \in {"reply", "done"} =>
        \A c \in Clients : pc[<<c, "wire">>] # "idle" => sess[c] = "gone"

\* Connect returns no error when Close has returned nil before it.
ClosedConnectIsNil ==
    [][con # "returned" /\ con' = "returned" /\ err => \A u \in Users : pc[u] # "returned"]_vars

\* Close returns.
CloseReturns == \A u \in Users : pc[u] = "blocked" ~> pc[u] = "returned"

\* Once wire.shutdown has answered, Connect returns, whatever a client does.
ReceivedReturns == sd = "done" ~> con = "returned"

\* Once Close has returned nil, Connect returns.
CloseEndsConnect == \A u \in Users : pc[u] = "returned" ~> con = "returned"

\* Once Close has returned nil and Connect has returned, no session remains.
ClosedServerEmpties ==
    \A u \in Users : (pc[u] = "returned" /\ con = "returned") ~> Sessions = {}

\* A Close that begins after another has returned finds the wire's connection
\* gone and returns nil.
RepeatedCloseIsNil ==
    [][\A u, v \in Users : pc[v] = "returned" /\ pc[u] = "idle" => pc'[u] # "checked"]_vars
=============================================================================
