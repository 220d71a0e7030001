------------------------------ MODULE Registry ------------------------------
(***************************************************************************)
(* The tables of a wire (wirenet.go) in hub mode and out of it: the        *)
(* sessions, the index from stream names to sessions, the wire's own       *)
(* handlers; how the streams of the clients are routed through them; and   *)
(* the table a user keeps with the open and close hooks.                   *)
(*                                                                         *)
(* A client that reconnects is a new session of the same client: the wire  *)
(* notices the loss of the old connection when it likes, so the sessions   *)
(* of one client overlap and end in any order.                             *)
(***************************************************************************)
EXTENDS Naturals, FiniteSets

CONSTANTS
    Sessions,  \* every session the wire ever has
    Names,     \* stream names
    Provides,  \* the names each session's client serves (StreamNames())
    Handlers,  \* the names the wire itself is ever given a handler for
    Requests,  \* streams the clients open
    From,      \* the session each stream comes from
    Wants,     \* the name it asks for
    HubMode,   \* wire.hubMode
    NoSession

ASSUME RegistryAssumption ==
    /\ Provides \in [Sessions -> SUBSET Names]
    /\ Handlers \subseteq Names
    /\ From \in [Requests -> Sessions]
    /\ Wants \in [Requests -> Names]
    /\ HubMode \in BOOLEAN
    /\ NoSession \notin Sessions

VARIABLES
    sessions,     \* the keys of wire.sessions
    streamIndex,  \* wire.streamIndex; NoSession where there is no entry
    handlers,     \* the keys of wire.handlers
    wireClosed,   \* wire.closed
    phase,        \* where each session is in its life
    req,          \* where each stream is
    route,        \* the session a routed stream was opened on
    hooks,        \* hook goroutines that have not run yet
    table         \* the sessions in the table the user keeps with the hooks

vars == <<sessions, streamIndex, handlers, wireClosed, phase, req, route, hooks, table>>

Phases == {"new", "live", "closing", "gone"}

\* "accepted": readFrame answered with a recv frame; "looked": serveHub found a
\* session; "fallback": it found none; "routed": piped to a session;
\* "handled": given to a handler of the wire; "lost": accepted, then dropped.
ReqStates == {"idle", "accepted", "rejected", "looked", "fallback", "routed", "handled", "lost"}

\* Types; and serveHub, having found a session, never holds the nil of a failed
\* look-up in its place.
TypeOK ==
    /\ sessions \subseteq Sessions
    /\ streamIndex \in [Names -> Sessions \cup {NoSession}]
    /\ handlers \subseteq Handlers /\ wireClosed \in BOOLEAN
    /\ phase \in [Sessions -> Phases]
    /\ req \in [Requests -> ReqStates]
    /\ route \in [Requests -> Sessions \cup {NoSession}]
    /\ hooks \subseteq {"open", "close"} \X Sessions
    /\ table \subseteq Sessions
    /\ \A r \in Requests : req[r] = "looked" => route[r] \in Sessions

Init ==
    /\ sessions = {} /\ streamIndex = [n \in Names |-> NoSession]
    /\ handlers = {} /\ wireClosed = FALSE
    /\ phase = [s \in Sessions |-> "new"]
    /\ req = [r \in Requests |-> "idle"]
    /\ route = [r \in Requests |-> NoSession]
    /\ hooks = {} /\ table = {}

-----------------------------------------------------------------------------
(* Sessions.                                                               *)

\* As a mutant: the index is left alone when a session leaves.
IndexKept(s) == streamIndex

\* As a mutant: the index is emptied when a session leaves.
IndexCleared(s) == [n \in Names |-> NoSession]

IndexWith(s) ==
    [n \in Names |-> IF HubMode /\ n \in Provides[s] THEN s ELSE streamIndex[n]]

\* The names of s are deleted, whichever session they lead to.
IndexWithout(s) ==
    [n \in Names |-> IF HubMode /\ n \in Provides[s] THEN NoSession ELSE streamIndex[n]]

\* session.open: registerSession, then the open hook in its own goroutine.
RegisterSession(s) ==
    /\ phase[s] = "new"
    /\ phase' = [phase EXCEPT ![s] = "live"]
    /\ sessions' = sessions \cup {s}
    /\ streamIndex' = IndexWith(s)
    /\ hooks' = hooks \cup {<<"open", s>>}
    /\ UNCHANGED <<handlers, wireClosed, req, route, table>>

\* session.Close sets the flag and drains the streams ...
CloseSession(s) ==
    /\ phase[s] = "live"
    /\ phase' = [phase EXCEPT ![s] = "closing"]
    /\ UNCHANGED <<sessions, streamIndex, handlers, wireClosed, req, route, hooks, table>>

\* ... before unregisterSession and the close hook, again in its own goroutine.
UnregisterSession(s) ==
    /\ phase[s] = "closing"
    /\ phase' = [phase EXCEPT ![s] = "gone"]
    /\ sessions' = sessions \ {s}
    /\ streamIndex' = IndexWithout(s)
    /\ hooks' = hooks \cup {<<"close", s>>}
    /\ UNCHANGED <<handlers, wireClosed, req, route, table>>

\* The user's hooks keep a table of sessions, as in the README.
RunHook(h) ==
    /\ h \in hooks
    /\ hooks' = hooks \ {h}
    /\ table' = IF h[1] = "open" THEN table \cup {h[2]} ELSE table \ {h[2]}
    /\ UNCHANGED <<sessions, streamIndex, handlers, wireClosed, phase, req, route>>

CloseWire ==
    /\ ~wireClosed
    /\ wireClosed' = TRUE
    /\ UNCHANGED <<sessions, streamIndex, handlers, phase, req, route, hooks, table>>

\* The user gives the wire a handler, at any time; none is ever taken away. (What
\* a client tells the hub of its names is what it has when it connects.)
Stream(name) ==
    /\ name \in Handlers \ handlers
    /\ handlers' = handlers \cup {name}
    /\ UNCHANGED <<sessions, streamIndex, wireClosed, phase, req, route, hooks, table>>

-----------------------------------------------------------------------------
(* Routing one stream.                                                     *)

\* As a mutant: whether the index has the name is not tested.
FindUnchecked(name) == IF sessions = {} \/ wireClosed THEN "closed" ELSE "found"

\* findSession: "closed" (ErrSessionClosed), "none" (ErrSessionNotFound) or "found".
FindSession(name) ==
    CASE sessions = {} \/ wireClosed -> "closed"
      [] sessions # {} /\ ~wireClosed /\ streamIndex[name] = NoSession -> "none"
      [] OTHER -> "found"

\* validateStreamName, in hub mode and out of it.
NameIsValid(name) ==
    IF HubMode
    THEN \/ FindSession(name) = "found"
         \/ FindSession(name) = "none" /\ name \in handlers
    ELSE name \in handlers

Step(r, state) == req' = [req EXCEPT ![r] = state]

\* readFrame validates the name and answers the opener. (A stream that shows a
\* wrong token, or is not a request to open, is refused before its name is looked
\* at and never reaches the tables; it is not among the Requests.)
Validate(r) ==
    /\ req[r] = "idle" /\ phase[From[r]] \in {"live", "closing"}
    /\ Step(r, IF NameIsValid(Wants[r]) THEN "accepted" ELSE "rejected")
    /\ UNCHANGED <<sessions, streamIndex, handlers, wireClosed, phase, route, hooks, table>>

\* dispatchStream looks the name up again: serveHub in hub mode, ...
LookUp(r) ==
    /\ req[r] = "accepted" /\ HubMode
    /\ \/ /\ FindSession(Wants[r]) = "found"
          /\ Step(r, "looked")
          /\ route' = [route EXCEPT ![r] = streamIndex[Wants[r]]]
       \/ FindSession(Wants[r]) = "none" /\ Step(r, "fallback") /\ UNCHANGED route
       \/ FindSession(Wants[r]) = "closed" /\ Step(r, "lost") /\ UNCHANGED route
    /\ UNCHANGED <<sessions, streamIndex, handlers, wireClosed, phase, hooks, table>>

\* ... which opens a stream on the session found, unless that is closed or the
\* far side refuses, ...
Forward(r) ==
    /\ req[r] = "looked"
    /\ \/ phase[route[r]] = "live" /\ Step(r, "routed") /\ UNCHANGED route
       \/ Step(r, "lost") /\ route' = [route EXCEPT ![r] = NoSession]
    /\ UNCHANGED <<sessions, streamIndex, handlers, wireClosed, phase, hooks, table>>

\* ... or else serve, which looks for a handler of the wire.
Serve(r) ==
    /\ req[r] = "fallback" \/ (req[r] = "accepted" /\ ~HubMode)
    /\ Step(r, IF Wants[r] \in handlers THEN "handled" ELSE "lost")
    /\ UNCHANGED <<sessions, streamIndex, handlers, wireClosed, phase, route, hooks, table>>

-----------------------------------------------------------------------------

Next ==
    \/ \E s \in Sessions : RegisterSession(s) \/ CloseSession(s) \/ UnregisterSession(s)
    \/ \E h \in hooks : RunHook(h)
    \/ CloseWire
    \/ \E n \in Handlers : Stream(n)
    \/ \E r \in Requests : Validate(r) \/ LookUp(r) \/ Forward(r) \/ Serve(r)

Spec == Init /\ [][Next]_vars

-----------------------------------------------------------------------------
(* What the tables promise.                                                *)

\* Every entry of the index leads to a session that is registered and provides
\* the name: a stream is never routed to a session that has been forgotten,
\* although unregisterSession deletes names and never looks where they lead.
IndexSound ==
    \A n \in Names : streamIndex[n] # NoSession =>
        streamIndex[n] \in sessions /\ n \in Provides[streamIndex[n]]

\* A name that one session only ever provides leads to it for as long as that
\* session is registered, whatever the other sessions do.
UniqueNamesFound ==
    HubMode => \A s \in sessions : \A n \in Provides[s] :
        (\A t \in Sessions : n \in Provides[t] => t = s) => streamIndex[n] = s

\* Out of hub mode a stream that was accepted has its handler to the end, although
\* the name is looked up twice. In hub mode it may be lost in between.
AcceptedIsHandled ==
    ~HubMode => \A r \in Requests :
        /\ req[r] = "accepted" => Wants[r] \in handlers
        /\ req[r] \in {"idle", "accepted", "rejected", "handled"}

-----------------------------------------------------------------------------
(* What the documentation says, and the code does not do.                  *)

\* While a session is registered, the names it provides are found. (The README
\* asks that no two clients share a name; two sessions of one client do.)
NamesFound ==
    HubMode => \A s \in sessions : \A n \in Provides[s] : streamIndex[n] # NoSession

\* When all hooks have run, the table the user keeps with them has no session
\* that is gone.
HookTableSound == hooks = {} => \A s \in table : phase[s] # "gone"
=============================================================================
