------------------------------- MODULE Resume -------------------------------
(***************************************************************************)
(* The example programs examples/reconnect: a server that says hello in    *)
(* messages 0..Last on each stream, from the index it is asked for, and a  *)
(* client that asks for what it lacks whenever it has a new connection.    *)
(*                                                                         *)
(* The program uses the whole package, of which this module keeps what     *)
(* modules ClientWire, Session and Transfer say: a lost connection ends    *)
(* its session, which waits for the stream of the open hook or, after the  *)
(* timeout, closes it by force; then Connect dials again; messages arrive  *)
(* whole and in order as far as they arrive.                               *)
(***************************************************************************)
EXTENDS Integers

CONSTANTS
    Last,      \* the last message (20)
    MsgLen,    \* bytes of a message (22 or 23)
    BufLen,    \* bytes of the buffer given to Read (32)
    MaxConns   \* bound: connections made

ASSUME ResumeAssumption ==
    /\ Last \in Nat /\ MaxConns \in Nat
    /\ MsgLen \in Nat \ {0} /\ BufLen \in Nat /\ MsgLen <= BufLen

Conns == 1..MaxConns
Nothing == -1

VARIABLES
    startIndex,  \* the client's variable
    con,         \* where Connect is
    gen,         \* the connections made
    wireClosed,  \* wire.closed
    asked,       \* has wire.shutdown of the connection been asked to close it?
    lost,        \* connections that are closed
    forced,      \* sessions closed with the hook's stream still registered
    hook,        \* where the open hook of each session is
    index,       \* the index each hook has sent
    first,       \* the message each handler began with
    next,        \* the next message of each handler, which has ended past Last
    arrived,     \* messages the hook's stream holds
    held,        \* bytes in the Reader's buffer
    inHand,      \* bytes returned by Read and not yet printed
    printed      \* bytes printed by each hook

wireVars == <<con, gen, wireClosed, asked, lost, forced>>
dataVars == <<index, first, next, arrived, held, inHand, printed>>
vars == <<startIndex, wireVars, hook, dataVars>>

HookStates == {"none", "opening", "confirmed", "asking", "reading", "printing",
               "checking", "closing", "done"}

TypeOK ==
    /\ startIndex \in Nat
    /\ con \in {"loop", "dialing", "waiting", "stuck", "returned"}
    /\ gen \in 0..MaxConns
    /\ wireClosed \in BOOLEAN /\ asked \in BOOLEAN
    /\ lost \subseteq Conns /\ forced \subseteq Conns
    /\ hook \in [Conns -> HookStates]
    /\ index \in [Conns -> Nat \cup {Nothing}]
    /\ first \in [Conns -> Nat \cup {Nothing}] /\ next \in [Conns -> Nat \cup {Nothing}]
    /\ arrived \in [Conns -> 0..Last + 1]
    /\ held \in [Conns -> 0..BufLen + MsgLen]
    /\ inHand \in [Conns -> 0..BufLen]
    /\ printed \in [Conns -> 0..(Last + 1) * MsgLen]

Init ==
    /\ startIndex = 0 /\ con = "loop" /\ gen = 0
    /\ wireClosed = FALSE /\ asked = FALSE
    /\ lost = {} /\ forced = {}
    /\ hook = [g \in Conns |-> "none"]
    /\ index = [g \in Conns |-> Nothing]
    /\ first = [g \in Conns |-> Nothing] /\ next = [g \in Conns |-> Nothing]
    /\ arrived = [g \in Conns |-> 0] /\ held = [g \in Conns |-> 0]
    /\ inHand = [g \in Conns |-> 0] /\ printed = [g \in Conns |-> 0]

Goto(g, state) == hook' = [hook EXCEPT ![g] = state]

\* Is the hook's stream registered with its session?
HasStream(g) == hook[g] \in {"asking", "reading", "printing", "checking", "closing"}

-----------------------------------------------------------------------------
(* Connect, the sessions and wire.shutdown.                                *)

Loop ==
    /\ con = "loop"
    /\ con' = IF wireClosed THEN "returned" ELSE "dialing"
    /\ UNCHANGED <<startIndex, gen, wireClosed, asked, lost, forced, hook, dataVars>>

\* The dial is refused and Connect waits; or the session is opened, with its hook.
DialFails ==
    /\ con = "dialing"
    /\ con' = "loop"
    /\ UNCHANGED <<startIndex, gen, wireClosed, asked, lost, forced, hook, dataVars>>

DialSucceeds ==
    /\ con = "dialing" /\ gen < MaxConns
    /\ gen' = gen + 1 /\ con' = "waiting"
    /\ Goto(gen', "opening")
    /\ UNCHANGED <<startIndex, wireClosed, asked, lost, forced, dataVars>>

LoseConn ==
    /\ con = "waiting" /\ gen \notin lost
    /\ lost' = lost \cup {gen}
    /\ UNCHANGED <<startIndex, con, gen, wireClosed, asked, forced, hook, dataVars>>

\* A session whose connection is lost ends when the hook has closed its stream,
\* or when the timeout has passed. Its end makes Connect go on, unless the wire
\* is closed.
SessionEnds ==
    /\ con = "waiting" /\ gen \in lost /\ ~asked
    /\ forced' = IF HasStream(gen) THEN forced \cup {gen} ELSE forced
    /\ con' = IF wireClosed THEN "stuck" ELSE "loop"
    /\ UNCHANGED <<startIndex, gen, wireClosed, asked, lost, hook, dataVars>>

\* wire.shutdown closes the session, the connection and waitCh.
Shutdown ==
    /\ con = "waiting" /\ asked
    /\ lost' = lost \cup {gen}
    /\ forced' = IF HasStream(gen) THEN forced \cup {gen} ELSE forced
    /\ con' = "loop"
    /\ UNCHANGED <<startIndex, gen, wireClosed, asked, hook, dataVars>>

-----------------------------------------------------------------------------
(* The handler of the server.                                              *)

\* As a mutant: it goes on after the index, not from it.
HandlerStartsAfter(g) ==
    /\ next[g] = Nothing /\ index[g] # Nothing /\ g \notin lost
    /\ first' = [first EXCEPT ![g] = index[g] + 1]
    /\ next' = [next EXCEPT ![g] = index[g] + 1]
    /\ UNCHANGED <<startIndex, wireVars, hook, index, arrived, held, inHand, printed>>

\* It reads the index, ...
HandlerStarts(g) ==
    /\ next[g] = Nothing /\ index[g] # Nothing /\ g \notin lost
    /\ first' = [first EXCEPT ![g] = index[g]]
    /\ next' = [next EXCEPT ![g] = index[g]]
    /\ UNCHANGED <<startIndex, wireVars, hook, index, arrived, held, inHand, printed>>

\* As a mutant: the last message is left out.
HandlerStopsShort(g) ==
    /\ next[g] \in 0..Last /\ g \notin lost
    /\ next' = [next EXCEPT ![g] = @ + 1]
    /\ arrived' = IF next[g] = Last THEN arrived ELSE [arrived EXCEPT ![g] = @ + 1]
    /\ UNCHANGED <<startIndex, wireVars, hook, index, first, held, inHand, printed>>

\* ... writes one message after the other, and returns after the last.
HandlerWrites(g) ==
    /\ next[g] \in 0..Last /\ g \notin lost
    /\ next' = [next EXCEPT ![g] = @ + 1]
    /\ arrived' = [arrived EXCEPT ![g] = @ + 1]
    /\ UNCHANGED <<startIndex, wireVars, hook, index, first, held, inHand, printed>>

-----------------------------------------------------------------------------
(* The open hook of the client, read(sess).                                *)

\* OpenStream: the peer confirms, and then the stream is registered; ...
StreamConfirmed(g) ==
    /\ hook[g] = "opening" /\ g \notin lost
    /\ Goto(g, "confirmed")
    /\ UNCHANGED <<startIndex, wireVars, dataVars>>

StreamOpened(g) ==
    /\ hook[g] = "confirmed"
    /\ Goto(g, "asking")
    /\ UNCHANGED <<startIndex, wireVars, dataVars>>

\* ... or it fails.
StreamFails(g) ==
    /\ hook[g] = "opening" /\ g \in lost
    /\ Goto(g, "done")
    /\ UNCHANGED <<startIndex, wireVars, dataVars>>

\* An error of this write is logged, and the hook goes on to read.
Ask(g) ==
    /\ hook[g] = "asking"
    /\ index' = IF g \in lost THEN index ELSE [index EXCEPT ![g] = startIndex]
    /\ Goto(g, "reading")
    /\ UNCHANGED <<startIndex, wireVars, first, next, arrived, held, inHand, printed>>

\* As a mutant: the buffer is not looked at.
FillOn(g) ==
    /\ hook[g] = "reading" /\ arrived[g] > 0
    /\ arrived' = [arrived EXCEPT ![g] = @ - 1]
    /\ held' = [held EXCEPT ![g] = @ + MsgLen]
    /\ UNCHANGED <<startIndex, wireVars, hook, index, first, next, inHand, printed>>

\* Reader.Read takes messages into its buffer until it can fill the caller's, ...
Fill(g) ==
    /\ hook[g] = "reading" /\ held[g] < BufLen /\ arrived[g] > 0
    /\ arrived' = [arrived EXCEPT ![g] = @ - 1]
    /\ held' = [held EXCEPT ![g] = @ + MsgLen]
    /\ UNCHANGED <<startIndex, wireVars, hook, index, first, next, inHand, printed>>

\* ... or the stream ends, by a loss or because the handler has returned, ...
StreamEnded(g) == arrived[g] = 0 /\ (g \in lost \/ next[g] > Last)

\* ... and returns what it has.
Read(g) ==
    /\ hook[g] = "reading" /\ (held[g] >= BufLen \/ (held[g] > 0 /\ StreamEnded(g)))
    /\ LET n == IF held[g] >= BufLen THEN BufLen ELSE held[g] IN
         /\ held' = [held EXCEPT ![g] = @ - n]
         /\ inHand' = [inHand EXCEPT ![g] = n]
    /\ Goto(g, "printing")
    /\ UNCHANGED <<startIndex, wireVars, index, first, next, arrived, printed>>

\* The bytes go to standard output, which may block; what is counted is the Read.
\* (The whole buffer is written: after a short Read, with a rest of the one before.)
Output(g) ==
    /\ hook[g] = "printing"
    /\ printed' = [printed EXCEPT ![g] = @ + inHand[g]]
    /\ inHand' = [inHand EXCEPT ![g] = 0]
    /\ startIndex' = startIndex + 1
    /\ Goto(g, "reading")
    /\ UNCHANGED <<wireVars, index, first, next, arrived, held>>

\* Nothing more to read: the end, or the stream closed by force.
ReadEnds(g) ==
    /\ hook[g] = "reading"
    /\ g \in forced \/ (held[g] = 0 /\ StreamEnded(g))
    /\ Goto(g, "checking")
    /\ UNCHANGED <<startIndex, wireVars, dataVars>>

\* The data is complete, or the deferred Close of the stream ends the hook.
Check(g) ==
    /\ hook[g] = "checking"
    /\ Goto(g, IF startIndex >= Last THEN "closing" ELSE "done")
    /\ UNCHANGED <<startIndex, wireVars, dataVars>>

\* CloseWire: wire.shutdown is there to be asked only while Connect waits (as in
\* ClientWire). The hook's own stream is open as long as the call lasts.
CloseWire(g) ==
    /\ hook[g] = "closing" /\ ~wireClosed
    /\ wireClosed' = TRUE
    /\ asked' = (con = "waiting")
    /\ UNCHANGED <<startIndex, con, gen, lost, forced, hook, dataVars>>

\* It returns when the session is gone, or at once when the wire is closed.
CloseWireEnds(g) ==
    /\ hook[g] = "closing" /\ wireClosed
    /\ Goto(g, "done")
    /\ UNCHANGED <<startIndex, wireVars, dataVars>>

-----------------------------------------------------------------------------

ConnectStep == Loop \/ DialSucceeds \/ SessionEnds \/ Shutdown
HandlerStep(g) == HandlerStarts(g) \/ HandlerWrites(g)
HookStep(g) ==
    \/ StreamConfirmed(g) \/ StreamOpened(g) \/ StreamFails(g) \/ Ask(g)
    \/ Fill(g) \/ Read(g) \/ Output(g) \/ ReadEnds(g) \/ Check(g)
    \/ CloseWire(g) \/ CloseWireEnds(g)

\* When Connect has returned, the program exits.
Next ==
    /\ con # "returned"
    /\ \/ ConnectStep \/ DialFails \/ LoseConn
       \/ \E g \in Conns : HandlerStep(g) \/ HookStep(g)

Spec == Init /\ [][Next]_vars

\* The goroutines of both programs run, and a server that is tried for ever is
\* reached in the end.
Fairness ==
    /\ WF_vars(Loop) /\ SF_vars(DialSucceeds)
    /\ WF_vars(SessionEnds) /\ WF_vars(Shutdown)
    /\ \A g \in Conns : WF_vars(HandlerStep(g)) /\ WF_vars(HookStep(g))

FairSpec == Spec /\ Fairness

-----------------------------------------------------------------------------
(* What the programs promise.                                              *)

\* The messages printed whole.
Messages(g) == {i \in 0..Last : first[g] <= i /\ i < first[g] + printed[g] \div MsgLen}
Printed == UNION {Messages(g) : g \in Conns}

Complete(n) == 0..(n - 1) \subseteq Printed

\* Counting Reads instead of messages does no harm: what comes before the index
\* that the next stream asks for has been printed. A Read of a whole buffer is
\* at least a message, and the session of a lost connection has waited for the
\* hook to count its last one. A session closed by force matters only when there
\* is a connection after it.
NoGap == forced \subseteq {gen} => Complete(startIndex)

\* As long as some connection lasts, everything is printed in the end.
LastingConnCompletes ==
    [](forced = {}) /\ <>[](con = "waiting" /\ gen \notin lost) => <>(Printed = 0..Last)

-----------------------------------------------------------------------------
(* What the programs say, and do not do.                                   *)

\* "data complete!" is printed when all data is there (client/main.go:72).
CompleteIsAll == wireClosed => Printed = 0..Last

\* ... and it is printed when all data is there.
AllIsComplete == Printed = 0..Last ~> wireClosed

\* A hook that the session no longer waits for does not disturb the next one.
NoGapEver == Complete(startIndex)
=============================================================================
