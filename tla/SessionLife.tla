---------------------------- MODULE SessionLife ----------------------------
(***************************************************************************)
(* What the sessions of a wire look like from the outside: the order in    *)
(* which each is registered, closed, drained, cut and unregistered. Module *)
(* Session is one such session with its streams and its goroutines;        *)
(* ClientWire and ServerWire use sessions and keep no more of them than    *)
(* this. All three implement it.                                           *)
(***************************************************************************)

CONSTANT Sess   \* the sessions of a wire

VARIABLES
    life,   \* where each is: "open" and "closing" are in wire.sessions
    taken,  \* those whose shutdown goroutine has received a Close
    cut     \* those whose connection is closed

vars == <<life, taken, cut>>

Init ==
    /\ life = [s \in Sess |-> "new"]
    /\ taken = {} /\ cut = {}

Move(s, from, to) == life[s] = from /\ life' = [life EXCEPT ![s] = to]

\* open() registers the session; its connection may be lost by then.
Open(s) == Move(s, "new", "open") /\ UNCHANGED <<taken, cut>>

\* The first Close sets the flag; the others that passed its test change nothing.
Close(s) == Move(s, "open", "closing") /\ UNCHANGED <<taken, cut>>

\* The shutdown goroutine receives one Close, and no second.
Take(s) ==
    /\ life[s] = "closing" /\ s \notin taken
    /\ taken' = taken \cup {s}
    /\ UNCHANGED <<life, cut>>

\* The connection is closed, by shutdown, by the peer or by the network.
Cut(s) ==
    /\ s \notin cut
    /\ cut' = cut \cup {s}
    /\ UNCHANGED <<life, taken>>

\* The Close that was answered unregisters the session.
Leave(s) ==
    /\ s \in taken \cap cut
    /\ Move(s, "closing", "gone")
    /\ UNCHANGED <<taken, cut>>

Next == \E s \in Sess : Open(s) \/ Close(s) \/ Take(s) \/ Cut(s) \/ Leave(s)

Spec == Init /\ [][Next]_vars
=============================================================================
