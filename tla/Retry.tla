-------------------------------- MODULE Retry --------------------------------
(***************************************************************************)
(* How long a client waits between two attempts to connect: the policy     *)
(* (options.go) with the width of its integers, and the loop of            *)
(* acceptClient (wirenet.go) that waits by it, sleeping half a second at a *)
(* time and comparing whole seconds.                                       *)
(*                                                                         *)
(* Time passes in units, Second of which are a second. Only differences,   *)
(* and where the seconds begin, matter: the clock is set back by whole     *)
(* seconds when a wait begins.                                             *)
(***************************************************************************)
EXTENDS Integers

CONSTANTS
    RetryMax,  \* wire.retryMax
    WaitMin,   \* wire.retryWaitMin
    WaitMax,   \* wire.retryWaitMax
    Limit,     \* the largest time.Duration
    Second,    \* time.Second
    Nap,       \* 500 * time.Millisecond
    Late       \* bound: how much later than asked a Sleep may end

ASSUME RetryAssumption ==
    /\ RetryMax \in Nat
    /\ WaitMin \in Nat \ {0} /\ WaitMax \in Nat /\ Limit \in Nat
    /\ WaitMin <= Limit /\ WaitMax <= Limit
    /\ Second \in Nat \ {0} /\ Nap \in Nat \ {0} /\ Late \in Nat

VARIABLES
    con,        \* where acceptClient is
    attempts,   \* wire.connCounter
    now,        \* the clock
    began,      \* when the last dial was refused
    due,        \* timeout: when the wait is over
    wake,       \* when the Sleep under way is over
    closed,     \* wire.closed
    since,      \* how long a Close has gone unnoticed by the waiting loop
    reachable   \* does the server accept connections?

times     == <<now, began, due, wake>>
retryVars == <<con, attempts, times, closed, since, reachable>>

\* "top": the head of the loop; "up": connected, until the connection ends.
States == {"top", "dialing", "polling", "sleeping", "up", "returned"}

RetryTypeOK ==
    /\ con \in States
    /\ attempts \in 0..RetryMax
    /\ now \in Nat /\ began \in Nat /\ wake \in Nat /\ due \in Int
    /\ closed \in BOOLEAN /\ since \in Nat /\ reachable \in BOOLEAN

RetryInit ==
    /\ con = "top" /\ attempts = 0
    /\ now \in 0..(Second - 1) /\ began = now /\ due = now /\ wake = now
    /\ closed = FALSE /\ since = 0 /\ reachable \in BOOLEAN

-----------------------------------------------------------------------------
(* DefaultRetryPolicy.                                                     *)

\* 2^n * WaitMin, which is exact in floating point.
Product[n \in Nat] == IF n = 0 THEN WaitMin ELSE 2 * Product[n - 1]

\* time.Duration(m): Go leaves open what the conversion of a number that is too
\* large gives; processors give the smallest integer, or the largest.
Converted(m) == IF m <= Limit THEN {m} ELSE {-(Limit + 1), Limit}

\* float64(wait): the largest integer is rounded up.
AsFloat(wait) == IF wait = Limit THEN Limit + 1 ELSE wait

\* As a mutant: the overflow is not looked for.
PolicyUnchecked(n) ==
    {IF w > WaitMax THEN WaitMax ELSE w : w \in Converted(Product[n])}

\* What the policy may return for attempt n.
Policy(n) ==
    {IF AsFloat(w) # Product[n] \/ w > WaitMax THEN WaitMax ELSE w : w \in Converted(Product[n])}

-----------------------------------------------------------------------------
(* acceptClient.                                                           *)

Goto(state) == con' = state

\* The clock at the beginning of a wait.
Rebase == now' = now % Second /\ began' = now % Second

\* As a mutant: one attempt too many.
TopOneMore ==
    /\ con = "top"
    /\ IF attempts > RetryMax \/ closed
       THEN Goto("returned") /\ UNCHANGED attempts
       ELSE Goto("dialing") /\ attempts' = attempts + 1
    /\ UNCHANGED <<times, closed, since, reachable>>

\* The head of the loop, and the attempt counted.
Top ==
    /\ con = "top"
    /\ IF attempts >= RetryMax \/ closed
       THEN Goto("returned") /\ UNCHANGED attempts
       ELSE Goto("dialing") /\ attempts' = attempts + 1
    /\ UNCHANGED <<times, closed, since, reachable>>

\* As a mutant: each attempt begins to count again.
RefusedForgets ==
    /\ con = "dialing" /\ ~reachable
    /\ Rebase
    /\ \E w \in Policy(attempts - 1) : due' = now' + w
    /\ Goto("polling") /\ attempts' = 0
    /\ UNCHANGED <<wake, closed, since, reachable>>

\* "connection refused": the wait begins. The policy gets the number of the
\* attempt before it was counted.
Refused ==
    /\ con = "dialing" /\ ~reachable
    /\ Rebase
    /\ \E w \in Policy(attempts - 1) : due' = now' + w
    /\ Goto("polling")
    /\ UNCHANGED <<attempts, wake, closed, since, reachable>>

\* Any other error ends Connect.
DialFails ==
    /\ con = "dialing"
    /\ Goto("returned")
    /\ UNCHANGED <<attempts, times, closed, since, reachable>>

\* A connection; the handshake and the session are in ClientWire.
Connected ==
    /\ con = "dialing" /\ reachable
    /\ Goto("up") /\ attempts' = 0
    /\ UNCHANGED <<times, closed, since, reachable>>

ConnectionEnds ==
    /\ con = "up"
    /\ Goto("top")
    /\ UNCHANGED <<attempts, times, closed, since, reachable>>

\* As a mutant: the seconds must differ.
PollStrict ==
    /\ con = "polling"
    /\ IF due \div Second < now \div Second \/ closed
       THEN Goto("top") /\ UNCHANGED wake
       ELSE Goto("sleeping") /\ wake' = now + Nap
    /\ UNCHANGED <<attempts, now, began, due, closed, since, reachable>>

\* timeout.Unix() <= time.Now().Unix() || isClosed(), or else a nap.
Poll ==
    /\ con = "polling"
    /\ IF due \div Second <= now \div Second \/ closed
       THEN Goto("top") /\ UNCHANGED wake
       ELSE Goto("sleeping") /\ wake' = now + Nap
    /\ UNCHANGED <<attempts, now, began, due, closed, since, reachable>>

Wake ==
    /\ con = "sleeping" /\ now >= wake
    /\ Goto("polling")
    /\ UNCHANGED <<attempts, times, closed, since, reachable>>

-----------------------------------------------------------------------------
(* The clock, the user and the network.                                    *)

\* Time passes in the Sleep, and while the loop waits for others.
Tick ==
    /\ \/ con = "sleeping" /\ now < wake + Late /\ now' = now + 1
       \/ con \in {"dialing", "up"} /\ now' = (now + 1) % Second
    /\ since' = IF con = "sleeping" /\ closed THEN since + 1 ELSE since
    /\ UNCHANGED <<con, attempts, began, due, wake, closed, reachable>>

Close ==
    /\ ~closed
    /\ closed' = TRUE
    /\ UNCHANGED <<con, attempts, times, since, reachable>>

\* The server goes away, or comes back.
Toggle ==
    /\ reachable' = ~reachable
    /\ UNCHANGED <<con, attempts, times, closed, since>>

LoopStep == Top \/ Refused \/ DialFails \/ Connected \/ Poll \/ Wake

RetryNext == LoopStep \/ ConnectionEnds \/ Tick \/ Close \/ Toggle

RetrySpec == RetryInit /\ [][RetryNext]_retryVars

\* The goroutine runs, a dial ends one way or the other, and time passes.
FairRetrySpec == RetrySpec /\ WF_retryVars(LoopStep) /\ WF_retryVars(Tick /\ con = "sleeping")

-----------------------------------------------------------------------------
(* What the retries promise.                                               *)

Waiting == con \in {"polling", "sleeping"}

\* A wait is at least the minimum and never above the maximum, at any number of
\* attempts: the product that no longer fits is noticed, whatever the processor
\* makes of it. And a Close during the wait ends it with the nap under way.
WaitInBounds ==
    Waiting => /\ due - began <= WaitMax
               /\ due - began >= WaitMin \/ due - began = WaitMax
               /\ since <= Nap + Late

\* The waits of one outage never become shorter; and unless the wire is closed,
\* the next dial comes neither a second early nor more than a nap late: comparing
\* whole seconds costs less than one of them.
WaitsAreKept ==
    [][/\ con = "dialing" /\ con' = "polling" /\ attempts > 1 => due' - began' >= due - began
       /\ con = "polling" /\ con' = "top" /\ ~closed =>
              /\ now - began > due - began - Second
              /\ now - began < due - began + Nap + Late]_retryVars

\* When the server stays away, Connect gives up.
GivesUp == <>[](~reachable /\ con # "up") => <>(con = "returned")

-----------------------------------------------------------------------------
(* What the documentation says, and the code does not do.                  *)

\* The wait between two dials is at least the minimum given to WithRetryWait.
WaitsAtLeastMin ==
    [][con = "polling" /\ con' = "top" /\ ~closed =>
          now - began >= WaitMin \/ now - began >= WaitMax]_retryVars
=============================================================================
