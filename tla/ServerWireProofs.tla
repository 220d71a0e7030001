-------------------------- MODULE ServerWireProofs --------------------------
(* What is proved of ServerWire for every set of clients and of goroutines *)
(* that close the wire.                                                    *)
EXTENDS ServerWire, TLAPS

Whos == {"accept", "wire"}
Past == {"drain", "unreg", "returned"}   \* taken by session.shutdown, or after it
Idle == {"idle", "returned", "refused"}

\* The client that is looked at has no session yet.
ClientInv == con \in {"check", "confirm"} => client \in Clients /\ sess[client] = "none"

\* The goroutines that close the session of c: one of them passes
\* session.shutdown, and the session is in the table until it unregisters it.
CloserInv(c) ==
    /\ sess[c] = "gone" => c \in taken
    /\ c \in taken => c \in sclosed
    /\ c \in sclosed => \E w \in Whos : pc[<<c, w>>] \in {"sendSession"} \cup Past
    /\ c \in sclosed => sess[c] \in {"open", "gone"}
    /\ \A w \in Whos :
        /\ pc[<<c, w>>] \notin {"shortcut", "checked", "closeup", "blocked", "wait"}
        /\ pc[<<c, w>>] # "idle" => sess[c] \in {"open", "gone"}
        /\ pc[<<c, w>>] \in {"sendSession", "refused"} => c \in sclosed
        /\ pc[<<c, w>>] \in Past => c \in taken
        /\ pc[<<c, w>>] = "returned" => sess[c] = "gone"
        /\ pc[<<c, w>>] \in {"drain", "unreg"} => sess[c] = "open"
        /\ pc[<<c, w>>] = "unreg" => c \in lost
        /\ \A v \in Whos : pc[<<c, w>>] \in Past /\ pc[<<c, v>>] \in Past => v = w

\* wire.shutdown receives one request, after the wire is marked closed, and
\* goes on when its calls of session.Close have ended.
ShutdownInv ==
    /\ \A u \in Users : pc[u] = "blocked" => closed
    /\ sd \in {"closing", "reply", "done"} => closed
    /\ sd \in {"none", "recv"} => \A c \in Clients : pc[<<c, "wire">>] = "idle"
    /\ sd \in {"reply", "done"} => \A c \in Clients : pc[<<c, "wire">>] \in Idle

\* The listener is closed by wire.shutdown or by Connect as it returns.
ListenInv ==
    /\ con = "start" => sd = "none"
    /\ ~listening => con \in {"start", "returned"} \/ sd \in {"reply", "done"}
    /\ con \in {"flag", "accept", "check", "confirm", "leave"} => sd # "none"

WireInv == ClientInv /\ ShutdownInv /\ ListenInv /\ \A c \in Clients : CloserInv(c)

-----------------------------------------------------------------------------

LEMMA ProcsAreDistinct ==
    /\ \A c \in Clients, w \in Whos : <<c, w>> \in Procs /\ <<c, w>> \notin Users
    /\ \A u \in Users : u \in Procs
BY ServerAssumption DEF ServerAssumption, Procs, SessionClosers, Whos

LEMMA InvInit == Init => TypeOK /\ WireInv
<1>1. Init => TypeOK
  BY DEF Init, TypeOK, ConStates, SessStates, SdStates, ProcStates
<1>2. Init => ClientInv /\ ListenInv
  BY DEF Init, ClientInv, ListenInv
<1>3. Init => ShutdownInv
  BY ProcsAreDistinct DEF Init, ShutdownInv, Whos
<1>4. ASSUME Init, NEW c \in Clients
      PROVE  CloserInv(c)
  BY <1>4, ProcsAreDistinct DEF Init, CloserInv, Past
<1>5. QED BY <1>1, <1>2, <1>3, <1>4 DEF WireInv

LEMMA TypeStep == TypeOK /\ WireInv /\ [Next]_vars => TypeOK'
<1> SUFFICES ASSUME TypeOK, WireInv, [Next]_vars
             PROVE  TypeOK'
  OBVIOUS
<1> USE DEF TypeOK, ConStates, SessStates, SdStates, ProcStates, wireVars, sessVars, Goto
<1>1. CASE ConnectStep \/ AcceptErrs \/ ServeFails \/ Confirm \/ ConfirmFails
  <2>1. con \in {"check", "confirm"} => client \in Clients
    BY DEF WireInv, ClientInv
  <2>2. CASE Listen \/ SetConnFlag \/ AcceptFails \/ AcceptErrs \/ ServeFails \/ Leave
    BY <2>2 DEF Listen, SetConnFlag, AcceptFails, AcceptErrs, ServeFails, Leave
  <2>3. CASE CheckClosed \/ Confirm \/ ConfirmFails
    BY <2>1, <2>3 DEF CheckClosed, Confirm, ConfirmFails
  <2>4. QED BY <1>1, <2>2, <2>3 DEF ConnectStep
<1>2. ASSUME NEW c \in Clients, Accept(c) \/ LoseConn(c) \/ RegisterSession(c)
                                \/ AcceptLoopEnds(c)
      PROVE  TypeOK'
  BY <1>2 DEF Accept, LoseConn, RegisterSession, AcceptLoopEnds
<1>3. ASSUME NEW c \in Clients, NEW w \in Whos,
             SessionCheck(c, w) \/ SessionMark(c, w) \/ SessionTake(c, w)
             \/ SessionCut(c, w) \/ UnregisterSession(c, w)
      PROVE  TypeOK'
  BY <1>3 DEF SessionCheck, SessionMark, SessionTake, SessionCut, UnregisterSession
<1>4. ASSUME NEW u \in Users, CloseCheckConn(u) \/ CloseStep(u) \/ ShutdownRecv(u)
      PROVE  TypeOK'
  <2>1. CASE CloseCheckConn(u) \/ CloseStep(u)
    <3> USE <2>1 DEF CloseCheckConn, CloseStep, CloseShortcut, CloseCheckClosed, CloseUp
    <3>1. \E s \in ProcStates : pc' = [pc EXCEPT ![u] = s]
      OBVIOUS
    <3>2. pc' \in [Procs -> ProcStates]
      BY <3>1, ProcsAreDistinct DEF TypeOK
    <3>3. closed' \in BOOLEAN
      BY Zenon
    <3>4. QED BY <3>2, <3>3
  <2>2. CASE ShutdownRecv(u)
    <3>1. pc' \in [Procs -> ProcStates]
      BY <2>2 DEF ShutdownRecv, TypeOK
    <3>2. QED BY <2>2, <3>1 DEF ShutdownRecv
  <2>3. QED BY <1>4, <2>1, <2>2
<1>5. CASE ShutdownListener \/ ShutdownReply
  BY <1>5 DEF ShutdownListener, ShutdownReply
<1>6. CASE UNCHANGED vars
  BY <1>6 DEF vars
<1>7. QED
  BY <1>1, <1>2, <1>3, <1>4, <1>5, <1>6 DEF Next, SessionStep, ShutdownStep, Whos

LEMMA InvStep == TypeOK /\ WireInv /\ [Next]_vars => WireInv'
<1> SUFFICES ASSUME TypeOK, WireInv, [Next]_vars
             PROVE  WireInv'
  OBVIOUS
<1> USE ProcsAreDistinct DEF WireInv, wireVars, sessVars, Goto
<1>1. CASE ConnectStep \/ AcceptErrs \/ ServeFails \/ Confirm \/ ConfirmFails
  <2> USE <1>1 DEF ConnectStep, Listen, SetConnFlag, AcceptFails, AcceptErrs, ServeFails, CheckClosed, Leave,
                   Confirm, ConfirmFails
  <2>1. ClientInv' /\ ListenInv'
    BY DEF ClientInv, ListenInv, ShutdownInv, TypeOK, SdStates
  <2>2. ShutdownInv'
    BY DEF ShutdownInv, ListenInv
  <2>3. ASSUME NEW c \in Clients PROVE CloserInv(c)'
    BY DEF CloserInv, ClientInv, TypeOK, Whos, Past
  <2>4. QED BY <2>1, <2>2, <2>3
<1>2. ASSUME NEW d \in Clients, Accept(d) \/ LoseConn(d) \/ RegisterSession(d)
                                \/ AcceptLoopEnds(d)
      PROVE  WireInv'
  <2> USE <1>2 DEF Accept, LoseConn, RegisterSession, AcceptLoopEnds
  <2>1. ClientInv' /\ ListenInv'
    BY DEF ClientInv, ListenInv, TypeOK
  <2>2. ShutdownInv'
    BY DEF ShutdownInv, TypeOK, Whos
  <2>3. ASSUME NEW c \in Clients PROVE CloserInv(c)'
    BY DEF CloserInv, TypeOK, Whos, Past
  <2>4. QED BY <2>1, <2>2, <2>3
<1>3. ASSUME NEW d \in Clients, NEW w \in Whos,
             SessionCheck(d, w) \/ SessionMark(d, w) \/ SessionTake(d, w)
             \/ SessionCut(d, w) \/ UnregisterSession(d, w)
      PROVE  WireInv'
  <2> USE <1>3 DEF SessionCheck, SessionMark, SessionTake, SessionCut, UnregisterSession
  <2>1. ClientInv' /\ ListenInv'
    BY DEF ClientInv, ListenInv, TypeOK, CloserInv, Past
  <2>2. ShutdownInv'
    BY DEF ShutdownInv, TypeOK, Whos, Idle
  <2>3. ASSUME NEW c \in Clients PROVE CloserInv(c)'
    BY DEF CloserInv, TypeOK, Whos, Past
  <2>4. QED BY <2>1, <2>2, <2>3
<1>4. ASSUME NEW u \in Users, CloseCheckConn(u) \/ CloseStep(u) \/ ShutdownRecv(u)
      PROVE  WireInv'
  <2> USE <1>4 DEF CloseCheckConn, CloseStep, CloseShortcut, CloseCheckClosed, CloseUp,
                   ShutdownRecv
  <2>1. ClientInv' /\ ListenInv'
    BY DEF ClientInv, ListenInv, TypeOK
  <2>2. ShutdownInv'
    <3>1. CASE ShutdownRecv(u)
      BY <3>1 DEF ShutdownInv, TypeOK, Procs
    <3>2. CASE CloseCheckConn(u)
      BY <3>2 DEF ShutdownInv, TypeOK, Whos, Procs
    <3>3. CASE CloseShortcut(u)
      BY <3>3 DEF ShutdownInv, TypeOK, Whos, Procs
    <3>4. CASE CloseCheckClosed(u) \/ CloseUp(u)
      BY <3>4 DEF ShutdownInv, TypeOK, Whos, Procs
    <3>5. QED BY <3>1, <3>2, <3>3, <3>4
  <2>3. ASSUME NEW c \in Clients PROVE CloserInv(c)'
    BY DEF CloserInv, TypeOK, Whos, Past, ShutdownInv, Idle, Sessions
  <2>4. QED BY <2>1, <2>2, <2>3
<1>5. CASE ShutdownListener \/ ShutdownReply
  <2> USE <1>5 DEF ShutdownListener, ShutdownReply
  <2>1. ClientInv' /\ ListenInv'
    BY DEF ClientInv, ListenInv, TypeOK
  <2>2. ShutdownInv'
    BY DEF ShutdownInv, TypeOK, Whos, Idle, Procs
  <2>3. ASSUME NEW c \in Clients PROVE CloserInv(c)'
    BY DEF CloserInv, TypeOK, Whos, Past
  <2>4. QED BY <2>1, <2>2, <2>3
<1>6. CASE UNCHANGED vars
  BY <1>6 DEF vars, ClientInv, ShutdownInv, ListenInv, CloserInv
<1>7. QED
  BY <1>1, <1>2, <1>3, <1>4, <1>5, <1>6 DEF Next, SessionStep, ShutdownStep, Whos

LEMMA InvHolds == Spec => [](TypeOK /\ WireInv)
BY InvInit, TypeStep, InvStep, PTL DEF Spec

\* The connection and the session's place decide about a step of SessionLife
\* alone.
LEMMA LifeStep ==
    TypeOK /\ WireInv /\ [Next]_vars => [Life!Next]_(Life!vars)
<1> SUFFICES ASSUME TypeOK, WireInv, [Next]_vars
             PROVE  Life!Next \/ UNCHANGED Life!vars
  BY DEF Life!vars
<1> USE DEF WireInv, wireVars, sessVars, Life!vars
<1>1. CASE ConnectStep \/ AcceptErrs \/ ServeFails \/ Confirm \/ ConfirmFails
  <2> USE <1>1 DEF ConnectStep, Listen, SetConnFlag, AcceptFails, AcceptErrs, ServeFails, CheckClosed, Leave,
                   Confirm, ConfirmFails, ClientInv, TypeOK
  <2>1. CASE client \in Clients /\ lost' = lost \cup {client} /\ UNCHANGED <<sess, sclosed, taken>>
    BY <2>1 DEF Life!Next, Life!Cut
  <2>2. CASE client \in Clients /\ Confirm
    BY <2>2
  <2>3. CASE UNCHANGED sessVars
    BY <2>3
  <2>4. QED BY <2>1, <2>2, <2>3
<1>2. ASSUME NEW d \in Clients, Accept(d) \/ AcceptLoopEnds(d)
      PROVE  UNCHANGED Life!vars
  BY <1>2 DEF Accept, AcceptLoopEnds
<1>3. ASSUME NEW d \in Clients, LoseConn(d)
      PROVE  Life!Cut(d)
  BY <1>3 DEF LoseConn, Life!Cut
<1>4. ASSUME NEW d \in Clients, RegisterSession(d)
      PROVE  Life!Open(d)
  BY <1>4 DEF RegisterSession, Life!Open, Life!Move, CloserInv, TypeOK
<1>5. ASSUME NEW d \in Clients, NEW w \in Whos, SessionCheck(d, w)
      PROVE  UNCHANGED Life!vars
  BY <1>5 DEF SessionCheck
<1>6. ASSUME NEW d \in Clients, NEW w \in Whos, SessionMark(d, w)
      PROVE  Life!Close(d) \/ UNCHANGED Life!vars
  <2>1. CASE d \in sclosed
    <3>1. sclosed' = sclosed /\ UNCHANGED <<sess, taken, lost>>
      BY <1>6, <2>1 DEF SessionMark
    <3>2. QED BY <3>1
  <2>2. CASE d \notin sclosed
    <3>1. sess[d] = "open"
      BY <1>6, <2>2 DEF SessionMark, CloserInv
    <3>2. QED
      BY <1>6, <2>2, <3>1 DEF SessionMark, Life!Close, Life!Move, TypeOK
  <2>3. QED BY <2>1, <2>2
<1>7. ASSUME NEW d \in Clients, NEW w \in Whos, SessionTake(d, w)
      PROVE  Life!Take(d)
  <2>1. sess[d] = "open" /\ d \in sclosed
    BY <1>7 DEF SessionTake, CloserInv
  <2>2. QED BY <1>7, <2>1 DEF SessionTake, Life!Take
<1>8. ASSUME NEW d \in Clients, NEW w \in Whos, SessionCut(d, w)
      PROVE  Life!Cut(d) \/ UNCHANGED Life!vars
  BY <1>8 DEF SessionCut, Life!Cut
<1>9. ASSUME NEW d \in Clients, NEW w \in Whos, UnregisterSession(d, w)
      PROVE  Life!Leave(d)
  <2>1. sess[d] = "open" /\ d \in sclosed /\ d \in taken /\ d \in lost
    BY <1>9 DEF UnregisterSession, CloserInv, Past
  <2>2. QED
    BY <1>9, <2>1 DEF UnregisterSession, Life!Leave, Life!Move, TypeOK
<1>10. CASE (\E u \in Users : CloseCheckConn(u) \/ CloseStep(u) \/ ShutdownRecv(u))
            \/ ShutdownListener \/ ShutdownReply \/ UNCHANGED vars
  BY <1>10 DEF CloseCheckConn, CloseStep, CloseShortcut, CloseCheckClosed, CloseUp,
               ShutdownRecv, ShutdownListener, ShutdownReply, vars
<1>11. QED
  BY <1>1, <1>2, <1>3, <1>4, <1>5, <1>6, <1>7, <1>8, <1>9, <1>10
  DEF Next, SessionStep, ShutdownStep, Whos, Life!Next

-----------------------------------------------------------------------------

\* Every variable of the server side keeps its type, for every set of clients.
THEOREM TypeCorrect == Spec => []TypeOK
BY InvHolds, PTL

\* When wire.shutdown answers, every session that it found is out of the table, or
\* in the hands of its own accept loop.
THEOREM FoundAreClosedHolds == Spec => []FoundAreClosed
<1>1. TypeOK /\ WireInv => FoundAreClosed
  <2> SUFFICES ASSUME TypeOK, WireInv, sd \in {"reply", "done"},
                      NEW c \in Clients, pc[<<c, "wire">>] # "idle", sess[c] # "gone"
               PROVE  /\ pc[<<c, "wire">>] = "refused"
                      /\ pc[<<c, "accept">>] \in {"sendSession", "drain", "unreg"}
    BY DEF FoundAreClosed
  <2>1. pc[<<c, "wire">>] = "refused" /\ c \in sclosed
    BY DEF WireInv, ShutdownInv, Idle, CloserInv, Whos
  <2>2. pc[<<c, "accept">>] \in {"sendSession"} \cup Past /\ pc[<<c, "accept">>] # "returned"
    BY <2>1 DEF WireInv, CloserInv, Whos, Past
  <2>3. QED BY <2>1, <2>2 DEF Past
<1>2. QED BY <1>1, InvHolds, PTL

\* Connect's loop reports no error when its accept fails because a Close has closed
\* the listener: the wire was marked closed before wire.shutdown received it.
THEOREM CleanCloseHolds == Spec => CleanCloseIsNil
<1>1. WireInv /\ [Next]_vars => [con = "accept" /\ con' = "leave" /\ ~listening => ~err']_vars
  <2> SUFFICES ASSUME WireInv, [Next]_vars, con = "accept", con' = "leave", ~listening
               PROVE  ~err'
    OBVIOUS
  <2>1. closed
    BY DEF WireInv, ListenInv, ShutdownInv
  <2>2. AcceptFails
    <3>1. ASSUME NEW c \in Clients, Accept(c) \/ SessionStep(c) \/ LoseConn(c)
          PROVE  FALSE
      BY <3>1 DEF Accept, SessionStep, LoseConn, RegisterSession, AcceptLoopEnds, SessionCheck,
         SessionMark, SessionTake, SessionCut, UnregisterSession, wireVars
    <3>2. ASSUME NEW u \in Users, CloseCheckConn(u) \/ CloseStep(u) \/ ShutdownRecv(u)
          PROVE  FALSE
      BY <3>2 DEF CloseCheckConn, CloseStep, CloseShortcut, CloseCheckClosed, CloseUp, ShutdownRecv,
         wireVars
    <3>3. ASSUME ShutdownListener \/ ShutdownReply \/ Confirm \/ ConfirmFails \/ UNCHANGED vars
          PROVE  FALSE
      BY <3>3 DEF ShutdownListener, ShutdownReply, Confirm, ConfirmFails, vars, wireVars
    <3>4. ASSUME Listen \/ SetConnFlag \/ CheckClosed \/ Leave \/ AcceptErrs \/ ServeFails
          PROVE  FALSE
      BY <3>4 DEF Listen, SetConnFlag, CheckClosed, Leave, AcceptErrs, ServeFails
    <3>5. QED BY <3>1, <3>2, <3>3, <3>4 DEF Next, ConnectStep, ShutdownStep
  <2>3. QED BY <2>1, <2>2 DEF AcceptFails
<1>2. QED BY <1>1, InvHolds, PTL DEF Spec, CleanCloseIsNil

\* However the accept loop and wire.shutdown race to close it, each session of
\* the server goes through its life in the order of SessionLife.
THEOREM SessionsImplementLife == Spec => SessionsLive
<1>1. Init => Life!Init
  BY DEF Init, Life!Init
<1>2. QED
  BY <1>1, InvHolds, LifeStep, PTL DEF Spec, SessionsLive, Life!Spec
=============================================================================
