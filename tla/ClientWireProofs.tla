--------------------------- MODULE ClientWireProofs ---------------------------
(* What is proved of ClientWire for every number of connections and of      *)
(* attempts, and any finite set of goroutines that close the wire.          *)
EXTENDS ClientWire, FiniteSetTheorems, TLAPS

Whos == {"accept", "user", "wire"}
Left == {"none", "gone"}             \* not, or no longer, a session
Asked == {"closing", "reply", "done"} \* wire.shutdown has received its request
Woken == {"reply", "done"}
Past == {"drain", "unreg", "send", "blocked", "wait", "returned"}

\* Connections are made one after the other: only the last one can have a
\* session or a wire.shutdown that still waits.
Numbered(g) ==
    /\ g > gen => sess[g] = "none" /\ sd[g] = "none" /\ \A w \in Whos : pc[<<g, w>>] = "idle"
    /\ g <= gen => sess[g] # "none" /\ sd[g] # "none"
    /\ g < gen => sess[g] = "gone" /\ sd[g] \in Woken

\* Where Connect is, and what it has left behind.
ConnectInv ==
    /\ con = "waiting" => gen \in Conns
    /\ con \in {"dialing", "handshake"} => gen < MaxConns
    /\ con = "reset" => attempts < RetryMax
    /\ con = "handshake" => conn
    /\ con \notin {"waiting", "returned"} => \A g \in Conns : g <= gen => sd[g] \in Woken
    /\ con \in {"reset", "dialing", "handshake"} \/ (con # "waiting" /\ ~closed) =>
          \A g \in Conns : sess[g] \in Left
    /\ \A g \in Conns : sess[g] \in {"starting", "open"} => conn

\* The goroutines that close the session of connection g: one of them passes
\* session.shutdown, and its session is in the table until it unregisters it.
CloserInv(g) ==
    /\ sess[g] = "gone" => g \in taken
    /\ \A w \in Whos :
        /\ pc[<<g, w>>] # "idle" => sess[g] \in {"open", "gone"}
        /\ pc[<<g, w>>] \in Past => g \in taken
        /\ pc[<<g, w>>] \in {"drain", "unreg"} => sess[g] = "open"
        /\ \A v \in Whos : pc[<<g, w>>] \in Past /\ pc[<<g, v>>] \in Past => v = w

\* While the wire is not closed, only the goroutine that unregistered the
\* session of g asks the wire.shutdown of g, which answers no one else.
AskerInv(g) ==
    /\ pc[<<g, "wire">>] # "idle" => sd[g] \in Asked
    /\ pc[<<g, "wire">>] \notin {"send", "blocked", "wait"}
    /\ ~closed =>
        /\ sd[g] \in Asked => sess[g] = "gone"
        /\ \A w \in Whos :
            /\ pc[<<g, w>>] = "send" =>
                  sess[g] = "gone" /\ gen = g /\ con = "waiting" /\ sd[g] = "recv"
            /\ pc[<<g, w>>] = "blocked" => chan[<<g, w>>] = g /\ sess[g] = "gone"

\* A user asks wire.shutdown only after it has marked the wire closed.
UserInv == \A u \in Users : pc[u] \in {"send", "blocked", "wait"} => closed

WireInv ==
    /\ ConnectInv /\ UserInv
    /\ \A g \in Conns : Numbered(g) /\ CloserInv(g) /\ AskerInv(g)
-----------------------------------------------------------------------------

LEMMA ProcsAreDistinct ==
  \A g \in Conns, w \in Whos :
      <<g, w>> \in Procs /\ <<g, w>> \notin Users
BY ClientAssumption DEF ClientAssumption, Procs, SessionClosers, Conns, Whos

LEMMA Bounds == RetryMax \in Nat /\ MaxConns \in Nat
BY ClientAssumption DEF ClientAssumption

LEMMA InvInit == Init => TypeOK /\ WireInv
<1> SUFFICES ASSUME Init
             PROVE  TypeOK /\ WireInv
  OBVIOUS
<1>1. TypeOK
  <2>1. attempts \in 0..RetryMax /\ gen \in 0..MaxConns /\ chan \in [Procs -> 0..MaxConns]
    BY Bounds DEF Init
  <2>2. QED BY <2>1 DEF Init, TypeOK, ConStates, SessStates, SdStates, ProcStates
<1>2. WireInv
  BY Bounds, ProcsAreDistinct
  DEF Init, WireInv, Numbered, ConnectInv, UserInv, CloserInv, AskerInv,
      Conns, Procs, Whos, Left, Asked, Past
<1>3. QED BY <1>1, <1>2

LEMMA TypeStep == TypeOK /\ WireInv /\ [Next]_vars => TypeOK'
<1> SUFFICES ASSUME TypeOK, WireInv, [Next]_vars
             PROVE  TypeOK'
  OBVIOUS
<1> USE Bounds DEF TypeOK, ConStates, SessStates, SdStates, ProcStates,
        wireVars, sessVars, Goto, Conns
<1>1. CASE LoopCheck \/ DialFails \/ BackoffEnds \/ Wake
  BY <1>1 DEF LoopCheck, DialFails, BackoffEnds, Wake
<1>2. CASE Reset
  <2>1. attempts' \in 0..RetryMax
    BY <1>2 DEF Reset, WireInv, ConnectInv
  <2>2. QED BY <1>2, <2>1 DEF Reset
<1>2a. CASE DialSucceeds \/ HandshakeFails
  <2>1. attempts' \in 0..RetryMax
    BY <1>2a DEF DialSucceeds, HandshakeFails
  <2>2. QED BY <1>2a, <2>1 DEF DialSucceeds, HandshakeFails
<1>3. CASE HandshakeSucceeds
  BY <1>3 DEF HandshakeSucceeds, WireInv, ConnectInv
<1>4. ASSUME NEW u \in Users, CloseCheckConn(u) \/ CloseStep(u)
      PROVE  TypeOK'
  BY <1>4 DEF CloseCheckConn, CloseStep, CloseShortcut, CloseCheckClosed, CloseUp
<1>5. ASSUME NEW p \in Procs, SendOn(p)
      PROVE  TypeOK'
  BY <1>5 DEF SendOn
<1>6. ASSUME NEW g \in Conns, NEW w \in Whos, CallSessionClose(g, w) \/ SessionCloseStep(g, w)
      PROVE  TypeOK'
  BY <1>6 DEF CallSessionClose, SessionCloseStep, SessionCheck, SessionMark, SessionTake, SessionCut,
              UnregisterSession
<1>7. ASSUME NEW g \in Conns, RegisterSession(g) \/ LoseConn(g)
      PROVE  TypeOK'
  BY <1>7 DEF RegisterSession, LoseConn
<1>8. ASSUME NEW g \in Conns, ShutdownStep(g)
      PROVE  TypeOK'
  <2>1. ASSUME NEW p \in Procs, ShutdownRecv(g, p)
        PROVE  TypeOK'
    BY <2>1 DEF ShutdownRecv
  <2>2. CASE ShutdownConn(g)
    BY <2>2 DEF ShutdownConn
  <2>3. CASE ShutdownReply(g)
    BY <2>3 DEF ShutdownReply
  <2>4. QED BY <1>8, <2>1, <2>2, <2>3 DEF ShutdownStep
<1>9. CASE UNCHANGED vars
  BY <1>9 DEF vars
<1>10. QED
  BY <1>1, <1>2, <1>3, <1>4, <1>5, <1>6, <1>7, <1>8, <1>9, <1>2a DEF Next, ConnectStep, Whos
LEMMA InvStep == TypeOK /\ WireInv /\ [Next]_vars => WireInv'
<1> SUFFICES ASSUME TypeOK, WireInv, [Next]_vars
             PROVE  WireInv'
  OBVIOUS
<1>a. ConnectInv /\ UserInv /\ \A g \in Conns : Numbered(g) /\ CloserInv(g) /\ AskerInv(g)
  BY DEF WireInv
<1>b. /\ gen \in Nat
      /\ \A g \in Conns : g \in Nat /\ (g < gen \/ g = gen \/ g > gen)
  BY Bounds DEF TypeOK, Conns
<1> USE <1>a, <1>b, ProcsAreDistinct DEF TypeOK, wireVars, sessVars, Goto
<1> USE DEF Left, Asked, Woken, Past, Whos
<1>1. ASSUME LoopCheck
      PROVE  WireInv'
  <2>1. ASSUME NEW h \in Conns
        PROVE  Numbered(h)'
    BY <1>1 DEF LoopCheck, Numbered
  <2>2. ConnectInv'
    BY <1>1, Bounds DEF LoopCheck, ConnectInv
  <2>3. UserInv'
    BY <1>1 DEF LoopCheck, UserInv
  <2>4. ASSUME NEW h \in Conns
        PROVE  CloserInv(h)'
    BY <1>1 DEF LoopCheck, CloserInv
  <2>5. ASSUME NEW h \in Conns
        PROVE  AskerInv(h)'
    BY <1>1 DEF LoopCheck, AskerInv
  <2>6. QED BY <2>1, <2>2, <2>3, <2>4, <2>5 DEF WireInv
<1>2. ASSUME Reset
      PROVE  WireInv'
  <2>1. ASSUME NEW h \in Conns
        PROVE  Numbered(h)'
    BY <1>2 DEF Reset, Numbered
  <2>2. ConnectInv'
    BY <1>2 DEF Reset, ConnectInv
  <2>3. UserInv'
    BY <1>2 DEF Reset, UserInv
  <2>4. ASSUME NEW h \in Conns
        PROVE  CloserInv(h)'
    BY <1>2 DEF Reset, CloserInv
  <2>5. ASSUME NEW h \in Conns
        PROVE  AskerInv(h)'
    BY <1>2 DEF Reset, AskerInv
  <2>6. QED BY <2>1, <2>2, <2>3, <2>4, <2>5 DEF WireInv
<1>3. ASSUME DialFails \/ BackoffEnds
      PROVE  WireInv'
  <2>1. ASSUME NEW h \in Conns
        PROVE  Numbered(h)'
    BY <1>3 DEF BackoffEnds, DialFails, Numbered
  <2>2. ConnectInv'
    BY <1>3 DEF BackoffEnds, DialFails, ConnectInv
  <2>3. UserInv'
    BY <1>3 DEF BackoffEnds, DialFails, UserInv
  <2>4. ASSUME NEW h \in Conns
        PROVE  CloserInv(h)'
    BY <1>3 DEF BackoffEnds, DialFails, CloserInv
  <2>5. ASSUME NEW h \in Conns
        PROVE  AskerInv(h)'
    BY <1>3 DEF BackoffEnds, DialFails, AskerInv
  <2>6. QED BY <2>1, <2>2, <2>3, <2>4, <2>5 DEF WireInv
<1>4. ASSUME DialSucceeds
      PROVE  WireInv'
  <2>1. ASSUME NEW h \in Conns
        PROVE  Numbered(h)'
    BY <1>4 DEF DialSucceeds, Numbered
  <2>2. ConnectInv'
    BY <1>4 DEF DialSucceeds, ConnectInv
  <2>3. UserInv'
    BY <1>4 DEF DialSucceeds, UserInv
  <2>4. ASSUME NEW h \in Conns
        PROVE  CloserInv(h)'
    BY <1>4 DEF DialSucceeds, CloserInv
  <2>5. ASSUME NEW h \in Conns
        PROVE  AskerInv(h)'
    BY <1>4 DEF DialSucceeds, AskerInv
  <2>6. QED BY <2>1, <2>2, <2>3, <2>4, <2>5 DEF WireInv
<1>5. ASSUME HandshakeFails
      PROVE  WireInv'
  <2>1. ASSUME NEW h \in Conns
        PROVE  Numbered(h)'
    BY <1>5 DEF HandshakeFails, Numbered
  <2>2. ConnectInv'
    BY <1>5 DEF HandshakeFails, ConnectInv
  <2>3. UserInv'
    BY <1>5 DEF HandshakeFails, UserInv
  <2>4. ASSUME NEW h \in Conns
        PROVE  CloserInv(h)'
    BY <1>5 DEF HandshakeFails, CloserInv
  <2>5. ASSUME NEW h \in Conns
        PROVE  AskerInv(h)'
    BY <1>5 DEF HandshakeFails, AskerInv
  <2>6. QED BY <2>1, <2>2, <2>3, <2>4, <2>5 DEF WireInv
<1>6. ASSUME HandshakeSucceeds
      PROVE  WireInv'
  <2>1. ASSUME NEW h \in Conns
        PROVE  Numbered(h)'
    BY <1>6, Bounds DEF HandshakeSucceeds, Numbered, ConnectInv
  <2>2. ConnectInv'
    BY <1>6, Bounds DEF HandshakeSucceeds, Conns, ConnectInv
  <2>3. UserInv'
    BY <1>6, Bounds DEF HandshakeSucceeds, UserInv
  <2>4. ASSUME NEW h \in Conns
        PROVE  CloserInv(h)'
    BY <1>6, Bounds DEF HandshakeSucceeds, CloserInv, Numbered
  <2>5. ASSUME NEW h \in Conns
        PROVE  AskerInv(h)'
    BY <1>6, Bounds DEF HandshakeSucceeds, AskerInv, Numbered
  <2>6. QED BY <2>1, <2>2, <2>3, <2>4, <2>5 DEF WireInv
<1>7. ASSUME Wake
      PROVE  WireInv'
  <2>1. ASSUME NEW h \in Conns
        PROVE  Numbered(h)'
    BY <1>7 DEF Wake, Numbered
  <2>2. ConnectInv'
    <3>1. ASSUME ~closed, NEW h \in Conns
          PROVE  sess[h] \in Left
      <4>1. CASE h = gen
        BY <1>7, <3>1, <4>1 DEF Wake, AskerInv
      <4>2. CASE h # gen
        BY <4>2 DEF Numbered
      <4>3. QED BY <4>1, <4>2
    <3>2. ASSUME NEW h \in Conns, h <= gen
          PROVE  sd[h] \in Woken
      BY <1>7, <3>2 DEF Wake, Numbered
    <3>3. QED BY <1>7, <3>1, <3>2 DEF Wake, Conns, ConnectInv
  <2>3. UserInv'
    BY <1>7 DEF Wake, UserInv
  <2>4. ASSUME NEW h \in Conns
        PROVE  CloserInv(h)'
    BY <1>7 DEF Wake, CloserInv
  <2>5. ASSUME NEW h \in Conns
        PROVE  AskerInv(h)'
    BY <1>7 DEF Wake, AskerInv
  <2>6. QED BY <2>1, <2>2, <2>3, <2>4, <2>5 DEF WireInv
<1>8. ASSUME NEW u \in Users, CloseCheckConn(u) \/ CloseStep(u)
      PROVE  WireInv'
  <2>1. ASSUME NEW h \in Conns
        PROVE  Numbered(h)'
    BY <1>8 DEF CloseCheckConn, CloseStep, CloseShortcut, CloseCheckClosed, CloseUp, Numbered
  <2>2. ConnectInv'
    BY <1>8 DEF CloseCheckConn, CloseStep, CloseShortcut, CloseCheckClosed, CloseUp, ConnectInv
  <2>3. UserInv'
    <3> SUFFICES ASSUME NEW v \in Users, pc'[v] \in {"send", "blocked", "wait"}
                 PROVE  closed'
      BY DEF UserInv
    <3> QED BY <1>8 DEF CloseCheckConn, CloseStep, CloseShortcut, CloseCheckClosed, CloseUp, UserInv, Procs
  <2>4. ASSUME NEW h \in Conns
        PROVE  CloserInv(h)'
    BY <1>8 DEF CloseCheckConn, CloseStep, CloseShortcut, CloseCheckClosed, CloseUp, CloserInv
  <2>5. ASSUME NEW h \in Conns
        PROVE  AskerInv(h)'
    BY <1>8 DEF CloseCheckConn, CloseStep, CloseShortcut, CloseCheckClosed, CloseUp, AskerInv
  <2>6. QED BY <2>1, <2>2, <2>3, <2>4, <2>5 DEF WireInv
<1>9. ASSUME NEW p \in Procs, SendOn(p)
      PROVE  WireInv'
  <2>1. ASSUME NEW h \in Conns
        PROVE  Numbered(h)'
    BY <1>9 DEF SendOn, Numbered
  <2>2. ConnectInv'
    BY <1>9 DEF SendOn, ConnectInv
  <2>3. UserInv'
    BY <1>9 DEF SendOn, UserInv
  <2>4. ASSUME NEW h \in Conns
        PROVE  CloserInv(h)'
    BY <1>9 DEF SendOn, CloserInv
  <2>5. ASSUME NEW h \in Conns
        PROVE  AskerInv(h)'
    BY <1>9 DEF SendOn, AskerInv
  <2>6. QED BY <2>1, <2>2, <2>3, <2>4, <2>5 DEF WireInv
<1>10. ASSUME NEW g \in Conns, NEW w \in Whos, CallSessionClose(g, w)
      PROVE  WireInv'
  <2>1. ASSUME NEW h \in Conns
        PROVE  Numbered(h)'
    BY <1>10 DEF CallSessionClose, Numbered
  <2>2. ConnectInv'
    BY <1>10 DEF CallSessionClose, ConnectInv
  <2>3. UserInv'
    BY <1>10 DEF CallSessionClose, UserInv
  <2>4. ASSUME NEW h \in Conns
        PROVE  CloserInv(h)'
    BY <1>10 DEF CallSessionClose, CloserInv
  <2>5. ASSUME NEW h \in Conns
        PROVE  AskerInv(h)'
    BY <1>10 DEF CallSessionClose, AskerInv
  <2>6. QED BY <2>1, <2>2, <2>3, <2>4, <2>5 DEF WireInv
<1>11. ASSUME NEW g \in Conns, NEW w \in Whos, SessionCheck(g, w)
      PROVE  WireInv'
  <2>1. ASSUME NEW h \in Conns
        PROVE  Numbered(h)'
    BY <1>11 DEF SessionCheck, Numbered
  <2>2. ConnectInv'
    BY <1>11 DEF SessionCheck, ConnectInv
  <2>3. UserInv'
    BY <1>11 DEF SessionCheck, UserInv
  <2>4. ASSUME NEW h \in Conns
        PROVE  CloserInv(h)'
    <3>1. /\ UNCHANGED <<sess, taken>>
          /\ \A v \in Whos : \/ pc'[<<h, v>>] = pc[<<h, v>>]
                             \/ pc[<<h, v>>] = "called" /\ pc'[<<h, v>>] \in {"mark", "refused"}
      <4>1. ASSUME NEW v \in Whos, <<h, v>> # <<g, w>>
            PROVE  pc'[<<h, v>>] = pc[<<h, v>>]
        BY <1>11, <4>1 DEF SessionCheck
      <4>2. pc[<<g, w>>] = "called" /\ pc'[<<g, w>>] \in {"mark", "refused"}
        BY <1>11 DEF SessionCheck
      <4>3. UNCHANGED <<sess, taken>>
        BY <1>11 DEF SessionCheck
      <4>4. ASSUME NEW v \in Whos
            PROVE  \/ pc'[<<h, v>>] = pc[<<h, v>>]
                   \/ pc[<<h, v>>] = "called" /\ pc'[<<h, v>>] \in {"mark", "refused"}
        BY ONLY <4>1, <4>2, <4>4
      <4>5. QED BY <4>3, <4>4
    <3>2. QED BY <3>1 DEF CloserInv
  <2>5. ASSUME NEW h \in Conns
        PROVE  AskerInv(h)'
    BY <1>11 DEF SessionCheck, AskerInv
  <2>6. QED BY <2>1, <2>2, <2>3, <2>4, <2>5 DEF WireInv
<1>12. ASSUME NEW g \in Conns, NEW w \in Whos, SessionMark(g, w)
      PROVE  WireInv'
  <2>1. ASSUME NEW h \in Conns
        PROVE  Numbered(h)'
    BY <1>12 DEF SessionMark, Numbered
  <2>2. ConnectInv'
    BY <1>12 DEF SessionMark, ConnectInv
  <2>3. UserInv'
    BY <1>12 DEF SessionMark, UserInv
  <2>4. ASSUME NEW h \in Conns
        PROVE  CloserInv(h)'
    BY <1>12 DEF SessionMark, CloserInv
  <2>5. ASSUME NEW h \in Conns
        PROVE  AskerInv(h)'
    BY <1>12 DEF SessionMark, AskerInv
  <2>6. QED BY <2>1, <2>2, <2>3, <2>4, <2>5 DEF WireInv
<1>13. ASSUME NEW g \in Conns, NEW w \in Whos, SessionTake(g, w)
      PROVE  WireInv'
  <2>1. ASSUME NEW h \in Conns
        PROVE  Numbered(h)'
    BY <1>13 DEF SessionTake, Numbered
  <2>2. ConnectInv'
    BY <1>13 DEF SessionTake, ConnectInv
  <2>3. UserInv'
    BY <1>13 DEF SessionTake, UserInv
  <2>4. ASSUME NEW h \in Conns
        PROVE  CloserInv(h)'
    BY <1>13 DEF SessionTake, CloserInv
  <2>5. ASSUME NEW h \in Conns
        PROVE  AskerInv(h)'
    BY <1>13 DEF SessionTake, AskerInv
  <2>6. QED BY <2>1, <2>2, <2>3, <2>4, <2>5 DEF WireInv
<1>14. ASSUME NEW g \in Conns, NEW w \in Whos, SessionCut(g, w)
      PROVE  WireInv'
  <2>1. ASSUME NEW h \in Conns
        PROVE  Numbered(h)'
    BY <1>14 DEF SessionCut, Numbered
  <2>2. ConnectInv'
    BY <1>14 DEF SessionCut, ConnectInv
  <2>3. UserInv'
    BY <1>14 DEF SessionCut, UserInv
  <2>4. ASSUME NEW h \in Conns
        PROVE  CloserInv(h)'
    BY <1>14 DEF SessionCut, CloserInv
  <2>5. ASSUME NEW h \in Conns
        PROVE  AskerInv(h)'
    BY <1>14 DEF SessionCut, AskerInv
  <2>6. QED BY <2>1, <2>2, <2>3, <2>4, <2>5 DEF WireInv
<1>15. ASSUME NEW g \in Conns, NEW w \in Whos, UnregisterSession(g, w)
      PROVE  WireInv'
  <2>1. ASSUME NEW h \in Conns
        PROVE  Numbered(h)'
    BY <1>15 DEF UnregisterSession, Numbered
  <2>2. ConnectInv'
    BY <1>15 DEF UnregisterSession, ConnectInv
  <2>3. UserInv'
    <3> SUFFICES ASSUME NEW v \in Users, pc'[v] \in {"send", "blocked", "wait"}
                 PROVE  closed'
      BY DEF UserInv
    <3> QED BY <1>15 DEF UnregisterSession, UserInv, Procs
  <2>4. ASSUME NEW h \in Conns
        PROVE  CloserInv(h)'
    BY <1>15 DEF UnregisterSession, CloserInv
  <2>5. ASSUME NEW h \in Conns
        PROVE  AskerInv(h)'
    <3>1. /\ sess[g] = "open" /\ pc[<<g, w>>] = "unreg" /\ gen = g
      BY <1>15 DEF UnregisterSession, CloserInv, Numbered
    <3>2. ~closed => con = "waiting" /\ sd[g] = "recv"
      <4>1. ~closed => con = "waiting"
        BY <3>1 DEF ConnectInv
      <4>2. sd[g] # "none" /\ sd[g] \in SdStates
        <5>1. g <= gen
          BY <3>1
        <5>2. QED BY <5>1 DEF Numbered
      <4>3. ~closed => sd[g] \notin Asked
        BY <3>1 DEF AskerInv
      <4>4. QED BY <4>1, <4>2, <4>3 DEF SdStates
    <3>3. ~closed => w # "wire"
      BY <3>1, <3>2 DEF AskerInv
    <3>4. CASE h # g
      BY <1>15, <3>1, <3>4 DEF UnregisterSession, AskerInv
    <3>5. CASE h = g
      BY <1>15, <3>1, <3>2, <3>3, <3>5 DEF UnregisterSession, AskerInv
    <3>6. QED BY <3>4, <3>5
  <2>6. QED BY <2>1, <2>2, <2>3, <2>4, <2>5 DEF WireInv
<1>16. ASSUME NEW g \in Conns, RegisterSession(g)
      PROVE  WireInv'
  <2>1. ASSUME NEW h \in Conns
        PROVE  Numbered(h)'
    BY <1>16 DEF RegisterSession, Numbered
  <2>2. ConnectInv'
    BY <1>16 DEF RegisterSession, ConnectInv
  <2>3. UserInv'
    BY <1>16 DEF RegisterSession, UserInv
  <2>4. ASSUME NEW h \in Conns
        PROVE  CloserInv(h)'
    BY <1>16 DEF RegisterSession, CloserInv
  <2>5. ASSUME NEW h \in Conns
        PROVE  AskerInv(h)'
    BY <1>16 DEF RegisterSession, AskerInv
  <2>6. QED BY <2>1, <2>2, <2>3, <2>4, <2>5 DEF WireInv
<1>17. ASSUME NEW g \in Conns, LoseConn(g)
      PROVE  WireInv'
  <2>1. ASSUME NEW h \in Conns
        PROVE  Numbered(h)'
    BY <1>17 DEF LoseConn, Numbered
  <2>2. ConnectInv'
    BY <1>17 DEF LoseConn, ConnectInv
  <2>3. UserInv'
    BY <1>17 DEF LoseConn, UserInv
  <2>4. ASSUME NEW h \in Conns
        PROVE  CloserInv(h)'
    BY <1>17 DEF LoseConn, CloserInv
  <2>5. ASSUME NEW h \in Conns
        PROVE  AskerInv(h)'
    BY <1>17 DEF LoseConn, AskerInv
  <2>6. QED BY <2>1, <2>2, <2>3, <2>4, <2>5 DEF WireInv
<1>18. ASSUME NEW g \in Conns, NEW p \in Procs, ShutdownRecv(g, p)
       PROVE  WireInv'
  <2>1. gen = g /\ \A h \in Conns : sess[h] = "open" => h = g
    BY <1>18 DEF ShutdownRecv, Numbered
  <2>2. /\ pc[<<g, "wire">>] = "idle"
        /\ pc'[p] = "wait" /\ pc[p] = "blocked"
        /\ \A q \in Procs : \/ pc'[q] = pc[q]
                            \/ q = p
                            \/ q = <<g, "wire">> /\ sess[g] = "open" /\ pc'[q] = "called"
    <3>1. pc[<<g, "wire">>] = "idle" /\ pc[p] = "blocked"
      BY <1>18 DEF ShutdownRecv, AskerInv
    <3>2. pc'[p] = "wait"
      BY <1>18 DEF ShutdownRecv
    <3>3. ASSUME NEW q \in Procs, q # p, NEW c \in Sessions, q = <<c, "wire">>
          PROVE  c = g /\ sess[g] = "open" /\ pc'[q] = "called"
      BY <1>18, <2>1, <3>3 DEF ShutdownRecv, Sessions
    <3>4. ASSUME NEW q \in Procs, q # p, \A c \in Sessions : q # <<c, "wire">>
          PROVE  pc'[q] = pc[q]
      BY <1>18, <3>4 DEF ShutdownRecv
    <3>5. ASSUME NEW q \in Procs
          PROVE  \/ pc'[q] = pc[q]
                 \/ q = p
                 \/ q = <<g, "wire">> /\ sess[g] = "open" /\ pc'[q] = "called"
      <4>1. CASE \E c \in Sessions : q = <<c, "wire">>
        BY <3>3, <4>1
      <4>2. CASE \A c \in Sessions : q # <<c, "wire">>
        BY <3>4, <4>2
      <4>3. QED BY <4>1, <4>2
    <3>6. QED BY <3>1, <3>2, <3>5
  <2>3. /\ UNCHANGED <<wireVars, con, err, sessVars, chan>> /\ chan[p] = g
        /\ sd[g] = "recv" /\ sd' = [sd EXCEPT ![g] = "closing"]
    BY <1>18 DEF ShutdownRecv
  <2>4. ASSUME NEW c \in Conns, NEW v \in Whos
        PROVE  \/ pc'[<<c, v>>] = pc[<<c, v>>]
               \/ p = <<c, v>> /\ pc[<<c, v>>] = "blocked" /\ pc'[<<c, v>>] = "wait"
               \/ /\ c = g /\ v = "wire" /\ sess[g] = "open"
                  /\ pc[<<c, v>>] = "idle" /\ pc'[<<c, v>>] = "called"
    BY <2>2
  <2>5. \A c \in Conns : sd'[c] = IF c = g THEN "closing" ELSE sd[c]
    BY <2>3
  <2>6. UserInv'
    BY <2>2, <2>3 DEF UserInv, Procs
  <2>7. ASSUME ~closed
        PROVE  sess[g] = "gone" /\ \E u \in Whos : p = <<g, u>>
    <3>1. p \notin Users
      BY <2>2, <2>7 DEF UserInv
    <3>2. PICK c \in Conns, u \in Whos : p = <<c, u>>
      BY <3>1 DEF Procs, SessionClosers
    <3>3. chan[p] = c /\ sess[c] = "gone"
      <4>1. AskerInv(c) /\ pc[<<c, u>>] = "blocked"
        BY <2>2, <3>2
      <4>2. QED BY ONLY <2>7, <3>2, <4>1 DEF AskerInv
    <3>4. c = g
      BY <2>3, <3>3
    <3>5. QED BY <3>2, <3>3, <3>4
  <2> HIDE DEF TypeOK
  <2>8. ASSUME NEW h \in Conns
        PROVE  Numbered(h)'
    BY <2>1, <2>3, <2>4, <2>5 DEF Numbered
  <2>9. ConnectInv'
    BY <2>1, <2>3, <2>5 DEF ConnectInv, Numbered
  <2>10. ASSUME NEW h \in Conns
         PROVE  CloserInv(h)'
    BY <2>3, <2>4 DEF CloserInv
  <2>11. ASSUME NEW h \in Conns
         PROVE  AskerInv(h)'
    <3>1. /\ pc'[<<h, "wire">>] # "idle" => sd'[h] \in Asked
          /\ pc'[<<h, "wire">>] \notin {"send", "blocked", "wait"}
      BY <2>4, <2>5 DEF AskerInv
    <3>2. ~closed /\ sd'[h] \in Asked => sess[h] = "gone"
      BY <2>5, <2>7 DEF AskerInv
    <3>3. ASSUME ~closed, NEW v \in Whos, pc'[<<h, v>>] = "send"
          PROVE  FALSE
      <4>1. pc[<<h, v>>] = "send"
        BY <2>4, <3>3
      <4>2. h = g
        BY <2>1, <3>3, <4>1 DEF AskerInv
      <4>3. PICK u \in Whos : p = <<g, u>>
        BY <2>7, <3>3
      <4>4. QED BY <2>2, <4>1, <4>2, <4>3 DEF CloserInv
    <3>4. ASSUME ~closed, NEW v \in Whos, pc'[<<h, v>>] = "blocked"
          PROVE  chan[<<h, v>>] = h /\ sess[h] = "gone"
      <4>1. AskerInv(h) /\ pc[<<h, v>>] = "blocked"
        BY <2>4, <3>4
      <4>2. QED BY ONLY <3>4, <4>1 DEF AskerInv
    <3>5. QED BY <2>3, <3>1, <3>2, <3>3, <3>4 DEF AskerInv
  <2>12. QED BY <2>6, <2>8, <2>9, <2>10, <2>11 DEF WireInv
<1>19. ASSUME NEW g \in Conns, ShutdownConn(g)
      PROVE  WireInv'
  <2>1. ASSUME NEW h \in Conns
        PROVE  Numbered(h)'
    BY <1>19 DEF ShutdownConn, Numbered
  <2>2. ConnectInv'
    BY <1>19 DEF ShutdownConn, ConnectInv
  <2>3. UserInv'
    BY <1>19 DEF ShutdownConn, UserInv
  <2>4. ASSUME NEW h \in Conns
        PROVE  CloserInv(h)'
    BY <1>19 DEF ShutdownConn, CloserInv
  <2>5. ASSUME NEW h \in Conns
        PROVE  AskerInv(h)'
    BY <1>19 DEF ShutdownConn, AskerInv
  <2>6. QED BY <2>1, <2>2, <2>3, <2>4, <2>5 DEF WireInv
<1>20. ASSUME NEW g \in Conns, ShutdownReply(g)
      PROVE  WireInv'
  <2>1. ASSUME NEW h \in Conns
        PROVE  Numbered(h)'
    BY <1>20 DEF ShutdownReply, Numbered
  <2>2. ConnectInv'
    BY <1>20 DEF ShutdownReply, ConnectInv
  <2>3. UserInv'
    <3> SUFFICES ASSUME NEW v \in Users, pc'[v] \in {"send", "blocked", "wait"}
                 PROVE  closed'
      BY DEF UserInv
    <3> QED BY <1>20 DEF ShutdownReply, UserInv, Procs
  <2>4. ASSUME NEW h \in Conns
        PROVE  CloserInv(h)'
    BY <1>20 DEF ShutdownReply, CloserInv
  <2>5. ASSUME NEW h \in Conns
        PROVE  AskerInv(h)'
    BY <1>20 DEF ShutdownReply, AskerInv
  <2>6. QED BY <2>1, <2>2, <2>3, <2>4, <2>5 DEF WireInv
<1>21. ASSUME UNCHANGED vars
      PROVE  WireInv'
  <2>1. ASSUME NEW h \in Conns
        PROVE  Numbered(h)'
    BY <1>21 DEF vars, Numbered
  <2>2. ConnectInv'
    BY <1>21 DEF vars, ConnectInv
  <2>3. UserInv'
    BY <1>21 DEF vars, UserInv
  <2>4. ASSUME NEW h \in Conns
        PROVE  CloserInv(h)'
    BY <1>21 DEF vars, CloserInv
  <2>5. ASSUME NEW h \in Conns
        PROVE  AskerInv(h)'
    BY <1>21 DEF vars, AskerInv
  <2>6. QED BY <2>1, <2>2, <2>3, <2>4, <2>5 DEF WireInv
<1>22. QED
  BY <1>1, <1>2, <1>3, <1>4, <1>5, <1>6, <1>7, <1>8, <1>9, <1>10, <1>11, <1>12, <1>13, <1>14, <1>15, <1>16, <1>17, <1>18, <1>19, <1>20, <1>21
  DEF Next, ConnectStep, SessionCloseStep, ShutdownStep

\* Every state of the client side is well typed.
THEOREM TypeCorrect == Spec => []TypeOK
BY InvInit, TypeStep, InvStep, PTL DEF Spec

LEMMA InvHolds == Spec => [](TypeOK /\ WireInv)
BY InvInit, TypeStep, InvStep, PTL DEF Spec

LEMMA OneSessionAtMost == TypeOK /\ WireInv => OneSession
<1> SUFFICES ASSUME TypeOK, WireInv
             PROVE  Cardinality(Sessions) <= 1
  BY DEF OneSession
<1>1. Sessions \subseteq {gen}
  BY Bounds DEF WireInv, Numbered, TypeOK, Sessions, Conns
<1>2. IsFiniteSet({gen}) /\ Cardinality({gen}) = 1
  BY FS_Singleton
<1>3. IsFiniteSet(Sessions) /\ Cardinality(Sessions) <= Cardinality({gen})
  BY <1>1, <1>2, FS_Subset
<1>4. QED BY <1>2, <1>3

\* However often the client connects, and whoever closes, one session at most
\* is in the table (the loop of acceptClient and unregisterSession).
THEOREM OneSessionHolds == Spec => []OneSession
BY InvHolds, OneSessionAtMost, PTL

\* Close never takes its shortcut past a session, although the flag it tests
\* is cleared before every dial.
THEOREM ConnHolds == Spec => []ConnWhileSession
<1>1. TypeOK /\ WireInv => ConnWhileSession
  BY DEF WireInv, ConnectInv, ConnWhileSession, Sessions
<1>2. QED BY <1>1, InvHolds, PTL

\* The goroutine wire.shutdown never sends itself the request that only it
\* could receive.
THEOREM NoSelfWaitHolds == Spec => []NoSelfWait
<1>1. TypeOK /\ WireInv => NoSelfWait
  BY DEF WireInv, AskerInv, NoSelfWait
<1>2. QED BY <1>1, InvHolds, PTL

\* Connect is woken only when the session has left the table, or the wire is
\* closed.
THEOREM WokenHolds == Spec => []WokenWhenGone
<1>1. TypeOK /\ WireInv => WokenWhenGone
  BY DEF WireInv, AskerInv, WokenWhenGone, Asked
<1>2. QED BY <1>1, InvHolds, PTL
-----------------------------------------------------------------------------
(* Each session is a session of SessionLife.                               *)

\* Only a session that has been registered is marked closed, drained and cut.
MarkedInv(g) ==
    /\ g \in sclosed => sess[g] \in {"open", "gone"}
    /\ g \in taken => g \in sclosed
    /\ \A w \in Whos :
        /\ pc[<<g, w>>] = "sendSession" => g \in sclosed
        /\ pc[<<g, w>>] = "unreg" => g \in lost

LifeInv == \A g \in Conns : MarkedInv(g)

LEMMA LifeInit == Init => LifeInv
BY ProcsAreDistinct DEF Init, LifeInv, MarkedInv

LEMMA LifeInvStep == TypeOK /\ WireInv /\ LifeInv /\ [Next]_vars => LifeInv'
<1> SUFFICES ASSUME TypeOK, WireInv, LifeInv, [Next]_vars, NEW h \in Conns
             PROVE  MarkedInv(h)'
  BY DEF LifeInv
<1>a. MarkedInv(h) /\ CloserInv(h)
  BY DEF LifeInv, WireInv
<1>b. /\ sess \in [Conns -> SessStates] /\ pc \in [Procs -> ProcStates]
      /\ sclosed \subseteq Conns /\ taken \subseteq Conns /\ lost \subseteq Conns
  BY DEF TypeOK
<1> USE <1>a, <1>b, ProcsAreDistinct DEF MarkedInv, wireVars, sessVars, Goto
<1>1. CASE ConnectStep /\ ~HandshakeSucceeds
  BY <1>1 DEF ConnectStep, LoopCheck, Reset, DialFails, BackoffEnds, DialSucceeds,
              HandshakeFails, Wake
<1>2. CASE HandshakeSucceeds
  <2>1. sess[gen + 1] \notin {"open", "gone"} \/ gen + 1 \notin Conns
    BY Bounds DEF WireInv, Numbered, TypeOK, Conns
  <2>2. h \in sclosed => h # gen + 1
    BY <2>1
  <2>3. UNCHANGED <<sclosed, taken, lost, pc>> /\ sess' = [sess EXCEPT ![gen + 1] = "starting"]
    BY <1>2 DEF HandshakeSucceeds
  <2>4. QED BY <2>2, <2>3
<1>3. ASSUME NEW u \in Users, CloseCheckConn(u) \/ CloseStep(u)
      PROVE  MarkedInv(h)'
  BY <1>3 DEF CloseCheckConn, CloseStep, CloseShortcut, CloseCheckClosed, CloseUp
<1>4. ASSUME NEW p \in Procs, SendOn(p)
      PROVE  MarkedInv(h)'
  BY <1>4 DEF SendOn
<1>5. ASSUME NEW g \in Conns, NEW w \in Whos, CallSessionClose(g, w) \/ SessionCloseStep(g, w)
      PROVE  MarkedInv(h)'
  BY <1>5 DEF CallSessionClose, SessionCloseStep, SessionCheck, SessionMark, SessionTake,
              SessionCut, UnregisterSession, CloserInv
<1>6. ASSUME NEW g \in Conns, RegisterSession(g) \/ LoseConn(g)
      PROVE  MarkedInv(h)'
  BY <1>6 DEF RegisterSession, LoseConn
<1>7. ASSUME NEW g \in Conns, ShutdownStep(g)
      PROVE  MarkedInv(h)'
  BY <1>7 DEF ShutdownStep, ShutdownRecv, ShutdownConn, ShutdownReply
<1>8. CASE UNCHANGED vars
  BY <1>8 DEF vars
<1>9. QED
  BY <1>1, <1>2, <1>3, <1>4, <1>5, <1>6, <1>7, <1>8 DEF Next, ConnectStep, Whos

\* The connection and the session's place decide about a step of SessionLife
\* alone.
LEMMA LifeStep ==
    TypeOK /\ WireInv /\ LifeInv /\ [Next]_vars => [Life!Next]_(Life!vars)
<1> SUFFICES ASSUME TypeOK, WireInv, LifeInv, [Next]_vars
             PROVE  Life!Next \/ UNCHANGED Life!vars
  BY DEF Life!vars
<1>a. /\ sess \in [Conns -> SessStates]
      /\ sclosed \subseteq Conns /\ taken \subseteq Conns /\ lost \subseteq Conns
  BY DEF TypeOK
<1>b. \A g \in Conns : MarkedInv(g) /\ CloserInv(g)
  BY DEF LifeInv, WireInv
<1> USE <1>a, <1>b DEF wireVars, sessVars, Life!vars
<1>1. CASE ConnectStep /\ ~HandshakeSucceeds
  BY <1>1 DEF ConnectStep, LoopCheck, Reset, DialFails, BackoffEnds, DialSucceeds,
              HandshakeFails, Wake
<1>2. CASE HandshakeSucceeds
  <2>1. sess[gen + 1] \notin {"open", "gone"} \/ gen + 1 \notin Conns
    BY Bounds DEF WireInv, Numbered, TypeOK, Conns
  <2>2. UNCHANGED <<sclosed, taken, lost>> /\ sess' = [sess EXCEPT ![gen + 1] = "starting"]
    BY <1>2 DEF HandshakeSucceeds
  <2>3. QED BY <2>1, <2>2
<1>3. CASE (\E u \in Users : CloseCheckConn(u) \/ CloseStep(u)) \/ (\E p \in Procs : SendOn(p))
  BY <1>3 DEF CloseCheckConn, CloseStep, CloseShortcut, CloseCheckClosed, CloseUp, SendOn
<1>4. ASSUME NEW g \in Conns, NEW w \in Whos, CallSessionClose(g, w) \/ SessionCheck(g, w)
      PROVE  UNCHANGED Life!vars
  BY <1>4 DEF CallSessionClose, SessionCheck
<1>5. ASSUME NEW g \in Conns, RegisterSession(g)
      PROVE  Life!Open(g)
  BY <1>5 DEF RegisterSession, Life!Open, Life!Move, MarkedInv
<1>6. ASSUME NEW g \in Conns, NEW w \in Whos, SessionMark(g, w)
      PROVE  Life!Close(g) \/ UNCHANGED Life!vars
  <2>1. CASE g \in sclosed
    <3>1. sclosed' = sclosed /\ UNCHANGED <<sess, taken, lost>>
      BY <1>6, <2>1 DEF SessionMark
    <3>2. QED BY <3>1
  <2>2. CASE g \notin sclosed
    <3>1. sess[g] = "open"
      BY <1>6, <2>2 DEF SessionMark, CloserInv, MarkedInv
    <3>2. QED
      BY <1>6, <2>2, <3>1 DEF SessionMark, Life!Close, Life!Move
  <2>3. QED BY <2>1, <2>2
<1>7. ASSUME NEW g \in Conns, NEW w \in Whos, SessionTake(g, w)
      PROVE  Life!Take(g)
  <2>1. sess[g] = "open" /\ g \in sclosed
    BY <1>7 DEF SessionTake, CloserInv, MarkedInv
  <2>2. QED BY <1>7, <2>1 DEF SessionTake, Life!Take
<1>8. ASSUME NEW g \in Conns, NEW w \in Whos, SessionCut(g, w)
      PROVE  Life!Cut(g) \/ UNCHANGED Life!vars
  BY <1>8 DEF SessionCut, Life!Cut
<1>9. ASSUME NEW g \in Conns, LoseConn(g) \/ ShutdownConn(g)
      PROVE  Life!Cut(g) \/ UNCHANGED Life!vars
  BY <1>9 DEF LoseConn, ShutdownConn, Life!Cut
<1>10. ASSUME NEW g \in Conns, NEW w \in Whos, UnregisterSession(g, w)
      PROVE  Life!Leave(g)
  <2>1. sess[g] = "open" /\ g \in sclosed /\ g \in taken /\ g \in lost
    BY <1>10 DEF UnregisterSession, CloserInv, MarkedInv, Past
  <2>2. QED
    BY <1>10, <2>1 DEF UnregisterSession, Life!Leave, Life!Move
<1>11. ASSUME NEW g \in Conns, (\E p \in Procs : ShutdownRecv(g, p)) \/ ShutdownReply(g)
      PROVE  UNCHANGED Life!vars
  BY <1>11 DEF ShutdownRecv, ShutdownReply
<1>12. CASE UNCHANGED vars
  BY <1>12 DEF vars
<1>13. QED
  BY <1>1, <1>2, <1>3, <1>4, <1>5, <1>6, <1>7, <1>8, <1>9, <1>10, <1>11, <1>12
  DEF Next, ConnectStep, SessionCloseStep, ShutdownStep, Whos, Life!Next

\* However the accept loop, the user and wire.shutdown race to close it, each
\* session of the client goes through its life in the order of SessionLife.
THEOREM SessionsImplementLife == Spec => SessionsLive
<1>1. Init => Life!Init
  BY DEF Init, Life!Init
<1>2. QED
  BY <1>1, InvHolds, LifeInit, LifeInvStep, LifeStep, PTL
  DEF Spec, SessionsLive, Life!Spec
=============================================================================
