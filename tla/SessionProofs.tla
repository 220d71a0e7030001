--------------------------- MODULE SessionProofs ---------------------------
(***************************************************************************)
(* What is proved of Session for every set of streams and callers.         *)
(*                                                                         *)
(* The proofs go from the types, to how the counter follows the map, to    *)
(* the bookkeeping of one stream's life (DrainInv), to the shutdown        *)
(* goroutine's hand-over with the one Close it answers (AnswerInv).        *)
(***************************************************************************)
EXTENDS Session, FiniteSetTheorems, TLAPS

-----------------------------------------------------------------------------
(* Types.                                                                  *)

LEMMA TypeInit == Init => TypeOK
<1> SUFFICES ASSUME Init
             PROVE  TypeOK
  OBVIOUS
<1>1. closes \in [Streams -> 0..MaxCloses]
  BY SessionAssumption DEF Init, SessionAssumption
<1>2. cpc \in [Closers -> CallStates]
  BY DEF Init, CallStates
<1>3. spc \in [Streams -> StreamStates]
  BY DEF Init, StreamStates
<1>4. QED BY <1>1, <1>2, <1>3 DEF Init, TypeOK, SdStates

LEMMA TypeStream ==
    ASSUME TypeOK, NEW st \in Streams, StreamStep(st) \/ UserStep(st)
    PROVE  TypeOK'
<1> USE DEF TypeOK, StreamStates, Goto, sessVars, sdVars
<1>1. CASE OpenStream(st)       BY <1>1 DEF OpenStream
<1>2. CASE AcceptStream(st)     BY <1>2 DEF AcceptStream
<1>3. CASE Confirm(st)          BY <1>3 DEF Confirm
<1>4. CASE Refuse(st)           BY <1>4 DEF Refuse
<1>5. CASE StartStream(st)      BY <1>5 DEF StartStream, RegisterStream
<1>6. CASE BeginTransfer(st)    BY <1>6 DEF BeginTransfer
<1>7. CASE EnterTransfer(st)    BY <1>7 DEF EnterTransfer
<1>8. CASE EndTransfer(st)      BY <1>8 DEF EndTransfer
<1>9. CASE CloseStream(st)
  <2>1. closes'[st] \in 0..MaxCloses
    BY <1>9, SessionAssumption DEF CloseStream, SessionAssumption
  <2>2. QED BY <1>9, <2>1 DEF CloseStream
<1>10. CASE CloseStreamEnd(st)  BY <1>10 DEF CloseStreamEnd, UnregisterStream
<1>11. CASE HandlerReturn(st)   BY <1>11 DEF HandlerReturn
<1>12. CASE HandlerPanic(st)    BY <1>12 DEF HandlerPanic
<1>13. CASE ServeCheck(st)      BY <1>13 DEF ServeCheck
<1>14. CASE ServeClose(st)      BY <1>14 DEF ServeClose
<1>15. CASE ServeEnd(st)        BY <1>15 DEF ServeEnd, UnregisterStream
<1>16. QED
  BY <1>1, <1>2, <1>3, <1>4, <1>5, <1>6, <1>7, <1>8, <1>9, <1>10, <1>11, <1>12,
     <1>13, <1>14, <1>15 DEF StreamStep, UserStep

LEMMA TypeCall ==
    ASSUME TypeOK, NEW c \in Closers, CloseCheck(c) \/ CallStep(c)
    PROVE  TypeOK'
<1> USE DEF TypeOK, CallStates, sdVars, userVars
<1>1. CASE CloseCheck(c)  BY <1>1 DEF CloseCheck, sessVars
<1>2. CASE CloseMark(c)   BY <1>2 DEF CloseMark
<1>3. CASE CloseEnd(c)    BY <1>3 DEF CloseEnd
<1>4. QED BY <1>1, <1>2, <1>3 DEF CallStep

LEMMA TypeShutdown ==
    ASSUME TypeOK, ShutdownStep
    PROVE  TypeOK'
<1> USE DEF TypeOK, SdStates, sessVars, userVars
<1>1. ASSUME NEW c \in Closers, ShutdownRecv(c)
      PROVE  TypeOK'
  BY <1>1 DEF ShutdownRecv, CallStates
<1>2. CASE Expire           BY <1>2 DEF Expire
<1>3. CASE WaitDone         BY <1>3 DEF WaitDone
<1>4. CASE ForceBegin       BY <1>4 DEF ForceBegin
<1>5. ASSUME NEW st \in Streams, ForceNext(st)
      PROVE  TypeOK'
  BY <1>5 DEF ForceNext
<1>6. CASE ForceMark        BY <1>6 DEF ForceMark
<1>7. CASE ForceLock        BY <1>7 DEF ForceLock
<1>8. CASE ForceUnregister  BY <1>8 DEF ForceUnregister, UnregisterStream
<1>9. CASE ForceEnd         BY <1>9 DEF ForceEnd
<1>10. CASE CloseConn       BY <1>10 DEF CloseConn
<1>11. CASE Reply           BY <1>11 DEF Reply, CallStates
<1>12. QED
  BY <1>1, <1>2, <1>3, <1>4, <1>5, <1>6, <1>7, <1>8, <1>9, <1>10, <1>11 DEF ShutdownStep

LEMMA TypeStep == TypeOK /\ [Next]_vars => TypeOK'
<1> SUFFICES ASSUME TypeOK, [Next]_vars
             PROVE  TypeOK'
  OBVIOUS
<1>1. ASSUME NEW st \in Streams, StreamStep(st) \/ UserStep(st)
      PROVE  TypeOK'
  BY <1>1, TypeStream
<1>2. CASE Open
  BY <1>2 DEF Open, TypeOK, CallStates, Closers, sdVars, userVars
<1>3. ASSUME NEW c \in Closers, CloseCheck(c) \/ CallStep(c)
      PROVE  TypeOK'
  BY <1>3, TypeCall
<1>4. CASE ShutdownStep
  BY <1>4, TypeShutdown
<1>5. CASE PeerClose
  BY <1>5 DEF PeerClose, TypeOK, sdVars, userVars
<1>6. CASE UNCHANGED vars
  BY <1>6 DEF vars, TypeOK, sessVars, sdVars, userVars
<1>7. QED BY <1>1, <1>2, <1>3, <1>4, <1>5, <1>6 DEF Next

\* Every variable of a session keeps its type; the counter is never negative.
THEOREM TypeCorrect == Spec => []TypeOK
BY TypeInit, TypeStep, PTL DEF Spec

-----------------------------------------------------------------------------
(* The counter and the map.                                                *)

LEMMA StreamsFinite ==
    ASSUME TypeOK
    PROVE  IsFiniteSet(streams) /\ Cardinality(streams) \in Nat
<1>1. IsFiniteSet(streams)
  BY SessionAssumption, FS_Subset DEF SessionAssumption, TypeOK
<1>2. QED BY <1>1, FS_CardinalityType

\* A stream that is not yet in the map raises counter and map alike.
LEMMA RegisterKeeps ==
    ASSUME TypeOK, NEW st \in Streams, st \notin streams, RegisterStream(st)
    PROVE  /\ CounterBound => CounterBound'
           /\ active = Cardinality(streams) => active' = Cardinality(streams')
<1>1. Cardinality(streams') = Cardinality(streams) + 1
  BY StreamsFinite, FS_AddElement DEF RegisterStream
<1>2. QED BY <1>1, StreamsFinite DEF RegisterStream, CounterBound, TypeOK

\* Unregistering lowers the counter at least as much as the map, and exactly
\* as much when the stream is there.
LEMMA UnregisterKeeps ==
    ASSUME TypeOK, NEW st \in Streams, UnregisterStream(st)
    PROVE  /\ CounterBound => CounterBound'
           /\ active = Cardinality(streams) /\ st \in streams
                => active' = Cardinality(streams')
<1>1. Cardinality(streams') = IF st \in streams THEN Cardinality(streams) - 1
                                                ELSE Cardinality(streams)
  BY StreamsFinite, FS_RemoveElement DEF UnregisterStream
<1>2. active > 0 => active' = active - 1
  BY DEF UnregisterStream
<1>3. active = 0 => active' = 0
  BY DEF UnregisterStream
<1>4. st \in streams => Cardinality(streams) > 0
  BY StreamsFinite, FS_EmptySet
<1>5. active \in Nat
  BY DEF TypeOK
<1>6. QED BY <1>1, <1>2, <1>3, <1>4, <1>5, StreamsFinite DEF CounterBound

\* A stream that has not been started is not in the map, so that starting it
\* adds an entry: this is what makes CounterBound inductive.
EarlyAbsent ==
    \A st \in Streams : spc[st] \in {"idle", "opening", "confirmed"} => st \notin streams

CountInv == CounterBound /\ EarlyAbsent

LEMMA CountInit == Init => CountInv
<1>1. Init => CounterBound
  BY FS_EmptySet DEF Init, CounterBound
<1>2. QED BY <1>1 DEF Init, CountInv, EarlyAbsent

LEMMA CountStep == TypeOK /\ CountInv /\ [Next]_vars => CountInv'
<1> SUFFICES ASSUME TypeOK, CountInv, [Next]_vars
             PROVE  CountInv'
  OBVIOUS
<1> USE DEF CountInv
<1>1. ASSUME UNCHANGED <<active, streams>>,
             \A st \in Streams : spc'[st] \in {"idle", "opening", "confirmed"}
                                => spc[st] \in {"idle", "opening", "confirmed"}
      PROVE  CountInv'
  BY <1>1 DEF CounterBound, EarlyAbsent
<1>2. ASSUME NEW st \in Streams, StreamStep(st) \/ UserStep(st)
      PROVE  CountInv'
  <2>1. CASE StartStream(st)
    <3>1. st \notin streams
      BY <2>1 DEF StartStream, EarlyAbsent
    <3>2. CounterBound'
      BY <2>1, <3>1, RegisterKeeps DEF StartStream
    <3>3. EarlyAbsent'
      BY <2>1 DEF StartStream, RegisterStream, Goto, EarlyAbsent, TypeOK
    <3>4. QED BY <3>2, <3>3
  <2>2. CASE CloseStreamEnd(st)
    <3>1. CounterBound'
      BY <2>2, UnregisterKeeps DEF CloseStreamEnd
    <3>2. EarlyAbsent'
      BY <2>2 DEF CloseStreamEnd, UnregisterStream, Goto, EarlyAbsent, TypeOK
    <3>3. QED BY <3>1, <3>2
  <2>3. CASE ServeEnd(st)
    <3>1. CounterBound'
      BY <2>3, UnregisterKeeps DEF ServeEnd
    <3>2. EarlyAbsent'
      BY <2>3 DEF ServeEnd, UnregisterStream, Goto, EarlyAbsent, TypeOK
    <3>3. QED BY <3>1, <3>2
  <2>4. CASE OpenStream(st) \/ AcceptStream(st) \/ Confirm(st) \/ Refuse(st)
    BY <2>4, <1>1 DEF OpenStream, AcceptStream, Confirm, Refuse, Goto, sessVars, TypeOK
  <2>5. CASE BeginTransfer(st) \/ EnterTransfer(st) \/ EndTransfer(st) \/ CloseStream(st)
    BY <2>5, <1>1 DEF BeginTransfer, EnterTransfer, EndTransfer, CloseStream, Goto,
                      sessVars, TypeOK
  <2>6. CASE HandlerReturn(st) \/ HandlerPanic(st) \/ ServeCheck(st) \/ ServeClose(st)
    BY <2>6, <1>1 DEF HandlerReturn, HandlerPanic, ServeCheck, ServeClose, Goto,
                      sessVars, TypeOK
  <2>7. QED
    BY <1>2, <2>1, <2>2, <2>3, <2>4, <2>5, <2>6 DEF StreamStep, UserStep
<1>3. CASE ForceUnregister
  <2>1. CounterBound'
    BY <1>3, UnregisterKeeps DEF ForceUnregister
  <2>2. EarlyAbsent'
    BY <1>3 DEF ForceUnregister, UnregisterStream, userVars, EarlyAbsent
  <2>3. QED BY <2>1, <2>2
<1>4. ASSUME NEW c \in Closers, CloseCheck(c) \/ CallStep(c) \/ ShutdownRecv(c)
      PROVE  CountInv'
  BY <1>4, <1>1 DEF CloseCheck, CallStep, CloseMark, CloseEnd, ShutdownRecv, sessVars, userVars
<1>5. ASSUME NEW st \in Streams, ForceNext(st)
      PROVE  CountInv'
  BY <1>5, <1>1 DEF ForceNext, sessVars, userVars
<1>6. CASE Expire \/ WaitDone \/ ForceBegin \/ ForceMark \/ ForceLock \/ ForceEnd
           \/ CloseConn \/ Reply
  BY <1>6, <1>1 DEF Expire, WaitDone, ForceBegin, ForceMark, ForceLock, ForceEnd,
                    CloseConn, Reply, sessVars, userVars
<1>7. CASE Open \/ PeerClose \/ UNCHANGED vars
  BY <1>7, <1>1 DEF Open, PeerClose, vars, sessVars, userVars
<1>8. QED
  BY <1>2, <1>3, <1>4, <1>5, <1>6, <1>7 DEF Next, ShutdownStep

\* The counter never exceeds the map, however the user's, serve's and the
\* forced closes of a stream overlap and however often the user repeats his:
\* while the counter is positive the forced loop has a stream to close.
THEOREM CounterBounded == Spec => []CounterBound
<1>1. CountInv => CounterBound
  BY DEF CountInv
<1>2. QED
  BY <1>1, TypeCorrect, CountInit, CountStep, PTL DEF Spec

-----------------------------------------------------------------------------
(* Until the timeout, the counter is exact.                                *)

\* Somebody still has to unregister st: its user, serve, or a Close under way.
Owes(st) == \/ spc[st] \in {"closing", "mustClose", "leaving"}
            \/ spc[st] \in {"open", "entering", "busy", "left"} /\ st \notin marked

\* Before the timeout only the user and serve set a stream's flag, each once
\* at most and serve last; so each registered stream is unregistered once.
DrainInv ==
    ~expired =>
        /\ active = Cardinality(streams)
        /\ sd \notin {"range", "lock", "unreg", "delete"}
        /\ \A st \in Streams : Owes(st) => st \in streams
        /\ \A st \in Streams : spc[st] = "closing" => st \in marked
        /\ \A st \in Streams :
              closes[st] = 0 /\ spc[st] \notin {"leaving", "done"} => st \notin marked

LEMMA DrainInit == Init => DrainInv
BY FS_EmptySet DEF Init, DrainInv, Owes

LEMMA DrainStream ==
    ASSUME MaxCloses <= 1, TypeOK, EarlyAbsent, DrainInv,
           NEW st \in Streams, StreamStep(st) \/ UserStep(st)
    PROVE  DrainInv'
<1> USE DEF DrainInv, Owes, Goto, TypeOK, sessVars, sdVars
<1>1. CASE OpenStream(st) \/ AcceptStream(st) \/ Confirm(st) \/ Refuse(st)
  BY <1>1 DEF OpenStream, AcceptStream, Confirm, Refuse
<1>2. CASE StartStream(st)
  <2>1. st \notin streams
    BY <1>2 DEF StartStream, EarlyAbsent
  <2>2. ~expired => active' = Cardinality(streams')
    BY <1>2, <2>1, RegisterKeeps DEF StartStream
  <2>3. QED BY <1>2, <2>2 DEF StartStream, RegisterStream
<1>3. CASE BeginTransfer(st) \/ EnterTransfer(st) \/ EndTransfer(st)
  BY <1>3 DEF BeginTransfer, EnterTransfer, EndTransfer
<1>4. CASE CloseStream(st)
  <2>1. closes[st] = 0 /\ closes'[st] = 1
    BY <1>4, SessionAssumption DEF CloseStream, SessionAssumption
  <2>2. ~expired => st \in streams
    BY <1>4, <2>1 DEF CloseStream
  <2>3. QED BY <1>4, <2>1, <2>2 DEF CloseStream
<1>5. CASE CloseStreamEnd(st)
  <2>1. ~expired => active' = Cardinality(streams')
    BY <1>5, UnregisterKeeps DEF CloseStreamEnd
  <2>2. ~expired => st \in marked
    BY <1>5 DEF CloseStreamEnd
  <2>3. QED BY <1>5, <2>1, <2>2 DEF CloseStreamEnd, UnregisterStream
<1>6. CASE HandlerReturn(st) \/ HandlerPanic(st) \/ ServeCheck(st) \/ ServeClose(st)
  BY <1>6 DEF HandlerReturn, HandlerPanic, ServeCheck, ServeClose
<1>7. CASE ServeEnd(st)
  <2>1. ~expired => active' = Cardinality(streams')
    BY <1>7, UnregisterKeeps DEF ServeEnd
  <2>2. QED BY <1>7, <2>1 DEF ServeEnd, UnregisterStream
<1>8. QED
  BY <1>1, <1>2, <1>3, <1>4, <1>5, <1>6, <1>7 DEF StreamStep, UserStep

LEMMA DrainStep ==
    ASSUME MaxCloses <= 1
    PROVE  TypeOK /\ CountInv /\ DrainInv /\ [Next]_vars => DrainInv'
<1> SUFFICES ASSUME TypeOK, CountInv, DrainInv, [Next]_vars
             PROVE  DrainInv'
  OBVIOUS
<1> USE DEF DrainInv, Owes, sessVars, sdVars, userVars
<1>1. ASSUME NEW st \in Streams, StreamStep(st) \/ UserStep(st)
      PROVE  DrainInv'
  BY <1>1, DrainStream DEF CountInv
<1>2. ASSUME NEW c \in Closers, CloseCheck(c) \/ CallStep(c) \/ ShutdownRecv(c)
      PROVE  DrainInv'
  BY <1>2 DEF CloseCheck, CallStep, CloseMark, CloseEnd, ShutdownRecv
<1>3. CASE Expire \/ WaitDone \/ ForceBegin \/ CloseConn \/ Reply
  BY <1>3 DEF Expire, WaitDone, ForceBegin, CloseConn, Reply
<1>4. ASSUME NEW st \in Streams, ForceNext(st)
      PROVE  DrainInv'
  BY <1>4 DEF ForceNext
<1>5. CASE ForceMark \/ ForceLock \/ ForceUnregister \/ ForceEnd
  BY <1>5 DEF ForceMark, ForceLock, ForceUnregister, ForceEnd
<1>6. CASE Open \/ PeerClose \/ UNCHANGED vars
  BY <1>6 DEF Open, PeerClose, vars
<1>7. QED
  BY <1>1, <1>2, <1>3, <1>4, <1>5, <1>6 DEF Next, ShutdownStep

\* If no user closes a stream twice, the shutdown goroutine that stops waiting
\* before the timeout leaves no registered stream behind.
THEOREM DrainIsGraceful ==
    ASSUME MaxCloses <= 1
    PROVE  Spec => GracefulDrain
<1>1. ASSUME TypeOK, DrainInv, [Next]_vars, sd = "wait", sd' = "cancelled", ~expired
      PROVE  streams = {}
  <2>1. active <= 0
    <3>1. ASSUME NEW st \in Streams, StreamStep(st) \/ UserStep(st)
          PROVE  sd' = sd
      BY <3>1 DEF StreamStep, UserStep, OpenStream, AcceptStream, Confirm, Refuse,
           StartStream, BeginTransfer, EnterTransfer, EndTransfer, CloseStream,
           CloseStreamEnd, HandlerReturn, HandlerPanic, ServeCheck, ServeClose,
           ServeEnd, sdVars
    <3>2. ASSUME NEW c \in Closers, CloseCheck(c) \/ CallStep(c)
          PROVE  sd' = sd
      BY <3>2 DEF CloseCheck, CallStep, CloseMark, CloseEnd, sdVars
    <3>3. CASE Open \/ PeerClose \/ UNCHANGED vars
      BY <3>3, <1>1 DEF Open, PeerClose, vars, sdVars
    <3>4. CASE ShutdownStep
      BY <3>4, <1>1 DEF ShutdownStep, ShutdownRecv, Expire, WaitDone, ForceBegin, ForceNext,
           ForceMark, ForceLock, ForceUnregister, ForceEnd, CloseConn, Reply, sdVars
    <3>5. QED BY <1>1, <3>1, <3>2, <3>3, <3>4 DEF Next
  <2>2. Cardinality(streams) = 0
    BY <1>1, <2>1, StreamsFinite DEF DrainInv
  <2>3. QED BY <1>1, <2>2, StreamsFinite, FS_EmptySet
<1>2. TypeOK /\ DrainInv /\ [Next]_vars
        => [sd = "wait" /\ sd' = "cancelled" /\ ~expired => streams = {}]_vars
  BY <1>1
<1>3. QED
  BY <1>2, TypeCorrect, CountInit, CountStep, DrainInit, DrainStep, PTL DEF Spec, GracefulDrain

-----------------------------------------------------------------------------
(* The one Close that is answered.                                         *)

Answered == {"wait", "unreg", "returned"}

\* The shutdown goroutine takes one caller and keeps it to the end: whoever is
\* past the rendezvous is that caller, and it goes on only once the goroutine
\* is done, its connection closed.
AnswerInv ==
    /\ sd = "recv" => client = NoOne
    /\ \A c \in Closers : cpc[c] \in Answered => c = client
    /\ \A c \in Closers : cpc[c] \in {"unreg", "returned"} => sd = "done"
    /\ sd \in {"reply", "done"} => connClosed
    /\ Running /\ ~registered => sd = "done"

LEMMA AnswerInit == Init => AnswerInv
BY DEF Init, AnswerInv, Answered, Running, Closers

LEMMA AnswerStep == TypeOK /\ AnswerInv /\ [Next]_vars => AnswerInv'
<1> SUFFICES ASSUME TypeOK, AnswerInv, [Next]_vars
             PROVE  AnswerInv'
  OBVIOUS
<1> USE DEF AnswerInv, Answered, Running, TypeOK
<1>0. Acceptor \in Closers /\ NoOne \notin Closers
  BY SessionAssumption DEF Closers, SessionAssumption
<1>1. ASSUME NEW st \in Streams, StreamStep(st) \/ UserStep(st)
      PROVE  UNCHANGED <<registered, connClosed, sdVars, cpc>>
  BY <1>1 DEF StreamStep, UserStep, OpenStream, AcceptStream, Confirm, Refuse,
       StartStream, BeginTransfer, EnterTransfer, EndTransfer, CloseStream,
       CloseStreamEnd, HandlerReturn, HandlerPanic, ServeCheck, ServeClose,
       ServeEnd, sessVars, sdVars
<1>2. ASSUME NEW c \in Closers, CloseCheck(c)
      PROVE  AnswerInv'
  BY <1>0, <1>2 DEF CloseCheck, sessVars, sdVars
<1>3. ASSUME NEW c \in Closers, CloseMark(c)
      PROVE  AnswerInv'
  BY <1>0, <1>3 DEF CloseMark, sdVars
<1>4. ASSUME NEW c \in Closers, CloseEnd(c)
      PROVE  AnswerInv'
  BY <1>0, <1>4 DEF CloseEnd, sdVars
<1>5. ASSUME NEW c \in Closers, ShutdownRecv(c)
      PROVE  AnswerInv'
  BY <1>0, <1>5 DEF ShutdownRecv, sessVars
<1>6. CASE Reply
  BY <1>0, <1>6 DEF Reply, sessVars
<1>7. CASE CloseConn
  BY <1>0, <1>7 DEF CloseConn
<1>8. ASSUME NEW st \in Streams, ForceNext(st)
      PROVE  AnswerInv'
  BY <1>8 DEF ForceNext, sessVars
<1>9. CASE Expire \/ WaitDone \/ ForceBegin \/ ForceMark \/ ForceLock \/ ForceUnregister
           \/ ForceEnd
  BY <1>9 DEF Expire, WaitDone, ForceBegin, ForceMark, ForceLock, ForceUnregister, ForceEnd,
              sessVars
<1>10. CASE Open
  BY <1>0, <1>10 DEF Open, sdVars
<1>11. CASE PeerClose \/ UNCHANGED vars
  BY <1>11 DEF PeerClose, vars, sessVars, sdVars
<1>12. CASE \E st \in Streams : StreamStep(st) \/ UserStep(st)
  BY <1>1, <1>12 DEF sdVars
<1>13. QED
  BY <1>2, <1>3, <1>4, <1>5, <1>6, <1>7, <1>8, <1>9, <1>10, <1>11, <1>12
     DEF Next, CallStep, ShutdownStep

\* One Close call per session, at most, is answered, so unregisterSession and
\* the close hook run at most once, however many goroutines race past the
\* IsClosed test.
THEOREM OneWinnerHolds == Spec => []OneWinner
<1>1. ASSUME AnswerInv
      PROVE  OneWinner
  <2> DEFINE W == {c \in Closers : cpc[c] \in {"wait", "unreg", "returned"}}
  <2>1. W \subseteq {client}
    BY <1>1 DEF AnswerInv, Answered
  <2>2. IsFiniteSet({client}) /\ Cardinality({client}) = 1
    BY FS_Singleton
  <2>3. IsFiniteSet(W) /\ Cardinality(W) <= 1
    BY <2>1, <2>2, FS_Subset
  <2>4. QED BY <2>3 DEF OneWinner
<1>2. QED
  BY <1>1, TypeCorrect, AnswerInit, AnswerStep, PTL DEF Spec

\* A running session that has left the wire's table has its connection closed
\* and its shutdown goroutine ended.
THEOREM UnregisteredAreCut == Spec => []UnregisteredMeansCut
<1>1. AnswerInv => UnregisteredMeansCut
  BY DEF AnswerInv, UnregisteredMeansCut
<1>2. QED
  BY <1>1, TypeCorrect, AnswerInit, AnswerStep, PTL DEF Spec

-----------------------------------------------------------------------------
(* Who releases a stream.                                                  *)

Early(st) == spc[st] \in {"idle", "opening", "confirmed"}

\* Out of the map, or about to be taken out of it by the forced loop.
Released(st) == st \notin streams \/ victim = st

\* A stream whose flag is set is released, but for the time in which whoever
\* set it has still to unregister it: this is why serve may leave it alone.
ReleaseInv ==
    /\ \A st \in Streams : Early(st) => st \notin marked
    /\ victim # NoOne =>
          victim \in Streams /\ sd \in {"lock", "unreg", "delete"} /\ ~Early(victim)
    /\ \A st \in Streams :
          st \in marked /\ spc[st] \notin {"closing", "leaving"} => Released(st)
    /\ \A st \in Streams : spc[st] = "done" => Released(st)

LEMMA ReleaseInit == Init => ReleaseInv
BY DEF Init, ReleaseInv

LEMMA ReleaseStream ==
    ASSUME TypeOK, EarlyAbsent, ReleaseInv,
           NEW st \in Streams, StreamStep(st) \/ UserStep(st)
    PROVE  ReleaseInv'
<1> USE DEF ReleaseInv, Released, Early, Goto, TypeOK, sessVars, sdVars
<1>1. CASE OpenStream(st) \/ AcceptStream(st) \/ Confirm(st) \/ Refuse(st)
  BY <1>1 DEF OpenStream, AcceptStream, Confirm, Refuse
<1>2. CASE StartStream(st)
  BY <1>2 DEF StartStream, RegisterStream
<1>3. CASE BeginTransfer(st) \/ EnterTransfer(st) \/ EndTransfer(st)
  BY <1>3 DEF BeginTransfer, EnterTransfer, EndTransfer
<1>4. CASE CloseStream(st)
  BY <1>4 DEF CloseStream
<1>5. CASE CloseStreamEnd(st) \/ ServeEnd(st)
  BY <1>5 DEF CloseStreamEnd, ServeEnd, UnregisterStream
<1>6. CASE HandlerReturn(st) \/ HandlerPanic(st)
  BY <1>6 DEF HandlerReturn, HandlerPanic
<1>7. CASE ServeCheck(st) \/ ServeClose(st)
  BY <1>7 DEF ServeCheck, ServeClose
<1>8. QED
  BY <1>1, <1>2, <1>3, <1>4, <1>5, <1>6, <1>7 DEF StreamStep, UserStep

LEMMA ReleaseStep == TypeOK /\ CountInv /\ ReleaseInv /\ [Next]_vars => ReleaseInv'
<1> SUFFICES ASSUME TypeOK, CountInv, ReleaseInv, [Next]_vars
             PROVE  ReleaseInv'
  OBVIOUS
<1> USE DEF ReleaseInv, Released, Early, sessVars, sdVars, userVars
<1>1. ASSUME NEW st \in Streams, StreamStep(st) \/ UserStep(st)
      PROVE  ReleaseInv'
  BY <1>1, ReleaseStream DEF CountInv
<1>2. ASSUME NEW c \in Closers, CloseCheck(c) \/ CallStep(c) \/ ShutdownRecv(c)
      PROVE  ReleaseInv'
  BY <1>2 DEF CloseCheck, CallStep, CloseMark, CloseEnd, ShutdownRecv
<1>3. CASE Expire \/ WaitDone \/ ForceBegin \/ CloseConn \/ Reply
  BY <1>3 DEF Expire, WaitDone, ForceBegin, CloseConn, Reply
<1>4. ASSUME NEW st \in Streams, ForceNext(st)
      PROVE  ReleaseInv'
  <2>1. ~Early(st)
    BY <1>4 DEF ForceNext, CountInv, EarlyAbsent
  <2>2. victim = NoOne
    BY <1>4 DEF ForceNext
  <2>3. QED
    BY <1>4, <2>1, <2>2, SessionAssumption DEF ForceNext, SessionAssumption
<1>5. CASE ForceMark \/ ForceLock \/ ForceEnd
  BY <1>5, SessionAssumption
  DEF ForceMark, ForceLock, ForceEnd, SessionAssumption
<1>6. CASE ForceUnregister
  BY <1>6, SessionAssumption DEF ForceUnregister, UnregisterStream, SessionAssumption
<1>7. CASE Open \/ PeerClose \/ UNCHANGED vars
  BY <1>7 DEF Open, PeerClose, vars
<1>8. QED
  BY <1>1, <1>2, <1>3, <1>4, <1>5, <1>6, <1>7 DEF Next, ShutdownStep

\* When dispatchStream ends after a handler that returned, its stream is out of
\* the map or in the hands of the forced loop, whoever closed it and how often.
THEOREM ReturnedAreReleased == Spec => []ReleasedOnReturn
<1>1. TypeOK /\ ReleaseInv => ReleasedOnReturn
  BY DEF TypeOK, ReleaseInv, Released, ReleasedOnReturn, Streams
<1>2. QED
  BY <1>1, TypeCorrect, CountInit, CountStep, ReleaseInit, ReleaseStep, PTL DEF Spec

-----------------------------------------------------------------------------
(* The life of a session.                                                  *)

\* Close is called on a running session, and whoever goes on after its test
\* has set the flag.
CallInv ==
    /\ \A c \in Closers : cpc[c] \notin {"idle", "start"} => Running
    /\ \A c \in Closers : cpc[c] \in {"send", "wait", "unreg", "returned"} => closed
    /\ closed => Running
    /\ registered => Running
    /\ client # NoOne => closed

LEMMA CallInit == Init => CallInv
BY DEF Init, CallInv

LEMMA StreamsApart ==
    ASSUME NEW st \in Streams, StreamStep(st) \/ UserStep(st)
    PROVE  UNCHANGED <<closed, registered, connClosed, sdVars, cpc>>
BY DEF StreamStep, UserStep, OpenStream, AcceptStream, Confirm, Refuse, StartStream,
       BeginTransfer, EnterTransfer, EndTransfer, CloseStream, CloseStreamEnd,
       HandlerReturn, HandlerPanic, ServeCheck, ServeClose, ServeEnd, sessVars, sdVars

\* The steps of the shutdown goroutine that only drain.
Draining == \/ Expire \/ WaitDone \/ ForceBegin \/ ForceMark \/ ForceLock
            \/ ForceUnregister \/ ForceEnd
            \/ \E st \in Streams : ForceNext(st)

LEMMA DrainingApart ==
    ASSUME Draining
    PROVE  UNCHANGED <<closed, registered, connClosed, client, cpc>>
BY DEF Draining, Expire, WaitDone, ForceBegin, ForceMark, ForceLock, ForceUnregister,
       ForceEnd, ForceNext, sessVars

LEMMA CallStepKeeps == TypeOK /\ CallInv /\ [Next]_vars => CallInv'
<1> SUFFICES ASSUME TypeOK, CallInv, [Next]_vars
             PROVE  CallInv'
  OBVIOUS
<1> USE DEF CallInv, Running, TypeOK
<1>0. Acceptor \in Closers /\ NoOne \notin Closers
  BY SessionAssumption DEF Closers, SessionAssumption
<1>1. CASE \E st \in Streams : StreamStep(st) \/ UserStep(st)
  BY <1>1, StreamsApart DEF sdVars
<1>2. ASSUME NEW c \in Closers, CloseCheck(c)
      PROVE  CallInv'
  BY <1>0, <1>2 DEF CloseCheck, MayCall, sessVars, sdVars
<1>3. ASSUME NEW c \in Closers, CloseMark(c)
      PROVE  CallInv'
  BY <1>0, <1>3 DEF CloseMark, sdVars
<1>4. ASSUME NEW c \in Closers, CloseEnd(c)
      PROVE  CallInv'
  BY <1>0, <1>4 DEF CloseEnd, sdVars
<1>5. ASSUME NEW c \in Closers, ShutdownRecv(c)
      PROVE  CallInv'
  BY <1>0, <1>5 DEF ShutdownRecv, sessVars
<1>6. CASE Reply
  BY <1>0, <1>6 DEF Reply, sessVars
<1>7. CASE CloseConn
  BY <1>7 DEF CloseConn
<1>8. CASE Draining
  BY <1>8, DrainingApart
<1>9. CASE Open
  BY <1>0, <1>9 DEF Open, sdVars
<1>10. CASE PeerClose \/ UNCHANGED vars
  BY <1>10 DEF PeerClose, vars, sessVars, sdVars
<1>11. QED
  BY <1>1, <1>2, <1>3, <1>4, <1>5, <1>6, <1>7, <1>8, <1>9, <1>10
     DEF Next, CallStep, ShutdownStep, Draining

LifeInv == TypeOK /\ AnswerInv /\ CallInv

LEMMA LifeStep == LifeInv /\ [Next]_vars => [Life!Next]_(Life!vars)
<1> SUFFICES ASSUME LifeInv, [Next]_vars
             PROVE  [Life!Next]_(Life!vars)
  OBVIOUS
<1> USE DEF LifeInv, CallInv, AnswerInv, Answered, Running,
            Life!vars, Life!Next, Life!Move
<1>0. Acceptor \in Closers /\ NoOne \notin Closers
  BY SessionAssumption DEF Closers, SessionAssumption
<1>1. CASE \E st \in Streams : StreamStep(st) \/ UserStep(st)
  BY <1>1, StreamsApart DEF sdVars
<1>2. ASSUME NEW c \in Closers, CloseCheck(c)
      PROVE  UNCHANGED Life!vars
  BY <1>0, <1>2 DEF CloseCheck, sessVars, sdVars, TypeOK
<1>3. ASSUME NEW c \in Closers, CloseMark(c)
      PROVE  Life!Close(Acceptor) \/ UNCHANGED Life!vars
  BY <1>0, <1>3 DEF CloseMark, sdVars, Life!Close, TypeOK
<1>4. ASSUME NEW c \in Closers, CloseEnd(c)
      PROVE  Life!Leave(Acceptor) \/ UNCHANGED Life!vars
  BY <1>0, <1>4 DEF CloseEnd, sdVars, Life!Leave, TypeOK
<1>5. ASSUME NEW c \in Closers, ShutdownRecv(c)
      PROVE  Life!Take(Acceptor)
  BY <1>0, <1>5 DEF ShutdownRecv, sessVars, Life!Take, TypeOK
<1>6. CASE Reply
  BY <1>0, <1>6 DEF Reply, sessVars, TypeOK
<1>7. CASE CloseConn \/ PeerClose
  BY <1>7 DEF CloseConn, PeerClose, sdVars, Life!Cut
<1>8. CASE Draining
  BY <1>8, DrainingApart
<1>9. CASE Open
  BY <1>0, <1>9 DEF Open, sdVars, Life!Open, TypeOK
<1>10. CASE UNCHANGED vars
  BY <1>10 DEF vars, sessVars, sdVars
<1>11. QED
  BY <1>1, <1>2, <1>3, <1>4, <1>5, <1>6, <1>7, <1>8, <1>9, <1>10
     DEF Next, CallStep, ShutdownStep, Draining

\* With all its streams and goroutines a session is a session as the wire sees
\* it: it is closed once, drained by one caller's request, cut, and only then
\* unregistered.
THEOREM SessionImplementsLife == Spec => SessionLives
<1>1. Init => Life!Init
  BY DEF Init, Life!Init, Running, Closers
<1>2. QED
  BY <1>1, TypeCorrect, AnswerInit, AnswerStep, CallInit, CallStepKeeps, LifeStep, PTL
     DEF Spec, SessionLives, Life!Spec, LifeInv
=============================================================================
