--------------------------- MODULE RegistryProofs ---------------------------
(* What is proved of Registry for every set of sessions and names, and     *)
(* whatever names the sessions share.                                      *)
EXTENDS Registry, TLAPS

\* Out of hub mode the index stays empty; unregistering would not clear it.
EmptyWithoutHub == ~HubMode => \A n \in Names : streamIndex[n] = NoSession

IndexInv == IndexSound /\ UniqueNamesFound /\ EmptyWithoutHub

LEMMA TypeInit == Init => TypeOK
BY DEF Init, TypeOK, Phases, ReqStates

LEMMA TypeStep == TypeOK /\ [Next]_vars => TypeOK'
<1> SUFFICES ASSUME TypeOK, [Next]_vars
             PROVE  TypeOK'
  OBVIOUS
<1> USE DEF TypeOK, Phases, ReqStates
<1>1. ASSUME NEW s \in Sessions, RegisterSession(s)
      PROVE  TypeOK'
  BY <1>1 DEF RegisterSession, IndexWith
<1>2. ASSUME NEW s \in Sessions, CloseSession(s)
      PROVE  TypeOK'
  BY <1>2 DEF CloseSession
<1>3. ASSUME NEW s \in Sessions, UnregisterSession(s)
      PROVE  TypeOK'
  BY <1>3 DEF UnregisterSession, IndexWithout
<1>4. ASSUME NEW h \in hooks, RunHook(h)
      PROVE  TypeOK'
  BY <1>4 DEF RunHook
<1>5. CASE CloseWire
  BY <1>5 DEF CloseWire
<1>6. ASSUME NEW r \in Requests, Validate(r) \/ Serve(r)
      PROVE  TypeOK'
  BY <1>6 DEF Validate, Serve, Step
<1>7. ASSUME NEW r \in Requests, LookUp(r)
      PROVE  TypeOK'
  <2>1. Wants[r] \in Names
    BY RegistryAssumption DEF RegistryAssumption
  <2>2. FindSession(Wants[r]) = "found" => streamIndex[Wants[r]] \in Sessions
    BY <2>1 DEF FindSession
  <2>3. QED BY <1>7, <2>1, <2>2 DEF LookUp, Step
<1>8. ASSUME NEW r \in Requests, Forward(r)
      PROVE  TypeOK'
  BY <1>8 DEF Forward, Step
<1>9. ASSUME NEW n \in Handlers, Stream(n)
      PROVE  TypeOK'
  BY <1>9 DEF Stream
<1>10. CASE UNCHANGED vars
  BY <1>10 DEF vars
<1>11. QED BY <1>1, <1>2, <1>3, <1>4, <1>5, <1>6, <1>7, <1>8, <1>9, <1>10 DEF Next

\* The tables of a wire keep their types, and a stream that serveHub forwards is
\* forwarded to a session.
THEOREM TypeCorrect == Spec => []TypeOK
BY TypeInit, TypeStep, PTL DEF Spec

LEMMA IndexInit == Init => IndexInv
BY DEF Init, IndexInv, IndexSound, UniqueNamesFound, EmptyWithoutHub

LEMMA IndexStep == TypeOK /\ IndexInv /\ [Next]_vars => IndexInv'
<1> SUFFICES ASSUME TypeOK, IndexInv, [Next]_vars
             PROVE  IndexInv'
  OBVIOUS
<1> USE DEF IndexInv, IndexSound, UniqueNamesFound, EmptyWithoutHub
<1>1. ASSUME UNCHANGED <<sessions, streamIndex>>
      PROVE  IndexInv'
  BY <1>1
<1>2. ASSUME NEW s \in Sessions, RegisterSession(s)
      PROVE  IndexInv'
  <2>1. /\ sessions' = sessions \cup {s}
        /\ \A n \in Names :
             streamIndex'[n] = IF HubMode /\ n \in Provides[s] THEN s ELSE streamIndex[n]
    BY <1>2 DEF RegisterSession, IndexWith
  <2>2. IndexSound'
    BY <2>1
  <2>3. UniqueNamesFound'
    BY <2>1, RegistryAssumption DEF RegistryAssumption, TypeOK
  <2>4. EmptyWithoutHub'
    BY <2>1
  <2>5. QED BY <2>2, <2>3, <2>4
<1>3. ASSUME NEW s \in Sessions, UnregisterSession(s)
      PROVE  IndexInv'
  <2>1. /\ sessions' = sessions \ {s}
        /\ \A n \in Names : streamIndex'[n] =
             IF HubMode /\ n \in Provides[s] THEN NoSession ELSE streamIndex[n]
    BY <1>3 DEF UnregisterSession, IndexWithout
  <2>2. IndexSound'
    BY <2>1
  <2>3. UniqueNamesFound'
    BY <2>1, RegistryAssumption DEF RegistryAssumption, TypeOK
  <2>4. EmptyWithoutHub'
    BY <2>1
  <2>5. QED BY <2>2, <2>3, <2>4
<1>4. ASSUME NEW s \in Sessions, CloseSession(s)
      PROVE  IndexInv'
  BY <1>4, <1>1 DEF CloseSession
<1>5. ASSUME NEW h \in hooks, RunHook(h)
      PROVE  IndexInv'
  BY <1>5, <1>1 DEF RunHook
<1>6. ASSUME NEW r \in Requests, Validate(r) \/ LookUp(r) \/ Forward(r) \/ Serve(r)
      PROVE  IndexInv'
  BY <1>6, <1>1 DEF Validate, LookUp, Forward, Serve
<1>7. CASE CloseWire
  BY <1>7, <1>1 DEF CloseWire
<1>8. ASSUME NEW n \in Handlers, Stream(n)
      PROVE  IndexInv'
  BY <1>8, <1>1 DEF Stream
<1>9. CASE UNCHANGED vars
  BY <1>9, <1>1 DEF vars
<1>10. QED BY <1>2, <1>3, <1>4, <1>5, <1>6, <1>7, <1>8, <1>9 DEF Next

\* Every name in the index leads to a registered session that provides it.
THEOREM IndexIsSound == Spec => []IndexSound
<1>1. IndexInv => IndexSound
  BY DEF IndexInv
<1>2. QED
  BY <1>1, TypeCorrect, IndexInit, IndexStep, PTL DEF Spec

\* A name that only one session ever provides is found while it is registered.
THEOREM UniqueNamesAreFound == Spec => []UniqueNamesFound
<1>1. IndexInv => UniqueNamesFound
  BY DEF IndexInv
<1>2. QED
  BY <1>1, TypeCorrect, IndexInit, IndexStep, PTL DEF Spec

\* Out of hub mode an accepted stream always gets its handler.
THEOREM AcceptedAreHandled == Spec => []AcceptedIsHandled
<1>1. Init => AcceptedIsHandled
  BY DEF Init, AcceptedIsHandled
<1>2. TypeOK /\ AcceptedIsHandled /\ [Next]_vars => AcceptedIsHandled'
  <2> SUFFICES ASSUME TypeOK, AcceptedIsHandled, [Next]_vars
               PROVE  AcceptedIsHandled'
    OBVIOUS
  <2> USE DEF AcceptedIsHandled, TypeOK
  <2>1. ASSUME UNCHANGED req, handlers \subseteq handlers'
        PROVE  AcceptedIsHandled'
    BY <2>1
  <2>2. CASE \E s \in Sessions : RegisterSession(s) \/ CloseSession(s) \/ UnregisterSession(s)
    BY <2>1, <2>2 DEF RegisterSession, CloseSession, UnregisterSession
  <2>3. CASE \/ \E h \in hooks : RunHook(h)
             \/ CloseWire
             \/ \E n \in Handlers : Stream(n)
             \/ UNCHANGED vars
    BY <2>1, <2>3 DEF RunHook, CloseWire, Stream, vars
  <2>4. ASSUME NEW r \in Requests, Validate(r) \/ LookUp(r) \/ Forward(r) \/ Serve(r)
        PROVE  AcceptedIsHandled'
    BY <2>4 DEF Validate, LookUp, Forward, Serve, Step, NameIsValid
  <2>5. QED BY <2>2, <2>3, <2>4 DEF Next
<1>3. QED BY <1>1, <1>2, TypeCorrect, PTL DEF Spec
=============================================================================
