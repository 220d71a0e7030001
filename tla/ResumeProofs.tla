---------------------------- MODULE ResumeProofs ----------------------------
(* What is proved of Resume for every number and length of messages, every  *)
(* length of the buffer that holds one, and every number of connections.    *)
EXTENDS Resume, TLAPS

\* The session of connection g has left the client.
Ended(g) == g < gen \/ (g = gen /\ con # "waiting")

\* Connections are made one after the other.
ConnInv(g) ==
    /\ g > gen => hook[g] = "none" /\ g \notin forced
    /\ g <= gen => hook[g] # "none"
    /\ Ended(g) => g \in lost

\* A hook without a stream that got an answer has no data, and no later
\* connection finds it counting unless its stream was closed by force.
Quiet(g) ==
    Ended(g) /\ g <= gen /\ g \notin forced =>
        \/ hook[g] \in {"opening", "confirmed", "done"}
        \/ index[g] = Nothing /\ hook[g] \in {"asking", "reading", "checking", "closing"}

Taken(g) == next[g] - first[g] - arrived[g]

\* Messages are neither lost nor doubled between the handler and the terminal.
Conserved(g) == Taken(g) * MsgLen = printed[g] + inHand[g] + held[g]

\* What a Read returns fills the buffer, or is the last of the stream.
FullOrLast(g) == inHand[g] > 0 /\ (inHand[g] = BufLen \/ (held[g] = 0 /\ StreamEnded(g)))

FlowInv(g) ==
    /\ hook[g] \in {"none", "opening", "confirmed", "asking"} => index[g] = Nothing
    /\ index[g] = Nothing => first[g] = Nothing
    /\ first[g] = Nothing <=> next[g] = Nothing
    /\ first[g] = Nothing => arrived[g] = 0 /\ held[g] = 0 /\ inHand[g] = 0 /\ printed[g] = 0
    /\ first[g] # Nothing =>
          /\ first[g] = index[g]
          /\ first[g] <= next[g] /\ (next[g] = first[g] \/ next[g] <= Last + 1)
          /\ arrived[g] <= next[g] - first[g]
          /\ Conserved(g)
    /\ hook[g] # "printing" => inHand[g] = 0
    /\ hook[g] = "printing" => FullOrLast(g)

\* The Reads of the current hook have not run ahead of what it has printed.
CountInv ==
    forced \subseteq {gen} =>
        IF gen = 0 \/ index[gen] = Nothing
        THEN Complete(startIndex)
        ELSE /\ index[gen] <= startIndex
             /\ (startIndex - index[gen]) * MsgLen <= printed[gen]
             /\ Complete(index[gen])

ResumeInv ==
    /\ con = "waiting" => gen > 0
    /\ forced \subseteq 1..gen
    /\ \A g \in Conns : ConnInv(g) /\ Quiet(g) /\ FlowInv(g)
    /\ CountInv

-----------------------------------------------------------------------------
(* Arithmetic.                                                              *)

LEMMA Parameters ==
    /\ Last \in Nat /\ MsgLen \in Nat \ {0} /\ BufLen \in Nat /\ MsgLen <= BufLen
    /\ MaxConns \in Nat
BY ResumeAssumption DEF ResumeAssumption

LEMMA TimesMonotonic ==
    \A a, b \in Int : a <= b => a * MsgLen <= b * MsgLen
BY Parameters

LEMMA TimesCancels ==
    \A a, b \in Int : a * MsgLen < b * MsgLen => a < b
BY Parameters

LEMMA TimesNext == \A a \in Int : (a + 1) * MsgLen = a * MsgLen + MsgLen
BY Parameters

LEMMA DivMonotonic ==
    \A p, q \in Nat : p <= q => p \div MsgLen <= q \div MsgLen
BY Parameters

LEMMA DivBound ==
    \A r, p \in Nat : r * MsgLen <= p => r <= p \div MsgLen
BY Parameters

LEMMA DivIsNat == \A p \in Nat : p \div MsgLen \in Nat
BY Parameters

\* The types in a form that the provers use.
TypeInv ==
    /\ startIndex \in Nat /\ gen \in Nat /\ gen <= MaxConns
    /\ hook \in [Conns -> HookStates]
    /\ index \in [Conns -> Int] /\ first \in [Conns -> Int] /\ next \in [Conns -> Int]
    /\ arrived \in [Conns -> Int] /\ held \in [Conns -> Int]
    /\ inHand \in [Conns -> Int] /\ printed \in [Conns -> Int]
    /\ \A g \in Conns :
          /\ index[g] >= -1 /\ first[g] >= -1 /\ next[g] >= -1
          /\ arrived[g] >= 0 /\ held[g] >= 0 /\ inHand[g] >= 0 /\ printed[g] >= 0

LEMMA TypesAsInv == TypeOK => TypeInv
<1> SUFFICES ASSUME TypeOK
             PROVE  TypeInv
  OBVIOUS
<1>1. /\ gen \in Nat /\ gen <= MaxConns
      /\ index \in [Conns -> Int] /\ first \in [Conns -> Int] /\ next \in [Conns -> Int]
  BY Parameters DEF TypeOK, Nothing
<1>2. arrived \in [Conns -> Int] /\ held \in [Conns -> Int] /\ inHand \in [Conns -> Int]
  BY Parameters DEF TypeOK
<1>3. (Last + 1) * MsgLen \in Int
  BY Parameters
<1>4. printed \in [Conns -> Int]
  BY <1>3 DEF TypeOK
<1>5. ASSUME NEW g \in Conns
      PROVE  /\ index[g] >= -1 /\ first[g] >= -1 /\ next[g] >= -1
             /\ arrived[g] >= 0 /\ held[g] >= 0 /\ inHand[g] >= 0 /\ printed[g] >= 0
  <2>1. index[g] >= -1 /\ first[g] >= -1 /\ next[g] >= -1
    BY DEF TypeOK, Nothing
  <2>2. arrived[g] >= 0 /\ held[g] >= 0 /\ inHand[g] >= 0
    BY Parameters DEF TypeOK
  <2>3. printed[g] >= 0
    BY <1>3 DEF TypeOK
  <2>4. QED BY <2>1, <2>2, <2>3
<1>6. QED BY <1>1, <1>2, <1>4, <1>5 DEF TypeInv, TypeOK

-----------------------------------------------------------------------------
(* Types.                                                                   *)

LEMMA InvInit == Init => TypeOK /\ ResumeInv
<1> SUFFICES ASSUME Init
             PROVE  TypeOK /\ ResumeInv
  OBVIOUS
<1> USE Parameters DEF Init, Nothing
<1>1. TypeOK
  <2>1. 0 \in 0..(Last + 1) * MsgLen
    BY TimesMonotonic
  <2>2. printed \in [Conns -> 0..(Last + 1) * MsgLen] /\ held \in [Conns -> 0..BufLen + MsgLen]
    BY <2>1
  <2>3. /\ gen \in 0..MaxConns /\ startIndex \in Nat
        /\ arrived \in [Conns -> 0..Last + 1] /\ inHand \in [Conns -> 0..BufLen]
    OBVIOUS
  <2>4. QED BY <2>2, <2>3 DEF TypeOK, HookStates
<1>2. ASSUME NEW g \in Conns
      PROVE  ConnInv(g) /\ Quiet(g) /\ FlowInv(g)
  BY DEF ConnInv, Quiet, FlowInv, Ended, Conns
<1>3. CountInv
  BY DEF CountInv, Complete
<1>4. QED BY <1>1, <1>2, <1>3 DEF ResumeInv

LEMMA TypeStep == TypeOK /\ ResumeInv /\ [Next]_vars => TypeOK'
<1> SUFFICES ASSUME TypeOK, ResumeInv, [Next]_vars
             PROVE  TypeOK'
  OBVIOUS
<1>a. TypeInv
  BY TypesAsInv
<1>b. \A g \in Conns : FlowInv(g)
  BY DEF ResumeInv
<1> USE Parameters DEF wireVars, dataVars, Goto, Nothing
<1>1. CASE Loop \/ DialFails \/ DialSucceeds \/ LoseConn \/ SessionEnds \/ Shutdown
  <2>1. /\ UNCHANGED <<startIndex, wireClosed, asked, index, first, next, arrived, held,
                       inHand, printed>>
        /\ con' \in {"loop", "dialing", "waiting", "stuck", "returned"}
    BY <1>1 DEF Loop, DialFails, DialSucceeds, LoseConn, SessionEnds, Shutdown, TypeOK
  <2>2. gen' \in 0..MaxConns /\ hook' \in [Conns -> HookStates]
    BY <1>1, <1>a DEF Loop, DialFails, DialSucceeds, LoseConn, SessionEnds, Shutdown,
                      TypeInv, HookStates
  <2>3. lost' \subseteq Conns /\ forced' \subseteq Conns
    <3>1. con = "waiting" => gen \in Conns
      BY <1>a DEF ResumeInv, TypeInv, Conns
    <3>2. QED
      BY <1>1, <3>1 DEF Loop, DialFails, DialSucceeds, LoseConn, SessionEnds, Shutdown,
                        TypeOK
  <2>4. wireClosed' \in BOOLEAN /\ asked' \in BOOLEAN
    BY <2>1 DEF TypeOK
  <2>5. QED BY <2>1, <2>2, <2>3, <2>4 DEF TypeOK
<1>2. ASSUME NEW g \in Conns, HandlerStarts(g)
      PROVE  TypeOK'
  <2>1. first' \in [Conns -> Nat \cup {Nothing}] /\ next' \in [Conns -> Nat \cup {Nothing}]
    BY <1>2 DEF HandlerStarts, TypeOK
  <2>2. QED BY <1>2, <2>1 DEF HandlerStarts, TypeOK
<1>3. ASSUME NEW g \in Conns, HandlerWrites(g)
      PROVE  TypeOK'
  <2>1. arrived[g] + 1 \in 0..Last + 1 /\ next[g] + 1 \in Nat
    <3>1. next[g] \in 0..Last
      BY <1>3 DEF HandlerWrites
    <3>2. /\ arrived[g] <= next[g] - first[g] /\ first[g] # -1
          /\ arrived[g] \in Int /\ first[g] \in Int /\ first[g] >= -1 /\ arrived[g] >= 0
      BY <3>1, <1>a, <1>b DEF FlowInv, TypeInv
    <3>3. QED BY <3>1, <3>2
  <2>2. arrived' \in [Conns -> 0..Last + 1] /\ next' \in [Conns -> Nat \cup {Nothing}]
    BY <1>3, <2>1 DEF HandlerWrites, TypeOK
  <2>3. QED BY <1>3, <2>2 DEF HandlerWrites, TypeOK
<1>4. ASSUME NEW g \in Conns,
             StreamConfirmed(g) \/ StreamOpened(g) \/ StreamFails(g) \/ ReadEnds(g)
             \/ Check(g) \/ CloseWireEnds(g)
      PROVE  TypeOK'
  BY <1>4 DEF StreamConfirmed, StreamOpened, StreamFails, ReadEnds, Check, CloseWireEnds,
              TypeOK, HookStates
<1>5. ASSUME NEW g \in Conns, Ask(g)
      PROVE  TypeOK'
  <2>1. index' \in [Conns -> Nat \cup {Nothing}] /\ hook' \in [Conns -> HookStates]
    BY <1>5 DEF Ask, TypeOK, HookStates
  <2>2. QED BY <1>5, <2>1 DEF Ask, TypeOK
<1>6. ASSUME NEW g \in Conns, Fill(g)
      PROVE  TypeOK'
  <2>1. arrived[g] - 1 \in 0..Last + 1 /\ held[g] + MsgLen \in 0..BufLen + MsgLen
    <3>1. arrived[g] \in 0..Last + 1 /\ held[g] \in Nat /\ held[g] < BufLen /\ arrived[g] > 0
      BY <1>6 DEF Fill, TypeOK
    <3>2. QED BY <3>1
  <2>2. arrived' \in [Conns -> 0..Last + 1] /\ held' \in [Conns -> 0..BufLen + MsgLen]
    BY <1>6, <2>1 DEF Fill, TypeOK
  <2>3. QED BY <1>6, <2>2 DEF Fill, TypeOK
<1>7. ASSUME NEW g \in Conns, Read(g)
      PROVE  TypeOK'
  <2> DEFINE n == IF held[g] >= BufLen THEN BufLen ELSE held[g]
  <2>1. held' = [held EXCEPT ![g] = @ - n] /\ inHand' = [inHand EXCEPT ![g] = n]
    BY <1>7 DEF Read
  <2>2. n \in 0..BufLen /\ held[g] - n \in 0..BufLen + MsgLen
    <3>1. held[g] \in 0..BufLen + MsgLen
      BY DEF TypeOK
    <3>2. QED BY <3>1
  <2>3. held' \in [Conns -> 0..BufLen + MsgLen] /\ inHand' \in [Conns -> 0..BufLen]
    BY <2>1, <2>2 DEF TypeOK
  <2>4. QED BY <1>7, <2>3 DEF Read, TypeOK, HookStates
<1>8. ASSUME NEW g \in Conns, Output(g)
      PROVE  TypeOK'
  <2>1. printed[g] + inHand[g] \in 0..(Last + 1) * MsgLen
    <3>1. first[g] # Nothing
      <4>1. inHand[g] \in Int /\ inHand[g] > 0
        BY <1>8, <1>a, <1>b DEF Output, FlowInv, FullOrLast, TypeInv
      <4>2. inHand[g] # 0
        BY <4>1
      <4>3. QED BY <4>2, <1>b DEF FlowInv
    <3>2. Taken(g) \in Int /\ Taken(g) <= Last + 1
      <4>1. /\ next[g] \in Int /\ first[g] \in Int /\ arrived[g] \in Int
            /\ first[g] >= -1 /\ first[g] # -1 /\ arrived[g] >= 0
            /\ next[g] = first[g] \/ next[g] <= Last + 1
        BY <3>1, <1>a, <1>b DEF FlowInv, TypeInv
      <4>2. QED BY <4>1 DEF Taken
    <3>3. /\ held[g] >= 0 /\ printed[g] >= 0 /\ inHand[g] >= 0
          /\ held[g] \in Int /\ printed[g] \in Int /\ inHand[g] \in Int
      BY <1>a DEF TypeInv
    <3>4. Taken(g) * MsgLen <= (Last + 1) * MsgLen
      BY <3>2, TimesMonotonic
    <3>5. (Last + 1) * MsgLen \in Int
      OBVIOUS
    <3>6. Taken(g) * MsgLen = printed[g] + inHand[g] + held[g]
      BY <3>1, <1>b DEF FlowInv, Conserved
    <3>7. QED BY <3>3, <3>4, <3>5, <3>6
  <2>2. printed' \in [Conns -> 0..(Last + 1) * MsgLen] /\ inHand' \in [Conns -> 0..BufLen]
    BY <1>8, <2>1 DEF Output, TypeOK
  <2>3. QED BY <1>8, <2>2 DEF Output, TypeOK, HookStates
<1>9. ASSUME NEW g \in Conns, CloseWire(g)
      PROVE  TypeOK'
  BY <1>9 DEF CloseWire, TypeOK
<1>10. CASE UNCHANGED vars
  BY <1>10 DEF vars, TypeOK
<1>11. QED
  BY <1>1, <1>2, <1>3, <1>4, <1>5, <1>6, <1>7, <1>8, <1>9, <1>10
  DEF Next, ConnectStep, HandlerStep, HookStep

-----------------------------------------------------------------------------
(* Connections, hooks and the messages on their way.                        *)

LEMMA PlacesStep ==
    ASSUME TypeInv, ResumeInv, [Next]_vars
    PROVE  /\ con' = "waiting" => gen' > 0
           /\ forced' \subseteq 1..gen'
           /\ \A h \in Conns : ConnInv(h)' /\ Quiet(h)'
<1>a. /\ gen \in Nat /\ hook \in [Conns -> HookStates] /\ \A g \in Conns : g \in Nat
      /\ index \in [Conns -> Int] /\ held \in [Conns -> Int] /\ arrived \in [Conns -> Int]
  BY DEF TypeInv, Conns
<1>b. /\ con = "waiting" => gen > 0
      /\ forced \subseteq 1..gen
      /\ \A g \in Conns : ConnInv(g) /\ Quiet(g) /\ FlowInv(g)
  BY DEF ResumeInv
<1> USE <1>a, <1>b DEF wireVars, dataVars, Goto
<1>1. CASE Loop \/ DialFails \/ LoseConn \/ UNCHANGED vars
  <2>1. ASSUME NEW h \in Conns
        PROVE  ConnInv(h)' /\ Quiet(h)'
    BY <1>1 DEF Loop, DialFails, LoseConn, vars, ConnInv, Quiet, Ended
  <2>2. QED BY <1>1, <2>1 DEF Loop, DialFails, LoseConn, vars
<1>2. CASE DialSucceeds
  <2>1. gen' = gen + 1 /\ con' = "waiting" /\ con = "dialing" /\ UNCHANGED <<forced, lost, index>>
    BY <1>2 DEF DialSucceeds
  <2>2. forced' \subseteq 1..gen' /\ gen' > 0
    BY <2>1
  <2>3. hook' = [hook EXCEPT ![gen + 1] = "opening"]
    BY <1>2 DEF DialSucceeds
  <2>4. ASSUME NEW h \in Conns, h # gen + 1
        PROVE  ConnInv(h)' /\ Quiet(h)'
    BY <2>1, <2>3, <2>4 DEF ConnInv, Quiet, Ended
  <2>5. ASSUME NEW h \in Conns, h = gen + 1
        PROVE  ConnInv(h)' /\ Quiet(h)'
    BY <2>1, <2>3, <2>5 DEF ConnInv, Quiet, Ended
  <2>6. QED BY <2>2, <2>4, <2>5
<1>3. CASE SessionEnds \/ Shutdown
  <2>1. /\ con = "waiting" /\ con' # "waiting" /\ UNCHANGED <<gen, hook, index>>
        /\ lost \subseteq lost' /\ gen \in lost' /\ forced \subseteq forced'
        /\ forced' \subseteq forced \cup {gen}
        /\ gen \in forced' \/ ~HasStream(gen)
    BY <1>3 DEF SessionEnds, Shutdown
  <2>2. forced' \subseteq 1..gen'
    BY <2>1
  <2>3. ASSUME NEW h \in Conns
        PROVE  ConnInv(h)'
    BY <2>1 DEF ConnInv, Ended
  <2>4. ASSUME NEW h \in Conns, h # gen
        PROVE  Quiet(h)'
    BY <2>1, <2>4 DEF Quiet, Ended
  <2>5. ASSUME NEW h \in Conns, h = gen
        PROVE  Quiet(h)'
    <3>1. hook[h] # "none" /\ hook[h] \in HookStates
      BY <2>5 DEF ConnInv
    <3>2. h \in forced' \/ hook[h] \in {"opening", "confirmed", "done"}
      BY <2>1, <2>5, <3>1 DEF HasStream, HookStates
    <3>3. QED BY <2>1, <3>2 DEF Quiet
  <2>6. QED BY <2>1, <2>2, <2>3, <2>4, <2>5
<1>4. ASSUME NEW g \in Conns, HandlerStep(g) \/ HookStep(g)
      PROVE  /\ con' = "waiting" => gen' > 0
             /\ forced' \subseteq 1..gen'
             /\ \A h \in Conns : ConnInv(h)' /\ Quiet(h)'
  <2>1. UNCHANGED <<con, gen, lost, forced>>
    BY <1>4 DEF HandlerStep, HandlerStarts, HandlerWrites, HookStep, StreamConfirmed,
                StreamOpened, StreamFails, Ask, Fill, Read, Output, ReadEnds, Check,
                CloseWire, CloseWireEnds
  <2>2. ASSUME NEW h \in Conns, h # g
        PROVE  hook'[h] = hook[h] /\ index'[h] = index[h]
    BY <1>4, <2>2 DEF HandlerStep, HandlerStarts, HandlerWrites, HookStep, StreamConfirmed,
                StreamOpened, StreamFails, Ask, Fill, Read, Output, ReadEnds, Check,
                CloseWire, CloseWireEnds
  <2>3. hook[g] # "none" => hook'[g] # "none"
    BY <1>4 DEF HandlerStep, HandlerStarts, HandlerWrites, HookStep, StreamConfirmed,
                StreamOpened, StreamFails, Ask, Fill, Read, Output, ReadEnds, Check,
                CloseWire, CloseWireEnds
  <2>4. hook[g] = "none" => hook'[g] = "none"
    BY <1>4 DEF HandlerStep, HandlerStarts, HandlerWrites, HookStep, StreamConfirmed,
                StreamOpened, StreamFails, Ask, Fill, Read, Output, ReadEnds, Check,
                CloseWire, CloseWireEnds
  <2>5. ASSUME NEW h \in Conns
        PROVE  ConnInv(h)'
    BY <2>1, <2>2, <2>3, <2>4 DEF ConnInv, Ended
  <2>6. ASSUME NEW h \in Conns, h # g
        PROVE  Quiet(h)'
    BY <2>1, <2>2, <2>6 DEF Quiet, Ended
  <2>7. Quiet(g)'
    <3>1. SUFFICES ASSUME Ended(g), g <= gen, g \notin forced
                   PROVE  \/ hook'[g] \in {"opening", "confirmed", "done"}
                          \/ /\ index'[g] = Nothing
                             /\ hook'[g] \in {"asking", "reading", "checking", "closing"}
      BY <2>1 DEF Quiet, Ended
    <3>2. g \in lost
      BY <3>1 DEF ConnInv
    <3>3. hook[g] = "confirmed" => index[g] = Nothing
      BY DEF FlowInv
    <3>4. \/ hook[g] \in {"opening", "confirmed", "done"}
          \/ index[g] = Nothing /\ hook[g] \in {"asking", "reading", "checking", "closing"}
      BY <3>1 DEF Quiet
    <3>5. index[g] = Nothing => held[g] = 0 /\ arrived[g] = 0
      BY DEF FlowInv
    <3>6. CASE HandlerStep(g)
      BY <3>2, <3>4, <3>6 DEF HandlerStep, HandlerStarts, HandlerWrites
    <3>7. CASE StreamConfirmed(g) \/ StreamOpened(g) \/ StreamFails(g)
      BY <3>2, <3>3, <3>4, <3>7 DEF StreamConfirmed, StreamOpened, StreamFails
    <3>8. CASE Ask(g) \/ Output(g) \/ ReadEnds(g) \/ Check(g) \/ CloseWire(g) \/ CloseWireEnds(g)
      BY <3>2, <3>4, <3>8 DEF Ask, Output, ReadEnds, Check, CloseWire, CloseWireEnds
    <3>9. CASE Fill(g)
      BY <3>4, <3>9 DEF Fill
    <3>10. ASSUME Read(g)
           PROVE  FALSE
      <4>1. hook[g] = "reading" /\ (held[g] >= BufLen \/ held[g] > 0)
        BY <3>10 DEF Read
      <4>2. held[g] = 0
        BY <3>4, <3>5, <4>1
      <4>3. QED BY <4>1, <4>2, Parameters
    <3>11. QED
      BY <1>4, <3>6, <3>7, <3>8, <3>9, <3>10 DEF HookStep
  <2>8. QED BY <2>1, <2>5, <2>6, <2>7
<1>5. QED
  BY <1>1, <1>2, <1>3, <1>4 DEF Next, ConnectStep

LEMMA FlowStep ==
    ASSUME TypeInv, ResumeInv, [Next]_vars, NEW h \in Conns
    PROVE  FlowInv(h)'
<1>a. /\ hook \in [Conns -> HookStates]
      /\ index \in [Conns -> Int] /\ first \in [Conns -> Int] /\ next \in [Conns -> Int]
      /\ arrived \in [Conns -> Int] /\ held \in [Conns -> Int]
      /\ inHand \in [Conns -> Int] /\ printed \in [Conns -> Int]
      /\ startIndex \in Nat
      /\ index[h] >= -1 /\ first[h] >= -1 /\ next[h] >= -1
      /\ arrived[h] >= 0 /\ held[h] >= 0 /\ inHand[h] >= 0 /\ printed[h] >= 0
  BY DEF TypeInv
<1>b. FlowInv(h)
  BY DEF ResumeInv
<1> USE <1>a DEF wireVars, dataVars, Goto, Nothing
<1> DEFINE Same == /\ index'[h] = index[h] /\ first'[h] = first[h] /\ next'[h] = next[h]
                   /\ arrived'[h] = arrived[h] /\ held'[h] = held[h]
                   /\ inHand'[h] = inHand[h] /\ printed'[h] = printed[h]
           Still == \/ hook'[h] = hook[h]
                    \/ /\ hook'[h] # "printing" /\ hook[h] # "printing"
                       /\ hook'[h] \in {"opening", "confirmed", "asking"} =>
                             hook[h] \in {"none", "opening", "confirmed", "asking"}
                       /\ hook'[h] # "none"
<1>0. ASSUME Same, Still, h \in lost => h \in lost'
      PROVE  FlowInv(h)'
  <2>1. Conserved(h) => Conserved(h)'
    BY <1>0 DEF Conserved, Taken
  <2>2. FullOrLast(h) => FullOrLast(h)'
    BY <1>0 DEF FullOrLast, StreamEnded
  <2>3. QED BY <1>b, <1>0, <2>1, <2>2 DEF FlowInv
<1>1. CASE Loop \/ DialFails \/ DialSucceeds \/ LoseConn \/ SessionEnds \/ Shutdown
           \/ UNCHANGED vars
  <2>1. Same /\ (h \in lost => h \in lost')
    BY <1>1 DEF Loop, DialFails, DialSucceeds, LoseConn, SessionEnds, Shutdown, vars
  <2>2. Still
    <3>1. CASE DialSucceeds
      <4>1. hook' = [hook EXCEPT ![gen + 1] = "opening"]
        BY <3>1 DEF DialSucceeds
      <4>2. h = gen + 1 => hook[h] = "none"
        BY DEF ResumeInv, ConnInv, TypeInv
      <4>3. QED BY <4>1, <4>2
    <3>2. QED BY <1>1, <3>1 DEF Loop, DialFails, LoseConn, SessionEnds, Shutdown, vars
  <2>3. QED BY <1>0, <2>1, <2>2
<1>2. ASSUME NEW g \in Conns, HandlerStep(g) \/ HookStep(g), g # h
      PROVE  FlowInv(h)'
  <2>1. Same /\ Still /\ lost' = lost
    BY <1>2 DEF HandlerStep, HandlerStarts, HandlerWrites, HookStep, StreamConfirmed,
                StreamOpened, StreamFails, Ask, Fill, Read, Output, ReadEnds, Check,
                CloseWire, CloseWireEnds
  <2>2. QED BY <1>0, <2>1
<1>3. CASE StreamConfirmed(h) \/ StreamOpened(h) \/ StreamFails(h) \/ ReadEnds(h)
           \/ Check(h) \/ CloseWire(h) \/ CloseWireEnds(h)
  <2>1. Same /\ Still /\ lost' = lost
    BY <1>3 DEF StreamConfirmed, StreamOpened, StreamFails, ReadEnds, Check, CloseWire,
                CloseWireEnds
  <2>2. QED BY <1>0, <2>1
<1>4. CASE HandlerStarts(h)
  <2>1. /\ first[h] = -1 /\ index[h] # -1 /\ h \notin lost
        /\ first'[h] = index[h] /\ next'[h] = index[h]
        /\ UNCHANGED <<hook, index, arrived, held, inHand, printed>>
    BY <1>b, <1>4 DEF HandlerStarts, FlowInv
  <2>2. arrived[h] = 0 /\ held[h] = 0 /\ inHand[h] = 0 /\ printed[h] = 0
    BY <1>b, <2>1 DEF FlowInv
  <2>3. hook[h] # "printing"
    BY <1>b, <2>2 DEF FlowInv, FullOrLast
  <2>4. Taken(h)' = 0
    BY <2>1, <2>2 DEF Taken
  <2>5. Conserved(h)'
    BY <2>1, <2>2, <2>4, Parameters DEF Conserved
  <2>6. QED BY <1>b, <2>1, <2>2, <2>3, <2>5 DEF FlowInv
<1>5. CASE HandlerWrites(h)
  <2>1. /\ next[h] \in 0..Last /\ h \notin lost
        /\ next'[h] = next[h] + 1 /\ arrived'[h] = arrived[h] + 1
        /\ UNCHANGED <<hook, index, first, held, inHand, printed>>
    BY <1>5 DEF HandlerWrites
  <2>2. first[h] # -1 /\ next[h] + 1 <= Last + 1 /\ next[h] # -1 /\ next[h] + 1 # -1
    BY <1>b, <2>1, Parameters DEF FlowInv
  <2>3. Taken(h)' = Taken(h)
    BY <2>1 DEF Taken
  <2>4. Conserved(h)'
    BY <1>b, <2>1, <2>2, <2>3 DEF Conserved, FlowInv
  <2>5. hook[h] = "printing" => FullOrLast(h)'
    <3>1. ~StreamEnded(h)
      BY <2>1, Parameters DEF StreamEnded
    <3>2. QED BY <1>b, <2>1, <3>1 DEF FlowInv, FullOrLast
  <2>6. /\ first'[h] # -1 /\ first'[h] = index'[h] /\ first'[h] <= next'[h]
        /\ next'[h] <= Last + 1 /\ arrived'[h] <= next'[h] - first'[h]
        /\ next'[h] # -1
    BY <1>b, <2>1, <2>2 DEF FlowInv
  <2>7. QED BY <1>b, <2>1, <2>4, <2>5, <2>6 DEF FlowInv
<1>6. CASE Ask(h)
  <2>1. /\ hook[h] = "asking" /\ hook'[h] = "reading"
        /\ UNCHANGED <<first, next, arrived, held, inHand, printed>>
    BY <1>6 DEF Ask
  <2>2. first[h] = -1
    BY <1>b, <2>1 DEF FlowInv
  <2>3. QED BY <1>b, <2>1, <2>2 DEF FlowInv
<1>7. CASE Fill(h)
  <2>1. /\ hook[h] = "reading" /\ arrived[h] > 0
        /\ arrived'[h] = arrived[h] - 1 /\ held'[h] = held[h] + MsgLen
        /\ UNCHANGED <<hook, index, first, next, inHand, printed>>
    BY <1>7, Parameters DEF Fill
  <2>2. first[h] # -1
    BY <1>b, <2>1 DEF FlowInv
  <2>3. Conserved(h)'
    <3>1. Taken(h)' = Taken(h) + 1 /\ Taken(h) \in Int
      BY <2>1 DEF Taken
    <3>2. Taken(h)' * MsgLen = Taken(h) * MsgLen + MsgLen
      BY <3>1, TimesNext
    <3>3. Taken(h) * MsgLen = printed[h] + inHand[h] + held[h]
      BY <1>b, <2>2 DEF FlowInv, Conserved
    <3>4. QED BY <2>1, <3>2, <3>3, Parameters DEF Conserved
  <2>4. arrived'[h] <= next'[h] - first'[h]
    BY <1>b, <2>1, <2>2 DEF FlowInv
  <2>5. QED BY <1>b, <2>1, <2>2, <2>3, <2>4 DEF FlowInv
<1>8. CASE Read(h)
  <2> DEFINE n == IF held[h] >= BufLen THEN BufLen ELSE held[h]
  <2>1. /\ hook[h] = "reading" /\ hook'[h] = "printing"
        /\ held'[h] = held[h] - n /\ inHand'[h] = n
        /\ UNCHANGED <<lost, index, first, next, arrived, printed>>
        /\ held[h] >= BufLen \/ (held[h] > 0 /\ StreamEnded(h))
    BY <1>8 DEF Read
  <2>2. inHand[h] = 0
    BY <1>b, <2>1 DEF FlowInv
  <2>3. n \in Int /\ n > 0 /\ (n = BufLen \/ (n = held[h] /\ StreamEnded(h)))
    <3>1. BufLen \in Int /\ BufLen > 0 /\ held[h] \in Int
      BY Parameters
    <3>2. CASE held[h] >= BufLen
      BY <3>1, <3>2
    <3>3. CASE ~(held[h] >= BufLen)
      <4>1. n = held[h] /\ held[h] > 0 /\ StreamEnded(h)
        BY <2>1, <3>3
      <4>2. QED BY <3>1, <4>1
    <3>4. QED BY <3>2, <3>3
  <2>4. FullOrLast(h)'
    <3>1. StreamEnded(h) => StreamEnded(h)'
      BY <2>1 DEF StreamEnded
    <3>2. QED BY <2>1, <2>3, <3>1 DEF FullOrLast
  <2>5. first[h] # -1
    BY <1>b, <2>3, <2>1, Parameters DEF FlowInv
  <2>6. Conserved(h)'
    <3>1. Taken(h)' = Taken(h)
      BY <2>1 DEF Taken
    <3>2. printed'[h] + inHand'[h] + held'[h] = printed[h] + inHand[h] + held[h]
      BY <2>1, <2>2, <2>3
    <3>3. QED BY <1>b, <2>5, <3>1, <3>2 DEF FlowInv, Conserved
  <2>7. QED BY <1>b, <2>1, <2>4, <2>5, <2>6 DEF FlowInv
<1>9. CASE Output(h)
  <2>1. /\ hook[h] = "printing" /\ hook'[h] = "reading"
        /\ printed'[h] = printed[h] + inHand[h] /\ inHand'[h] = 0
        /\ UNCHANGED <<index, first, next, arrived, held>>
    BY <1>9 DEF Output
  <2>2. first[h] # -1
    BY <1>b, <2>1 DEF FlowInv, FullOrLast
  <2>3. Conserved(h)'
    <3>1. Taken(h)' = Taken(h)
      BY <2>1 DEF Taken
    <3>2. printed'[h] + inHand'[h] + held'[h] = printed[h] + inHand[h] + held[h]
      BY <2>1
    <3>3. QED BY <1>b, <2>2, <3>1, <3>2 DEF FlowInv, Conserved
  <2>4. QED BY <1>b, <2>1, <2>2, <2>3 DEF FlowInv
<1>10. QED
  BY <1>1, <1>2, <1>3, <1>4, <1>5, <1>6, <1>7, <1>8, <1>9
  DEF Next, ConnectStep, HandlerStep, HookStep

-----------------------------------------------------------------------------
(* What the hooks have counted.                                             *)

\* The count of the last hook is no more than what it has printed.
LEMMA CountCompletes ==
    ASSUME TypeInv, ResumeInv, forced \subseteq {gen}
    PROVE  Complete(startIndex)
<1>1. CASE gen = 0 \/ index[gen] = Nothing
  BY <1>1 DEF ResumeInv, CountInv
<1>2. CASE ~(gen = 0 \/ index[gen] = Nothing)
  <2>1. gen \in Conns
    BY <1>2 DEF TypeInv, Conns
  <2> DEFINE i == index[gen]  f == first[gen]  p == printed[gen]  R == startIndex - i
  <2>2. /\ startIndex \in Int /\ i \in Int /\ i >= 0 /\ f \in Int /\ p \in Nat
        /\ next[gen] \in Int /\ arrived[gen] \in Int /\ arrived[gen] >= 0
        /\ inHand[gen] \in Int /\ held[gen] \in Int /\ inHand[gen] >= 0 /\ held[gen] >= 0
    <3>1. i \in Int /\ i >= -1 /\ i # -1
      BY <1>2, <2>1 DEF TypeInv, Nothing
    <3>2. p \in Nat
      BY <2>1 DEF TypeInv
    <3>3. QED BY <2>1, <3>1, <3>2 DEF TypeInv
  <2>3. i <= startIndex /\ R * MsgLen <= p /\ Complete(i)
    BY <1>2 DEF ResumeInv, CountInv
  <2>4. FlowInv(gen)
    BY <2>1 DEF ResumeInv
  <2>5. CASE f = Nothing
    <3>1. p = 0
      BY <2>4, <2>5 DEF FlowInv
    <3>2. R \in Int /\ R < 1
      <4>1. R \in Int /\ R * MsgLen <= 0
        BY <2>2, <2>3, <3>1
      <4>2. 1 * MsgLen > 0 /\ 1 * MsgLen \in Int
        BY Parameters
      <4>3. R * MsgLen < 1 * MsgLen
        BY <4>1, <4>2, Parameters
      <4>4. QED BY <4>1, <4>3, TimesCancels
    <3>3. startIndex = i
      BY <2>2, <2>3, <3>2
    <3>4. QED BY <2>3, <3>3
  <2>6. CASE f # Nothing
    <3>1. f = i /\ (next[gen] = f \/ next[gen] <= Last + 1) /\ Conserved(gen)
      BY <2>4, <2>6 DEF FlowInv
    <3>2. R \in Nat /\ Taken(gen) \in Int
      BY <2>2, <2>3 DEF Taken
    <3>3. R <= p \div MsgLen
      BY <2>2, <2>3, <3>2, DivBound
    <3>4. R < Taken(gen) + 1
      <4>1. p <= Taken(gen) * MsgLen
        <5>1. Taken(gen) * MsgLen = p + inHand[gen] + held[gen]
          BY <3>1 DEF Conserved
        <5>2. QED BY <2>2, <5>1
      <4>2. (Taken(gen) + 1) * MsgLen = Taken(gen) * MsgLen + MsgLen
        BY <3>2, TimesNext
      <4>3. R * MsgLen < (Taken(gen) + 1) * MsgLen
        <5>1. R * MsgLen \in Int /\ Taken(gen) * MsgLen \in Int
          BY <3>2, Parameters
        <5>2. R * MsgLen <= Taken(gen) * MsgLen
          BY <2>2, <2>3, <4>1, <5>1
        <5>3. QED BY <4>2, <5>1, <5>2, Parameters
      <4>4. Taken(gen) + 1 \in Int
        BY <3>2
      <4>5. QED BY <3>2, <4>3, <4>4, TimesCancels
    <3>5. ASSUME NEW j \in 0..(startIndex - 1)
          PROVE  j \in Printed
      <4>1. CASE j < i
        BY <2>2, <2>3, <4>1 DEF Complete
      <4>2. CASE ~(j < i)
        <5>1. f <= j /\ j < f + R
          BY <2>2, <3>1, <4>2
        <5>2. p \div MsgLen \in Nat
          BY <2>2, DivIsNat
        <5>3. j < f + p \div MsgLen
          BY <2>2, <3>2, <3>3, <5>1, <5>2
        <5>4. j \in 0..Last
          BY <2>2, <3>1, <3>2, <3>4, <5>1, Parameters DEF Taken
        <5>5. j \in Messages(gen)
          BY <5>1, <5>3, <5>4 DEF Messages
        <5>6. QED BY <2>1, <5>5 DEF Printed
      <4>3. QED BY <4>1, <4>2
    <3>6. QED BY <3>5 DEF Complete
  <2>7. QED BY <2>5, <2>6
<1>3. QED BY <1>1, <1>2

\* What has been printed stays printed.
LEMMA PrintedGrows ==
    ASSUME TypeInv, TypeInv', ResumeInv, [Next]_vars
    PROVE  Printed \subseteq Printed'
<1> SUFFICES ASSUME NEW g \in Conns, NEW j \in Messages(g)
             PROVE  j \in Messages(g)'
  BY DEF Printed
<1>1. /\ first[g] \in Int /\ first'[g] \in Int /\ printed[g] \in Nat /\ printed'[g] \in Nat
      /\ inHand \in [Conns -> Int] /\ inHand[g] >= 0 /\ next \in [Conns -> Int]
      /\ printed \in [Conns -> Int] /\ first \in [Conns -> Int]
  BY DEF TypeInv
<1>2. j \in 0..Last /\ first[g] <= j /\ j < first[g] + printed[g] \div MsgLen
  BY DEF Messages
<1>3. first[g] # Nothing
  <2>1. SUFFICES ASSUME first[g] = Nothing
                 PROVE  FALSE
    OBVIOUS
  <2>2. printed[g] = 0
    BY <2>1 DEF ResumeInv, FlowInv
  <2>3. 0 \div MsgLen = 0
    BY Parameters
  <2>4. QED BY <1>1, <1>2, <2>2, <2>3
<1>4. next[g] # Nothing
  BY <1>3 DEF ResumeInv, FlowInv
<1>5. first'[g] = first[g] /\ printed'[g] >= printed[g]
  <2> USE <1>1, <1>4 DEF wireVars, dataVars
  <2>1. CASE Loop \/ DialFails \/ DialSucceeds \/ LoseConn \/ SessionEnds \/ Shutdown
             \/ UNCHANGED vars
    BY <2>1 DEF Loop, DialFails, DialSucceeds, LoseConn, SessionEnds, Shutdown, vars
  <2>2. ASSUME NEW h \in Conns, HandlerStep(h) \/ HookStep(h)
        PROVE  first'[g] = first[g] /\ printed'[g] >= printed[g]
    BY <2>2 DEF HandlerStep, HandlerStarts, HandlerWrites, HookStep, StreamConfirmed,
                StreamOpened, StreamFails, Ask, Fill, Read, Output, ReadEnds, Check,
                CloseWire, CloseWireEnds
  <2>3. QED BY <2>1, <2>2 DEF Next, ConnectStep
<1>6. printed[g] \div MsgLen <= printed'[g] \div MsgLen
  BY <1>1, <1>5, DivMonotonic
<1>7. printed[g] \div MsgLen \in Nat /\ printed'[g] \div MsgLen \in Nat
  BY <1>1, DivIsNat
<1>8. j < first'[g] + printed'[g] \div MsgLen /\ first'[g] <= j
  BY <1>1, <1>2, <1>5, <1>6, <1>7
<1>9. QED BY <1>2, <1>8 DEF Messages

LEMMA CountStep ==
    ASSUME TypeInv, TypeInv', ResumeInv, [Next]_vars
    PROVE  CountInv'
<1> SUFFICES ASSUME forced' \subseteq {gen'}
             PROVE  IF gen' = 0 \/ index'[gen'] = Nothing
                    THEN Complete(startIndex)'
                    ELSE /\ index'[gen'] <= startIndex'
                         /\ (startIndex' - index'[gen']) * MsgLen <= printed'[gen']
                         /\ Complete(index[gen])'
  BY DEF CountInv
<1>a. /\ gen \in Nat /\ gen <= MaxConns /\ hook \in [Conns -> HookStates]
      /\ index \in [Conns -> Int] /\ printed \in [Conns -> Int] /\ startIndex \in Nat
      /\ inHand \in [Conns -> Int] /\ held \in [Conns -> Int] /\ arrived \in [Conns -> Int]
  BY DEF TypeInv
<1>b. /\ forced \subseteq 1..gen /\ CountInv
      /\ \A g \in Conns : ConnInv(g) /\ Quiet(g) /\ FlowInv(g)
  BY DEF ResumeInv
<1>c. \A g \in Conns : g \in Nat
  BY DEF Conns
<1>d. \A n \in Nat : Complete(n) => (0..(n - 1)) \subseteq Printed'
  BY PrintedGrows DEF Complete
<1>0. ASSUME UNCHANGED <<gen, startIndex, printed>>, forced \subseteq forced',
             gen \in Conns => index'[gen] = index[gen]
      PROVE  CountInv'
  <2>1. CASE gen = 0 \/ index[gen] = Nothing
    <3>1. Complete(startIndex)
      BY <1>0, <1>b, <2>1 DEF CountInv
    <3>2. Complete(startIndex)'
      BY <1>0, <1>a, <1>d, <3>1 DEF Complete
    <3>3. gen' = 0 \/ index'[gen'] = Nothing
      BY <1>0, <1>a, <2>1 DEF Conns
    <3>4. QED BY <3>2, <3>3 DEF CountInv
  <2>2. CASE ~(gen = 0 \/ index[gen] = Nothing)
    <3>1. gen \in Conns
      BY <1>a, <2>2 DEF Conns
    <3>2. /\ index[gen] <= startIndex
          /\ (startIndex - index[gen]) * MsgLen <= printed[gen]
          /\ Complete(index[gen])
      BY <1>0, <1>b, <2>2 DEF CountInv
    <3>3. index[gen] \in Nat
      BY <1>a, <2>2, <3>1 DEF TypeInv, Nothing
    <3>4. Complete(index[gen])'
      BY <1>0, <1>d, <3>1, <3>2, <3>3 DEF Complete
    <3>5. QED BY <1>0, <2>2, <3>1, <3>2, <3>4 DEF CountInv
  <2>3. QED BY <2>1, <2>2
<1> USE DEF wireVars, dataVars, Goto
<1>1. CASE Loop \/ DialFails \/ LoseConn \/ SessionEnds \/ Shutdown \/ UNCHANGED vars
  <2>1. UNCHANGED <<gen, startIndex, printed, index>> /\ forced \subseteq forced'
    BY <1>1 DEF Loop, DialFails, LoseConn, SessionEnds, Shutdown, vars
  <2>2. QED BY <1>0, <2>1 DEF CountInv
<1>2. CASE DialSucceeds
  <2>1. gen' = gen + 1 /\ gen + 1 \in Conns /\ UNCHANGED <<forced, startIndex, index>>
    BY <1>2, <1>a, Parameters DEF DialSucceeds, Conns
  <2>2. forced = {}
    BY <1>a, <1>b, <2>1
  <2>3. Complete(startIndex)
    BY <2>2, CountCompletes
  <2>4. Complete(startIndex)'
    BY <1>a, <1>d, <2>1, <2>3 DEF Complete
  <2>5. index'[gen'] = Nothing
    <3>1. hook[gen + 1] = "none"
      BY <1>a, <1>b, <2>1 DEF ConnInv
    <3>2. QED BY <1>b, <2>1, <3>1 DEF FlowInv
  <2>6. QED BY <2>4, <2>5
<1>3. ASSUME NEW g \in Conns,
             HandlerStarts(g) \/ HandlerWrites(g) \/ StreamConfirmed(g) \/ StreamOpened(g)
             \/ StreamFails(g) \/ Fill(g) \/ Read(g) \/ ReadEnds(g) \/ Check(g)
             \/ CloseWire(g) \/ CloseWireEnds(g)
      PROVE  CountInv'
  <2>1. UNCHANGED <<gen, startIndex, printed, index, forced>>
    BY <1>3 DEF HandlerStarts, HandlerWrites, StreamConfirmed, StreamOpened, StreamFails,
                Fill, Read, ReadEnds, Check, CloseWire, CloseWireEnds
  <2>2. QED BY <1>0, <2>1
\* A hook of an earlier connection is not there to do anything of use.
<1>4. ASSUME NEW g \in Conns, hook[g] # "none", g # gen
      PROVE  g \in lost /\ (forced \subseteq {gen} => hook[g] # "printing")
  <2>1. g <= gen /\ Ended(g)
    BY <1>4, <1>a, <1>b, <1>c DEF ConnInv, Ended
  <2>2. g \in lost
    BY <1>b, <2>1 DEF ConnInv
  <2>3. forced \subseteq {gen} => hook[g] # "printing"
    BY <1>b, <1>4, <2>1 DEF Quiet
  <2>4. QED BY <2>2, <2>3
<1>5. ASSUME NEW g \in Conns, Ask(g)
      PROVE  CountInv'
  <2>1. /\ hook[g] = "asking" /\ UNCHANGED <<gen, startIndex, printed, forced>>
        /\ index' = IF g \in lost THEN index ELSE [index EXCEPT ![g] = startIndex]
    BY <1>5 DEF Ask
  <2>2. CASE g \in lost \/ g # gen
    <3>1. gen \in Conns => index'[gen] = index[gen]
      BY <1>a, <2>1, <2>2
    <3>2. QED BY <1>0, <2>1, <3>1
  <2>3. CASE ~(g \in lost \/ g # gen)
    <3>1. index'[gen'] = startIndex /\ index[gen] = Nothing
      BY <1>a, <1>b, <2>1, <2>3 DEF FlowInv
    <3>2. Complete(startIndex)
      BY <1>b, <2>1, <3>1 DEF CountInv
    <3>3. Complete(index[gen])'
      BY <1>a, <1>d, <2>1, <3>1, <3>2 DEF Complete
    <3>4. (startIndex' - index'[gen']) * MsgLen = 0
      <4>1. startIndex' - index'[gen'] = 0
        BY <1>a, <2>1, <3>1
      <4>2. QED BY <4>1, Parameters
    <3>5. printed'[gen'] >= 0
      BY <2>1, <2>3 DEF TypeInv
    <3>6. index'[gen'] <= startIndex'
      BY <1>a, <2>1, <3>1
    <3>7. index'[gen'] # Nothing /\ gen' # 0
      BY <1>a, <2>1, <2>3, <3>1 DEF Nothing, Conns
    <3>8. QED BY <3>3, <3>4, <3>5, <3>6, <3>7 DEF CountInv
  <2>4. QED BY <2>2, <2>3
<1>6. ASSUME NEW g \in Conns, Output(g)
      PROVE  CountInv'
  <2>1. /\ hook[g] = "printing" /\ UNCHANGED <<gen, index, forced>>
        /\ startIndex' = startIndex + 1 /\ printed'[g] = printed[g] + inHand[g]
    BY <1>6, <1>a DEF Output
  <2>2. g = gen
    BY <1>4, <2>1
  <2>3. FullOrLast(gen) /\ Conserved(gen) /\ first[gen] # Nothing
        /\ first[gen] = index[gen]
    <3>1. FlowInv(gen) /\ FullOrLast(gen)
      BY <1>b, <2>1, <2>2 DEF FlowInv
    <3>2. inHand[gen] # 0
      BY <1>a, <2>2, <3>1 DEF FullOrLast
    <3>3. first[gen] # Nothing
      BY <3>1, <3>2 DEF FlowInv
    <3>4. first[gen] = index[gen] /\ Conserved(gen)
      BY <3>1, <3>3 DEF FlowInv
    <3>5. QED BY ONLY <3>1, <3>3, <3>4
  <2>4. /\ index[gen] \in Nat /\ printed[gen] \in Nat /\ inHand[gen] \in Int
        /\ held[gen] \in Int /\ next[gen] \in Int /\ first[gen] \in Int
        /\ arrived[gen] \in Int /\ gen # 0 /\ index[gen] # Nothing
    <3>1. gen \in Conns
      BY <2>2
    <3>2. /\ index[gen] \in Int /\ index[gen] >= -1 /\ printed[gen] \in Int
          /\ printed[gen] >= 0 /\ next[gen] \in Int /\ first[gen] \in Int
      BY <3>1 DEF TypeInv
    <3>3. index[gen] # Nothing
      BY <2>3
    <3>4. index[gen] \in Nat /\ printed[gen] \in Nat
      BY <3>2, <3>3 DEF Nothing
    <3>5. gen # 0 /\ inHand[gen] \in Int /\ held[gen] \in Int /\ arrived[gen] \in Int
      BY <3>1, <1>a DEF Conns
    <3>6. QED BY ONLY <3>2, <3>3, <3>4, <3>5
  <2>5. /\ index[gen] <= startIndex
        /\ (startIndex - index[gen]) * MsgLen <= printed[gen]
        /\ Complete(index[gen])
    BY <1>b, <2>1, <2>4 DEF CountInv
  <2> DEFINE R == startIndex - index[gen]
  <2>6. R \in Int /\ (R + 1) * MsgLen = R * MsgLen + MsgLen /\ R * MsgLen \in Int
    BY <1>a, <2>4, TimesNext, Parameters
  <2>7. (R + 1) * MsgLen <= printed[gen] + inHand[gen]
    <3>1. CASE inHand[gen] = BufLen
      BY <2>4, <2>5, <2>6, <3>1, Parameters
    <3>2. CASE inHand[gen] # BufLen
      <4>1. inHand[gen] > 0 /\ held[gen] = 0
        BY <2>3, <3>2 DEF FullOrLast
      <4>2. Taken(gen) * MsgLen = printed[gen] + inHand[gen] /\ Taken(gen) \in Int
        BY <2>3, <2>4, <4>1 DEF Conserved, Taken
      <4>3. R < Taken(gen)
        <5>1. R * MsgLen < Taken(gen) * MsgLen
          BY <2>4, <2>5, <2>6, <4>1, <4>2
        <5>2. QED BY <2>6, <4>2, <5>1, TimesCancels
      <4>4. R + 1 \in Int /\ R + 1 <= Taken(gen)
        BY <2>6, <4>2, <4>3
      <4>5. (R + 1) * MsgLen <= Taken(gen) * MsgLen
        BY <4>2, <4>4, TimesMonotonic
      <4>6. QED BY <4>2, <4>5
    <3>3. QED BY <3>1, <3>2
  <2>8. startIndex' - index'[gen'] = R + 1 /\ index'[gen'] <= startIndex'
    BY <1>a, <2>1, <2>4, <2>5
  <2>9. Complete(index[gen])'
    BY <1>d, <2>1, <2>4, <2>5 DEF Complete
  <2>10. (startIndex' - index'[gen']) * MsgLen <= printed'[gen']
    BY <2>1, <2>2, <2>7, <2>8
  <2>11. QED BY <2>1, <2>4, <2>8, <2>9, <2>10 DEF CountInv
<1>7. CountInv'
  BY <1>1, <1>2, <1>3, <1>5, <1>6 DEF Next, ConnectStep, HandlerStep, HookStep, CountInv
<1>8. QED BY <1>7 DEF CountInv

-----------------------------------------------------------------------------

LEMMA Inductive == Spec => [](TypeOK /\ ResumeInv)
<1>1. TypeOK /\ ResumeInv /\ [Next]_vars => TypeOK' /\ ResumeInv'
  <2> SUFFICES ASSUME TypeOK, ResumeInv, [Next]_vars
               PROVE  TypeOK' /\ ResumeInv'
    OBVIOUS
  <2>1. TypeOK'
    BY TypeStep
  <2>2. TypeInv /\ TypeInv'
    <3>1. TypeInv
      BY TypesAsInv
    <3>2. TypeOK' => TypeInv'
      BY TypesAsInv, PTL
    <3>3. QED BY <2>1, <3>1, <3>2
  <2>3. ResumeInv'
    BY <2>2, PlacesStep, FlowStep, CountStep DEF ResumeInv, Conns
  <2>4. QED BY <2>1, <2>3
<1>2. QED BY <1>1, InvInit, PTL DEF Spec

\* The types of Resume hold: in particular no more is printed than the messages
\* there are, and the Reader's buffer holds less than a buffer and a message.
THEOREM TypeCorrect == Spec => []TypeOK
BY Inductive, PTL

\* Whatever the lengths of messages and buffer, as long as a message fits into
\* the buffer: the client that counts its Reads never skips a message that it
\* lacks, unless a session was closed by force before its last one.
THEOREM NothingIsSkipped == Spec => []NoGap
<1>1. TypeOK /\ ResumeInv => NoGap
  BY TypesAsInv, CountCompletes DEF NoGap
<1>2. QED BY <1>1, Inductive, PTL

=============================================================================
