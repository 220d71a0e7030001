-------------------------- MODULE NamedStreamProofs --------------------------
(* What is proved of NamedStream for every window, buffer and number of     *)
(* bytes.                                                                   *)
EXTENDS NamedStream, SequenceTheorems, TLAPS

AcceptedStates == {"lookup", "dialing", "piping", "handling"}

OnlyErr(q) == \A i \in 1..Len(q) : q[i].kind = "err"

\* What dispatchStream does after its answer, it does for an accepted opener;
\* and until it accepts, nothing but an err frame is on its way back.
AnswerInv(h) ==
    /\ server[h] \in {"idle", "reading"} => verdict[h] = "none"
    /\ server[h] \in AcceptedStates => verdict[h] = "accepted"
    /\ verdict[h] # "accepted" => OnlyErr(line[h]["back"])
    /\ opener[h] \in {"opened", "ended"} => verdict[h] = "accepted"

\* The hub pipes what an accepted opener sends.
PipeInv == \A d \in Dirs : pipe[d] # "off" => verdict["near"] = "accepted"

StreamInv == PipeInv /\ \A h \in Hops : AnswerInv(h)

-----------------------------------------------------------------------------
(* Queues.                                                                  *)

LEMMA Parameters == Window \in Nat \ {0, 1} /\ BufSize \in Nat \ {0}
BY NamedStreamAssumption DEF NamedStreamAssumption

LEMMA FrameIsItems == \A t \in FrameKinds : Frame(t) \in Seq(Items) /\ Len(Frame(t)) = 2
BY DEF Frame, Items

LEMMA ByteType == \A n \in Nat : <<Byte(n)>> \in Seq(Items)
BY DEF Byte, Items

\* A queue of items stays one when items are put at its end, ...
LEMMA PutType ==
    ASSUME line \in [Hops -> [Dirs -> Seq(Items)]],
           NEW h \in Hops, NEW d \in Dirs, NEW q \in Seq(Items), Put(h, d, q)
    PROVE  line' \in [Hops -> [Dirs -> Seq(Items)]]
<1>1. line[h][d] \o q \in Seq(Items)
  OBVIOUS
<1>2. QED BY <1>1 DEF Put

\* ... dropped at its head, ...
LEMMA TailOf ==
    ASSUME NEW q \in Seq(Items), NEW n \in Nat
    PROVE  /\ SubSeq(q, n + 1, Len(q)) \in Seq(Items)
           /\ OnlyErr(q) => OnlyErr(SubSeq(q, n + 1, Len(q)))
<1>1. \A i \in (n + 1)..Len(q) : q[i] \in Items
  OBVIOUS
<1>2. SubSeq(q, n + 1, Len(q)) \in Seq(Items)
  BY <1>1, SubSeqProperties
<1>3. QED BY <1>2, SubSeqProperties DEF OnlyErr

LEMMA DropType ==
    ASSUME line \in [Hops -> [Dirs -> Seq(Items)]],
           NEW h \in Hops, NEW d \in Dirs, NEW n \in Nat, Drop(h, d, n)
    PROVE  line' \in [Hops -> [Dirs -> Seq(Items)]]
<1>1. SubSeq(line[h][d], n + 1, Len(line[h][d])) \in Seq(Items)
  BY TailOf
<1>2. QED BY <1>1 DEF Drop

\* ... or lost from its tail.
LEMMA HeadOf ==
    ASSUME NEW q \in Seq(Items), NEW n \in 0..Len(q)
    PROVE  /\ SubSeq(q, 1, n) \in Seq(Items)
           /\ OnlyErr(q) => OnlyErr(SubSeq(q, 1, n))
<1>1. \A i \in 1..n : q[i] \in Items
  OBVIOUS
<1>2. SubSeq(q, 1, n) \in Seq(Items)
  BY <1>1, SubSeqProperties
<1>3. QED BY <1>2, SubSeqProperties DEF OnlyErr

LEMMA LoseType ==
    ASSUME line \in [Hops -> [Dirs -> Seq(Items)]], NEW h \in Hops, LoseTail(h)
    PROVE  line' \in [Hops -> [Dirs -> Seq(Items)]]
<1>1. PICK f \in 0..Len(line[h]["fwd"]), b \in 0..Len(line[h]["back"]) :
        line' = [line EXCEPT ![h] = [d \in Dirs |->
                    SubSeq(@[d], 1, IF d = "fwd" THEN f ELSE b)]]
  BY DEF LoseTail
<1>2. \A d \in Dirs : SubSeq(line[h][d], 1, IF d = "fwd" THEN f ELSE b) \in Seq(Items)
  BY HeadOf DEF Dirs
<1>3. QED BY <1>1, <1>2

\* Closing an end of a hop keeps the record of the ends.
LEMMA CloseType ==
    ASSUME shut \in [Hops -> SUBSET Sides], NEW h \in Hops, NEW e \in Sides,
           CloseEnd(h, e)
    PROVE  shut' \in [Hops -> SUBSET Sides]
<1>1. shut[h] \cup {e} \in SUBSET Sides
  OBVIOUS
<1>2. QED BY <1>1 DEF CloseEnd

LEMMA InvInit == Init => TypeOK /\ StreamInv
<1> SUFFICES ASSUME Init
             PROVE  TypeOK /\ StreamInv
  OBVIOUS
<1>1. /\ line \in [Hops -> [Dirs -> Seq(Items)]]
      /\ hold \in [Dirs -> Seq(Items)] /\ got \in [Dirs -> Seq(Items)]
  BY DEF Init
<1>1a. HubOK
  BY Parameters DEF Init, HubOK
<1>2. TypeOK
  BY <1>1, <1>1a DEF Init, TypeOK, OpenerStates, ServerStates
<1>3. StreamInv
  BY DEF Init, StreamInv, AnswerInv, PipeInv, OnlyErr, AcceptedStates, Dirs
<1>4. QED BY <1>2, <1>3

-----------------------------------------------------------------------------
(* Types.                                                                   *)

\* The types of the variables one by one.
Shapes ==
    /\ opener \in [Hops -> OpenerStates] /\ server \in [Hops -> ServerStates]
    /\ verdict \in [Hops -> {"none", "accepted", "refused"}]
    /\ line \in [Hops -> [Dirs -> Seq(Items)]]
    /\ shut \in [Hops -> SUBSET Sides] /\ lost \subseteq Hops
    /\ pipe \in [Dirs -> {"off", "reading", "writing", "done"}]
    /\ hold \in [Dirs -> Seq(Items)]
    /\ counted \subseteq Hops /\ closing \subseteq Hops /\ expired \in BOOLEAN
    /\ wrote \in [Dirs -> Nat] /\ got \in [Dirs -> Seq(Items)]

LEMMA ShapeStep == TypeOK /\ [Next]_vars => Shapes'
<1> SUFFICES ASSUME TypeOK, [Next]_vars
             PROVE  Shapes'
  OBVIOUS
<1>t. /\ opener \in [Hops -> OpenerStates] /\ server \in [Hops -> ServerStates]
      /\ verdict \in [Hops -> {"none", "accepted", "refused"}]
      /\ line \in [Hops -> [Dirs -> Seq(Items)]]
      /\ shut \in [Hops -> SUBSET Sides] /\ lost \subseteq Hops
      /\ pipe \in [Dirs -> {"off", "reading", "writing", "done"}]
      /\ hold \in [Dirs -> Seq(Items)]
      /\ counted \subseteq Hops /\ closing \subseteq Hops /\ expired \in BOOLEAN
      /\ wrote \in [Dirs -> Nat] /\ got \in [Dirs -> Seq(Items)]
  BY DEF TypeOK
<1> USE <1>t DEF opening, ends, pipes, hub, data, vars
<1>h. /\ "near" \in Hops /\ "far" \in Hops /\ "fwd" \in Dirs /\ "back" \in Dirs
      /\ "out" \in Sides /\ "in" \in Sides
      /\ \A d \in Dirs : Source(d) \in Hops /\ Target(d) \in Hops
  BY DEF Hops, Dirs, Sides, Source, Target
<1>1. ASSUME NEW h \in Hops, Ask(h)
      PROVE  Shapes'
  <2>1. line' \in [Hops -> [Dirs -> Seq(Items)]]
    BY <1>1, <1>h, PutType, FrameIsItems DEF Ask, FrameKinds
  <2>2. opener' \in [Hops -> OpenerStates]
    <3>1. Opener(h, "asking") \/ Opener(h, "failed")
      BY <1>1 DEF Ask
    <3>2. QED BY <1>h, <3>1 DEF Opener, OpenerStates
  <2>3. QED BY <1>1, <2>1, <2>2 DEF Ask, Shapes
<1>2. ASSUME NEW h \in Hops, TakeAnswer(h) \/ Check(h)
      PROVE  Shapes'
  <2>1. line' \in [Hops -> [Dirs -> Seq(Items)]]
    BY <1>2, <1>h, DropType DEF TakeAnswer, Check, Decoded
  <2>2. opener' \in [Hops -> OpenerStates] /\ server' \in [Hops -> ServerStates]
    BY <1>2 DEF TakeAnswer, Check, Opener, Server, OpenerStates, ServerStates
  <2>3. shut' \in [Hops -> SUBSET Sides]
    BY <1>2, <1>h, CloseType DEF TakeAnswer, Check
  <2>4. QED BY <1>2, <2>1, <2>2, <2>3 DEF TakeAnswer, Check, Shapes
<1>3. ASSUME NEW h \in Hops, NoAnswer(h) \/ Accept(h) \/ GiveUp(h)
      PROVE  Shapes'
  <2>1. opener' \in [Hops -> OpenerStates] /\ server' \in [Hops -> ServerStates]
    BY <1>3 DEF NoAnswer, Accept, GiveUp, Return, Opener, Server, OpenerStates, ServerStates
  <2>2. shut' \in [Hops -> SUBSET Sides]
    BY <1>3, <1>h, CloseType DEF NoAnswer, Accept, GiveUp, Return
  <2>3. QED BY <1>3, <2>1, <2>2 DEF NoAnswer, Accept, GiveUp, Shapes
<1>4. ASSUME NEW h \in Hops, Answer(h)
      PROVE  Shapes'
  <2>1. line' \in [Hops -> [Dirs -> Seq(Items)]]
    BY <1>4, <1>h, PutType, FrameIsItems DEF Answer, FrameKinds
  <2>2. server' \in [Hops -> ServerStates]
    BY <1>4 DEF Answer, Return, Server, ServerStates
  <2>3. shut' \in [Hops -> SUBSET Sides]
    BY <1>4, <1>h, CloseType DEF Answer, Return
  <2>4. QED BY <1>4, <2>1, <2>2, <2>3 DEF Answer, Shapes
<1>5. ASSUME NEW h \in Hops, Serve(h) \/ HandlerReturns(h)
      PROVE  Shapes'
  <2>1. server' \in [Hops -> ServerStates]
    BY <1>5 DEF Serve, HandlerReturns, Return, Server, ServerStates
  <2>2. shut' \in [Hops -> SUBSET Sides]
    BY <1>5, <1>h, CloseType DEF Serve, HandlerReturns, Return
  <2>2a. counted' \subseteq Hops
    BY <1>5, <1>h DEF Serve, HandlerReturns
  <2>3. QED BY <1>5, <2>1, <2>2, <2>2a DEF Serve, HandlerReturns, Shapes
<1>6. CASE Relay \/ StartPipes \/ ServeHubReturn
  <2>1. server' \in [Hops -> ServerStates]
    BY <1>6, <1>h DEF Relay, StartPipes, ServeHubReturn, Server, ServerStates
  <2>2. shut' \in [Hops -> SUBSET Sides]
    <3>1. shut["near"] \cup {"in"} \in SUBSET Sides /\ shut["far"] \cup {"out"} \in SUBSET Sides
      BY <1>h
    <3>2. CASE Relay \/ StartPipes
      BY <3>2 DEF Relay, StartPipes
    <3>3. CASE ServeHubReturn
      BY <1>h, <3>1, <3>3 DEF ServeHubReturn
    <3>4. QED BY <1>6, <3>2, <3>3
  <2>2a. counted' \subseteq Hops
    BY <1>6, <1>h DEF Relay, StartPipes, ServeHubReturn
  <2>3. pipe' \in [Dirs -> {"off", "reading", "writing", "done"}]
    BY <1>6 DEF Relay, StartPipes, ServeHubReturn
  <2>4. QED BY <1>6, <2>1, <2>2, <2>2a, <2>3 DEF Relay, StartPipes, ServeHubReturn, Shapes
<1>7. ASSUME NEW d \in Dirs, PipeRead(d)
      PROVE  Shapes'
  <2>1. PICK n \in 1..BufSize :
            /\ n <= Len(line[Source(d)][d])
            /\ hold' = [hold EXCEPT ![d] = SubSeq(line[Source(d)][d], 1, n)]
            /\ Drop(Source(d), d, n)
    BY <1>7 DEF PipeRead
  <2>2. line' \in [Hops -> [Dirs -> Seq(Items)]]
    <3>1. n \in Nat
      BY Parameters
    <3>2. QED BY <2>1, <3>1, <1>h, DropType
  <2>3. line[Source(d)][d] \in Seq(Items) /\ n \in 0..Len(line[Source(d)][d])
    BY <2>1, <1>h, Parameters
  <2>4. hold' \in [Dirs -> Seq(Items)]
    BY <2>1, <2>3, HeadOf
  <2>5. QED BY <1>7, <2>2, <2>4 DEF PipeRead, Shapes
<1>8. ASSUME NEW d \in Dirs, PipeWrite(d)
      PROVE  Shapes'
  <2> DEFINE T == Target(d)
             k == IF Room(T, d) < Len(hold[d]) THEN Room(T, d) ELSE Len(hold[d])
  <2>1. /\ Put(T, d, SubSeq(hold[d], 1, k))
        /\ hold' = [hold EXCEPT ![d] = SubSeq(@, k + 1, Len(@))]
        /\ pipe' = [pipe EXCEPT ![d] = IF k = Len(hold[d]) THEN "reading" ELSE @]
        /\ Room(T, d) > 0
    BY <1>8 DEF PipeWrite
  <2>2. hold[d] \in Seq(Items) /\ k \in 0..Len(hold[d])
    <3>1. hold[d] \in Seq(Items) /\ line[T][d] \in Seq(Items)
      BY <1>h
    <3>2. Room(T, d) \in Int
      BY <3>1, Parameters DEF Room
    <3>3. QED BY <2>1, <3>1, <3>2
  <2>3. line' \in [Hops -> [Dirs -> Seq(Items)]]
    BY <2>1, <2>2, <1>h, HeadOf, PutType
  <2>4. hold' \in [Dirs -> Seq(Items)]
    BY <2>1, <2>2, TailOf
  <2>5. pipe' \in [Dirs -> {"off", "reading", "writing", "done"}]
    BY <2>1
  <2>6. QED BY <1>8, <2>3, <2>4, <2>5 DEF PipeWrite, Shapes
<1>9. ASSUME NEW d \in Dirs, PipeEnd(d)
      PROVE  Shapes'
  BY <1>9 DEF PipeEnd, Shapes
<1>10. ASSUME NEW h \in Hops, CloseSession(h) \/ ForceClose(h)
       PROVE  Shapes'
  <2>1. shut' \in [Hops -> SUBSET Sides]
    BY <1>10, <1>h, CloseType DEF CloseSession, ForceClose
  <2>2. QED BY <1>10, <2>1 DEF CloseSession, ForceClose, Shapes
<1>11. CASE Expire
  BY <1>11 DEF Expire, Shapes
<1>12. ASSUME NEW h \in Hops, CutSession(h) \/ Lose(h)
       PROVE  Shapes'
  <2>1. line' \in [Hops -> [Dirs -> Seq(Items)]] /\ lost' \subseteq Hops
    BY <1>12, LoseType DEF CutSession, Lose, LoseTail
  <2>2. QED BY <1>12, <2>1 DEF CutSession, Lose, Shapes
<1>13. ASSUME NEW h \in Hops, OpenerWrites \/ HandlerWrites(h)
       PROVE  Shapes'
  <2>1. wrote' \in [Dirs -> Nat]
    <3>1. \E d \in Dirs : wrote' = [wrote EXCEPT ![d] = wrote[d] + 1]
      BY <1>13, <1>h DEF OpenerWrites, HandlerWrites
    <3>2. QED BY <3>1
  <2>2. line' \in [Hops -> [Dirs -> Seq(Items)]]
    <3>1. \A d \in Dirs : <<Byte(wrote[d] + 1)>> \in Seq(Items)
      BY ByteType
    <3>2. QED BY <1>13, <1>h, <3>1, PutType DEF OpenerWrites, HandlerWrites
  <2>3. QED BY <1>13, <2>1, <2>2 DEF OpenerWrites, HandlerWrites, Shapes
<1>14. ASSUME NEW h \in Hops, OpenerReads \/ HandlerReads(h)
       PROVE  Shapes'
  <2>1. line' \in [Hops -> [Dirs -> Seq(Items)]]
    BY <1>14, <1>h, DropType DEF OpenerReads, HandlerReads
  <2>2. got' \in [Dirs -> Seq(Items)]
    <3>1. \A g \in Hops, d \in Dirs : line[g][d] # <<>> => Head(line[g][d]) \in Items
      OBVIOUS
    <3>2. \A d \in Dirs, i \in Items : Append(got[d], i) \in Seq(Items)
      OBVIOUS
    <3>3. \E g \in Hops, d \in Dirs :
             line[g][d] # <<>> /\ got' = [got EXCEPT ![d] = Append(got[d], Head(line[g][d]))]
      BY <1>14, <1>h DEF OpenerReads, HandlerReads
    <3>4. \E d \in Dirs, i \in Items : got' = [got EXCEPT ![d] = Append(got[d], i)]
      BY <3>1, <3>3
    <3>5. QED BY <3>2, <3>4
  <2>3. QED BY <1>14, <2>1, <2>2 DEF OpenerReads, HandlerReads, Shapes
<1>15. CASE OpenerCloses
  <2>1. opener' \in [Hops -> OpenerStates] /\ shut' \in [Hops -> SUBSET Sides]
    BY <1>15, <1>h DEF OpenerCloses, Opener, CloseEnd, OpenerStates
  <2>2. QED BY <1>15, <2>1 DEF OpenerCloses, Shapes
<1>16. CASE UNCHANGED vars
  BY <1>16 DEF Shapes
<1>17. QED
  BY <1>1, <1>2, <1>3, <1>4, <1>5, <1>6, <1>7, <1>8, <1>9, <1>10, <1>11, <1>12, <1>13,
     <1>14, <1>15, <1>16, <1>h
  DEF Next, HopStep, HubStep, PipeStep, SessionStep, UserStep

\* A Write of a pipe takes a beginning of what the pipe holds.
LEMMA Written ==
    ASSUME TypeOK, NEW d \in Dirs, PipeWrite(d)
    PROVE  /\ Target(d) \in Hops /\ hold[d] \in Seq(Items)
           /\ pipe[d] = "writing" /\ CanWrite(Target(d), d)
           /\ \E k \in 0..Len(hold[d]) :
                 /\ Put(Target(d), d, SubSeq(hold[d], 1, k))
                 /\ hold' = [hold EXCEPT ![d] = SubSeq(@, k + 1, Len(@))]
                 /\ pipe' = [pipe EXCEPT ![d] = IF k = Len(hold[d]) THEN "reading" ELSE @]
<1> DEFINE k == IF Room(Target(d), d) < Len(hold[d]) THEN Room(Target(d), d) ELSE Len(hold[d])
<1>1. Target(d) \in Hops /\ hold[d] \in Seq(Items)
  BY DEF Target, Hops, TypeOK
<1>2. Room(Target(d), d) \in Int
  BY <1>1, Parameters DEF Room, TypeOK
<1>3. k \in 0..Len(hold[d])
  BY <1>1, <1>2 DEF PipeWrite
<1>4. /\ Put(Target(d), d, SubSeq(hold[d], 1, k))
      /\ hold' = [hold EXCEPT ![d] = SubSeq(@, k + 1, Len(@))]
      /\ pipe' = [pipe EXCEPT ![d] = IF k = Len(hold[d]) THEN "reading" ELSE @]
      /\ pipe[d] = "writing" /\ CanWrite(Target(d), d)
  BY DEF PipeWrite
<1> HIDE DEF k
<1>5. QED BY <1>1, <1>3, <1>4

\* What the hub keeps of a stream: no step but serveHub's own changes where it
\* is, once it copies, and only StartPipes starts the copying.
LEMMA HubKept == TypeOK /\ [Next]_vars => HubOK'
<1> SUFFICES ASSUME TypeOK, [Next]_vars
             PROVE  HubOK'
  OBVIOUS
<1>t. /\ server \in [Hops -> ServerStates] /\ pipe \in [Dirs -> {"off", "reading", "writing", "done"}]
      /\ hold \in [Dirs -> Seq(Items)] /\ line \in [Hops -> [Dirs -> Seq(Items)]]
      /\ counted \subseteq Hops
      /\ \A d \in Dirs : Source(d) \in Hops
      /\ "near" \in Hops /\ "far" \in Hops /\ "near" # "far"
  BY DEF TypeOK, Source, Hops
<1>k. /\ "far" \in counted => server["near"] = "piping"
      /\ \A d \in Dirs : /\ pipe[d] # "off" => server["near"] \in {"piping", "over"}
                         /\ Len(hold[d]) <= BufSize
  BY DEF TypeOK, HubOK
<1> USE DEF opening, ends, pipes, hub, data, vars
<1>1. ASSUME UNCHANGED pipes, "far" \in counted' => "far" \in counted,
             server["near"] \in {"piping", "over"} => server'["near"] = server["near"]
      PROVE  HubOK'
  BY <1>1, <1>k DEF HubOK
<1>2. ASSUME NEW h \in Hops, HopStep(h) \/ Ask(h)
      PROVE  HubOK'
  <2>1. UNCHANGED pipes
    BY <1>2 DEF HopStep, Ask, TakeAnswer, NoAnswer, Accept, Check, Answer, GiveUp, Serve
  <2>2. "far" \in counted' => "far" \in counted
    BY <1>2 DEF HopStep, Ask, TakeAnswer, NoAnswer, Accept, Check, Answer, GiveUp, Serve
  <2>3. server["near"] \in {"piping", "over"} => server'["near"] = server["near"]
    BY <1>2, <1>t DEF HopStep, Ask, TakeAnswer, NoAnswer, Accept, Check, Answer, GiveUp, Serve, Return, Server
  <2>4. QED BY <1>1, <2>1, <2>2, <2>3
<1>3. ASSUME NEW h \in Hops, SessionStep(h) \/ CloseSession(h) \/ Lose(h)
      PROVE  HubOK'
  BY <1>1, <1>3 DEF SessionStep, ForceClose, CutSession, CloseSession, Lose
<1>4. ASSUME NEW h \in Hops, HandlerReturns(h)
      PROVE  HubOK'
  BY <1>1, <1>4, <1>t DEF HandlerReturns, Return, Server
<1>5. ASSUME NEW h \in Hops,
             Expire \/ OpenerWrites \/ OpenerReads \/ OpenerCloses \/ HandlerWrites(h) \/ HandlerReads(h)
      PROVE  HubOK'
  BY <1>1, <1>5 DEF Expire, OpenerWrites, OpenerReads, OpenerCloses, HandlerWrites, HandlerReads
<1>6. CASE Relay
  BY <1>1, <1>6, <1>t DEF Relay, Server
<1>7. CASE StartPipes
  BY <1>7, <1>k, <1>t DEF StartPipes, Server, HubOK
<1>8. CASE ServeHubReturn
  BY <1>8, <1>k, <1>t DEF ServeHubReturn, Server, HubOK
<1>9. ASSUME NEW d \in Dirs, PipeRead(d)
      PROVE  HubOK'
  <2>1. PICK n \in 1..BufSize :
            /\ n <= Len(line[Source(d)][d])
            /\ hold' = [hold EXCEPT ![d] = SubSeq(line[Source(d)][d], 1, n)]
    BY <1>9 DEF PipeRead
  <2>2. Len(SubSeq(line[Source(d)][d], 1, n)) = n
    BY <1>t, <2>1, Parameters, SubSeqProperties
  <2>3. \A e \in Dirs : Len(hold'[e]) <= BufSize
    BY <1>t, <1>k, <2>1, <2>2, Parameters
  <2>4. QED BY <1>9, <1>k, <1>t, <2>3 DEF PipeRead, HubOK
<1>10. ASSUME NEW d \in Dirs, PipeWrite(d)
       PROVE  HubOK'
  <2>1. PICK k \in 0..Len(hold[d]) : hold' = [hold EXCEPT ![d] = SubSeq(@, k + 1, Len(@))]
    BY <1>10, Written
  <2>2. Len(SubSeq(hold[d], k + 1, Len(hold[d]))) <= Len(hold[d])
    BY <1>t, <2>1, SubSeqProperties
  <2>3. \A e \in Dirs : Len(hold'[e]) <= BufSize
    BY <1>t, <1>k, <2>1, <2>2, Parameters
  <2>4. QED BY <1>10, <1>k, <1>t, <2>3 DEF PipeWrite, HubOK
<1>11. ASSUME NEW d \in Dirs, PipeEnd(d)
       PROVE  HubOK'
  BY <1>11, <1>k, <1>t, Parameters DEF PipeEnd, HubOK
<1>12. CASE UNCHANGED vars
  BY <1>1, <1>12
<1>13. QED
  BY <1>2, <1>3, <1>4, <1>5, <1>6, <1>7, <1>8, <1>9, <1>10, <1>11, <1>12, <1>t
  DEF Next, HubStep, PipeStep, UserStep

LEMMA TypeStep == TypeOK /\ [Next]_vars => TypeOK'
<1> SUFFICES ASSUME TypeOK, [Next]_vars
             PROVE  TypeOK'
  OBVIOUS
<1>1. Shapes' /\ HubOK'
  BY ShapeStep, HubKept
<1>2. QED BY <1>1 DEF Shapes, TypeOK

-----------------------------------------------------------------------------
(* A stream that OpenStream returns was accepted.                           *)

LEMMA DropsKeepErr ==
    ASSUME line \in [Hops -> [Dirs -> Seq(Items)]],
           NEW g \in Hops, NEW d \in Dirs, NEW n \in Nat, Drop(g, d, n),
           NEW h \in Hops, OnlyErr(line[h]["back"])
    PROVE  OnlyErr(line'[h]["back"])
<1>1. "back" \in Dirs
  BY DEF Dirs
<1>2. OnlyErr(SubSeq(line[h]["back"], n + 1, Len(line[h]["back"])))
  BY <1>1, TailOf
<1>3. CASE g = h /\ d = "back"
  BY <1>1, <1>2, <1>3 DEF Drop
<1>4. CASE ~(g = h /\ d = "back")
  <2>1. line'[h]["back"] = line[h]["back"]
    BY <1>1, <1>4 DEF Drop
  <2>2. QED BY <2>1
<1>5. QED BY <1>3, <1>4

LEMMA LossKeepsErr ==
    ASSUME line \in [Hops -> [Dirs -> Seq(Items)]], NEW g \in Hops, LoseTail(g),
           NEW h \in Hops, OnlyErr(line[h]["back"])
    PROVE  OnlyErr(line'[h]["back"])
<1>1. PICK f \in 0..Len(line[g]["fwd"]), b \in 0..Len(line[g]["back"]) :
        line' = [line EXCEPT ![g] = [d \in Dirs |->
                    SubSeq(@[d], 1, IF d = "fwd" THEN f ELSE b)]]
  BY DEF LoseTail
<1>2. "back" \in Dirs
  BY DEF Dirs
<1>3. CASE g = h
  <2>1. line'[h]["back"] = SubSeq(line[h]["back"], 1, b)
    BY <1>1, <1>2, <1>3
  <2>2. QED BY <2>1, <1>2, <1>3, HeadOf
<1>4. CASE g # h
  BY <1>1, <1>4
<1>5. QED BY <1>3, <1>4

LEMMA PutElsewhere ==
    ASSUME line \in [Hops -> [Dirs -> Seq(Items)]],
           NEW g \in Hops, NEW d \in Dirs, NEW q, Put(g, d, q),
           NEW h \in Hops, g # h \/ d # "back"
    PROVE  line'[h]["back"] = line[h]["back"]
BY DEF Put, Dirs

LEMMA PutKeepsErr ==
    ASSUME line \in [Hops -> [Dirs -> Seq(Items)]],
           NEW h \in Hops, Put(h, "back", Frame("err")), OnlyErr(line[h]["back"])
    PROVE  OnlyErr(line'[h]["back"])
<1> DEFINE q == line[h]["back"]
           p == Frame("err")
<1>1. q \in Seq(Items) /\ p \in Seq(Items) /\ OnlyErr(p)
  BY FrameIsItems DEF Dirs, FrameKinds, Frame, OnlyErr
<1>2. line'[h]["back"] = q \o p
  BY DEF Put, Dirs
<1>3. ASSUME NEW i \in 1..Len(q \o p)
      PROVE  (q \o p)[i].kind = "err"
  <2>1. Len(q \o p) = Len(q) + Len(p) /\ Len(q) \in Nat /\ Len(p) \in Nat
    BY <1>1
  <2>2. CASE i <= Len(q)
    <3>1. (q \o p)[i] = q[i]
      BY <1>1, <2>1, <2>2
    <3>2. QED BY <3>1, <2>1, <2>2 DEF OnlyErr
  <2>3. CASE i > Len(q)
    <3>1. (q \o p)[i] = p[i - Len(q)] /\ i - Len(q) \in 1..Len(p)
      BY <1>1, <2>1, <2>3
    <3>2. QED BY <3>1, <1>1 DEF OnlyErr
  <2>4. QED BY <2>1, <2>2, <2>3
<1>4. QED BY <1>2, <1>3 DEF OnlyErr

LEMMA InvStep == TypeOK /\ StreamInv /\ [Next]_vars => StreamInv'
<1> SUFFICES ASSUME TypeOK, StreamInv, [Next]_vars
             PROVE  StreamInv'
  OBVIOUS
<1>t. /\ opener \in [Hops -> OpenerStates] /\ server \in [Hops -> ServerStates]
      /\ verdict \in [Hops -> {"none", "accepted", "refused"}]
      /\ line \in [Hops -> [Dirs -> Seq(Items)]]
      /\ pipe \in [Dirs -> {"off", "reading", "writing", "done"}]
  BY DEF TypeOK
<1>h. "near" \in Hops /\ "far" \in Hops /\ "fwd" \in Dirs /\ "back" \in Dirs
  BY DEF Hops, Dirs
<1>i. PipeInv /\ \A h \in Hops : AnswerInv(h)
  BY DEF StreamInv
<1> USE <1>t, <1>h, <1>i DEF opening, ends, pipes, hub, data, vars, Opener, Server, AcceptedStates
<1>1. ASSUME NEW g \in Hops, Ask(g)
      PROVE  StreamInv'
  <2>1. \A h \in Hops : line'[h]["back"] = line[h]["back"]
    BY <1>1, PutElsewhere DEF Ask
  <2>2. \A h \in Hops : AnswerInv(h)'
    BY <1>1, <2>1 DEF Ask, AnswerInv, OnlyErr
  <2>3. QED BY <1>1, <2>2 DEF Ask, StreamInv, PipeInv
<1>2. ASSUME NEW g \in Hops, TakeAnswer(g)
      PROVE  StreamInv'
  <2>1. FrameType(g, "back") # "err" => verdict[g] = "accepted"
    <3>1. line[g]["back"] \in Seq(Items) /\ Len(line[g]["back"]) >= 1
      <4>1. Whole(g, "back") \/ Torn(g, "back")
        BY <1>2 DEF TakeAnswer, Decoded
      <4>2. Len(line[g]["back"]) >= 1
        BY ONLY <4>1 DEF Whole, Torn
      <4>3. QED BY <4>2
    <3>2. FrameType(g, "back") = line[g]["back"][1].kind
      BY <3>1 DEF FrameType
    <3>3. verdict[g] # "accepted" => line[g]["back"][1].kind = "err"
      BY <3>1 DEF AnswerInv, OnlyErr
    <3>4. QED BY <3>2, <3>3
  <2>2. \A h \in Hops : OnlyErr(line[h]["back"]) => OnlyErr(line'[h]["back"])
    BY <1>2, DropsKeepErr DEF TakeAnswer, Decoded
  <2>3. ASSUME NEW h \in Hops
        PROVE  AnswerInv(h)'
    BY <1>2, <2>1, <2>2 DEF TakeAnswer, AnswerInv
  <2>4. QED BY <1>2, <2>3 DEF TakeAnswer, StreamInv, PipeInv
<1>3. ASSUME NEW g \in Hops, Check(g)
      PROVE  StreamInv'
  <2>1. PICK v \in {"accepted", "refused"} : verdict' = [verdict EXCEPT ![g] = v]
    BY <1>3 DEF Check
  <2>2. \A h \in Hops : OnlyErr(line[h]["back"]) => OnlyErr(line'[h]["back"])
    BY <1>3, DropsKeepErr DEF Check, Decoded
  <2>3. verdict[g] = "none"
    BY <1>3 DEF Check, AnswerInv
  <2>4. ASSUME NEW h \in Hops
        PROVE  AnswerInv(h)'
    BY <1>3, <2>1, <2>2, <2>3 DEF Check, AnswerInv
  <2>5. PipeInv'
    BY <1>3, <2>1, <2>3 DEF Check, PipeInv
  <2>6. QED BY <2>4, <2>5 DEF StreamInv
<1>4. ASSUME NEW g \in Hops, NoAnswer(g) \/ Accept(g) \/ GiveUp(g) \/ Serve(g) \/ HandlerReturns(g)
      PROVE  StreamInv'
  <2>1. ASSUME NEW h \in Hops
        PROVE  AnswerInv(h)'
    BY <1>4 DEF NoAnswer, Accept, GiveUp, Serve, HandlerReturns, Return, AnswerInv
  <2>2. QED
    BY <1>4, <2>1 DEF NoAnswer, Accept, GiveUp, Serve, HandlerReturns, StreamInv, PipeInv
<1>5. ASSUME NEW g \in Hops, Answer(g)
      PROVE  StreamInv'
  <2>1. verdict[g] # "accepted" =>
            \A h \in Hops : OnlyErr(line[h]["back"]) => OnlyErr(line'[h]["back"])
    <3>1. SUFFICES ASSUME verdict[g] # "accepted", NEW h \in Hops, OnlyErr(line[h]["back"])
                   PROVE  OnlyErr(line'[h]["back"])
      OBVIOUS
    <3>2. Put(g, "back", Frame("err"))
      BY <1>5, <3>1 DEF Answer
    <3>3. CASE g = h
      BY <3>1, <3>2, <3>3, PutKeepsErr
    <3>4. CASE g # h
      BY <3>1, <3>2, <3>4, PutElsewhere
    <3>5. QED BY <3>3, <3>4
  <2>2. \A h \in Hops : h # g => line'[h]["back"] = line[h]["back"]
    BY <1>5, PutElsewhere DEF Answer
  <2>3. ASSUME NEW h \in Hops
        PROVE  AnswerInv(h)'
    BY <1>5, <2>1, <2>2 DEF Answer, Return, AnswerInv
  <2>4. QED BY <1>5, <2>3 DEF Answer, StreamInv, PipeInv
<1>6. CASE Relay \/ StartPipes \/ ServeHubReturn
  <2>1. ASSUME NEW h \in Hops
        PROVE  AnswerInv(h)'
    BY <1>6 DEF Relay, StartPipes, ServeHubReturn, AnswerInv
  <2>2. PipeInv'
    BY <1>6 DEF Relay, StartPipes, ServeHubReturn, PipeInv, AnswerInv
  <2>3. QED BY <2>1, <2>2 DEF StreamInv
<1>7. ASSUME NEW d \in Dirs, PipeRead(d)
      PROVE  StreamInv'
  <2>1. PICK n \in 1..BufSize : Drop(Source(d), d, n)
    BY <1>7 DEF PipeRead
  <2>2. n \in Nat /\ Source(d) \in Hops
    BY Parameters DEF Source
  <2>3. \A h \in Hops : OnlyErr(line[h]["back"]) => OnlyErr(line'[h]["back"])
    BY <2>1, <2>2, DropsKeepErr
  <2>4. ASSUME NEW h \in Hops
        PROVE  AnswerInv(h)'
    BY <1>7, <2>3 DEF PipeRead, AnswerInv
  <2>5. PipeInv'
    BY <1>7 DEF PipeRead, PipeInv
  <2>6. QED BY <2>4, <2>5 DEF StreamInv
<1>8. ASSUME NEW d \in Dirs, PipeWrite(d)
      PROVE  StreamInv'
  <2>1. PICK q : Put(Target(d), d, q)
    BY <1>8 DEF PipeWrite
  <2>2. Target(d) \in Hops /\ (d = "back" => Target(d) = "near")
    BY DEF Target
  <2>3. \A h \in Hops : h # "near" => line'[h]["back"] = line[h]["back"]
    BY <2>1, <2>2, PutElsewhere
  <2>4. verdict["near"] = "accepted" /\ UNCHANGED <<opener, server, verdict>>
    BY <1>8 DEF PipeWrite, PipeInv
  <2>5. ASSUME NEW h \in Hops
        PROVE  AnswerInv(h)'
    BY <2>3, <2>4 DEF AnswerInv
  <2>6. PipeInv'
    BY <2>4 DEF PipeInv
  <2>7. QED BY <2>5, <2>6 DEF StreamInv
<1>9. ASSUME NEW d \in Dirs, PipeEnd(d)
      PROVE  StreamInv'
  <2>1. PipeInv'
    BY <1>9 DEF PipeEnd, PipeInv
  <2>2. QED BY <1>9, <2>1 DEF PipeEnd, StreamInv, AnswerInv
<1>10. CASE Expire \/ \E h \in Hops : CloseSession(h) \/ ForceClose(h)
  BY <1>10 DEF Expire, CloseSession, ForceClose, StreamInv, AnswerInv, PipeInv
<1>11. ASSUME NEW g \in Hops, CutSession(g) \/ Lose(g)
       PROVE  StreamInv'
  <2>1. \A h \in Hops : OnlyErr(line[h]["back"]) => OnlyErr(line'[h]["back"])
    BY <1>11, LossKeepsErr DEF CutSession, Lose
  <2>2. QED BY <1>11, <2>1 DEF CutSession, Lose, StreamInv, AnswerInv, PipeInv
<1>12. ASSUME NEW g \in Hops, HandlerWrites(g)
       PROVE  StreamInv'
  <2>1. \A h \in Hops : h # g => line'[h]["back"] = line[h]["back"]
    BY <1>12, PutElsewhere DEF HandlerWrites
  <2>2. verdict[g] = "accepted"
    BY <1>12 DEF HandlerWrites, AnswerInv
  <2>3. QED BY <1>12, <2>1, <2>2 DEF HandlerWrites, StreamInv, AnswerInv, PipeInv
<1>13. CASE OpenerWrites
  <2>1. \A h \in Hops : line'[h]["back"] = line[h]["back"]
    BY <1>13, PutElsewhere DEF OpenerWrites
  <2>2. QED BY <1>13, <2>1 DEF OpenerWrites, StreamInv, AnswerInv, PipeInv
<1>14. ASSUME NEW g \in Hops, OpenerReads \/ HandlerReads(g)
       PROVE  StreamInv'
  <2>1. \A h \in Hops : OnlyErr(line[h]["back"]) => OnlyErr(line'[h]["back"])
    BY <1>14, DropsKeepErr DEF OpenerReads, HandlerReads
  <2>2. QED BY <1>14, <2>1 DEF OpenerReads, HandlerReads, StreamInv, AnswerInv, PipeInv
<1>15. CASE OpenerCloses
  BY <1>15 DEF OpenerCloses, StreamInv, AnswerInv, PipeInv
<1>16. CASE UNCHANGED vars
  BY <1>16 DEF StreamInv, AnswerInv, PipeInv
<1>17. QED
  BY <1>1, <1>2, <1>3, <1>4, <1>5, <1>6, <1>7, <1>8, <1>9, <1>10, <1>11, <1>12, <1>13,
     <1>14, <1>15, <1>16
  DEF Next, HopStep, HubStep, PipeStep, SessionStep, UserStep

-----------------------------------------------------------------------------

\* Every state of a named stream is well typed, for every window and buffer; the
\* hub counts the far hop only while it copies, and its hands hold one buffer.
THEOREM TypeCorrect == Spec => []TypeOK
BY InvInit, TypeStep, PTL DEF Spec

\* OpenStream returns a stream only to an opener whose token and name were
\* accepted, however the answer is torn and wherever the hub stands between.
THEOREM OpenedAreAccepted == Spec => []OpenedIsAccepted
<1>1. StreamInv => OpenedIsAccepted
  BY DEF StreamInv, AnswerInv, OpenedIsAccepted
<1>2. QED
  BY <1>1, InvInit, TypeStep, InvStep, PTL DEF Spec

-----------------------------------------------------------------------------
(* What a queue carries: frames, and bytes behind them.                     *)

NoBytes(q) == \A i \in 1..Len(q) : q[i].kind # "byte"
NoFrames(q) == \A i \in 1..Len(q) : q[i].kind = "byte"

\* An empty queue, or one of frames only, carries no bytes.
LEMMA CarriesNone ==
    ASSUME NEW q \in Seq(Items), NEW n \in Nat, NoBytes(q)
    PROVE  /\ Carries(q, n, n)
           /\ \A m \in Nat : Carries(q, n, m) => m = n
<1>1. Carries(q, n, n)
  BY DEF Carries, NoBytes
<1>2. ASSUME NEW m \in Nat, Carries(q, n, m), m # n
      PROVE  FALSE
  <2>1. m - n \in Nat /\ m - n <= Len(q) /\ Len(q) \in Nat /\ m - n > 0
    BY <1>2 DEF Carries
  <2>2. Len(q) \in 1..Len(q) /\ ~(Len(q) <= Len(q) - (m - n))
    BY <2>1
  <2>3. q[Len(q)] = Byte(m - Len(q) + Len(q))
    BY <1>2, <2>2 DEF Carries
  <2>4. QED BY <2>2, <2>3 DEF NoBytes, Byte
<1>3. QED BY <1>1, <1>2

\* Without frames, as many bytes as items.
LEMMA CarriesAll ==
    ASSUME NEW q \in Seq(Items), NEW n \in Nat, NEW m \in Nat, Carries(q, n, m), NoFrames(q)
    PROVE  m = n + Len(q) /\ \A i \in 1..Len(q) : q[i] = Byte(n + i)
<1>1. m - n \in Nat /\ m - n <= Len(q) /\ Len(q) \in Nat
  BY DEF Carries
<1>2. ASSUME m - n < Len(q)
      PROVE  FALSE
  <2>1. 1 \in 1..Len(q) /\ 1 <= Len(q) - (m - n)
    BY <1>1, <1>2
  <2>2. q[1].kind # "byte"
    BY <2>1 DEF Carries
  <2>3. QED BY <2>1, <2>2 DEF NoFrames
<1>3. m = n + Len(q)
  BY <1>1, <1>2
<1>4. QED BY <1>1, <1>3 DEF Carries

\* Bytes behind bytes.
LEMMA CarriesConcat ==
    ASSUME NEW q \in Seq(Items), NEW r \in Seq(Items), NEW n \in Nat, NEW m \in Nat, NEW p \in Nat,
           Carries(q, n, m), Carries(r, m, p), NoFrames(r)
    PROVE  Carries(q \o r, n, p)
<1>1. p = m + Len(r) /\ \A i \in 1..Len(r) : r[i] = Byte(m + i)
  BY CarriesAll
<1>2. Len(q \o r) = Len(q) + Len(r) /\ Len(q) \in Nat /\ Len(r) \in Nat
  OBVIOUS
<1>3. m - n \in Nat /\ m - n <= Len(q)
  BY DEF Carries
<1>4. Len(q \o r) - (p - n) = Len(q) - (m - n) /\ p - Len(q \o r) = m - Len(q)
  BY <1>1, <1>2, <1>3
<1>5. ASSUME NEW i \in 1..Len(q \o r)
      PROVE  IF i <= Len(q) - (m - n) THEN (q \o r)[i].kind # "byte"
             ELSE (q \o r)[i] = Byte(m - Len(q) + i)
  <2>1. CASE i <= Len(q)
    <3>1. (q \o r)[i] = q[i] /\ i \in 1..Len(q)
      BY <1>2, <2>1
    <3>2. QED BY <3>1 DEF Carries
  <2>2. CASE i > Len(q)
    <3>1. (q \o r)[i] = r[i - Len(q)] /\ i - Len(q) \in 1..Len(r)
      BY <1>2, <2>2
    <3>2. (q \o r)[i] = Byte(m + (i - Len(q)))
      BY <1>1, <3>1
    <3>3. m + (i - Len(q)) = m - Len(q) + i /\ ~(i <= Len(q) - (m - n))
      BY <1>2, <1>3, <2>2
    <3>4. QED BY <3>2, <3>3
  <2>3. QED BY <1>2, <2>1, <2>2
<1>6. n <= p /\ p - n <= Len(q \o r)
  BY <1>1, <1>2, <1>3
<1>7. QED BY <1>4, <1>5, <1>6 DEF Carries

\* One more byte.
LEMMA CarriesNext ==
    ASSUME NEW q \in Seq(Items), NEW n \in Nat, NEW m \in Nat, Carries(q, n, m)
    PROVE  Carries(q \o <<Byte(m + 1)>>, n, m + 1)
<1>1. <<Byte(m + 1)>> \in Seq(Items) /\ Len(<<Byte(m + 1)>>) = 1
  BY ByteType
<1>2. Carries(<<Byte(m + 1)>>, m, m + 1) /\ NoFrames(<<Byte(m + 1)>>)
  BY <1>1 DEF Carries, NoFrames, Byte
<1>3. m + 1 \in Nat
  OBVIOUS
<1> DEFINE b == <<Byte(m + 1)>>
<1>4. b \in Seq(Items) /\ Carries(b, m, m + 1) /\ NoFrames(b)
  BY <1>1, <1>2
<1> HIDE DEF b
<1>5. Carries(q \o b, n, m + 1)
  BY <1>3, <1>4, CarriesConcat
<1>6. QED BY <1>5 DEF b

\* Frames taken from the head.
LEMMA CarriesUnframed ==
    ASSUME NEW q \in Seq(Items), NEW n \in Nat, NEW m \in Nat, Carries(q, n, m),
           NEW k \in Nat, \A i \in 1..Len(q) : i <= k => q[i].kind # "byte"
    PROVE  Carries(SubSeq(q, k + 1, Len(q)), n, m)
<1> DEFINE r == SubSeq(q, k + 1, Len(q))
<1>1. r \in Seq(Items)
  BY TailOf
<1>2. m - n \in Nat /\ m - n <= Len(q) /\ Len(q) \in Nat
  BY DEF Carries
<1>3. CASE k >= Len(q)
  <2>1. NoBytes(q)
    BY <1>2, <1>3 DEF NoBytes
  <2>2. m = n
    BY <2>1, CarriesNone
  <2>3. Len(r) = 0
    BY <1>2, <1>3, SubSeqProperties
  <2>4. NoBytes(r)
    BY <2>3 DEF NoBytes
  <2>5. QED BY <1>1, <2>2, <2>4, CarriesNone
<1>4. CASE k < Len(q)
  <2>1. Len(r) = Len(q) - k /\ \A i \in 1..Len(r) : r[i] = q[k + i]
    BY <1>2, <1>4, SubSeqProperties
  <2> HIDE DEF r
  <2>2. m - n <= Len(q) - k
    <3>1. SUFFICES ASSUME k > Len(q) - (m - n)
                   PROVE  FALSE
      BY <1>2
    <3>2. Len(q) - (m - n) + 1 \in 1..Len(q) /\ Len(q) - (m - n) + 1 <= k
      BY <1>2, <1>4, <3>1
    <3>3. q[Len(q) - (m - n) + 1].kind = "byte"
      <4>1. q[Len(q) - (m - n) + 1] = Byte(m - Len(q) + (Len(q) - (m - n) + 1))
        BY <1>2, <3>2 DEF Carries
      <4>2. QED BY <4>1 DEF Byte
    <3>4. QED BY <3>2, <3>3
  <2>3. ASSUME NEW i \in 1..Len(r)
        PROVE  IF i <= Len(r) - (m - n) THEN r[i].kind # "byte" ELSE r[i] = Byte(m - Len(r) + i)
    <3>1. r[i] = q[k + i] /\ k + i \in 1..Len(q) /\ m - Len(r) + i = m - Len(q) + (k + i)
      BY <1>2, <1>4, <2>1
    <3>2. i <= Len(r) - (m - n) <=> k + i <= Len(q) - (m - n)
      BY <1>2, <1>4, <2>1
    <3>3. QED BY <3>1, <3>2 DEF Carries
  <2>4. Carries(r, n, m)
    BY <1>2, <2>1, <2>2, <2>3 DEF Carries
  <2>5. QED BY <2>4 DEF r
<1>5. QED BY <1>2, <1>3, <1>4

\* Bytes taken from the head.
LEMMA CarriesSplit ==
    ASSUME NEW q \in Seq(Items), NEW n \in Nat, NEW m \in Nat, Carries(q, n, m), NoFrames(q),
           NEW k \in 0..Len(q)
    PROVE  /\ Carries(SubSeq(q, 1, k), n, n + k) /\ NoFrames(SubSeq(q, 1, k))
           /\ Carries(SubSeq(q, k + 1, Len(q)), n + k, m) /\ NoFrames(SubSeq(q, k + 1, Len(q)))
<1> DEFINE r == SubSeq(q, 1, k)
           s == SubSeq(q, k + 1, Len(q))
<1>1. m = n + Len(q) /\ \A i \in 1..Len(q) : q[i] = Byte(n + i)
  BY CarriesAll
<1>2. Len(q) \in Nat /\ k \in Nat /\ k <= Len(q)
  OBVIOUS
<1>3. Len(r) = k /\ \A i \in 1..Len(r) : r[i] = q[i]
  BY <1>2, SubSeqProperties
<1>4. Len(s) = Len(q) - k /\ \A i \in 1..Len(s) : s[i] = q[k + i]
  BY <1>2, SubSeqProperties
<1> HIDE DEF r, s
<1>5. \A i \in 1..Len(r) : r[i] = Byte(n + i)
  <2>1. \A i \in 1..Len(r) : i \in 1..Len(q)
    BY <1>2, <1>3
  <2>2. QED BY <1>1, <1>3, <2>1
<1>6. \A i \in 1..Len(s) : s[i] = Byte(n + (k + i))
  BY <1>1, <1>2, <1>4
<1>7. NoFrames(r) /\ NoFrames(s)
  <2>1. \A x \in Nat : Byte(x).kind = "byte"
    BY DEF Byte
  <2>2. NoFrames(r)
    BY <1>5, <1>3, <1>2, <2>1 DEF NoFrames
  <2>3. NoFrames(s)
    <3>1. \A i \in 1..Len(s) : n + (k + i) \in Nat
      BY <1>2, <1>4
    <3>2. QED BY <1>6, <3>1, <2>1 DEF NoFrames
  <2>4. QED BY <2>2, <2>3
<1>8. Carries(r, n, n + k)
  <2>1. n <= n + k /\ n + k - n = Len(r)
    BY <1>2, <1>3
  <2>2. \A i \in 1..Len(r) : ~(i <= Len(r) - (n + k - n)) /\ n + k - Len(r) + i = n + i
    BY <1>2, <1>3
  <2>3. QED BY <1>2, <1>3, <1>5, <2>1, <2>2 DEF Carries
<1>9. Carries(s, n + k, m)
  <2>1. \A i \in 1..Len(s) : n + (k + i) = m - Len(s) + i
    BY <1>1, <1>2, <1>4
  <2>2. n + k <= m /\ m - (n + k) = Len(s)
    BY <1>1, <1>2, <1>4
  <2>3. \A i \in 1..Len(s) : ~(i <= Len(s) - (m - (n + k)))
    BY <1>2, <1>4, <2>2
  <2>4. \A i \in 1..Len(s) : s[i] = Byte(m - Len(s) + i)
    BY <1>6, <2>1
  <2>5. m - (n + k) <= Len(s)
    BY <1>2, <1>4, <2>2
  <2>6. QED BY <2>2, <2>3, <2>4, <2>5 DEF Carries
<1>10. QED BY <1>7, <1>8, <1>9 DEF r, s

\* A tail lost.
LEMMA CarriesCut ==
    ASSUME NEW q \in Seq(Items), NEW n \in Nat, NEW m \in Nat, Carries(q, n, m),
           NEW k \in 0..Len(q)
    PROVE  \E p \in Nat : Carries(SubSeq(q, 1, k), n, p)
<1> DEFINE r == SubSeq(q, 1, k)
           f == Len(q) - (m - n)
<1>1. m - n \in Nat /\ m - n <= Len(q) /\ Len(q) \in Nat /\ f \in Nat /\ k \in Nat /\ k <= Len(q)
  BY DEF Carries
<1>2. Len(r) = k /\ \A i \in 1..Len(r) : r[i] = q[i]
  BY <1>1, SubSeqProperties
<1>3. CASE k <= f
  <2>1. NoBytes(r)
    BY <1>1, <1>2, <1>3 DEF Carries, NoBytes
  <2>2. r \in Seq(Items)
    BY HeadOf
  <2>3. QED BY <2>1, <2>2, CarriesNone
<1>4. CASE k > f
  <2> HIDE DEF r
  <2>0. f = Len(q) - (m - n)
    OBVIOUS
  <2> HIDE DEF f
  <2>1. /\ n + (k - f) \in Nat /\ n <= n + (k - f) /\ n + (k - f) - n <= k
        /\ k - (n + (k - f) - n) = f
    BY <1>1, <1>4
  <2>2. ASSUME NEW i \in 1..Len(r)
        PROVE  IF i <= f THEN r[i].kind # "byte" ELSE r[i] = Byte(n + (k - f) - k + i)
    <3>1. r[i] = q[i] /\ i \in 1..Len(q)
      BY <1>1, <1>2
    <3>2. n + (k - f) - k + i = m - Len(q) + i
      BY <1>1, <2>0
    <3>3. QED BY <3>1, <3>2, <2>0 DEF Carries
  <2> DEFINE p == n + (k - f)
  <2>3. p \in Nat /\ n <= p /\ p - n <= Len(r) /\ Len(r) - (p - n) = f
    <3>1. Len(r) = k
      BY <1>2
    <3>2. QED BY <1>1, <2>1, <3>1
  <2>4. \A i \in 1..Len(r) : IF i <= f THEN r[i].kind # "byte" ELSE r[i] = Byte(p - Len(r) + i)
    <3>1. Len(r) = k
      BY <1>2
    <3>2. QED BY <1>1, <2>2, <3>1
  <2> HIDE DEF p
  <2>5. Carries(r, n, p)
    BY <2>3, <2>4 DEF Carries
  <2>6. QED BY <2>3, <2>5 DEF r
<1>5. QED BY <1>1, <1>3, <1>4

-----------------------------------------------------------------------------
(* Where the frames and the bytes of the two hops are.                      *)

Unanswered == {"idle", "reading", "checked"}

\* The queue begins with a frame, if it holds anything, and bytes come after it.
AnswerFirst(q) == \A i \in 1..Len(q) : q[i].kind = "byte" <=> i > 2

\* Where the frames of a hop are: the opener's ahead of all bytes until it is
\* checked, the server's ahead of all bytes until it is taken.
Front(o, s, f, b, open) ==
    /\ o = "idle" => s = "idle" /\ f = <<>>
    /\ s \in Unanswered => b = <<>> /\ o \notin {"opened", "ended"}
    /\ s \in {"idle", "reading"} => Len(f) <= 2 /\ NoBytes(f)
    /\ s \in AcceptedStates \cup {"checked"} => NoFrames(f)
    /\ o = "asking" => AnswerFirst(b)
    /\ o = "asking" /\ s \notin Unanswered /\ open => Len(b) >= 2
    /\ o \in {"opened", "ended"} => NoFrames(b)

FrontInv(h) ==
    Front(opener[h], server[h], line[h]["fwd"], line[h]["back"], CanWrite(h, "back"))

\* How far the opening of the far hop and the pipes are.
FarInv ==
    /\ opener["far"] # "idle" => server["near"] \in {"dialing", "piping", "over"}
    /\ opener["far"] # "ended"
    /\ \A d \in Dirs : pipe[d] # "off" =>
          opener["far"] = "opened" /\ server["near"] \in {"piping", "over"}

\* What the hops carry, and what the pipes hold.
PhaseInv ==
    /\ FarInv
    /\ pipe["fwd"] # "off" => NoFrames(line["near"]["fwd"])
    /\ \A d \in Dirs : NoFrames(hold[d]) /\ (pipe[d] # "writing" => hold[d] = <<>>)
    /\ \A d \in Dirs : pipe[d] = "done" => lost # {} \/ \E h \in Hops : shut[h] # {}
    /\ \A d \in Dirs : pipe[d] = "off" /\ (d = "back" => opener["far"] # "idle") =>
          NoBytes(line[Target(d)][d])
    /\ opener["far"] = "idle" /\ server["near"] \notin {"handling", "over"} =>
          wrote["back"] = 0 /\ got["back"] = <<>> /\ NoBytes(line["near"]["back"])

\* A part of a queue.
LEMMA PartOf ==
    ASSUME NEW q \in Seq(Items), NEW n \in Nat
    PROVE  LET t == SubSeq(q, n + 1, Len(q)) IN
           /\ t \in Seq(Items)
           /\ NoBytes(q) => NoBytes(t)
           /\ NoFrames(q) => NoFrames(t)
           /\ Len(q) <= n => t = <<>>
           /\ n < Len(q) => Len(t) = Len(q) - n /\ \A i \in 1..Len(t) : t[i] = q[n + i]
<1> DEFINE t == SubSeq(q, n + 1, Len(q))
<1>1. t \in Seq(Items)
  BY TailOf
<1>2. Len(q) \in Nat
  OBVIOUS
<1>3. CASE Len(q) <= n
  <2>1. Len(t) = 0
    BY <1>2, <1>3, SubSeqProperties
  <2>2. t = <<>>
    BY <1>1, <2>1
  <2>3. QED BY <1>1, <1>2, <1>3, <2>1, <2>2 DEF NoBytes, NoFrames
<1>4. CASE n < Len(q)
  <2>1. Len(t) = Len(q) - n /\ \A i \in 1..Len(t) : t[i] = q[n + i]
    BY <1>2, <1>4, SubSeqProperties
  <2> HIDE DEF t
  <2>2. \A i \in 1..Len(t) : n + i \in 1..Len(q)
    BY <1>2, <1>4, <2>1
  <2>3. (NoBytes(q) => NoBytes(t)) /\ (NoFrames(q) => NoFrames(t))
    BY <2>1, <2>2 DEF NoBytes, NoFrames
  <2>4. QED BY <1>1, <1>2, <1>4, <2>1, <2>3 DEF t
<1>5. QED BY <1>2, <1>3, <1>4

LEMMA BeginningOf ==
    ASSUME NEW q \in Seq(Items), NEW n \in 0..Len(q)
    PROVE  LET t == SubSeq(q, 1, n) IN
           /\ t \in Seq(Items) /\ Len(t) = n /\ n <= Len(q)
           /\ \A i \in 1..Len(t) : i \in 1..Len(q) /\ t[i] = q[i]
           /\ NoBytes(q) => NoBytes(t)
           /\ NoFrames(q) => NoFrames(t)
<1> DEFINE t == SubSeq(q, 1, n)
<1>1. t \in Seq(Items)
  BY HeadOf
<1>2. Len(q) \in Nat /\ n \in Nat /\ n <= Len(q)
  OBVIOUS
<1>3. Len(t) = n /\ \A i \in 1..Len(t) : t[i] = q[i]
  BY <1>2, SubSeqProperties
<1> HIDE DEF t
<1>4. \A i \in 1..Len(t) : i \in 1..Len(q)
  BY <1>2, <1>3
<1>5. (NoBytes(q) => NoBytes(t)) /\ (NoFrames(q) => NoFrames(t))
  BY <1>3, <1>4 DEF NoBytes, NoFrames
<1>6. QED BY <1>1, <1>2, <1>3, <1>4, <1>5 DEF t

LEMMA JoinOf ==
    ASSUME NEW q \in Seq(Items), NEW r \in Seq(Items)
    PROVE  /\ q \o r \in Seq(Items) /\ Len(q \o r) = Len(q) + Len(r)
           /\ Len(q) \in Nat /\ Len(r) \in Nat
           /\ \A i \in 1..Len(q \o r) :
                 \/ i \in 1..Len(q) /\ (q \o r)[i] = q[i]
                 \/ i > Len(q) /\ i - Len(q) \in 1..Len(r) /\ (q \o r)[i] = r[i - Len(q)]
           /\ NoBytes(q) /\ NoBytes(r) => NoBytes(q \o r)
           /\ NoFrames(q) /\ NoFrames(r) => NoFrames(q \o r)
<1> DEFINE t == q \o r
<1>1. t \in Seq(Items) /\ Len(t) = Len(q) + Len(r) /\ Len(q) \in Nat /\ Len(r) \in Nat
  OBVIOUS
<1>2. ASSUME NEW i \in 1..Len(t)
      PROVE  \/ i \in 1..Len(q) /\ t[i] = q[i]
             \/ i > Len(q) /\ i - Len(q) \in 1..Len(r) /\ t[i] = r[i - Len(q)]
  BY <1>1
<1> HIDE DEF t
<1>3. (NoBytes(q) /\ NoBytes(r) => NoBytes(t)) /\ (NoFrames(q) /\ NoFrames(r) => NoFrames(t))
  BY <1>2 DEF NoBytes, NoFrames
<1>4. QED BY <1>1, <1>2, <1>3 DEF t

\* What becomes of the queues.
LEMMA Dropping ==
    ASSUME line \in [Hops -> [Dirs -> Seq(Items)]],
           NEW h \in Hops, NEW d \in Dirs, NEW n \in Nat, Drop(h, d, n)
    PROVE  /\ line'[h][d] = SubSeq(line[h][d], n + 1, Len(line[h][d]))
           /\ \A g \in Hops, e \in Dirs : g # h \/ e # d => line'[g][e] = line[g][e]
BY DEF Drop

LEMMA Putting ==
    ASSUME line \in [Hops -> [Dirs -> Seq(Items)]],
           NEW h \in Hops, NEW d \in Dirs, NEW q, Put(h, d, q)
    PROVE  /\ line'[h][d] = line[h][d] \o q
           /\ \A g \in Hops, e \in Dirs : g # h \/ e # d => line'[g][e] = line[g][e]
BY DEF Put

LEMMA Losing ==
    ASSUME line \in [Hops -> [Dirs -> Seq(Items)]],
           NEW h \in Hops, LoseTail(h)
    PROVE  /\ lost' = lost \cup {h}
           /\ \A d \in Dirs : \E n \in 0..Len(line[h][d]) : line'[h][d] = SubSeq(line[h][d], 1, n)
           /\ \A g \in Hops, e \in Dirs : g # h => line'[g][e] = line[g][e]
<1>1. PICK f \in 0..Len(line[h]["fwd"]), b \in 0..Len(line[h]["back"]) :
        line' = [line EXCEPT ![h] = [d \in Dirs |->
                    SubSeq(@[d], 1, IF d = "fwd" THEN f ELSE b)]]
  BY DEF LoseTail
<1>2. ASSUME NEW d \in Dirs
      PROVE  \E n \in 0..Len(line[h][d]) : line'[h][d] = SubSeq(line[h][d], 1, n)
  <2>1. CASE d = "fwd"
    BY <1>1, <2>1
  <2>2. CASE d = "back"
    BY <1>1, <2>2
  <2>3. QED BY <2>1, <2>2 DEF Dirs
<1>3. QED BY <1>1, <1>2 DEF LoseTail

LEMMA FramesPut ==
    ASSUME NEW t \in FrameKinds
    PROVE  /\ Frame(t) \in Seq(Items) /\ Len(Frame(t)) = 2 /\ NoBytes(Frame(t))
           /\ <<>> \o Frame(t) = Frame(t)
<1>1. Frame(t) \in Seq(Items) /\ Len(Frame(t)) = 2
  BY FrameIsItems
<1>2. NoBytes(Frame(t))
  BY DEF Frame, NoBytes, FrameKinds
<1>3. <<>> \o Frame(t) = Frame(t)
  BY <1>1
<1>4. QED BY <1>1, <1>2, <1>3

LEMMA BytePut ==
    ASSUME NEW n \in Nat
    PROVE  <<Byte(n)>> \in Seq(Items) /\ NoFrames(<<Byte(n)>>)
<1>1. <<Byte(n)>> \in Seq(Items)
  BY ByteType
<1>2. QED BY <1>1 DEF NoFrames, Byte

\* A queue whose first item is a frame's.
LEMMA AnswerOf ==
    ASSUME NEW q \in Seq(Items), AnswerFirst(q)
    PROVE  /\ NoFrames(SubSeq(q, 3, Len(q)))
           /\ \A n \in 0..Len(q) : AnswerFirst(SubSeq(q, 1, n))
           /\ \A r \in Seq(Items) : NoFrames(r) /\ Len(q) >= 2 => AnswerFirst(q \o r)
<1>1. Len(q) \in Nat
  OBVIOUS
<1>2. NoFrames(SubSeq(q, 3, Len(q)))
  <2> DEFINE t == SubSeq(q, 2 + 1, Len(q))
  <2>1. Len(q) <= 2 => t = <<>>
    BY PartOf
  <2>2. 2 < Len(q) => Len(t) = Len(q) - 2 /\ \A i \in 1..Len(t) : t[i] = q[2 + i]
    BY PartOf
  <2> HIDE DEF t
  <2>3. ASSUME 2 < Len(q)
        PROVE  NoFrames(t)
    <3>1. \A i \in 1..Len(t) : 2 + i \in 1..Len(q) /\ 2 + i > 2
      BY <1>1, <2>2, <2>3
    <3>2. QED BY <2>2, <2>3, <3>1 DEF NoFrames, AnswerFirst
  <2>4. ASSUME Len(q) <= 2
        PROVE  NoFrames(t)
    BY <2>1, <2>4 DEF NoFrames
  <2>5. Len(q) <= 2 \/ 2 < Len(q)
    BY <1>1
  <2>6. NoFrames(t)
    BY <2>3, <2>4, <2>5
  <2>7. QED BY <2>6 DEF t
<1>3. ASSUME NEW n \in 0..Len(q)
      PROVE  AnswerFirst(SubSeq(q, 1, n))
  <2> DEFINE t == SubSeq(q, 1, n)
  <2>1. Len(t) = n /\ \A i \in 1..Len(t) : i \in 1..Len(q) /\ t[i] = q[i]
    BY BeginningOf
  <2> HIDE DEF t
  <2>2. AnswerFirst(t)
    BY <2>1 DEF AnswerFirst
  <2>3. QED BY <2>2 DEF t
<1>4. ASSUME NEW r \in Seq(Items), NoFrames(r), Len(q) >= 2
      PROVE  AnswerFirst(q \o r)
  <2> DEFINE t == q \o r
  <2>1. \A i \in 1..Len(t) :
           \/ i \in 1..Len(q) /\ t[i] = q[i]
           \/ i > Len(q) /\ i - Len(q) \in 1..Len(r) /\ t[i] = r[i - Len(q)]
    BY JoinOf
  <2>2. Len(t) \in Nat
    BY JoinOf
  <2> HIDE DEF t
  <2>3. ASSUME NEW i \in 1..Len(t)
        PROVE  t[i].kind = "byte" <=> i > 2
    <3>1. CASE i \in 1..Len(q) /\ t[i] = q[i]
      BY <3>1 DEF AnswerFirst
    <3>2. CASE i > Len(q) /\ i - Len(q) \in 1..Len(r) /\ t[i] = r[i - Len(q)]
      BY <1>1, <1>4, <2>2, <3>2 DEF NoFrames
    <3>3. QED BY <2>1, <3>1, <3>2
  <2>4. AnswerFirst(t)
    BY <2>3 DEF AnswerFirst
  <2>5. QED BY <2>4 DEF t
<1>5. QED BY <1>2, <1>3, <1>4

LEMMA NoItems == NoFrames(<<>>) /\ NoBytes(<<>>) /\ AnswerFirst(<<>>) /\ Len(<<>>) = 0 /\ <<>> \in Seq(Items)
BY DEF NoFrames, NoBytes, AnswerFirst

LEMMA AnswerPut ==
    ASSUME NEW t \in FrameKinds
    PROVE  AnswerFirst(Frame(t))
BY DEF Frame, FrameKinds, AnswerFirst

\* Nothing disturbs the front of a hop that only loses its way to the opener.
LEMMA FrontKept ==
    ASSUME NEW h \in Hops, FrontInv(h),
           opener'[h] = opener[h], server'[h] = server[h],
           line'[h]["fwd"] = line[h]["fwd"], line'[h]["back"] = line[h]["back"],
           CanWrite(h, "back")' => CanWrite(h, "back")
    PROVE  FrontInv(h)'
BY DEF FrontInv, Front

\* An end that is closed stays closed, a hop that is lost stays lost.
LEMMA EndsGrow ==
    ASSUME TypeOK, [Next]_vars
    PROVE  lost \subseteq lost' /\ \A h \in Hops : shut[h] \subseteq shut'[h]
<1>t. shut \in [Hops -> SUBSET Sides] /\ "near" \in Hops /\ "far" \in Hops
  BY DEF TypeOK, Hops
<1>1. CASE UNCHANGED shut /\ lost \subseteq lost'
  BY <1>1
<1>2. CASE lost' = lost /\ \E h \in Hops, e \in Sides : CloseEnd(h, e)
  BY <1>t, <1>2 DEF CloseEnd
<1>3. CASE ServeHubReturn
  BY <1>t, <1>3 DEF ServeHubReturn
<1>4. "in" \in Sides /\ "out" \in Sides
  BY DEF Sides
<1>5. ASSUME NEW h \in Hops, HopStep(h) \/ SessionStep(h) \/ CloseSession(h) \/ Lose(h)
      PROVE  \/ UNCHANGED shut /\ lost \subseteq lost'
             \/ lost' = lost /\ \E e \in Sides : CloseEnd(h, e)
  <2>1. CASE Ask(h) \/ Check(h) \/ Serve(h) \/ CloseSession(h)
    BY <2>1 DEF Ask, Check, Serve, CloseSession, ends
  <2>2. CASE CutSession(h) \/ Lose(h)
    BY <2>2 DEF CutSession, Lose, LoseTail
  <2>3. CASE Accept(h) \/ Answer(h) \/ GiveUp(h) \/ TakeAnswer(h) \/ NoAnswer(h) \/ ForceClose(h)
    BY <1>4, <2>3 DEF Accept, Answer, GiveUp, TakeAnswer, NoAnswer, ForceClose, Return
  <2>4. QED BY <1>5, <2>1, <2>2, <2>3 DEF HopStep, SessionStep
<1>6. CASE Relay \/ StartPipes \/ Expire \/ \E d \in Dirs : PipeStep(d)
  BY <1>1, <1>6 DEF Relay, StartPipes, Expire, PipeStep, PipeRead, PipeWrite, PipeEnd, ends
<1>7. CASE UserStep
  <2>1. CASE Ask("near") \/ OpenerWrites \/ OpenerReads
    BY <1>1, <2>1 DEF Ask, OpenerWrites, OpenerReads, ends
  <2>2. CASE OpenerCloses
    BY <1>2, <1>4, <1>t, <2>2 DEF OpenerCloses
  <2>3. CASE \E h \in Hops : HandlerWrites(h) \/ HandlerReads(h)
    BY <1>1, <2>3 DEF HandlerWrites, HandlerReads, ends
  <2>4. CASE \E h \in Hops : HandlerReturns(h)
    BY <1>2, <1>4, <2>4 DEF HandlerReturns, Return
  <2>5. QED BY <1>7, <2>1, <2>2, <2>3, <2>4 DEF UserStep
<1>8. CASE UNCHANGED vars
  BY <1>1, <1>8 DEF vars, ends
<1>9. QED BY <1>1, <1>2, <1>3, <1>5, <1>6, <1>7, <1>8 DEF Next, HubStep

\* What is dropped from the head of a hop whose frames are gone.
LEMMA FrontDrop ==
    ASSUME TypeOK, NEW g \in Hops, NEW e \in Dirs, NEW n \in Nat, Drop(g, e, n),
           e = "fwd" => server[g] \notin {"idle", "reading"},
           e = "back" => opener[g] \in {"opened", "ended"},
           UNCHANGED <<opener, server, shut, lost>>,
           NEW h \in Hops, FrontInv(h)
    PROVE  FrontInv(h)'
<1>t. line \in [Hops -> [Dirs -> Seq(Items)]] /\ "fwd" \in Dirs /\ "back" \in Dirs
  BY DEF TypeOK, Dirs
<1>1. CanWrite(h, "back")' <=> CanWrite(h, "back")
  BY DEF CanWrite
<1>2. line'[g][e] = SubSeq(line[g][e], n + 1, Len(line[g][e]))
  BY <1>t, Dropping
<1>3. \A g2 \in Hops, e2 \in Dirs : g2 # g \/ e2 # e => line'[g2][e2] = line[g2][e2]
  BY <1>t, Dropping
<1>4. line[g][e] \in Seq(Items)
  BY <1>t
<1>5. /\ NoFrames(line[g][e]) => NoFrames(line'[g][e])
      /\ line[g][e] = <<>> => line'[g][e] = <<>>
  <2>1. NoFrames(line[g][e]) => NoFrames(line'[g][e])
    BY <1>2, <1>4, PartOf
  <2>2. line[g][e] = <<>> => Len(line[g][e]) <= n
    OBVIOUS
  <2>3. Len(line[g][e]) <= n => line'[g][e] = <<>>
    BY <1>2, <1>4, PartOf
  <2>4. QED BY <2>1, <2>2, <2>3
<1>6. CASE h # g
  BY <1>1, <1>3, <1>6, <1>t, FrontKept
<1>7. CASE h = g /\ e = "fwd"
  <2>1. line'[h]["back"] = line[h]["back"]
    BY <1>3, <1>7, <1>t
  <2>2. QED BY <1>1, <1>5, <1>7, <2>1 DEF FrontInv, Front
<1>8. CASE h = g /\ e = "back"
  <2>1. line'[h]["fwd"] = line[h]["fwd"]
    BY <1>3, <1>8, <1>t
  <2>2. QED BY <1>1, <1>5, <1>8, <2>1 DEF FrontInv, Front, Unanswered
<1>9. QED BY <1>6, <1>7, <1>8 DEF Dirs

\* What is put at the end of a hop behind its frames.
LEMMA FrontPut ==
    ASSUME TypeOK, NEW g \in Hops, NEW e \in Dirs, NEW r \in Seq(Items), NoFrames(r),
           Put(g, e, r), CanWrite(g, e), server[g] \notin Unanswered, opener[g] # "idle",
           UNCHANGED <<opener, server, shut, lost>>,
           NEW h \in Hops, FrontInv(h)
    PROVE  FrontInv(h)'
<1>t. line \in [Hops -> [Dirs -> Seq(Items)]] /\ "fwd" \in Dirs /\ "back" \in Dirs
  BY DEF TypeOK, Dirs
<1>1. CanWrite(h, "back")' <=> CanWrite(h, "back")
  BY DEF CanWrite
<1>2. line'[g][e] = line[g][e] \o r
  BY <1>t, Putting
<1>3. \A g2 \in Hops, e2 \in Dirs : g2 # g \/ e2 # e => line'[g2][e2] = line[g2][e2]
  BY <1>t, Putting
<1>4. line[g][e] \in Seq(Items)
  BY <1>t
<1>5. /\ NoFrames(line[g][e]) => NoFrames(line'[g][e])
      /\ Len(line'[g][e]) = Len(line[g][e]) + Len(r)
      /\ Len(line[g][e]) \in Nat /\ Len(r) \in Nat
  BY <1>2, <1>4, JoinOf
<1>6. CASE h # g
  BY <1>1, <1>3, <1>6, <1>t, FrontKept
<1>7. CASE h = g /\ e = "fwd"
  <2>1. line'[h]["back"] = line[h]["back"]
    BY <1>3, <1>7, <1>t
  <2>2. QED BY <1>1, <1>5, <1>7, <2>1 DEF FrontInv, Front, Unanswered
<1>8. CASE h = g /\ e = "back"
  <2>1. line'[h]["fwd"] = line[h]["fwd"]
    BY <1>3, <1>8, <1>t
  <2>2. opener[g] = "asking" => AnswerFirst(line[g]["back"]) /\ Len(line[g]["back"]) >= 2
    BY <1>8 DEF FrontInv, Front
  <2>3. opener[g] = "asking" => AnswerFirst(line'[g]["back"]) /\ Len(line'[g]["back"]) >= 2
    <3>1. opener[g] = "asking" => AnswerFirst(line'[g]["back"])
      BY <1>2, <1>4, <1>8, <2>2, AnswerOf
    <3>2. QED BY <1>5, <1>8, <2>2, <3>1
  <2>4. QED BY <1>1, <1>5, <1>8, <2>1, <2>3 DEF FrontInv, Front, Unanswered
<1>9. QED BY <1>6, <1>7, <1>8 DEF Dirs

LEMMA FrontStep ==
    ASSUME TypeOK, \A h \in Hops : FrontInv(h), PhaseInv, [Next]_vars, NEW h \in Hops
    PROVE  FrontInv(h)'
<1>t. /\ opener \in [Hops -> OpenerStates] /\ server \in [Hops -> ServerStates]
      /\ line \in [Hops -> [Dirs -> Seq(Items)]]
      /\ hold \in [Dirs -> Seq(Items)] /\ wrote \in [Dirs -> Nat]
      /\ "near" \in Hops /\ "far" \in Hops /\ "fwd" \in Dirs /\ "back" \in Dirs
  BY DEF TypeOK, Hops, Dirs
<1>q. line[h]["fwd"] \in Seq(Items) /\ line[h]["back"] \in Seq(Items)
  BY <1>t
<1>l. line \in [Hops -> [Dirs -> Seq(Items)]] /\ "fwd" \in Dirs /\ "back" \in Dirs
  BY <1>t
<1>w. CanWrite(h, "back")' => CanWrite(h, "back")
  BY EndsGrow DEF CanWrite
<1>k. \/ opener'[h] # opener[h] \/ server'[h] # server[h]
      \/ line'[h]["fwd"] # line[h]["fwd"] \/ line'[h]["back"] # line[h]["back"]
      \/ FrontInv(h)'
  BY <1>w, FrontKept
<1>1. ASSUME NEW g \in Hops, Ask(g)
      PROVE  FrontInv(h)'
  <2>1. opener[g] = "idle" /\ server' = server
    BY <1>1 DEF Ask
  <2>2. CASE h # g
    <3>1. opener'[h] = opener[h] /\ line'[h] = line[h]
      BY <1>1, <1>t, <2>2 DEF Ask, Opener, Put
    <3>2. QED BY <1>k, <2>1, <3>1
  <2>3. CASE h = g /\ UNCHANGED line
    <3>1. opener'[h] \in {"failed", "asking"}
      BY <1>1, <1>t, <2>3 DEF Ask, Opener
    <3>2. QED BY <1>w, <2>1, <2>3, <3>1, NoItems DEF FrontInv, Front, Unanswered
  <2>4. CASE h = g /\ Put(g, "fwd", Frame("perm")) /\ opener'[g] = "asking"
    <3>1. line[h]["fwd"] = <<>> /\ server[h] = "idle" /\ line[h]["back"] = <<>>
      BY <2>1, <2>4 DEF FrontInv, Front, Unanswered
    <3>2. line'[h]["fwd"] = line[h]["fwd"] \o Frame("perm") /\ line'[h]["back"] = line[h]["back"]
      <4>1. Put(h, "fwd", Frame("perm")) /\ "back" # "fwd"
        BY <2>4
      <4>2. QED BY <1>l, <4>1, Putting
    <3>3. Len(line'[h]["fwd"]) = 2 /\ NoBytes(line'[h]["fwd"])
      BY <3>1, <3>2, FramesPut DEF FrameKinds
    <3>4. opener'[h] = "asking" /\ server'[h] = "idle" /\ line'[h]["back"] = <<>>
      BY <2>1, <2>4, <3>1, <3>2
    <3>5. AnswerFirst(<<>>) /\ 2 <= 2
      BY NoItems
    <3>6. QED
      BY ONLY <3>3, <3>4, <3>5 DEF FrontInv, Front, Unanswered, AcceptedStates
  <2>5. \/ UNCHANGED line
        \/ Put(g, "fwd", Frame("perm")) /\ opener'[g] = "asking"
    BY <1>1, <1>t DEF Ask, Opener
  <2>6. QED BY <2>2, <2>3, <2>4, <2>5
<1>2. ASSUME NEW g \in Hops, TakeAnswer(g)
      PROVE  FrontInv(h)'
  <2>1. /\ opener[g] = "asking" /\ Drop(g, "back", 2) /\ server' = server
        /\ opener'[g] \in {"opened", "refused"} /\ \A g2 \in Hops \ {g} : opener'[g2] = opener[g2]
    BY <1>2, <1>t DEF TakeAnswer, Decoded, Opener
  <2>2. line[g]["back"] # <<>>
    <3>1. Decoded(g, "back")
      BY <1>2 DEF TakeAnswer
    <3>2. line[g]["back"] \in Seq(Items)
      BY <1>l
    <3>3. Len(line[g]["back"]) >= 2 \/ Len(line[g]["back"]) = 1
      BY <3>1 DEF Decoded, Whole, Torn
    <3>4. QED BY <3>2, <3>3
  <2>3. /\ line'[g]["back"] = SubSeq(line[g]["back"], 3, Len(line[g]["back"]))
        /\ \A g2 \in Hops, e \in Dirs : g2 # g \/ e # "back" => line'[g2][e] = line[g2][e]
    <3>1. Drop(g, "back", 2)
      BY <2>1
    <3>2. QED BY <1>l, <3>1, Dropping
  <2>4. CASE h # g
    BY <1>k, <1>t, <2>1, <2>3, <2>4
  <2>5. CASE h = g
    <3>1. server[h] \notin Unanswered /\ AnswerFirst(line[h]["back"])
      BY <2>1, <2>2, <2>5 DEF FrontInv, Front
    <3>2. NoFrames(line'[h]["back"]) /\ line'[h]["fwd"] = line[h]["fwd"]
      BY <1>q, <1>t, <2>3, <2>5, <3>1, AnswerOf
    <3>3. QED BY <2>1, <2>5, <3>1, <3>2 DEF FrontInv, Front, Unanswered
  <2>6. QED BY <2>4, <2>5
<1>3. ASSUME NEW g \in Hops, Check(g)
      PROVE  FrontInv(h)'
  <2>1. /\ server[g] = "reading" /\ Drop(g, "fwd", 2) /\ opener' = opener
        /\ server'[g] = "checked" /\ \A g2 \in Hops \ {g} : server'[g2] = server[g2]
    BY <1>3, <1>t DEF Check, Decoded, Server
  <2>2. /\ line'[g]["fwd"] = SubSeq(line[g]["fwd"], 2 + 1, Len(line[g]["fwd"]))
        /\ \A g2 \in Hops, e \in Dirs : g2 # g \/ e # "fwd" => line'[g2][e] = line[g2][e]
    BY <1>t, <2>1, Dropping
  <2>3. CASE h # g
    BY <1>k, <1>t, <2>1, <2>2, <2>3
  <2>4. CASE h = g
    <3>1. Len(line[h]["fwd"]) <= 2
      BY <2>1, <2>4 DEF FrontInv, Front
    <3>2. line'[h]["fwd"] = <<>> /\ line'[h]["back"] = line[h]["back"]
      BY <1>q, <1>t, <2>2, <2>4, <3>1, PartOf
    <3>3. QED
      BY <2>1, <2>4, <3>2, NoItems DEF FrontInv, Front, Unanswered, AcceptedStates
  <2>5. QED BY <2>3, <2>4
<1>4. ASSUME NEW g \in Hops, Answer(g)
      PROVE  FrontInv(h)'
  <2>1. /\ opener' = opener /\ server[g] = "checked"
        /\ server'[g] \in {"lookup", "over"} /\ \A g2 \in Hops \ {g} : server'[g2] = server[g2]
        /\ \E t \in FrameKinds : Put(g, "back", Frame(t))
    BY <1>4, <1>t DEF Answer, Return, Server, FrameKinds
  <2>2. PICK t \in FrameKinds : Put(g, "back", Frame(t))
    BY <2>1
  <2>3. /\ line'[g]["back"] = line[g]["back"] \o Frame(t)
        /\ \A g2 \in Hops, e \in Dirs : g2 # g \/ e # "back" => line'[g2][e] = line[g2][e]
    BY <1>t, <2>2, Putting
  <2>4. CASE h # g
    BY <1>k, <1>t, <2>1, <2>3, <2>4
  <2>5. CASE h = g
    <3>1. line[h]["back"] = <<>> /\ opener[h] \notin {"opened", "ended"}
      BY <2>1, <2>5 DEF FrontInv, Front, Unanswered
    <3>2. line'[h]["back"] = Frame(t) /\ line'[h]["fwd"] = line[h]["fwd"]
      BY <1>t, <2>3, <2>5, <3>1, FramesPut
    <3>3. Len(Frame(t)) = 2 /\ AnswerFirst(Frame(t))
      BY FramesPut, AnswerPut
    <3>4. QED
      BY <2>1, <2>5, <3>1, <3>2, <3>3 DEF FrontInv, Front, Unanswered, AcceptedStates
  <2>6. QED BY <2>4, <2>5
<1>5. ASSUME NEW g \in Hops, Accept(g)
      PROVE  FrontInv(h)'
  <2>1. /\ opener[g] = "asking" /\ server[g] = "idle" /\ opener' = opener /\ line' = line
        /\ \/ server'[g] = "reading"
           \/ server'[g] = "over" /\ CloseEnd(g, "in")
        /\ \A g2 \in Hops \ {g} : server'[g2] = server[g2]
    BY <1>5, <1>t DEF Accept, Return, Server
  <2>2. CASE h # g
    BY <1>k, <2>1, <2>2
  <2>3. CASE h = g
    <3>1. CloseEnd(g, "in") => ~CanWrite(h, "back")'
      BY <2>3 DEF CloseEnd, CanWrite, WriterEnd, TypeOK
    <3>2. QED BY <2>1, <2>3, <3>1 DEF FrontInv, Front, Unanswered, AcceptedStates
  <2>4. QED BY <2>2, <2>3
<1>6. ASSUME NEW g \in Hops, GiveUp(g) \/ HandlerReturns(g)
      PROVE  FrontInv(h)'
  <2>1. /\ server[g] # "idle" /\ opener' = opener /\ line' = line
        /\ server'[g] = "over" /\ CloseEnd(g, "in")
        /\ \A g2 \in Hops \ {g} : server'[g2] = server[g2]
    BY <1>6, <1>t DEF GiveUp, HandlerReturns, Return, Server
  <2>2. CASE h # g
    BY <1>k, <2>1, <2>2
  <2>3. CASE h = g
    <3>1. ~CanWrite(h, "back")'
      BY <2>1, <2>3 DEF CloseEnd, CanWrite, WriterEnd, TypeOK
    <3>2. QED BY <2>1, <2>3, <3>1 DEF FrontInv, Front, Unanswered, AcceptedStates
  <2>4. QED BY <2>2, <2>3
<1>7. ASSUME NEW g \in Hops, NoAnswer(g)
      PROVE  FrontInv(h)'
  <2>1. /\ opener[g] = "asking" /\ server' = server /\ line' = line
        /\ opener'[g] = "failed" /\ \A g2 \in Hops \ {g} : opener'[g2] = opener[g2]
    BY <1>7, <1>t DEF NoAnswer, Opener
  <2>2. CASE h # g
    BY <1>k, <2>1, <2>2
  <2>3. CASE h = g
    BY <2>1, <2>3 DEF FrontInv, Front, Unanswered, AcceptedStates
  <2>4. QED BY <2>2, <2>3
<1>8. ASSUME NEW g \in Hops, NEW s \in {"dialing", "piping", "handling", "over"},
             server[g] \in AcceptedStates, server' = [server EXCEPT ![g] = s],
             UNCHANGED <<opener, line>>
      PROVE  FrontInv(h)'
  <2>1. CASE h # g
    BY <1>8, <1>k, <1>t, <2>1
  <2>2. CASE h = g
    BY <1>8, <1>t, <1>w, <2>2 DEF FrontInv, Front, Unanswered, AcceptedStates
  <2>3. QED BY <2>1, <2>2
<1>9. CASE (\E g \in Hops : Serve(g)) \/ Relay \/ StartPipes \/ ServeHubReturn
  BY <1>8, <1>9, <1>t DEF Serve, Relay, StartPipes, ServeHubReturn, Server, AcceptedStates, opening
<1>10. ASSUME NEW d \in Dirs, PipeRead(d)
       PROVE  FrontInv(h)'
  <2>1. PICK n \in 1..BufSize : Drop(Source(d), d, n)
    BY <1>10 DEF PipeRead
  <2>2. n \in Nat /\ Source(d) \in Hops
    BY <1>t, Parameters DEF Source
  <2>3. opener["far"] = "opened" /\ server["near"] \in {"piping", "over"}
    BY <1>10 DEF PipeRead, PhaseInv, FarInv
  <2>4. d = "fwd" => server[Source(d)] \notin {"idle", "reading"}
    BY <2>3 DEF Source
  <2>5. d = "back" => opener[Source(d)] \in {"opened", "ended"}
    BY <2>3 DEF Source
  <2>6. UNCHANGED <<opener, server, shut, lost>>
    BY <1>10 DEF PipeRead, opening, ends
  <2>7. QED BY <2>1, <2>2, <2>4, <2>5, <2>6, FrontDrop
<1>11. ASSUME NEW d \in Dirs, PipeWrite(d)
       PROVE  FrontInv(h)'
  <2>1. PICK k \in 0..Len(hold[d]) : Put(Target(d), d, SubSeq(hold[d], 1, k))
    BY <1>11, Written
  <2>2. /\ Target(d) \in Hops /\ CanWrite(Target(d), d) /\ pipe[d] = "writing"
        /\ UNCHANGED <<opener, server, shut, lost>>
    BY <1>11, Written DEF PipeWrite, opening, ends
  <2> DEFINE r == SubSeq(hold[d], 1, k)
  <2>3. r \in Seq(Items) /\ NoFrames(r)
    <3>1. NoFrames(hold[d])
      BY DEF PhaseInv
    <3>2. QED BY <1>t, <3>1, BeginningOf
  <2>4. opener["far"] = "opened" /\ server["near"] \in {"piping", "over"}
    BY <2>2 DEF PhaseInv, FarInv
  <2>5. server[Target(d)] \notin Unanswered /\ opener[Target(d)] # "idle"
    <3>1. opener["near"] # "idle" /\ server["far"] \notin Unanswered
      BY <1>t, <2>4 DEF FrontInv, Front
    <3>2. QED BY <2>4, <3>1 DEF Target, Unanswered
  <2>6. Put(Target(d), d, r)
    BY <2>1
  <2> HIDE DEF r
  <2>7. QED BY <2>2, <2>3, <2>5, <2>6, FrontPut
<1>12. CASE \/ (\E d \in Dirs : PipeEnd(d)) \/ Expire \/ (\E g \in Hops : CloseSession(g) \/ ForceClose(g))
            \/ UNCHANGED vars
  BY <1>12, <1>k DEF PipeEnd, Expire, CloseSession, ForceClose, opening, vars
<1>13. ASSUME NEW g \in Hops, CutSession(g) \/ Lose(g)
       PROVE  FrontInv(h)'
  <2>1. LoseTail(g) /\ UNCHANGED <<opener, server>>
    BY <1>13 DEF CutSession, Lose, opening
  <2>2. /\ lost' = lost \cup {g}
        /\ \A d \in Dirs : \E n \in 0..Len(line[g][d]) : line'[g][d] = SubSeq(line[g][d], 1, n)
        /\ \A g2 \in Hops, e \in Dirs : g2 # g => line'[g2][e] = line[g2][e]
    BY <1>t, <2>1, Losing
  <2>3. CASE h # g
    BY <1>k, <1>t, <2>1, <2>2, <2>3
  <2>4. CASE h = g
    <3>1. ASSUME NEW d \in Dirs
          PROVE  /\ NoFrames(line[h][d]) => NoFrames(line'[h][d])
                 /\ NoBytes(line[h][d]) => NoBytes(line'[h][d])
                 /\ AnswerFirst(line[h][d]) => AnswerFirst(line'[h][d])
                 /\ Len(line[h][d]) <= 2 => Len(line'[h][d]) <= 2
                 /\ line[h][d] = <<>> => line'[h][d] = <<>>
      <4>1. PICK n \in 0..Len(line[h][d]) : line'[h][d] = SubSeq(line[h][d], 1, n)
        BY <2>2, <2>4
      <4> DEFINE q == line[h][d]
                 p == line'[h][d]
      <4>2. q \in Seq(Items) /\ Len(q) \in Nat
        BY <1>t
      <4>3. /\ p \in Seq(Items) /\ Len(p) = n /\ n <= Len(q)
            /\ (NoFrames(q) => NoFrames(p)) /\ (NoBytes(q) => NoBytes(p))
            /\ (AnswerFirst(q) => AnswerFirst(p))
        BY <4>1, <4>2, BeginningOf, AnswerOf
      <4> HIDE DEF p, q
      <4>4. q = <<>> => Len(p) = 0
        BY <4>2, <4>3
      <4>5. Len(p) = 0 => p = <<>>
        BY <4>3
      <4>6. Len(q) <= 2 => Len(p) <= 2
        BY <4>2, <4>3
      <4>7. QED BY <4>3, <4>4, <4>5, <4>6 DEF p, q
    <3>2. ~CanWrite(h, "back")'
      BY <2>2, <2>4 DEF CanWrite
    <3>3. QED BY <1>t, <2>1, <3>1, <3>2 DEF FrontInv, Front
  <2>5. QED BY <2>3, <2>4
<1>14. CASE OpenerWrites
  <2>1. /\ opener["near"] = "opened" /\ CanWrite("near", "fwd")
        /\ Put("near", "fwd", <<Byte(wrote["fwd"] + 1)>>) /\ UNCHANGED <<opener, server, shut, lost>>
    BY <1>14 DEF OpenerWrites, opening, ends
  <2>2. server["near"] \notin Unanswered
    BY <1>t, <2>1 DEF FrontInv, Front
  <2>3. <<Byte(wrote["fwd"] + 1)>> \in Seq(Items) /\ NoFrames(<<Byte(wrote["fwd"] + 1)>>)
    <3>1. wrote["fwd"] \in Nat
      BY <1>t
    <3>2. wrote["fwd"] + 1 \in Nat
      BY <3>1
    <3>3. QED BY <3>2, BytePut
  <2>4. QED BY <1>t, <2>1, <2>2, <2>3, FrontPut
<1>15. ASSUME NEW g \in Hops, HandlerWrites(g)
       PROVE  FrontInv(h)'
  <2>1. /\ server[g] = "handling" /\ CanWrite(g, "back")
        /\ Put(g, "back", <<Byte(wrote["back"] + 1)>>) /\ UNCHANGED <<opener, server, shut, lost>>
    BY <1>15 DEF HandlerWrites, opening, ends
  <2>2. server[g] \notin Unanswered /\ opener[g] # "idle"
    BY <2>1 DEF FrontInv, Front, Unanswered
  <2>3. <<Byte(wrote["back"] + 1)>> \in Seq(Items) /\ NoFrames(<<Byte(wrote["back"] + 1)>>)
    <3>1. wrote["back"] \in Nat
      BY <1>t
    <3>2. wrote["back"] + 1 \in Nat
      BY <3>1
    <3>3. QED BY <3>2, BytePut
  <2>4. QED BY <1>t, <2>1, <2>2, <2>3, FrontPut
<1>16. CASE OpenerReads
  <2>1. Drop("near", "back", 1) /\ opener["near"] = "opened" /\ UNCHANGED <<opener, server, shut, lost>>
    BY <1>16 DEF OpenerReads, opening, ends
  <2>2. QED BY <1>t, <2>1, FrontDrop
<1>17. ASSUME NEW g \in Hops, HandlerReads(g)
       PROVE  FrontInv(h)'
  <2>1. Drop(g, "fwd", 1) /\ server[g] = "handling" /\ UNCHANGED <<opener, server, shut, lost>>
    BY <1>17 DEF HandlerReads, opening, ends
  <2>2. QED BY <1>t, <2>1, FrontDrop
<1>18. CASE OpenerCloses
  <2>1. /\ opener["near"] = "opened" /\ UNCHANGED <<server, line>>
        /\ opener' = [opener EXCEPT !["near"] = "ended"]
    BY <1>18 DEF OpenerCloses, Opener
  <2>2. CASE h # "near"
    BY <1>k, <1>t, <2>1, <2>2
  <2>3. CASE h = "near"
    BY <1>t, <1>w, <2>1, <2>3 DEF FrontInv, Front, Unanswered
  <2>4. QED BY <2>2, <2>3
<1>19. QED
  BY <1>t, <1>1, <1>2, <1>3, <1>4, <1>5, <1>6, <1>7, <1>9, <1>10, <1>11, <1>12, <1>13, <1>14,
     <1>15, <1>16, <1>17, <1>18
  DEF Next, HopStep, HubStep, PipeStep, SessionStep, UserStep

-----------------------------------------------------------------------------
(* The phases of a stream over two hops.                                    *)

LEMMA FarStep ==
    ASSUME TypeOK, FarInv, [Next]_vars, \A h \in Hops : opener[h] = "idle" => server[h] = "idle"
    PROVE  /\ FarInv'
           /\ opener'["far"] = "idle" => opener["far"] = "idle"
           /\ opener["far"] = "idle" /\ opener'["far"] # "idle" =>
                 server["near"] = "dialing" /\ line'["near"] = line["near"]
           /\ server'["near"] \notin {"handling", "over"} => server["near"] \notin {"handling", "over"}
           /\ \A d \in Dirs : pipe'[d] = "off" => pipe[d] = "off"
<1> DEFINE Goal == /\ FarInv'
                   /\ opener'["far"] = "idle" => opener["far"] = "idle"
                   /\ opener["far"] = "idle" /\ opener'["far"] # "idle" =>
                         server["near"] = "dialing" /\ line'["near"] = line["near"]
                   /\ server'["near"] \notin {"handling", "over"} => server["near"] \notin {"handling", "over"}
                   /\ \A d \in Dirs : pipe'[d] = "off" => pipe[d] = "off"
<1>t. /\ opener \in [Hops -> OpenerStates] /\ server \in [Hops -> ServerStates]
      /\ line \in [Hops -> [Dirs -> Seq(Items)]]
      /\ pipe \in [Dirs -> {"off", "reading", "writing", "done"}]
      /\ "near" \in Hops /\ "far" \in Hops /\ Hops = {"near", "far"}
      /\ Dirs = {"fwd", "back"}
  BY DEF TypeOK, Hops, Dirs
<1>1. CASE UNCHANGED <<opener, server, pipe>>
  BY <1>1 DEF FarInv
<1>2. ASSUME NEW h \in Hops, Ask(h)
      PROVE  Goal
  BY <1>2, <1>t DEF Ask, Opener, Put, FarInv, pipes
<1>3. ASSUME NEW h \in Hops, NEW s, opener[h] = "asking", s \in {"opened", "refused", "failed"},
             opener' = [opener EXCEPT ![h] = s], UNCHANGED <<server, pipe>>
      PROVE  Goal
  BY <1>3, <1>t DEF FarInv
<1>4. ASSUME NEW h \in Hops, TakeAnswer(h) \/ NoAnswer(h)
      PROVE  Goal
  BY <1>3, <1>4 DEF TakeAnswer, NoAnswer, Opener, pipes
<1>5. ASSUME NEW h \in Hops, NEW s, server' = [server EXCEPT ![h] = s], UNCHANGED <<opener, pipe>>,
             \/ server[h] = "idle" /\ opener[h] = "asking" /\ s \in {"reading", "over"}
             \/ server[h] = "reading" /\ s \in {"checked", "over"}
             \/ server[h] = "checked" /\ s \in {"lookup", "over"}
             \/ server[h] = "lookup" /\ s \in {"dialing", "handling", "over"}
             \/ server[h] \in {"dialing", "handling"} /\ s = "over"
             \/ server[h] = "piping" /\ s = "over"
      PROVE  Goal
  BY <1>5, <1>t DEF FarInv
<1>6. ASSUME NEW h \in Hops, Accept(h) \/ Check(h) \/ Answer(h) \/ GiveUp(h) \/ Serve(h) \/ HandlerReturns(h)
      PROVE  Goal
  <2>1. CASE Accept(h) \/ Check(h) \/ Serve(h)
    BY <1>5, <2>1 DEF Accept, Check, Serve, Return, Server, pipes
  <2>2. CASE Answer(h) \/ GiveUp(h) \/ HandlerReturns(h)
    BY <1>5, <2>2 DEF Answer, GiveUp, HandlerReturns, Return, Server, pipes
  <2>3. QED BY <1>6, <2>1, <2>2
<1>7. CASE Relay \/ ServeHubReturn
  BY <1>5, <1>7, <1>t DEF Relay, ServeHubReturn, Server, pipes
<1>8. CASE StartPipes
  BY <1>8, <1>t DEF StartPipes, Server, FarInv
<1>9. ASSUME NEW d \in Dirs, PipeStep(d)
      PROVE  Goal
  <2>1. UNCHANGED <<opener, server>> /\ pipe[d] # "off"
    BY <1>9 DEF PipeStep, PipeRead, PipeWrite, PipeEnd, opening
  <2>2. \A e \in Dirs : e # d => pipe'[e] = pipe[e]
    BY <1>9, <1>t DEF PipeStep, PipeRead, PipeWrite, PipeEnd
  <2>3. pipe'[d] # "off"
    BY <1>9, <1>t DEF PipeStep, PipeRead, PipeWrite, PipeEnd
  <2>4. QED BY <2>1, <2>2, <2>3 DEF FarInv
<1>10. CASE OpenerCloses
  BY <1>10, <1>t DEF OpenerCloses, Opener, FarInv, pipes
<1>11. CASE \/ Expire \/ OpenerWrites \/ OpenerReads \/ UNCHANGED vars
            \/ \E h \in Hops : \/ SessionStep(h) \/ CloseSession(h) \/ Lose(h)
                               \/ HandlerWrites(h) \/ HandlerReads(h)
  BY <1>1, <1>11
  DEF Expire, OpenerWrites, OpenerReads, SessionStep, ForceClose, CutSession, CloseSession, Lose,
      HandlerWrites, HandlerReads, vars, opening, pipes
<1>12. QED
  BY <1>t, <1>2, <1>4, <1>6, <1>7, <1>8, <1>9, <1>10, <1>11
  DEF Next, HopStep, HubStep, UserStep

\* What a step does to a hop, in one direction.
Shortened(q, p) ==
    \/ p = q
    \/ \E n \in Nat : p = SubSeq(q, n + 1, Len(q))
    \/ \E n \in 0..Len(q) : p = SubSeq(q, 1, n)
Framed(q, p) == \E t \in FrameKinds : p = q \o Frame(t)
Lengthened(q, p) == \E r \in Seq(Items) : NoFrames(r) /\ p = q \o r

LineMoves(h, d) ==
    \/ Shortened(line[h][d], line'[h][d])
    \/ /\ Framed(line[h][d], line'[h][d])
       /\ d = "fwd" => opener[h] = "idle"
       /\ d = "back" => server[h] = "checked"
    \/ /\ Lengthened(line[h][d], line'[h][d])
       /\ \/ pipe[d] = "writing" /\ h = Target(d)
          \/ h = "near" /\ d = "fwd" /\ opener["near"] = "opened"
          \/ d = "back" /\ server[h] = "handling"

LEMMA LineStep ==
    ASSUME TypeOK, PhaseInv, [Next]_vars, NEW h \in Hops, NEW d \in Dirs
    PROVE  LineMoves(h, d)
<1>t. /\ line \in [Hops -> [Dirs -> Seq(Items)]] /\ hold \in [Dirs -> Seq(Items)]
      /\ wrote \in [Dirs -> Nat]
      /\ "near" \in Hops /\ "far" \in Hops /\ "fwd" \in Dirs /\ "back" \in Dirs /\ 1 \in Nat /\ 2 \in Nat
  BY DEF TypeOK, Hops, Dirs
<1>1. CASE UNCHANGED line
  BY <1>1 DEF LineMoves, Shortened
<1>2. ASSUME NEW g \in Hops, NEW e \in Dirs, NEW n \in Nat, Drop(g, e, n)
      PROVE  LineMoves(h, d)
  <2>1. /\ line'[g][e] = SubSeq(line[g][e], n + 1, Len(line[g][e]))
        /\ \A g2 \in Hops, e2 \in Dirs : g2 # g \/ e2 # e => line'[g2][e2] = line[g2][e2]
    BY <1>2, <1>t, Dropping
  <2>2. CASE g = h /\ e = d
    <3>1. line'[h][d] = SubSeq(line[h][d], n + 1, Len(line[h][d]))
      BY <2>1, <2>2
    <3>2. QED BY <1>2, <2>2, <3>1 DEF LineMoves, Shortened
  <2>3. CASE g # h \/ e # d
    <3>1. line'[h][d] = line[h][d]
      BY <2>1, <2>3
    <3>2. QED BY <3>1 DEF LineMoves, Shortened
  <2>4. QED BY <2>2, <2>3
<1>3. ASSUME NEW g \in Hops, LoseTail(g)
      PROVE  LineMoves(h, d)
  BY <1>3, <1>t, Losing DEF LineMoves, Shortened
<1>4. ASSUME NEW g \in Hops, NEW e \in Dirs, NEW t \in FrameKinds, Put(g, e, Frame(t)),
             e = "fwd" => opener[g] = "idle", e = "back" => server[g] = "checked"
      PROVE  LineMoves(h, d)
  <2>1. /\ line'[g][e] = line[g][e] \o Frame(t)
        /\ \A g2 \in Hops, e2 \in Dirs : g2 # g \/ e2 # e => line'[g2][e2] = line[g2][e2]
    BY <1>4, <1>t, Putting
  <2>2. CASE g = h /\ e = d
    <3>1. line'[h][d] = line[h][d] \o Frame(t)
      BY <2>1, <2>2
    <3>2. QED BY <1>4, <2>2, <3>1 DEF LineMoves, Shortened, Framed
  <2>3. CASE g # h \/ e # d
    <3>1. line'[h][d] = line[h][d]
      BY <2>1, <2>3
    <3>2. QED BY <3>1 DEF LineMoves, Shortened
  <2>4. QED BY <2>2, <2>3
<1>5. ASSUME NEW g \in Hops, NEW e \in Dirs, NEW r \in Seq(Items), NoFrames(r), Put(g, e, r),
             \/ pipe[e] = "writing" /\ g = Target(e)
             \/ g = "near" /\ e = "fwd" /\ opener["near"] = "opened"
             \/ e = "back" /\ server[g] = "handling"
      PROVE  LineMoves(h, d)
  <2>1. /\ line'[g][e] = line[g][e] \o r
        /\ \A g2 \in Hops, e2 \in Dirs : g2 # g \/ e2 # e => line'[g2][e2] = line[g2][e2]
    BY <1>5, <1>t, Putting
  <2>2. CASE g = h /\ e = d
    <3>1. line'[h][d] = line[h][d] \o r
      BY <2>1, <2>2
    <3>2. QED BY <1>5, <2>2, <3>1 DEF LineMoves, Shortened, Lengthened
  <2>3. CASE g # h \/ e # d
    <3>1. line'[h][d] = line[h][d]
      BY <2>1, <2>3
    <3>2. QED BY <3>1 DEF LineMoves, Shortened
  <2>4. QED BY <2>2, <2>3
<1>6. ASSUME NEW g \in Hops, HopStep(g) \/ Ask(g)
      PROVE  LineMoves(h, d)
  <2>1. CASE Accept(g) \/ Serve(g) \/ GiveUp(g) \/ NoAnswer(g)
    BY <1>1, <2>1 DEF Accept, Serve, GiveUp, NoAnswer
  <2>2. CASE Check(g) \/ TakeAnswer(g)
    BY <1>2, <1>t, <2>2 DEF Check, TakeAnswer, Decoded
  <2>3. CASE Answer(g)
    BY <1>4, <1>t, <2>3 DEF Answer, FrameKinds
  <2>4. CASE Ask(g)
    BY <1>1, <1>4, <1>t, <2>4 DEF Ask, FrameKinds
  <2>5. QED BY <1>6, <2>1, <2>2, <2>3, <2>4 DEF HopStep
<1>7. ASSUME NEW e \in Dirs, PipeStep(e)
      PROVE  LineMoves(h, d)
  <2>1. CASE PipeRead(e)
    <3>1. PICK n \in 1..BufSize : Drop(Source(e), e, n)
      BY <2>1 DEF PipeRead
    <3>2. n \in Nat /\ Source(e) \in Hops
      BY <1>t, Parameters DEF Source
    <3>3. QED BY <1>2, <3>1, <3>2
  <2>2. CASE PipeWrite(e)
    <3>1. PICK k \in 0..Len(hold[e]) : Put(Target(e), e, SubSeq(hold[e], 1, k))
      BY <2>2, Written
    <3>2. Target(e) \in Hops /\ pipe[e] = "writing"
      BY <2>2, Written
    <3> DEFINE r == SubSeq(hold[e], 1, k)
    <3>3. r \in Seq(Items) /\ NoFrames(r)
      <4>1. NoFrames(hold[e])
        BY DEF PhaseInv
      <4>2. QED BY <1>t, <4>1, BeginningOf
    <3> HIDE DEF r
    <3>4. QED BY <1>5, <3>1, <3>2, <3>3 DEF r
  <2>3. CASE PipeEnd(e)
    BY <1>1, <2>3 DEF PipeEnd
  <2>4. QED BY <1>7, <2>1, <2>2, <2>3 DEF PipeStep
<1>8. CASE OpenerWrites
  <2>1. <<Byte(wrote["fwd"] + 1)>> \in Seq(Items) /\ NoFrames(<<Byte(wrote["fwd"] + 1)>>)
    <3>1. wrote["fwd"] \in Nat
      BY <1>t
    <3>2. wrote["fwd"] + 1 \in Nat
      BY <3>1
    <3>3. QED BY <3>2, BytePut
  <2>2. QED BY <1>5, <1>8, <1>t, <2>1 DEF OpenerWrites
<1>9. ASSUME NEW g \in Hops, HandlerWrites(g)
      PROVE  LineMoves(h, d)
  <2>1. <<Byte(wrote["back"] + 1)>> \in Seq(Items) /\ NoFrames(<<Byte(wrote["back"] + 1)>>)
    <3>1. wrote["back"] \in Nat
      BY <1>t
    <3>2. wrote["back"] + 1 \in Nat
      BY <3>1
    <3>3. QED BY <3>2, BytePut
  <2>2. QED BY <1>5, <1>9, <1>t, <2>1 DEF HandlerWrites
<1>10. CASE OpenerReads \/ \E g \in Hops : HandlerReads(g)
  BY <1>2, <1>10, <1>t DEF OpenerReads, HandlerReads
<1>11. ASSUME NEW g \in Hops, SessionStep(g) \/ CloseSession(g) \/ Lose(g) \/ HandlerReturns(g)
       PROVE  LineMoves(h, d)
  BY <1>1, <1>3, <1>11
  DEF SessionStep, ForceClose, CutSession, CloseSession, Lose, HandlerReturns
<1>12. CASE HubStep \/ Expire \/ OpenerCloses \/ UNCHANGED vars
  BY <1>1, <1>12 DEF HubStep, Relay, StartPipes, ServeHubReturn, Expire, OpenerCloses, vars
<1>13. QED
  BY <1>t, <1>6, <1>7, <1>8, <1>9, <1>10, <1>11, <1>12 DEF Next, UserStep

\* A queue keeps to frames, or to bytes, unless the other kind is put into it.
LEMMA KindStays ==
    ASSUME TypeOK, PhaseInv, [Next]_vars, NEW h \in Hops, NEW d \in Dirs
    PROVE  /\ NoFrames(line[h][d]) =>
                 \/ NoFrames(line'[h][d])
                 \/ d = "fwd" /\ opener[h] = "idle"
                 \/ d = "back" /\ server[h] = "checked"
           /\ NoBytes(line[h][d]) =>
                 \/ NoBytes(line'[h][d])
                 \/ pipe[d] = "writing" /\ h = Target(d)
                 \/ h = "near" /\ d = "fwd" /\ opener["near"] = "opened"
                 \/ d = "back" /\ server[h] = "handling"
<1> DEFINE q == line[h][d]
           p == line'[h][d]
<1>1. q \in Seq(Items)
  BY DEF TypeOK
<1>2. LineMoves(h, d)
  BY LineStep
<1>3. Shortened(q, p) => (NoFrames(q) => NoFrames(p)) /\ (NoBytes(q) => NoBytes(p))
  <2> HIDE DEF p, q
  <2>1. QED BY <1>1, PartOf, BeginningOf DEF Shortened
<1>4. Framed(q, p) => (NoBytes(q) => NoBytes(p))
  <2> HIDE DEF p, q
  <2>1. QED BY <1>1, FramesPut, JoinOf DEF Framed
<1>5. Lengthened(q, p) => (NoFrames(q) => NoFrames(p))
  <2> HIDE DEF p, q
  <2>1. QED BY <1>1, JoinOf DEF Lengthened
<1>6. d \in {"fwd", "back"}
  BY DEF Dirs
<1>7. QED BY <1>2, <1>3, <1>4, <1>5, <1>6 DEF LineMoves

\* What the pipes hold is payload, and they hold it while they write.
LEMMA HoldStep ==
    ASSUME TypeOK, FrontInv("far"), PhaseInv, [Next]_vars, NEW d \in Dirs
    PROVE  NoFrames(hold'[d]) /\ (pipe'[d] # "writing" => hold'[d] = <<>>)
<1>t. /\ hold \in [Dirs -> Seq(Items)] /\ pipe \in [Dirs -> {"off", "reading", "writing", "done"}]
      /\ line \in [Hops -> [Dirs -> Seq(Items)]]
      /\ NoFrames(hold[d]) /\ (pipe[d] # "writing" => hold[d] = <<>>)
  BY DEF TypeOK, PhaseInv
<1>1. CASE hold'[d] = hold[d] /\ pipe'[d] = pipe[d]
  BY <1>1, <1>t
<1>2. CASE StartPipes
  <2>1. pipe[d] = "off"
    BY <1>2 DEF StartPipes, PhaseInv, FarInv
  <2>2. QED BY <1>2, <1>t, <2>1 DEF StartPipes
<1>3. CASE PipeRead(d)
  <2>1. PICK n \in 1..BufSize : /\ n <= Len(line[Source(d)][d])
                                /\ hold' = [hold EXCEPT ![d] = SubSeq(line[Source(d)][d], 1, n)]
    BY <1>3 DEF PipeRead
  <2>2. line[Source(d)][d] \in Seq(Items) /\ NoFrames(line[Source(d)][d])
    <3>1. CASE d = "fwd"
      BY <1>3, <1>t, <3>1 DEF PipeRead, PhaseInv, Source, Hops
    <3>2. CASE d = "back"
      <4>1. opener["far"] = "opened"
        BY <1>3 DEF PipeRead, PhaseInv, FarInv
      <4>2. NoFrames(line["far"]["back"])
        BY <4>1 DEF FrontInv, Front
      <4>3. QED BY <1>t, <3>2, <4>2 DEF Source, Hops
    <3>3. QED BY <3>1, <3>2 DEF Dirs
  <2>3. n \in 0..Len(line[Source(d)][d])
    BY <2>1, Parameters
  <2>4. NoFrames(hold'[d]) /\ pipe'[d] = "writing"
    BY <1>3, <1>t, <2>1, <2>2, <2>3, BeginningOf DEF PipeRead
  <2>5. QED BY <2>4
<1>4. CASE PipeWrite(d)
  <2>1. PICK k \in 0..Len(hold[d]) :
           /\ hold' = [hold EXCEPT ![d] = SubSeq(@, k + 1, Len(@))]
           /\ pipe' = [pipe EXCEPT ![d] = IF k = Len(hold[d]) THEN "reading" ELSE @]
    BY <1>4, Written
  <2>2. hold'[d] = SubSeq(hold[d], k + 1, Len(hold[d])) /\ k \in Nat
    BY <1>t, <2>1
  <2>3. NoFrames(hold'[d]) /\ (Len(hold[d]) <= k => hold'[d] = <<>>)
    BY <1>t, <2>2, PartOf
  <2>4. pipe'[d] # "writing" => Len(hold[d]) <= k
    BY <1>t, <2>1, <1>4 DEF PipeWrite
  <2>5. QED BY <2>3, <2>4
<1>5. CASE PipeEnd(d)
  BY <1>5, <1>t, NoItems DEF PipeEnd
<1>6. ASSUME NEW e \in Dirs, e # d, PipeStep(e)
      PROVE  hold'[d] = hold[d] /\ pipe'[d] = pipe[d]
  <2>1. CASE PipeRead(e)
    BY <1>6, <1>t, <2>1 DEF PipeRead
  <2>2. CASE PipeWrite(e)
    BY <1>6, <1>t, <2>2 DEF PipeWrite
  <2>3. CASE PipeEnd(e)
    BY <1>6, <1>t, <2>3 DEF PipeEnd
  <2>4. QED BY <1>6, <2>1, <2>2, <2>3 DEF PipeStep
<1>7. ASSUME NEW h \in Hops, HopStep(h) \/ SessionStep(h) \/ CloseSession(h) \/ Lose(h)
      PROVE  UNCHANGED <<pipe, hold>>
  BY <1>7 DEF HopStep, Ask, Accept, Check, Answer, Serve, GiveUp, TakeAnswer, NoAnswer, SessionStep,
     ForceClose, CutSession, CloseSession, Lose, pipes
<1>8. CASE UserStep \/ Expire \/ Relay \/ ServeHubReturn
  BY <1>1, <1>8 DEF UserStep, Ask, OpenerWrites, OpenerReads, OpenerCloses, HandlerWrites, HandlerReads,
     HandlerReturns, Expire, Relay, ServeHubReturn, pipes
<1>9. CASE UNCHANGED vars
  BY <1>1, <1>9 DEF vars, pipes
<1>10. QED
  BY <1>1, <1>2, <1>3, <1>4, <1>5, <1>6, <1>7, <1>8, <1>9 DEF Next, HubStep, PipeStep

\* A pipe ends only when an end is closed or a hop is lost.
LEMMA DoneStep ==
    ASSUME TypeOK, PhaseInv, [Next]_vars, NEW d \in Dirs, pipe'[d] = "done"
    PROVE  lost' # {} \/ \E h \in Hops : shut'[h] # {}
<1>t. /\ pipe \in [Dirs -> {"off", "reading", "writing", "done"}]
      /\ \A e \in Dirs : Source(e) \in Hops /\ Target(e) \in Hops
      /\ lost \subseteq Hops /\ shut \in [Hops -> SUBSET Sides]
  BY DEF TypeOK, Source, Target, Hops
<1>1. lost \subseteq lost' /\ \A h \in Hops : shut[h] \subseteq shut'[h]
  BY EndsGrow
<1>2. CASE lost # {} \/ \E h \in Hops : shut[h] # {}
  BY <1>1, <1>2
<1>3. CASE lost = {} /\ \A h \in Hops : shut[h] = {}
  <2>1. pipe[d] # "done"
    BY <1>3 DEF PhaseInv
  <2>2. ~PipeEnd(d)
    BY <1>3, <1>t DEF PipeEnd, AtEnd, CanWrite
  <2>3. ASSUME NEW e \in Dirs, PipeStep(e)
        PROVE  pipe'[d] # "done"
    BY <1>t, <2>1, <2>2, <2>3 DEF PipeStep, PipeRead, PipeWrite, PipeEnd
  <2>4. ASSUME NEW h \in Hops, HopStep(h) \/ SessionStep(h) \/ CloseSession(h) \/ Lose(h)
        PROVE  UNCHANGED pipe
    BY <2>4 DEF HopStep, Ask, Accept, Check, Answer, Serve, GiveUp, TakeAnswer, NoAnswer, SessionStep,
       ForceClose, CutSession, CloseSession, Lose, pipes
  <2>5. UserStep \/ Expire \/ Relay \/ ServeHubReturn => UNCHANGED pipe
    BY DEF UserStep, Ask, OpenerWrites, OpenerReads, OpenerCloses, HandlerWrites, HandlerReads,
       HandlerReturns, Expire, Relay, ServeHubReturn, pipes
  <2>6. StartPipes => pipe'[d] = "reading"
    BY DEF StartPipes
  <2>7. QED BY <2>1, <2>3, <2>4, <2>5, <2>6 DEF Next, HubStep, vars, pipes
<1>4. QED BY <1>2, <1>3

\* Nothing is written, or read, of the way back while the hub has not got to it.
LEMMA BackStep ==
    ASSUME TypeOK, PhaseInv, \A h \in Hops : FrontInv(h), [Next]_vars,
           opener["far"] = "idle", server["near"] \notin {"handling", "over"}
    PROVE  wrote'["back"] = wrote["back"] /\ got'["back"] = got["back"]
<1>t. wrote \in [Dirs -> Nat] /\ got \in [Dirs -> Seq(Items)] /\ "back" \in Dirs /\ "near" \in Hops /\ "far" \in Hops
  BY DEF TypeOK, Hops, Dirs
<1>1. ~OpenerReads
  <2>1. SUFFICES ASSUME OpenerReads
                 PROVE  FALSE
    OBVIOUS
  <2>2. line["near"]["back"] \in Seq(Items) /\ line["near"]["back"] # <<>>
    BY <2>1 DEF OpenerReads, TypeOK, Hops, Dirs
  <2>3. NoFrames(line["near"]["back"]) /\ NoBytes(line["near"]["back"])
    BY <2>1, <1>t DEF OpenerReads, FrontInv, Front, PhaseInv
  <2>4. 1 \in 1..Len(line["near"]["back"])
    BY <2>2
  <2>5. QED BY <2>3, <2>4 DEF NoFrames, NoBytes
<1>2. ASSUME NEW h \in Hops, HandlerWrites(h)
      PROVE  FALSE
  <2>1. server["far"] = "idle"
    BY <1>t DEF FrontInv, Front
  <2>2. QED BY <1>2, <2>1 DEF HandlerWrites, Hops
<1>3. ASSUME NEW h \in Hops, HopStep(h) \/ SessionStep(h) \/ CloseSession(h) \/ Lose(h)
      PROVE  UNCHANGED data
  BY <1>3 DEF HopStep, Ask, Accept, Check, Answer, Serve, GiveUp, TakeAnswer, NoAnswer, SessionStep,
     ForceClose, CutSession, CloseSession, Lose
<1>4. HubStep \/ Expire \/ (\E d \in Dirs : PipeStep(d)) => UNCHANGED data
  BY DEF HubStep, Relay, StartPipes, ServeHubReturn, Expire, PipeStep, PipeRead, PipeWrite, PipeEnd
<1>5. UserStep => wrote'["back"] = wrote["back"] /\ got'["back"] = got["back"]
  BY <1>t, <1>1, <1>2 DEF UserStep, Ask, OpenerWrites, OpenerCloses, HandlerReads, HandlerReturns, data
<1>6. QED BY <1>3, <1>4, <1>5 DEF Next, data, vars

LEMMA PhaseStep ==
    ASSUME TypeOK, \A h \in Hops : FrontInv(h), PhaseInv, [Next]_vars
    PROVE  PhaseInv'
<1>t. /\ "near" \in Hops /\ "far" \in Hops /\ "fwd" \in Dirs /\ "back" \in Dirs
      /\ Dirs = {"fwd", "back"} /\ Target("fwd") = "far" /\ Target("back") = "near"
      /\ server \in [Hops -> ServerStates]
  BY DEF Hops, Dirs, Target, TypeOK
<1>f. \A h \in Hops : opener[h] = "idle" => server[h] = "idle"
  BY DEF FrontInv, Front
<1>p. FarInv
  BY DEF PhaseInv
<1>1. /\ FarInv'
      /\ opener'["far"] = "idle" => opener["far"] = "idle"
      /\ opener["far"] = "idle" /\ opener'["far"] # "idle" =>
            server["near"] = "dialing" /\ line'["near"] = line["near"]
      /\ server'["near"] \notin {"handling", "over"} => server["near"] \notin {"handling", "over"}
      /\ \A d \in Dirs : pipe'[d] = "off" => pipe[d] = "off"
  BY <1>f, <1>p, FarStep
<1>2. pipe'["fwd"] # "off" => NoFrames(line'["near"]["fwd"])
  <2>1. CASE pipe["fwd"] # "off"
    <3>1. NoFrames(line["near"]["fwd"]) /\ server["near"] # "idle"
      BY <2>1, <1>t DEF PhaseInv, FarInv
    <3>2. QED BY <1>f, <1>t, <3>1, KindStays
  <2>2. CASE pipe["fwd"] = "off" /\ pipe'["fwd"] # "off"
    <3>1. StartPipes
      <4>1. ASSUME NEW h \in Hops, HopStep(h) \/ SessionStep(h) \/ CloseSession(h) \/ Lose(h)
            PROVE  UNCHANGED pipe
        BY <4>1 DEF HopStep, Ask, Accept, Check, Answer, Serve, GiveUp, TakeAnswer, NoAnswer, SessionStep,
           ForceClose, CutSession, CloseSession, Lose, pipes
      <4>2. UserStep \/ Expire \/ Relay \/ ServeHubReturn => UNCHANGED pipe
        BY DEF UserStep, Ask, OpenerWrites, OpenerReads, OpenerCloses, HandlerWrites, HandlerReads,
           HandlerReturns, Expire, Relay, ServeHubReturn, pipes
      <4>3. ASSUME NEW d \in Dirs, PipeStep(d)
            PROVE  pipe'["fwd"] = "off"
        <5>1. d # "fwd"
          BY <2>2, <4>3 DEF PipeStep, PipeRead, PipeWrite, PipeEnd
        <5>2. QED BY <1>t, <2>2, <4>3, <5>1 DEF PipeStep, PipeRead, PipeWrite, PipeEnd, TypeOK
      <4>4. QED BY <2>2, <4>1, <4>2, <4>3 DEF Next, HubStep, vars, pipes
    <3>2. server["near"] = "dialing" /\ line' = line
      BY <3>1 DEF StartPipes
    <3>3. QED BY <1>t, <3>2 DEF FrontInv, Front, AcceptedStates
  <2>3. QED BY <2>1, <2>2
<1>3. ASSUME NEW d \in Dirs, pipe'[d] = "off", d = "back" => opener'["far"] # "idle"
      PROVE  NoBytes(line'[Target(d)][d])
  <2>1. pipe[d] = "off"
    BY <1>1, <1>3
  <2>2. CASE d = "fwd"
    <3>1. NoBytes(line["far"]["fwd"])
      BY <1>t, <2>1, <2>2 DEF PhaseInv
    <3>2. QED BY <1>t, <2>1, <2>2, <3>1, KindStays
  <2>3. CASE d = "back" /\ opener["far"] = "idle"
    <3>1. server["near"] = "dialing" /\ line'["near"] = line["near"]
      BY <1>1, <1>3, <2>3
    <3>2. NoBytes(line["near"]["back"])
      BY <2>3, <3>1 DEF PhaseInv
    <3>3. QED BY <1>t, <2>3, <3>1, <3>2
  <2>4. CASE d = "back" /\ opener["far"] # "idle"
    <3>1. NoBytes(line["near"]["back"])
      BY <1>t, <2>1, <2>4 DEF PhaseInv
    <3>2. server["near"] # "handling"
      BY <1>p, <2>4 DEF FarInv
    <3>3. QED BY <1>t, <2>1, <2>4, <3>1, <3>2, KindStays
  <2>5. QED BY <1>t, <2>2, <2>3, <2>4
<1>4. ASSUME opener'["far"] = "idle", server'["near"] \notin {"handling", "over"}
      PROVE  wrote'["back"] = 0 /\ got'["back"] = <<>> /\ NoBytes(line'["near"]["back"])
  <2>1. opener["far"] = "idle" /\ server["near"] \notin {"handling", "over"}
    BY <1>1, <1>4
  <2>2. wrote["back"] = 0 /\ got["back"] = <<>> /\ NoBytes(line["near"]["back"])
    BY <2>1 DEF PhaseInv
  <2>3. pipe["back"] # "writing"
    BY <1>p, <1>t, <2>1 DEF FarInv
  <2>4. NoBytes(line'["near"]["back"])
    BY <1>t, <2>1, <2>2, <2>3, KindStays
  <2>5. QED BY <2>1, <2>2, <2>4, BackStep
<1>5. QED BY <1>1, <1>2, <1>3, <1>4, <1>t, DoneStep, HoldStep DEF PhaseInv

-----------------------------------------------------------------------------
(* The bytes of one direction.                                              *)

\* What is read, under way and written in one direction: g was read, t is on the
\* line it is read from, h in the hands of the pipe, s on the line before it; n
\* bytes were written. Unless the pipe has ended or its target is lost, all of it
\* hangs together; unless the writer's hop is lost, up to the last byte written.
DataOf(g, t, h, s, n, flows, whole) ==
    /\ g = FirstBytes(Len(g))
    /\ \E m \in Nat : Carries(t, Len(g), m)
    /\ flows => \E a, b, c \in Nat :
          Carries(t, Len(g), a) /\ Carries(h, a, b) /\ Carries(s, b, c) /\ (whole => c = n)

Here(d) == IF d = "fwd" \/ opener["far"] = "idle" THEN "near" ELSE "far"
Flows(d) == pipe[d] = "off" \/ (pipe[d] # "done" /\ Target(d) \notin lost)

DataInv(d) ==
    DataOf(got[d], line[Target(d)][d], hold[d], line[Source(d)][d], wrote[d],
           Flows(d), Here(d) \notin lost)

LEMMA CarriesNothing == \A n \in Nat : Carries(<<>>, n, n) /\ \A m \in Nat : Carries(<<>>, n, m) => m = n
BY CarriesNone, NoItems

\* One byte read.
LEMMA ReadOf ==
    ASSUME NEW g \in Seq(Items), NEW q \in Seq(Items), g = FirstBytes(Len(g)), q # <<>>, NoFrames(q),
           NEW m \in Nat, Carries(q, Len(g), m)
    PROVE  LET g2 == Append(g, Head(q))
               q2 == SubSeq(q, 2, Len(q))
           IN  g2 = FirstBytes(Len(g2)) /\ Len(g2) = Len(g) + 1 /\ Carries(q2, Len(g) + 1, m)
<1> DEFINE n == Len(g)
           g2 == Append(g, Head(q))
<1>1. n \in Nat /\ Len(q) \in Nat /\ 1 \in 1..Len(q)
  OBVIOUS
<1>2. q[1] = Byte(n + 1) /\ Head(q) = q[1]
  BY <1>1, CarriesAll
<1>3. Len(g2) = n + 1 /\ (\A i \in 1..n : g2[i] = g[i]) /\ g2[n + 1] = Byte(n + 1)
  BY <1>1, <1>2
<1>4. \A i \in 1..n : g[i] = Byte(i)
  BY <1>1 DEF FirstBytes
<1>5. g2 = [i \in 1..(n + 1) |-> Byte(i)]
  <2>1. DOMAIN g2 = 1..(n + 1) /\ g2 = [i \in DOMAIN g2 |-> g2[i]]
    <3>1. Head(q) \in Items
      BY <1>1, <1>2
    <3>2. g2 \in Seq(Items)
      BY <3>1, AppendProperties
    <3> HIDE DEF g2
    <3>3. g2 \in [1..Len(g2) -> Items]
      BY <3>2
    <3>4. QED BY <1>3, <3>3
  <2> HIDE DEF g2
  <2>2. \A i \in 1..(n + 1) : g2[i] = Byte(i)
    BY <1>1, <1>3, <1>4
  <2>3. QED BY <2>1, <2>2
<1>6. g2 = FirstBytes(Len(g2))
  BY <1>3, <1>5 DEF FirstBytes
<1>7. Carries(SubSeq(q, 1 + 1, Len(q)), n + 1, m)
  BY <1>1, CarriesSplit
<1>8. QED BY <1>3, <1>6, <1>7

LEMMA DataKept ==
    ASSUME NEW g, NEW t, NEW h, NEW s, NEW n, NEW flows, NEW whole, NEW flows2, NEW whole2,
           DataOf(g, t, h, s, n, flows, whole), flows2 => flows, whole2 => whole
    PROVE  DataOf(g, t, h, s, n, flows2, whole2)
BY DEF DataOf

\* Nothing written and nothing under way.
LEMMA DataNone ==
    ASSUME NEW t \in Seq(Items), NoBytes(t), NEW flows, NEW whole
    PROVE  DataOf(<<>>, t, <<>>, <<>>, 0, flows, whole)
<1>1. <<>> = FirstBytes(0) /\ Len(<<>>) = 0
  BY DEF FirstBytes
<1>2. Carries(t, 0, 0) /\ Carries(<<>>, 0, 0)
  BY CarriesNone, CarriesNothing
<1>3. QED BY <1>1, <1>2 DEF DataOf

\* The end of the reader.
LEMMA DataRead ==
    ASSUME NEW g \in Seq(Items), NEW t \in Seq(Items), NEW h, NEW s, NEW n, NEW flows, NEW whole,
           DataOf(g, t, h, s, n, flows, whole), t # <<>>, NoFrames(t)
    PROVE  DataOf(Append(g, Head(t)), SubSeq(t, 2, Len(t)), h, s, n, flows, whole)
<1> DEFINE g2 == Append(g, Head(t))
           t2 == SubSeq(t, 2, Len(t))
<1>1. g = FirstBytes(Len(g))
  BY DEF DataOf
<1>2. \A m \in Nat : Carries(t, Len(g), m) => Carries(t2, Len(g2), m)
  BY <1>1, ReadOf
<1>3. PICK m0 \in Nat : Carries(t, Len(g), m0)
  BY DEF DataOf
<1>4. g2 = FirstBytes(Len(g2))
  BY <1>1, <1>3, ReadOf
<1> HIDE DEF g2, t2
<1>5. QED BY <1>2, <1>4 DEF DataOf, g2, t2

\* Any change of the line to the reader that keeps what it carries.
LEMMA DataTarget ==
    ASSUME NEW g, NEW t, NEW t2, NEW h, NEW s, NEW n, NEW flows, NEW whole,
           DataOf(g, t, h, s, n, flows, whole), Len(g) \in Nat,
           \A m \in Nat : Carries(t, Len(g), m) => Carries(t2, Len(g), m)
    PROVE  DataOf(g, t2, h, s, n, flows, whole)
BY DEF DataOf

\* The same of the line from the writer.
LEMMA DataSource ==
    ASSUME NEW g, NEW t, NEW h, NEW s, NEW s2, NEW n, NEW flows, NEW whole,
           DataOf(g, t, h, s, n, flows, whole),
           \A b, c \in Nat : Carries(s, b, c) => Carries(s2, b, c)
    PROVE  DataOf(g, t, h, s2, n, flows, whole)
BY DEF DataOf

\* The end of the writer.
LEMMA DataWrite ==
    ASSUME NEW g, NEW t, NEW h, NEW s \in Seq(Items), NEW n \in Nat, NEW flows,
           DataOf(g, t, h, s, n, flows, TRUE)
    PROVE  DataOf(g, t, h, s \o <<Byte(n + 1)>>, n + 1, flows, TRUE)
<1>1. n + 1 \in Nat /\ \A b \in Nat : Carries(s, b, n) => Carries(s \o <<Byte(n + 1)>>, b, n + 1)
  BY CarriesNext
<1> DEFINE s2 == s \o <<Byte(n + 1)>>
           n2 == n + 1
<1>2. n2 \in Nat /\ \A b \in Nat : Carries(s, b, n) => Carries(s2, b, n2)
  BY <1>1
<1> HIDE DEF s2, n2
<1>3. DataOf(g, t, h, s2, n2, flows, TRUE)
  BY <1>2 DEF DataOf
<1>4. QED BY <1>3 DEF s2, n2

\* One hop: the other is empty.
LEMMA DataWriteOne ==
    ASSUME NEW g \in Seq(Items), NEW t \in Seq(Items), NEW n \in Nat,
           DataOf(g, t, <<>>, <<>>, n, TRUE, TRUE)
    PROVE  DataOf(g, t \o <<Byte(n + 1)>>, <<>>, <<>>, n + 1, TRUE, TRUE)
<1>1. PICK a \in Nat, b \in Nat, c \in Nat :
         Carries(t, Len(g), a) /\ Carries(<<>>, a, b) /\ Carries(<<>>, b, c) /\ c = n
  BY DEF DataOf
<1>2. Carries(t, Len(g), n)
  BY <1>1, CarriesNothing
<1>3. n + 1 \in Nat /\ Len(g) \in Nat /\ Carries(t \o <<Byte(n + 1)>>, Len(g), n + 1)
  BY <1>2, CarriesNext
<1> DEFINE t2 == t \o <<Byte(n + 1)>>
           n2 == n + 1
<1>4. n2 \in Nat /\ Carries(t2, Len(g), n2) /\ Carries(<<>>, n2, n2) /\ g = FirstBytes(Len(g))
  BY <1>3, CarriesNothing DEF DataOf
<1> HIDE DEF t2, n2
<1>5. DataOf(g, t2, <<>>, <<>>, n2, TRUE, TRUE)
  BY <1>4 DEF DataOf
<1>6. QED BY <1>5 DEF t2, n2

LEMMA DataReadOne ==
    ASSUME NEW g \in Seq(Items), NEW t \in Seq(Items), NEW s \in Seq(Items), NEW n, NEW flows, NEW whole,
           flows, DataOf(g, t, <<>>, s, n, flows, whole), NoBytes(t), s # <<>>, NoFrames(s)
    PROVE  DataOf(Append(g, Head(s)), t, <<>>, SubSeq(s, 2, Len(s)), n, flows, whole)
<1> DEFINE g2 == Append(g, Head(s))
           s2 == SubSeq(s, 2, Len(s))
<1>1. PICK a \in Nat, b \in Nat, c \in Nat :
         Carries(t, Len(g), a) /\ Carries(<<>>, a, b) /\ Carries(s, b, c) /\ (whole => c = n)
  BY DEF DataOf
<1>2. Len(g) \in Nat /\ g = FirstBytes(Len(g))
  BY DEF DataOf
<1>3. Carries(s, Len(g), c)
  BY <1>1, <1>2, CarriesNone, CarriesNothing
<1>4. g2 = FirstBytes(Len(g2)) /\ Len(g2) = Len(g) + 1 /\ Carries(s2, Len(g) + 1, c)
  BY <1>2, <1>3, ReadOf
<1> HIDE DEF g2, s2
<1>5. Len(g2) \in Nat /\ Carries(s2, Len(g2), c)
  BY <1>2, <1>4
<1>6. Carries(t, Len(g2), Len(g2)) /\ Carries(<<>>, Len(g2), Len(g2))
  BY <1>5, CarriesNone, CarriesNothing
<1>7. DataOf(g2, t, <<>>, s2, n, flows, whole)
  BY <1>1, <1>4, <1>5, <1>6 DEF DataOf
<1>8. QED BY <1>7 DEF g2, s2

\* The pipe.
LEMMA DataPipeRead ==
    ASSUME NEW g, NEW t, NEW s \in Seq(Items), NEW n, NEW flows, NEW whole,
           DataOf(g, t, <<>>, s, n, flows, whole), NoFrames(s), NEW k \in 0..Len(s)
    PROVE  DataOf(g, t, SubSeq(s, 1, k), SubSeq(s, k + 1, Len(s)), n, flows, whole)
<1> DEFINE h2 == SubSeq(s, 1, k)
           s2 == SubSeq(s, k + 1, Len(s))
<1>1. ASSUME NEW a \in Nat, NEW b \in Nat, NEW c \in Nat, Carries(<<>>, a, b), Carries(s, b, c)
      PROVE  \E b2 \in Nat : Carries(h2, a, b2) /\ Carries(s2, b2, c)
  <2>1. b = a /\ k \in Nat
    BY <1>1, CarriesNothing
  <2>2. Carries(h2, a, a + k) /\ Carries(s2, a + k, c)
    BY <1>1, <2>1, CarriesSplit
  <2>3. a + k \in Nat
    BY <2>1
  <2>4. QED BY <2>2, <2>3
<1> HIDE DEF h2, s2
<1>2. DataOf(g, t, h2, s2, n, flows, whole)
  BY <1>1 DEF DataOf
<1>3. QED BY <1>2 DEF h2, s2

LEMMA DataPipeWrite ==
    ASSUME NEW g \in Seq(Items), NEW t \in Seq(Items), NEW h \in Seq(Items), NEW s, NEW n, NEW flows, NEW whole,
           flows, DataOf(g, t, h, s, n, flows, whole), NoFrames(h), NEW k \in 0..Len(h)
    PROVE  DataOf(g, t \o SubSeq(h, 1, k), SubSeq(h, k + 1, Len(h)), s, n, flows, whole)
<1> DEFINE t2 == t \o SubSeq(h, 1, k)
           h2 == SubSeq(h, k + 1, Len(h))
<1>1. PICK a \in Nat, b \in Nat, c \in Nat :
         Carries(t, Len(g), a) /\ Carries(h, a, b) /\ Carries(s, b, c) /\ (whole => c = n)
  BY DEF DataOf
<1>2. a + k \in Nat /\ Len(g) \in Nat
  OBVIOUS
<1>3. Carries(SubSeq(h, 1, k), a, a + k) /\ NoFrames(SubSeq(h, 1, k)) /\ Carries(h2, a + k, b)
  BY <1>1, CarriesSplit
<1>4. SubSeq(h, 1, k) \in Seq(Items)
  BY BeginningOf
<1>5. Carries(t2, Len(g), a + k)
  BY <1>1, <1>2, <1>3, <1>4, CarriesConcat
<1> DEFINE a2 == a + k
<1>6. a2 \in Nat /\ Carries(t2, Len(g), a2) /\ Carries(h2, a2, b) /\ g = FirstBytes(Len(g))
  BY <1>2, <1>3, <1>5 DEF DataOf
<1> HIDE DEF t2, h2, a2
<1>7. DataOf(g, t2, h2, s, n, flows, whole)
  BY <1>1, <1>6 DEF DataOf
<1>8. QED BY <1>7 DEF t2, h2

\* A tail lost: of the line to the reader, when nothing comes after it, ...
LEMMA DataCutTarget ==
    ASSUME NEW g \in Seq(Items), NEW t \in Seq(Items), NEW h, NEW s, NEW n, NEW flows, NEW whole, NEW flows2,
           DataOf(g, t, h, s, n, flows, whole), NEW k \in 0..Len(t),
           flows2 => flows /\ (NoBytes(t) \/ (h = <<>> /\ s = <<>>))
    PROVE  DataOf(g, SubSeq(t, 1, k), h, s, n, flows2, NoBytes(t) /\ whole)
<1> DEFINE t2 == SubSeq(t, 1, k)
<1>1. g = FirstBytes(Len(g)) /\ Len(g) \in Nat
  BY DEF DataOf
<1>2. \E m \in Nat : Carries(t2, Len(g), m)
  <2>1. PICK m \in Nat : Carries(t, Len(g), m)
    BY DEF DataOf
  <2>2. QED BY <1>1, <2>1, CarriesCut
<1>3. CASE NoBytes(t)
  <2>1. t2 \in Seq(Items) /\ NoBytes(t2)
    BY <1>3, BeginningOf
  <2> HIDE DEF t2
  <2>2. \A m \in Nat : Carries(t, Len(g), m) => Carries(t2, Len(g), m)
    BY <1>1, <1>3, <2>1, CarriesNone
  <2>3. QED BY <1>3, <2>2 DEF DataOf, t2
<1>4. CASE ~NoBytes(t) /\ flows2
  <2>1. PICK m \in Nat : Carries(t2, Len(g), m)
    BY <1>2
  <2>2. Carries(h, m, m) /\ Carries(s, m, m)
    BY <1>4, CarriesNothing
  <2> HIDE DEF t2
  <2>3. QED BY <1>1, <1>4, <2>1, <2>2 DEF DataOf, t2
<1>5. CASE ~flows2
  <2> HIDE DEF t2
  <2>1. QED BY <1>1, <1>2, <1>5 DEF DataOf, t2
<1>6. QED BY <1>3, <1>4, <1>5

\* ... and of the line from the writer.
LEMMA DataCutSource ==
    ASSUME NEW g, NEW t, NEW h, NEW s \in Seq(Items), NEW n, NEW flows, NEW whole,
           DataOf(g, t, h, s, n, flows, whole), NEW k \in 0..Len(s)
    PROVE  DataOf(g, t, h, SubSeq(s, 1, k), n, flows, FALSE)
<1> DEFINE s2 == SubSeq(s, 1, k)
<1>1. \A b, c \in Nat : Carries(s, b, c) => \E c2 \in Nat : Carries(s2, b, c2)
  BY CarriesCut
<1> HIDE DEF s2
<1>2. DataOf(g, t, h, s2, n, flows, FALSE)
  BY <1>1 DEF DataOf
<1>3. QED BY <1>2 DEF s2

Fronts == \A h \in Hops : FrontInv(h)

LEMMA FlowsStep ==
    ASSUME TypeOK, PhaseInv, Fronts, [Next]_vars, NEW d \in Dirs
    PROVE  Flows(d)' => Flows(d)
<1>t. /\ pipe \in [Dirs -> {"off", "reading", "writing", "done"}]
      /\ \A h \in Hops : opener[h] = "idle" => server[h] = "idle"
  BY DEF TypeOK, Fronts, FrontInv, Front
<1>1. pipe'[d] = "off" => pipe[d] = "off"
  BY <1>t, FarStep DEF PhaseInv
<1>2. lost \subseteq lost'
  BY EndsGrow
<1>3. ASSUME pipe[d] = "done"
      PROVE  pipe'[d] = "done"
  <2>1. ASSUME NEW h \in Hops, HopStep(h) \/ SessionStep(h) \/ CloseSession(h) \/ Lose(h)
        PROVE  UNCHANGED pipe
    BY <2>1 DEF HopStep, Ask, Accept, Check, Answer, Serve, GiveUp, TakeAnswer, NoAnswer, SessionStep,
       ForceClose, CutSession, CloseSession, Lose, pipes
  <2>2. UserStep \/ Expire \/ Relay \/ ServeHubReturn => UNCHANGED pipe
    BY DEF UserStep, Ask, OpenerWrites, OpenerReads, OpenerCloses, HandlerWrites, HandlerReads,
       HandlerReturns, Expire, Relay, ServeHubReturn, pipes
  <2>3. ~StartPipes
    BY <1>3 DEF StartPipes, PhaseInv, FarInv
  <2>4. ASSUME NEW e \in Dirs, PipeStep(e)
        PROVE  pipe'[d] = "done"
    <3>1. e # d
      BY <1>3, <2>4 DEF PipeStep, PipeRead, PipeWrite, PipeEnd
    <3>2. QED BY <1>3, <1>t, <2>4, <3>1 DEF PipeStep, PipeRead, PipeWrite, PipeEnd
  <2>5. QED BY <1>3, <2>1, <2>2, <2>3, <2>4 DEF Next, HubStep, vars, pipes
<1>4. QED BY <1>1, <1>2, <1>3 DEF Flows

\* How what was read, is under way and was written may have moved.
LEMMA DataMoved ==
    ASSUME TypeOK, PhaseInv, Fronts, [Next]_vars, NEW d \in Dirs,
           DataOf(got'[d], line'[Target(d)][d], hold'[d], line'[Source(d)][d], wrote'[d],
                  Flows(d), Here(d) \notin lost),
           d = "fwd" \/ (opener'["far"] = "idle" <=> opener["far"] = "idle")
    PROVE  DataInv(d)'
<1>1. Flows(d)' => Flows(d)
  BY FlowsStep
<1>2. Here(d)' \notin lost' => Here(d) \notin lost
  BY EndsGrow DEF Here
<1>3. Target(d)' = Target(d) /\ Source(d)' = Source(d)
  BY DEF Target, Source
<1> DEFINE g == got'[d]
           t == line'[Target(d)][d]
           h == hold'[d]
           s == line'[Source(d)][d]
           n == wrote'[d]
<1>4. DataOf(g, t, h, s, n, Flows(d), Here(d) \notin lost)
  OBVIOUS
<1> HIDE DEF g, t, h, s, n
<1>5. DataOf(g, t, h, s, n, Flows(d)', Here(d)' \notin lost')
  BY <1>1, <1>2, <1>4, DataKept
<1>6. QED BY <1>5 DEF DataInv, g, t, h, s, n

\* The hub's stream to the session that provides the name: the way back is taken
\* up while it is empty.
LEMMA DataAskFar ==
    ASSUME TypeOK, PhaseInv, Fronts, Ask("far")
    PROVE  DataInv("back")'
<1>t. /\ line \in [Hops -> [Dirs -> Seq(Items)]]
      /\ "near" \in Hops /\ "far" \in Hops /\ "back" \in Dirs /\ "fwd" \in Dirs
  BY DEF TypeOK, Hops, Dirs
<1>1. opener["far"] = "idle" /\ server["near"] = "dialing"
  BY DEF Ask
<1>2. wrote["back"] = 0 /\ got["back"] = <<>> /\ NoBytes(line["near"]["back"])
  BY <1>1 DEF PhaseInv
<1>3. line["far"]["back"] = <<>>
  BY <1>1, <1>t DEF Fronts, FrontInv, Front, Unanswered
<1>4. hold["back"] = <<>>
  BY <1>1, <1>t DEF PhaseInv, FarInv
<1>5. /\ line'["near"]["back"] = line["near"]["back"] /\ line'["far"]["back"] = line["far"]["back"]
      /\ UNCHANGED <<hold, wrote, got>>
  BY <1>t DEF Ask, Put, pipes, data
<1> DEFINE fl == Flows("back")'
           wh == Here("back")' \notin lost'
<1> HIDE DEF fl, wh
<1>6. DataOf(<<>>, line["near"]["back"], <<>>, <<>>, 0, fl, wh)
  BY <1>2, <1>t, DataNone
<1>7. Target("back") = "near" /\ Source("back") = "far" /\ Target("back")' = "near" /\ Source("back")' = "far"
  BY DEF Target, Source
<1>8. QED BY <1>2, <1>3, <1>4, <1>5, <1>6, <1>7 DEF DataInv, fl, wh

\* A step on one hop that leaves what the hop carries in one direction.
LEMMA DataLine ==
    ASSUME TypeOK, PhaseInv, Fronts, [Next]_vars, NEW h \in Hops, NEW e \in Dirs, NEW q \in Seq(Items),
           line' = [line EXCEPT ![h][e] = q],
           \A n, m \in Nat : Carries(line[h][e], n, m) => Carries(q, n, m),
           UNCHANGED <<hold, wrote, got>>,
           NEW d \in Dirs, DataInv(d),
           d = "fwd" \/ (opener'["far"] = "idle" <=> opener["far"] = "idle")
    PROVE  DataInv(d)'
<1>t. /\ line \in [Hops -> [Dirs -> Seq(Items)]] /\ got \in [Dirs -> Seq(Items)]
      /\ Target(d) \in Hops /\ Source(d) \in Hops /\ Target(d) # Source(d)
  BY DEF TypeOK, Hops, Dirs, Target, Source
<1>l. Len(got[d]) \in Nat
  BY <1>t
<1>1. DataOf(got[d], line[Target(d)][d], hold[d], line[Source(d)][d], wrote[d],
             Flows(d), Here(d) \notin lost)
  BY DEF DataInv
<1>2. CASE e = d /\ h = Target(d)
  <2>1. line'[Target(d)][d] = q /\ line'[Source(d)][d] = line[Source(d)][d]
    BY <1>t, <1>2
  <2>2. \A m \in Nat : Carries(line[Target(d)][d], Len(got[d]), m) => Carries(q, Len(got[d]), m)
    BY <1>2, <1>l
  <2>3. DataOf(got[d], q, hold[d], line[Source(d)][d], wrote[d], Flows(d), Here(d) \notin lost)
    BY <1>1, <1>l, <2>2, DataTarget
  <2>4. QED BY <2>1, <2>3, DataMoved
<1>3. CASE e = d /\ h = Source(d)
  <2>1. line'[Source(d)][d] = q /\ line'[Target(d)][d] = line[Target(d)][d]
    BY <1>t, <1>3
  <2>2. \A b, c \in Nat : Carries(line[Source(d)][d], b, c) => Carries(q, b, c)
    BY <1>3
  <2>3. DataOf(got[d], line[Target(d)][d], hold[d], q, wrote[d], Flows(d), Here(d) \notin lost)
    BY <1>1, <2>2, DataSource
  <2>4. QED BY <2>1, <2>3, DataMoved
<1>4. CASE e # d
  <2>1. line'[Source(d)][d] = line[Source(d)][d] /\ line'[Target(d)][d] = line[Target(d)][d]
    BY <1>t, <1>4
  <2>2. QED BY <1>1, <2>1, DataMoved
<1>5. h = Target(d) \/ h = Source(d)
  BY DEF Hops, Dirs, Target, Source
<1>6. QED BY <1>2, <1>3, <1>4, <1>5

\* A step that moves nothing.
LEMMA DataStill ==
    ASSUME TypeOK, PhaseInv, Fronts, [Next]_vars, NEW d \in Dirs, DataInv(d),
           line'[Target(d)][d] = line[Target(d)][d], line'[Source(d)][d] = line[Source(d)][d],
           hold'[d] = hold[d], wrote'[d] = wrote[d], got'[d] = got[d],
           d = "fwd" \/ (opener'["far"] = "idle" <=> opener["far"] = "idle")
    PROVE  DataInv(d)'
<1>1. DataOf(got[d], line[Target(d)][d], hold[d], line[Source(d)][d], wrote[d],
             Flows(d), Here(d) \notin lost)
  BY DEF DataInv
<1>2. QED BY <1>1, DataMoved

\* The hops and the directions.
LEMMA Places ==
    /\ "near" \in Hops /\ "far" \in Hops /\ "fwd" \in Dirs /\ "back" \in Dirs
    /\ Hops = {"near", "far"} /\ Dirs = {"fwd", "back"}
    /\ Target("fwd") = "far" /\ Source("fwd") = "near"
    /\ Target("back") = "near" /\ Source("back") = "far"
    /\ \A d \in Dirs : Target(d) \in Hops /\ Source(d) \in Hops /\ Target(d) # Source(d)
BY DEF Hops, Dirs, Target, Source

\* Frames that come and go.
LEMMA DataFrames ==
    ASSUME TypeOK, PhaseInv, Fronts, [Next]_vars, NEW h \in Hops,
           Ask(h) \/ Answer(h) \/ Check(h) \/ TakeAnswer(h),
           NEW d \in Dirs, DataInv(d)
    PROVE  DataInv(d)'
<1>t. /\ line \in [Hops -> [Dirs -> Seq(Items)]] /\ opener \in [Hops -> OpenerStates]
  BY DEF TypeOK
<1>u. UNCHANGED <<hold, wrote, got>>
  BY DEF Ask, Answer, Check, TakeAnswer, pipes, data
<1>f. FrontInv(h)
  BY DEF Fronts
<1>1. ASSUME NEW e \in Dirs, NEW t \in FrameKinds, NoBytes(line[h][e]), Put(h, e, Frame(t)),
             d = "fwd" \/ (opener'["far"] = "idle" <=> opener["far"] = "idle")
      PROVE  DataInv(d)'
  <2> DEFINE q == line[h][e]
             p == q \o Frame(t)
  <2>1. q \in Seq(Items) /\ p \in Seq(Items) /\ NoBytes(p)
    BY <1>1, <1>t, FramesPut, JoinOf
  <2>2. \A n, m \in Nat : Carries(q, n, m) => Carries(p, n, m)
    <3> HIDE DEF p
    <3>1. NoBytes(q)
      BY <1>1
    <3> HIDE DEF q
    <3>2. QED BY <2>1, <3>1, CarriesNone
  <2>3. line' = [line EXCEPT ![h][e] = p]
    BY <1>1 DEF Put
  <2> HIDE DEF p
  <2>4. QED BY <1>1, <1>u, <2>1, <2>2, <2>3, DataLine
<1>2. ASSUME NEW e \in Dirs, \A i \in 1..Len(line[h][e]) : i <= 2 => line[h][e][i].kind # "byte",
             Drop(h, e, 2), opener'["far"] = "idle" <=> opener["far"] = "idle"
      PROVE  DataInv(d)'
  <2> DEFINE q == line[h][e]
             p == SubSeq(q, 2 + 1, Len(q))
  <2>1. q \in Seq(Items)
    BY <1>t
  <2>2. p \in Seq(Items)
    BY <2>1, TailOf
  <2>3. \A n, m \in Nat : Carries(q, n, m) => Carries(p, n, m)
    <3>1. \A i \in 1..Len(q) : i <= 2 => q[i].kind # "byte"
      BY <1>2
    <3> HIDE DEF q
    <3>2. QED BY <2>1, <3>1, CarriesUnframed
  <2>4. line' = [line EXCEPT ![h][e] = p]
    BY <1>2 DEF Drop
  <2> HIDE DEF p
  <2>5. QED BY <1>2, <1>u, <2>2, <2>3, <2>4, DataLine
<1>3. CASE Ask(h)
  <2>1. line[h]["fwd"] = <<>>
    BY <1>3, <1>f DEF Ask, FrontInv, Front
  <2>2. CASE h = "far" /\ d = "back"
    BY <1>3, <2>2, DataAskFar
  <2>3. CASE ~(h = "far" /\ d = "back")
    <3>1. d = "fwd" \/ (opener'["far"] = "idle" <=> opener["far"] = "idle")
      BY <1>3, <1>t, <2>3, Places DEF Ask, Opener
    <3>2. CASE Put(h, "fwd", Frame("perm"))
      BY <1>1, <2>1, <3>1, <3>2, Places, NoItems DEF FrameKinds
    <3>3. CASE UNCHANGED line
      BY <1>u, <3>1, <3>3, DataStill
    <3>4. QED BY <1>3, <3>2, <3>3 DEF Ask
  <2>4. QED BY <2>2, <2>3
<1>4. CASE Answer(h)
  <2>1. server[h] = "checked" /\ opener' = opener /\ \E t \in FrameKinds : Put(h, "back", Frame(t))
    BY <1>4 DEF Answer, FrameKinds
  <2>2. NoBytes(line[h]["back"])
    BY <1>f, <2>1, NoItems DEF FrontInv, Front, Unanswered
  <2>3. QED BY <1>1, <2>1, <2>2, Places
<1>5. CASE Check(h)
  <2>1. server[h] = "reading" /\ Drop(h, "fwd", 2) /\ opener' = opener
    BY <1>5 DEF Check, Decoded, opening
  <2>2. NoBytes(line[h]["fwd"])
    BY <1>f, <2>1 DEF FrontInv, Front
  <2>3. QED BY <1>2, <2>1, <2>2, Places DEF NoBytes
<1>6. CASE TakeAnswer(h)
  <2>1. opener[h] = "asking" /\ Drop(h, "back", 2) /\ opener'[h] # "idle"
        /\ \A g \in Hops \ {h} : opener'[g] = opener[g]
    BY <1>6, <1>t DEF TakeAnswer, Decoded, Opener
  <2>2. AnswerFirst(line[h]["back"])
    BY <1>f, <2>1 DEF FrontInv, Front
  <2>3. \A i \in 1..Len(line[h]["back"]) : i <= 2 => line[h]["back"][i].kind # "byte"
    BY <2>2 DEF AnswerFirst
  <2>4. opener'["far"] = "idle" <=> opener["far"] = "idle"
    BY <2>1, Places
  <2>5. QED BY <1>2, <2>1, <2>3, <2>4, Places
<1>7. QED BY <1>3, <1>4, <1>5, <1>6

\* The pipes.
LEMMA DataPipes ==
    ASSUME TypeOK, PhaseInv, Fronts, [Next]_vars, NEW e \in Dirs, PipeStep(e),
           NEW d \in Dirs, DataInv(d)
    PROVE  DataInv(d)'
<1>t. /\ line \in [Hops -> [Dirs -> Seq(Items)]] /\ hold \in [Dirs -> Seq(Items)]
      /\ got \in [Dirs -> Seq(Items)]
      /\ pipe \in [Dirs -> {"off", "reading", "writing", "done"}]
  BY DEF TypeOK
<1>u. UNCHANGED <<opener, wrote, got, lost>>
  BY DEF PipeStep, PipeRead, PipeWrite, PipeEnd, opening, data, ends
<1>1. CASE e # d
  <2>1. hold'[d] = hold[d]
    BY <1>1, <1>t DEF PipeStep, PipeRead, PipeWrite, PipeEnd
  <2>2. \A h \in Hops : line'[h][d] = line[h][d]
    <3>1. CASE PipeRead(e)
      BY <1>1, <1>t, <3>1 DEF PipeRead, Drop
    <3>2. CASE PipeWrite(e)
      BY <1>1, <1>t, <3>2 DEF PipeWrite, Put
    <3>3. CASE PipeEnd(e)
      BY <3>3 DEF PipeEnd
    <3>4. QED BY <3>1, <3>2, <3>3 DEF PipeStep
  <2>3. QED BY <1>u, <2>1, <2>2, Places, DataStill
<1> DEFINE T == line[Target(d)][d]
           S == line[Source(d)][d]
<1>2. T \in Seq(Items) /\ S \in Seq(Items) /\ got[d] \in Seq(Items) /\ hold[d] \in Seq(Items)
  BY <1>t, Places
<1>3. DataOf(got[d], T, hold[d], S, wrote[d], Flows(d), Here(d) \notin lost)
  BY DEF DataInv
<1>4. CASE PipeRead(d)
  <2>1. PICK k \in 1..BufSize : /\ k <= Len(S)
                                /\ hold' = [hold EXCEPT ![d] = SubSeq(S, 1, k)]
                                /\ line' = [line EXCEPT ![Source(d)][d] = SubSeq(@, k + 1, Len(@))]
    BY <1>4 DEF PipeRead, Drop
  <2>2. pipe[d] = "reading" /\ opener["far"] = "opened" /\ hold[d] = <<>>
    BY <1>4 DEF PipeRead, PhaseInv, FarInv
  <2>3. NoFrames(S)
    <3>1. CASE d = "fwd"
      BY <2>2, <3>1, Places DEF PhaseInv
    <3>2. CASE d = "back"
      BY <2>2, <3>2, Places DEF Fronts, FrontInv, Front
    <3>3. QED BY <3>1, <3>2, Places
  <2>4. k \in 0..Len(S)
    BY <1>2, <2>1, Parameters
  <2>5. /\ hold'[d] = SubSeq(S, 1, k) /\ line'[Source(d)][d] = SubSeq(S, k + 1, Len(S))
        /\ line'[Target(d)][d] = T
    BY <1>t, <2>1, Places
  <2> HIDE DEF T, S
  <2>6. DataOf(got[d], T, SubSeq(S, 1, k), SubSeq(S, k + 1, Len(S)), wrote[d], Flows(d), Here(d) \notin lost)
    BY <1>2, <1>3, <2>2, <2>3, <2>4, DataPipeRead
  <2>7. QED BY <1>u, <2>5, <2>6, DataMoved
<1>5. CASE PipeWrite(d)
  <2>1. PICK k \in 0..Len(hold[d]) :
           /\ line' = [line EXCEPT ![Target(d)][d] = @ \o SubSeq(hold[d], 1, k)]
           /\ hold' = [hold EXCEPT ![d] = SubSeq(@, k + 1, Len(@))]
    BY <1>5, Written DEF Put
  <2>2. Flows(d) /\ NoFrames(hold[d])
    BY <1>5 DEF PipeWrite, CanWrite, Flows, PhaseInv
  <2>3. /\ hold'[d] = SubSeq(hold[d], k + 1, Len(hold[d])) /\ line'[Source(d)][d] = S
        /\ line'[Target(d)][d] = T \o SubSeq(hold[d], 1, k)
    BY <1>t, <2>1, Places
  <2> HIDE DEF T, S
  <2>4. DataOf(got[d], T \o SubSeq(hold[d], 1, k), SubSeq(hold[d], k + 1, Len(hold[d])), S, wrote[d],
               Flows(d), Here(d) \notin lost)
    BY <1>2, <1>3, <2>2, DataPipeWrite
  <2>5. QED BY <1>u, <2>3, <2>4, DataMoved
<1>6. CASE PipeEnd(d)
  <2>1. pipe'[d] = "done" /\ line' = line /\ hold'[d] = <<>>
    BY <1>6, <1>t DEF PipeEnd
  <2>2. ~Flows(d)'
    BY <2>1 DEF Flows
  <2>3. DataOf(got[d], T, <<>>, S, wrote[d], FALSE, Here(d) \notin lost)
    BY <1>3 DEF DataOf
  <2>4. Here(d)' = Here(d) /\ Target(d)' = Target(d) /\ Source(d)' = Source(d)
    BY <1>u DEF Here, Target, Source
  <2> DEFINE fl == Flows(d)'
  <2>5. ~fl
    BY <2>2
  <2> HIDE DEF fl
  <2>6. DataOf(got[d], T, <<>>, S, wrote[d], fl, Here(d) \notin lost)
    BY <2>3, <2>5, DataKept
  <2>7. QED BY <1>u, <2>1, <2>4, <2>6 DEF DataInv, fl
<1>7. QED BY <1>1, <1>4, <1>5, <1>6 DEF PipeStep

\* The users' writes.
LEMMA DataWrites ==
    ASSUME TypeOK, PhaseInv, Fronts, [Next]_vars,
           OpenerWrites \/ \E h \in Hops : HandlerWrites(h),
           NEW d \in Dirs, DataInv(d)
    PROVE  DataInv(d)'
<1>t. /\ line \in [Hops -> [Dirs -> Seq(Items)]] /\ hold \in [Dirs -> Seq(Items)]
      /\ got \in [Dirs -> Seq(Items)] /\ wrote \in [Dirs -> Nat]
  BY DEF TypeOK
<1>u. UNCHANGED <<opener, hold, got>>
  BY DEF OpenerWrites, HandlerWrites, opening, pipes
<1> DEFINE T == line[Target(d)][d]
           S == line[Source(d)][d]
           n == wrote[d]
<1>2. T \in Seq(Items) /\ S \in Seq(Items) /\ got[d] \in Seq(Items) /\ n \in Nat
  BY <1>t, Places
<1>3. DataOf(got[d], T, hold[d], S, n, Flows(d), Here(d) \notin lost)
  BY DEF DataInv
\* On the line from the writer's end.
<1>4. ASSUME Here(d) \notin lost,
             line' = [line EXCEPT ![Source(d)][d] = @ \o <<Byte(wrote[d] + 1)>>],
             wrote' = [wrote EXCEPT ![d] = @ + 1]
      PROVE  DataInv(d)'
  <2>1. /\ line'[Source(d)][d] = S \o <<Byte(n + 1)>> /\ line'[Target(d)][d] = T
        /\ wrote'[d] = n + 1
    BY <1>t, <1>4, Places
  <2> HIDE DEF T, S, n
  <2>2. DataOf(got[d], T, hold[d], S, n, Flows(d), TRUE)
    BY <1>3, <1>4, DataKept
  <2>3. DataOf(got[d], T, hold[d], S \o <<Byte(n + 1)>>, n + 1, Flows(d), TRUE)
    BY <1>2, <2>2, DataWrite
  <2> DEFINE S2 == S \o <<Byte(n + 1)>>
             n2 == n + 1
  <2>4. DataOf(got[d], T, hold[d], S2, n2, Flows(d), TRUE)
    BY <2>3
  <2>5. line'[Source(d)][d] = S2 /\ line'[Target(d)][d] = T /\ wrote'[d] = n2
    BY <2>1
  <2> HIDE DEF S2, n2
  <2>6. DataOf(got[d], T, hold[d], S2, n2, Flows(d), Here(d) \notin lost)
    BY <2>4, DataKept
  <2>7. QED BY <1>u, <2>5, <2>6, DataMoved
<1>5. CASE OpenerWrites
  <2>1. /\ CanWrite("near", "fwd")
        /\ line' = [line EXCEPT !["near"]["fwd"] = @ \o <<Byte(wrote["fwd"] + 1)>>]
        /\ wrote' = [wrote EXCEPT !["fwd"] = @ + 1]
    BY <1>5 DEF OpenerWrites, Put
  <2>2. CASE d = "fwd"
    BY <1>4, <2>1, <2>2, Places DEF Here, CanWrite
  <2>3. CASE d = "back"
    <3>1. line'["near"][d] = line["near"][d] /\ line'["far"][d] = line["far"][d] /\ wrote'[d] = wrote[d]
      BY <1>t, <2>1, <2>3, Places
    <3>2. QED BY <1>u, <2>3, <3>1, Places, DataStill
  <2>4. QED BY <2>2, <2>3, Places
<1>6. ASSUME NEW h \in Hops, HandlerWrites(h)
      PROVE  DataInv(d)'
  <2>1. /\ server[h] = "handling" /\ CanWrite(h, "back")
        /\ line' = [line EXCEPT ![h]["back"] = @ \o <<Byte(wrote["back"] + 1)>>]
        /\ wrote' = [wrote EXCEPT !["back"] = @ + 1]
    BY <1>6 DEF HandlerWrites, Put
  <2>2. CASE d = "fwd"
    <3>1. line'["near"][d] = line["near"][d] /\ line'["far"][d] = line["far"][d] /\ wrote'[d] = wrote[d]
      BY <1>t, <2>1, <2>2, Places
    <3>2. QED BY <1>u, <2>2, <3>1, Places, DataStill
  <2>3. CASE d = "back" /\ h = "far"
    <3>1. opener["far"] # "idle"
      BY <2>1, <2>3 DEF Fronts, FrontInv, Front
    <3>2. QED BY <1>4, <2>1, <2>3, <3>1, Places DEF Here, CanWrite
  <2>4. CASE d = "back" /\ h = "near"
    <3>1. opener["far"] = "idle" /\ pipe["back"] = "off" /\ hold["back"] = <<>>
      BY <2>1, <2>4, Places DEF PhaseInv, FarInv
    <3>2. S = <<>>
      BY <2>4, <3>1, Places DEF Fronts, FrontInv, Front, Unanswered
    <3>3. Here(d) \notin lost /\ Flows(d)
      BY <2>1, <2>4, <3>1 DEF Here, CanWrite, Flows
    <3>4. /\ line'[Target(d)][d] = T \o <<Byte(n + 1)>> /\ line'[Source(d)][d] = <<>>
          /\ wrote'[d] = n + 1 /\ hold'[d] = <<>>
      BY <1>t, <1>u, <2>1, <2>4, <3>1, <3>2, Places
    <3>5. hold[d] = <<>>
      BY <2>4, <3>1
    <3> HIDE DEF T, S, n
    <3>6. DataOf(got[d], T, <<>>, <<>>, n, TRUE, TRUE)
      BY <1>3, <3>2, <3>3, <3>5, DataKept
    <3>7. DataOf(got[d], T \o <<Byte(n + 1)>>, <<>>, <<>>, n + 1, TRUE, TRUE)
      BY <1>2, <3>6, DataWriteOne
    <3> DEFINE T2 == T \o <<Byte(n + 1)>>
               n2 == n + 1
    <3>8. DataOf(got[d], T2, <<>>, <<>>, n2, TRUE, TRUE)
      BY <3>7
    <3>9. line'[Target(d)][d] = T2 /\ line'[Source(d)][d] = <<>> /\ wrote'[d] = n2 /\ hold'[d] = <<>>
      BY <3>4
    <3> HIDE DEF T2, n2
    <3>10. DataOf(got[d], T2, <<>>, <<>>, n2, Flows(d), Here(d) \notin lost)
      BY <3>8, DataKept
    <3>11. QED BY <1>u, <3>9, <3>10, DataMoved
  <2>5. QED BY <2>2, <2>3, <2>4, Places
<1>7. QED BY <1>5, <1>6

\* The users' reads.
LEMMA DataReads ==
    ASSUME TypeOK, PhaseInv, Fronts, [Next]_vars,
           OpenerReads \/ \E h \in Hops : HandlerReads(h),
           NEW d \in Dirs, DataInv(d)
    PROVE  DataInv(d)'
<1>t. /\ line \in [Hops -> [Dirs -> Seq(Items)]] /\ hold \in [Dirs -> Seq(Items)]
      /\ got \in [Dirs -> Seq(Items)]
  BY DEF TypeOK
<1>u. UNCHANGED <<opener, hold, wrote>>
  BY DEF OpenerReads, HandlerReads, opening, pipes
<1> DEFINE T == line[Target(d)][d]
           S == line[Source(d)][d]
<1>2. T \in Seq(Items) /\ S \in Seq(Items) /\ got[d] \in Seq(Items)
  BY <1>t, Places
<1>3. DataOf(got[d], T, hold[d], S, wrote[d], Flows(d), Here(d) \notin lost)
  BY DEF DataInv
<1>4. ASSUME NEW h \in Hops, NEW e \in Dirs, e # d, Drop(h, e, 1),
             got' = [got EXCEPT ![e] = Append(@, Head(line[h][e]))]
      PROVE  DataInv(d)'
  <2>1. got'[d] = got[d] /\ \A g \in Hops : line'[g][d] = line[g][d]
    BY <1>4, <1>t DEF Drop
  <2>2. QED BY <1>u, <2>1, Places, DataStill
\* From the line to the reader.
<1>5. ASSUME T # <<>>, NoFrames(T), Drop(Target(d), d, 1), got' = [got EXCEPT ![d] = Append(@, Head(T))]
      PROVE  DataInv(d)'
  <2>1. /\ line'[Target(d)][d] = SubSeq(T, 2, Len(T)) /\ line'[Source(d)][d] = S
        /\ got'[d] = Append(got[d], Head(T))
    BY <1>5, <1>t, Places DEF Drop
  <2> HIDE DEF T, S
  <2>2. DataOf(Append(got[d], Head(T)), SubSeq(T, 2, Len(T)), hold[d], S, wrote[d],
               Flows(d), Here(d) \notin lost)
    BY <1>2, <1>3, <1>5, DataRead
  <2>3. QED BY <1>u, <2>1, <2>2, DataMoved
<1>6. CASE OpenerReads
  <2>1. /\ opener["near"] = "opened" /\ line["near"]["back"] # <<>> /\ Drop("near", "back", 1)
        /\ got' = [got EXCEPT !["back"] = Append(@, Head(line["near"]["back"]))]
    BY <1>6 DEF OpenerReads
  <2>2. NoFrames(line["near"]["back"])
    BY <2>1, Places DEF Fronts, FrontInv, Front
  <2>3. CASE d = "back"
    BY <1>5, <2>1, <2>2, <2>3, Places
  <2>4. CASE d = "fwd"
    BY <1>4, <2>1, <2>4, Places
  <2>5. QED BY <2>3, <2>4, Places
<1>7. ASSUME NEW h \in Hops, HandlerReads(h)
      PROVE  DataInv(d)'
  <2>1. /\ server[h] = "handling" /\ line[h]["fwd"] # <<>> /\ Drop(h, "fwd", 1)
        /\ got' = [got EXCEPT !["fwd"] = Append(@, Head(line[h]["fwd"]))]
    BY <1>7 DEF HandlerReads
  <2>2. NoFrames(line[h]["fwd"])
    BY <2>1 DEF Fronts, FrontInv, Front, AcceptedStates
  <2>3. CASE d = "back"
    BY <1>4, <2>1, <2>3, Places
  <2>4. CASE d = "fwd" /\ h = "far"
    BY <1>5, <2>1, <2>2, <2>4, Places
  <2>5. CASE d = "fwd" /\ h = "near"
    <3>1. pipe["fwd"] = "off" /\ hold["fwd"] = <<>> /\ NoBytes(line["far"]["fwd"])
      BY <2>1, <2>5, Places DEF PhaseInv, FarInv
    <3>2. hold[d] = <<>> /\ NoBytes(T) /\ S # <<>> /\ NoFrames(S) /\ Flows(d)
      BY <2>1, <2>2, <2>5, <3>1, Places DEF Flows
    <3>3. /\ line'[Target(d)][d] = T /\ line'[Source(d)][d] = SubSeq(S, 2, Len(S))
          /\ got'[d] = Append(got[d], Head(S))
      BY <1>t, <2>1, <2>5, Places DEF Drop
    <3> HIDE DEF T, S
    <3>4. DataOf(Append(got[d], Head(S)), T, <<>>, SubSeq(S, 2, Len(S)), wrote[d],
                 Flows(d), Here(d) \notin lost)
      BY <1>2, <1>3, <3>2, DataReadOne
    <3>5. QED BY <1>u, <3>2, <3>3, <3>4, DataMoved
  <2>6. QED BY <2>3, <2>4, <2>5, Places
<1>8. QED BY <1>6, <1>7

\* The network.
LEMMA DataLoses ==
    ASSUME TypeOK, PhaseInv, Fronts, [Next]_vars, NEW g \in Hops, LoseTail(g),
           UNCHANGED <<opener, pipe, hold, wrote, got>>,
           NEW d \in Dirs, DataInv(d)
    PROVE  DataInv(d)'
<1>t. line \in [Hops -> [Dirs -> Seq(Items)]] /\ got \in [Dirs -> Seq(Items)]
  BY DEF TypeOK
<1> DEFINE T == line[Target(d)][d]
           S == line[Source(d)][d]
<1>2. T \in Seq(Items) /\ S \in Seq(Items) /\ got[d] \in Seq(Items)
  BY <1>t, Places
<1>3. DataOf(got[d], T, hold[d], S, wrote[d], Flows(d), Here(d) \notin lost)
  BY DEF DataInv
<1>4. /\ lost' = lost \cup {g}
      /\ \E k \in 0..Len(line[g][d]) : line'[g][d] = SubSeq(line[g][d], 1, k)
      /\ \A g2 \in Hops : g2 # g => line'[g2][d] = line[g2][d]
  BY <1>t, Losing
<1>h. Here(d)' = Here(d) /\ Target(d)' = Target(d) /\ Source(d)' = Source(d)
  BY DEF Here, Target, Source
<1> DEFINE fl == Flows(d)'
           wh == Here(d)' \notin lost'
<1>5. CASE g = Target(d)
  <2>1. PICK k \in 0..Len(T) : line'[Target(d)][d] = SubSeq(T, 1, k)
    BY <1>4, <1>5
  <2>2. line'[Source(d)][d] = S
    BY <1>4, <1>5, Places
  <2>3. fl => pipe[d] = "off" /\ Flows(d)
    BY <1>4, <1>5, <1>h DEF Flows
  <2>4. ASSUME pipe[d] = "off"
        PROVE  NoBytes(T) \/ (hold[d] = <<>> /\ S = <<>> /\ Here(d) = Target(d))
    <3>1. CASE d = "back" /\ opener["far"] = "idle"
      <4>1. S = <<>>
        BY <3>1, Places DEF Fronts, FrontInv, Front, Unanswered
      <4>2. QED BY <2>4, <3>1, <4>1, Places DEF PhaseInv, Here
    <3>2. CASE d = "fwd" \/ opener["far"] # "idle"
      BY <2>4, <3>2, Places DEF PhaseInv
    <3>3. QED BY <3>1, <3>2, Places
  <2>5. fl /\ wh => NoBytes(T) /\ Here(d) \notin lost
    BY <1>4, <1>5, <1>h, <2>3, <2>4
  <2>6. fl => Flows(d) /\ (NoBytes(T) \/ (hold[d] = <<>> /\ S = <<>>))
    BY <2>3, <2>4
  <2> HIDE DEF T, S, fl, wh
  <2>7. DataOf(got[d], SubSeq(T, 1, k), hold[d], S, wrote[d], fl, NoBytes(T) /\ Here(d) \notin lost)
    BY <1>2, <1>3, <2>6, DataCutTarget
  <2> DEFINE T2 == SubSeq(T, 1, k)
  <2>8. DataOf(got[d], T2, hold[d], S, wrote[d], fl, NoBytes(T) /\ Here(d) \notin lost)
    BY <2>7
  <2> HIDE DEF T2
  <2>9. DataOf(got[d], T2, hold[d], S, wrote[d], fl, wh)
    BY <2>5, <2>8 DEF DataOf
  <2>10. QED BY <1>h, <2>1, <2>2, <2>9 DEF DataInv, fl, wh, T2
<1>6. CASE g = Source(d)
  <2>1. PICK k \in 0..Len(S) : line'[Source(d)][d] = SubSeq(S, 1, k)
    BY <1>4, <1>6
  <2>2. line'[Target(d)][d] = T
    BY <1>4, <1>6, Places
  <2>3. fl => Flows(d)
    BY FlowsStep
  <2>4. CASE Here(d) = Source(d)
    <3>1. ~wh
      BY <1>4, <1>6, <1>h, <2>4
    <3> HIDE DEF T, S, fl, wh
    <3>2. DataOf(got[d], T, hold[d], SubSeq(S, 1, k), wrote[d], Flows(d), FALSE)
      BY <1>2, <1>3, DataCutSource
    <3> DEFINE S2 == SubSeq(S, 1, k)
    <3>3. DataOf(got[d], T, hold[d], S2, wrote[d], Flows(d), FALSE)
      BY <3>2
    <3> HIDE DEF S2
    <3>4. DataOf(got[d], T, hold[d], S2, wrote[d], fl, wh)
      BY <2>3, <3>1, <3>3 DEF DataOf
    <3>5. QED BY <1>h, <2>1, <2>2, <3>4 DEF DataInv, fl, wh, S2
  <2>5. CASE Here(d) # Source(d)
    <3>1. d = "back" /\ opener["far"] = "idle"
      BY <2>5, Places DEF Here
    <3>2. S = <<>>
      BY <3>1, Places DEF Fronts, FrontInv, Front, Unanswered
    <3>3. line'[Source(d)][d] = S
      BY <2>1, <3>2
    <3>4. QED BY <2>2, <3>3, DataStill
  <2>6. QED BY <2>4, <2>5
<1>7. QED BY <1>5, <1>6, Places

-----------------------------------------------------------------------------
(* All that is proved of the bytes, together.                               *)

\* What is proved of the bytes on every step.
StreamDataInv == Fronts /\ PhaseInv /\ \A d \in Dirs : DataInv(d)

LEMMA DataInit == Init => StreamDataInv
<1> SUFFICES ASSUME Init
             PROVE  StreamDataInv
  OBVIOUS
<1>t. /\ \A h \in Hops : opener[h] = "idle" /\ server[h] = "idle" /\ shut[h] = {}
      /\ \A h \in Hops, d \in Dirs : line[h][d] = <<>>
      /\ \A d \in Dirs : hold[d] = <<>> /\ got[d] = <<>> /\ wrote[d] = 0 /\ pipe[d] = "off"
      /\ lost = {}
  BY DEF Init
<1>1. Fronts
  BY <1>t, NoItems, Places DEF Fronts, FrontInv, Front, Unanswered, AcceptedStates
<1>2. PhaseInv
  BY <1>t, NoItems, Places DEF PhaseInv, FarInv
<1>3. ASSUME NEW d \in Dirs
      PROVE  DataInv(d)
  <2> DEFINE fl == Flows(d)
             wh == Here(d) \notin lost
  <2> HIDE DEF fl, wh
  <2>1. DataOf(<<>>, <<>>, <<>>, <<>>, 0, fl, wh)
    BY NoItems, DataNone
  <2>2. QED BY <1>t, <2>1, Places DEF DataInv, fl, wh
<1>4. QED BY <1>1, <1>2, <1>3 DEF StreamDataInv

LEMMA DataStep == TypeOK /\ StreamDataInv /\ [Next]_vars => StreamDataInv'
<1> SUFFICES ASSUME TypeOK, StreamDataInv, [Next]_vars
             PROVE  StreamDataInv'
  OBVIOUS
<1>p. Fronts /\ PhaseInv /\ (\A h \in Hops : FrontInv(h)) /\ \A d \in Dirs : DataInv(d)
  BY DEF StreamDataInv, Fronts
<1>1. Fronts'
  BY <1>p, FrontStep DEF Fronts
<1>2. PhaseInv'
  BY <1>p, PhaseStep
<1>3. ASSUME NEW d \in Dirs
      PROVE  DataInv(d)'
  <2>t. opener \in [Hops -> OpenerStates] /\ DataInv(d)
    BY <1>p DEF TypeOK
  <2>1. ASSUME UNCHANGED <<line, hold, wrote, got>>,
               opener'["far"] = "idle" <=> opener["far"] = "idle"
        PROVE  DataInv(d)'
    BY <1>p, <2>1, <2>t, DataStill
  <2>2. ASSUME NEW h \in Hops, HopStep(h) \/ Ask(h)
        PROVE  DataInv(d)'
    <3>1. CASE Ask(h) \/ Answer(h) \/ Check(h) \/ TakeAnswer(h)
      BY <1>p, <2>t, <3>1, DataFrames
    <3>2. CASE NoAnswer(h)
      BY <2>1, <2>t, <3>2, Places DEF NoAnswer, Opener, pipes, data
    <3>3. CASE Accept(h) \/ Serve(h) \/ GiveUp(h)
      BY <2>1, <3>3 DEF Accept, Serve, GiveUp, pipes, data
    <3>4. QED BY <2>2, <3>1, <3>2, <3>3 DEF HopStep
  <2>3. ASSUME NEW e \in Dirs, PipeStep(e)
        PROVE  DataInv(d)'
    BY <1>p, <2>3, <2>t, DataPipes
  <2>4. CASE OpenerWrites \/ \E h \in Hops : HandlerWrites(h)
    BY <1>p, <2>4, <2>t, DataWrites
  <2>5. CASE OpenerReads \/ \E h \in Hops : HandlerReads(h)
    BY <1>p, <2>5, <2>t, DataReads
  <2>6. ASSUME NEW h \in Hops, CutSession(h) \/ Lose(h)
        PROVE  DataInv(d)'
    <3>1. LoseTail(h) /\ UNCHANGED <<opener, pipe, hold, wrote, got>>
      BY <2>6 DEF CutSession, Lose, opening, pipes, data
    <3>2. QED BY <1>p, <2>t, <3>1, DataLoses
  <2>7. CASE OpenerCloses
    BY <2>1, <2>7, <2>t, Places DEF OpenerCloses, Opener, pipes, data
  <2>8. CASE \E h \in Hops : HandlerReturns(h) \/ ForceClose(h) \/ CloseSession(h)
    BY <2>1, <2>8 DEF HandlerReturns, ForceClose, CloseSession, opening, pipes, data
  <2>9. CASE HubStep \/ Expire \/ UNCHANGED vars
    BY <2>1, <2>9 DEF HubStep, Relay, StartPipes, ServeHubReturn, Expire, vars, opening, pipes, data
  <2>10. QED
    BY <2>2, <2>3, <2>4, <2>5, <2>6, <2>7, <2>8, <2>9, Places DEF Next, SessionStep, UserStep
<1>4. QED BY <1>1, <1>2, <1>3 DEF StreamDataInv

LEMMA DataImplies == TypeOK /\ StreamDataInv => BytesInOrder
<1> SUFFICES ASSUME TypeOK, StreamDataInv, NEW d \in Dirs
             PROVE  /\ got[d] = FirstBytes(Len(got[d]))
                    /\ lost = {} /\ (\A h \in Hops : shut[h] = {}) =>
                          \E a, b \in 0..wrote[d] :
                             /\ Carries(line[Target(d)][d], Len(got[d]), a)
                             /\ Carries(hold[d], a, b)
                             /\ Carries(line[Source(d)][d], b, wrote[d])
  BY DEF BytesInOrder
<1>1. DataOf(got[d], line[Target(d)][d], hold[d], line[Source(d)][d], wrote[d], Flows(d), Here(d) \notin lost)
  BY DEF StreamDataInv, DataInv
<1>2. got[d] = FirstBytes(Len(got[d]))
  BY <1>1 DEF DataOf
<1>3. ASSUME lost = {}, \A h \in Hops : shut[h] = {}
      PROVE  \E a, b \in 0..wrote[d] :
                /\ Carries(line[Target(d)][d], Len(got[d]), a)
                /\ Carries(hold[d], a, b)
                /\ Carries(line[Source(d)][d], b, wrote[d])
  <2>1. Flows(d) /\ Here(d) \notin lost
    BY <1>3 DEF StreamDataInv, PhaseInv, Flows
  <2>2. PICK a \in Nat, b \in Nat : /\ Carries(line[Target(d)][d], Len(got[d]), a)
                                    /\ Carries(hold[d], a, b)
                                    /\ Carries(line[Source(d)][d], b, wrote[d])
    BY <1>1, <2>1 DEF DataOf
  <2>3. a <= b /\ b <= wrote[d]
    BY <2>2 DEF Carries
  <2>4. a \in 0..wrote[d] /\ b \in 0..wrote[d]
    <3>1. wrote[d] \in Nat
      BY DEF TypeOK
    <3>2. QED BY <2>3, <3>1
  <2>5. QED BY <2>2, <2>4
<1>4. QED BY <1>2, <1>3

\* What each end reads is a beginning of what the other end wrote, for every
\* window, buffer and number of bytes, over one hop and over two, and as long as
\* no end is closed and no connection lost every byte not yet read is under way.
THEOREM BytesArriveInOrder == Spec => []BytesInOrder
<1>1. Init => TypeOK /\ StreamDataInv
  BY InvInit, DataInit
<1>2. TypeOK /\ StreamDataInv /\ [Next]_vars => (TypeOK /\ StreamDataInv)'
  BY TypeStep, DataStep
<1>3. QED
  BY <1>1, <1>2, DataImplies, PTL DEF Spec
=============================================================================
