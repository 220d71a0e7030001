----------------------------- MODULE ConnectProofs -----------------------------
(* What is proved of how a client connects: of the waits between its dials,  *)
(* for every policy, width of the integers and length of a second; and of    *)
(* the handshake that follows, wherever its frames are torn.                 *)
(* The two modules share no variable, and no theorem is about both.          *)
EXTENDS Retry, Handshake, WellFoundedInduction, TLAPS

-----------------------------------------------------------------------------
(* Induction over the numbers of the attempts.                              *)

Before == {p \in Nat \X Nat : p[1] < p[2]}

LEMMA BeforeIsWellFounded == IsWellFoundedOn(Before, Nat)
<1>1. IsWellFoundedOn({p \in Nat \X Nat : p[1] < p[2]}, Nat)
  BY NatLessThanWellFounded, Zenon DEF OpToRel
<1>2. QED BY <1>1 DEF Before

\* A set that holds 0, and with a number the next, holds them all.
LEMMA Induction ==
    ASSUME NEW G, 0 \in G, \A n \in Nat : n \in G => n + 1 \in G
    PROVE  Nat \subseteq G
<1> DEFINE T == Nat \ G
<1>1. SUFFICES ASSUME T # {}
               PROVE  FALSE
  OBVIOUS
<1>2. PICK x \in T : \A y \in T : <<y, x>> \notin Before
  <2>1. T \subseteq Nat
    OBVIOUS
  <2>2. QED BY <1>1, <2>1, BeforeIsWellFounded, WFMin
<1>3. x \in Nat /\ x # 0
  OBVIOUS
<1>4. x - 1 \in Nat /\ x - 1 \in T
  BY <1>3
<1>5. <<x - 1, x>> \in Before
  BY <1>3, <1>4 DEF Before
<1>6. QED BY <1>2, <1>4, <1>5

LEMMA Parameters ==
    /\ RetryMax \in Nat /\ WaitMin \in Nat \ {0} /\ WaitMax \in Nat /\ Limit \in Nat
    /\ WaitMin <= Limit /\ WaitMax <= Limit
    /\ Second \in Nat \ {0} /\ Nap \in Nat \ {0} /\ Late \in Nat
BY RetryAssumption DEF RetryAssumption

-----------------------------------------------------------------------------
(* The policy.                                                              *)

\* f holds the products up to the n-th.
Products(f, n) == \A i \in 0..n : f[i] = IF i = 0 THEN WaitMin ELSE 2 * f[i - 1]

LEMMA ProductsExist == \A n \in Nat : \E f \in [0..n -> Nat] : Products(f, n)
<1> DEFINE G == {n \in Nat : \E f \in [0..n -> Nat] : Products(f, n)}
<1>1. 0 \in G
  <2> DEFINE f == [i \in 0..0 |-> WaitMin]
  <2>1. f \in [0..0 -> Nat] /\ Products(f, 0)
    BY Parameters DEF Products
  <2>2. QED BY <2>1
<1>2. ASSUME NEW n \in Nat, n \in G
      PROVE  n + 1 \in G
  <2>1. PICK f \in [0..n -> Nat] : Products(f, n)
    BY <1>2
  <2> DEFINE g == [i \in 0..(n + 1) |-> IF i = n + 1 THEN 2 * f[n] ELSE f[i]]
  <2>2. g \in [0..(n + 1) -> Nat]
    <3>1. f[n] \in Nat /\ \A i \in 0..(n + 1) : i # n + 1 => i \in 0..n
      OBVIOUS
    <3>2. QED BY <3>1
  <2>3. Products(g, n + 1)
    <3>1. ASSUME NEW i \in 0..(n + 1)
          PROVE  g[i] = IF i = 0 THEN WaitMin ELSE 2 * g[i - 1]
      <4>1. CASE i = n + 1
        <5>1. i # 0 /\ i - 1 = n /\ n \in 0..(n + 1) /\ n # n + 1
          BY <4>1
        <5>2. g[i] = 2 * f[n] /\ g[i - 1] = f[n]
          BY <4>1, <5>1
        <5>3. QED BY <5>1, <5>2
      <4>2. CASE i # n + 1
        <5>1. i \in 0..n /\ g[i] = f[i] /\ (i # 0 => i - 1 \in 0..(n + 1) /\ i - 1 # n + 1)
          BY <4>2
        <5>2. i # 0 => g[i - 1] = f[i - 1]
          BY <5>1
        <5>3. QED BY <2>1, <5>1, <5>2 DEF Products
      <4>3. QED BY <4>1, <4>2
    <3> HIDE DEF g
    <3>2. QED BY <3>1 DEF Products
  <2> HIDE DEF g
  <2>4. n + 1 \in Nat
    OBVIOUS
  <2>5. QED BY <2>2, <2>3, <2>4
<1> HIDE DEF G
<1>3. Nat \subseteq G
  BY <1>1, <1>2, Induction
<1>4. QED BY <1>3 DEF G

LEMMA ProductsAgree ==
    ASSUME NEW n \in Nat, NEW m \in Nat, NEW f, NEW g, Products(f, n), Products(g, m)
    PROVE  \A i \in Nat : i <= n /\ i <= m => f[i] = g[i]
<1> DEFINE G == {i \in Nat : i <= n /\ i <= m => f[i] = g[i]}
<1>1. 0 \in G
  BY DEF Products
<1>2. ASSUME NEW i \in Nat, i \in G
      PROVE  i + 1 \in G
  <2>1. SUFFICES ASSUME i + 1 <= n, i + 1 <= m
                 PROVE  f[i + 1] = g[i + 1]
    OBVIOUS
  <2>2. i + 1 \in 0..n /\ i + 1 \in 0..m /\ i + 1 # 0 /\ i + 1 - 1 = i
    BY <2>1
  <2>3. f[i + 1] = 2 * f[i] /\ g[i + 1] = 2 * g[i]
    BY <2>2 DEF Products
  <2>4. f[i] = g[i]
    BY <1>2, <2>1
  <2>5. QED BY <2>3, <2>4
<1> HIDE DEF G
<1>3. Nat \subseteq G
  BY <1>1, <1>2, Induction
<1>4. QED BY <1>3 DEF G

\* So the recursive definition has the solution that it seems to have.
LEMMA ProductDef ==
    /\ Product \in [Nat -> Nat]
    /\ \A n \in Nat : Product[n] = IF n = 0 THEN WaitMin ELSE 2 * Product[n - 1]
<1> DEFINE upTo(n) == CHOOSE f \in [0..n -> Nat] : Products(f, n)
           F == [n \in Nat |-> upTo(n)[n]]
<1>1. \A n \in Nat : upTo(n) \in [0..n -> Nat] /\ Products(upTo(n), n)
  BY ProductsExist
<1> HIDE DEF upTo
<1>2. ASSUME NEW n \in Nat
      PROVE  F[n] = IF n = 0 THEN WaitMin ELSE 2 * F[n - 1]
  <2>1. n \in 0..n /\ F[n] = upTo(n)[n]
    OBVIOUS
  <2>2. CASE n = 0
    BY <1>1, <2>1, <2>2 DEF Products
  <2>3. CASE n # 0
    <3>1. n - 1 \in Nat /\ n - 1 <= n /\ n - 1 <= n - 1
      BY <2>3
    <3>2. upTo(n)[n] = 2 * upTo(n)[n - 1]
      BY <1>1, <2>1, <2>3 DEF Products
    <3>3. upTo(n)[n - 1] = upTo(n - 1)[n - 1]
      BY <1>1, <3>1, ProductsAgree
    <3>4. F[n - 1] = upTo(n - 1)[n - 1]
      BY <3>1
    <3>5. QED BY <2>1, <2>3, <3>2, <3>3, <3>4
  <2>4. QED BY <2>2, <2>3
<1>3. F \in [Nat -> Nat]
  <2>1. ASSUME NEW n \in Nat
        PROVE  upTo(n)[n] \in Nat
    BY <1>1
  <2>2. QED BY <2>1
<1> HIDE DEF F
<1>4. F = [n \in Nat |-> IF n = 0 THEN WaitMin ELSE 2 * F[n - 1]]
  <2>1. DOMAIN F = Nat /\ F = [n \in Nat |-> F[n]]
    BY <1>3
  <2>2. QED BY <1>2, <2>1
<1>5. Product = CHOOSE f : f = [n \in Nat |-> IF n = 0 THEN WaitMin ELSE 2 * f[n - 1]]
  BY DEF Product
<1>6. Product = [n \in Nat |-> IF n = 0 THEN WaitMin ELSE 2 * Product[n - 1]]
  BY <1>4, <1>5
<1>7. \A n \in Nat : Product[n] = IF n = 0 THEN WaitMin ELSE 2 * Product[n - 1]
  BY <1>6
<1>8. Product \in [Nat -> Nat]
  <2> DEFINE G == {n \in Nat : Product[n] \in Nat}
  <2>1. 0 \in G
    BY <1>7, Parameters
  <2>2. ASSUME NEW n \in Nat, n \in G
        PROVE  n + 1 \in G
    <3>1. n + 1 \in Nat /\ n + 1 # 0 /\ n + 1 - 1 = n
      OBVIOUS
    <3>2. Product[n + 1] = 2 * Product[n]
      BY <1>7, <3>1
    <3>3. QED BY <2>2, <3>1, <3>2
  <2> HIDE DEF G
  <2>3. Nat \subseteq G
    BY <2>1, <2>2, Induction
  <2>4. \A n \in Nat : Product[n] \in Nat
    BY <2>3 DEF G
  <2>5. QED BY <1>6, <2>4
<1>9. QED BY <1>7, <1>8

\* The wait that the policy means: the product, capped.
Wait(n) == IF Product[n] > WaitMax THEN WaitMax ELSE Product[n]

\* The products never become smaller.
LEMMA ProductGrows ==
    \A n \in Nat : /\ Product[n] \in Nat /\ Product[n] >= WaitMin
                   /\ n > 0 => Product[n] >= Product[n - 1]
<1>1. \A n \in Nat : n > 0 => Product[n] >= Product[n - 1]
  <2>1. ASSUME NEW n \in Nat, n > 0
        PROVE  Product[n] >= Product[n - 1]
    <3>1. n - 1 \in Nat /\ Product[n - 1] \in Nat /\ Product[n] = 2 * Product[n - 1]
      BY <2>1, ProductDef
    <3>2. QED BY <3>1
  <2>2. QED BY <2>1
<1>2. \A n \in Nat : Product[n] >= WaitMin
  <2> DEFINE G == {n \in Nat : Product[n] >= WaitMin}
  <2>1. 0 \in G
    BY Parameters, ProductDef
  <2>2. ASSUME NEW n \in Nat, n \in G
        PROVE  n + 1 \in G
    <3>1. n + 1 \in Nat /\ n + 1 > 0 /\ n + 1 - 1 = n
      OBVIOUS
    <3>2. Product[n + 1] >= Product[n] /\ Product[n] >= WaitMin
      BY <1>1, <2>2, <3>1
    <3>3. Product[n + 1] \in Nat /\ Product[n] \in Nat /\ WaitMin \in Nat
      BY <3>1, Parameters, ProductDef
    <3>4. Product[n + 1] >= WaitMin
      BY <3>2, <3>3
    <3>5. QED BY <3>1, <3>4
  <2> HIDE DEF G
  <2>3. Nat \subseteq G
    BY <2>1, <2>2, Induction
  <2>4. QED BY <2>3 DEF G
<1>3. QED BY <1>1, <1>2, ProductDef

\* The test for an overflow finds each, whatever the conversion gives: the policy
\* returns the wait it means, and nothing else.
LEMMA PolicyIsWait == \A n \in Nat : Policy(n) = {Wait(n)}
<1> SUFFICES ASSUME NEW n \in Nat
             PROVE  Policy(n) = {Wait(n)}
  OBVIOUS
<1> DEFINE p == Product[n]
           of(w) == IF AsFloat(w) # p \/ w > WaitMax THEN WaitMax ELSE w
<1>1. p \in Nat
  BY ProductDef
<1>2. Policy(n) = {of(w) : w \in Converted(p)}
  BY DEF Policy
<1>3. Wait(n) = IF p > WaitMax THEN WaitMax ELSE p
  BY DEF Wait
<1> HIDE DEF p
<1>4. ASSUME p <= Limit
      PROVE  Policy(n) = {Wait(n)}
  <2>1. Converted(p) = {p}
    BY <1>4 DEF Converted
  <2>2. of(p) = Wait(n)
    BY <1>1, <1>3, <1>4, Parameters DEF AsFloat
  <2>3. QED BY <1>2, <2>1, <2>2
<1>5. ASSUME p > Limit
      PROVE  Policy(n) = {Wait(n)}
  <2>1. Converted(p) = {-(Limit + 1), Limit}
    BY <1>1, <1>5, Parameters DEF Converted
  <2>2. Wait(n) = WaitMax
    BY <1>1, <1>3, <1>5, Parameters
  <2>3. of(-(Limit + 1)) = WaitMax
    BY <1>1, Parameters DEF AsFloat
  <2>4. of(Limit) = WaitMax
    BY Parameters
  <2>5. QED BY <1>2, <2>1, <2>2, <2>3, <2>4
<1>6. QED BY <1>1, <1>4, <1>5, Parameters

LEMMA WaitGrows ==
    \A n \in Nat : /\ Wait(n) \in Nat /\ Wait(n) <= WaitMax
                   /\ Wait(n) >= WaitMin \/ Wait(n) = WaitMax
                   /\ n > 0 => Wait(n) >= Wait(n - 1)
<1> SUFFICES ASSUME NEW n \in Nat
             PROVE  /\ Wait(n) \in Nat /\ Wait(n) <= WaitMax
                    /\ Wait(n) >= WaitMin \/ Wait(n) = WaitMax
                    /\ n > 0 => Wait(n) >= Wait(n - 1)
  OBVIOUS
<1>1. Product[n] \in Nat /\ Product[n] >= WaitMin /\ (n > 0 => Product[n] >= Product[n - 1])
  BY ProductGrows
<1>2. n > 0 => Product[n - 1] \in Nat
  BY ProductGrows
<1>3. QED BY <1>1, <1>2, Parameters DEF Wait

-----------------------------------------------------------------------------
(* The loop.                                                                *)

\* The wait of an attempt is kept until the next one begins its own.
WaitInv ==
    /\ Waiting \/ con = "dialing" => attempts >= 1
    /\ (Waiting \/ con = "top") /\ attempts >= 1 => due - began = Wait(attempts - 1)
    /\ con = "dialing" /\ attempts > 1 => due - began = Wait(attempts - 2)
    /\ con = "up" => attempts = 0

\* A nap begins before the wait is over, and a Close is noticed after it.
NapInv ==
    /\ con = "polling" => now < due + Nap + Late
    /\ con = "sleeping" => wake < due + Nap /\ now <= wake + Late
    /\ con = "sleeping" => since <= now - (wake - Nap)
    /\ ~closed => since = 0
    /\ since <= Nap + Late

LoopInv == RetryTypeOK /\ WaitInv /\ NapInv

LEMMA Division ==
    ASSUME NEW x \in Int
    PROVE  /\ x \div Second \in Int /\ x % Second \in Nat /\ x % Second < Second
           /\ x = Second * (x \div Second) + (x % Second)
BY Parameters

\* What comparing whole seconds says about the clock.
LEMMA WholeSeconds ==
    ASSUME NEW x \in Int, NEW y \in Int
    PROVE  /\ x \div Second <= y \div Second => y > x - Second
           /\ x \div Second > y \div Second => y < x
<1> DEFINE a == x \div Second
           b == y \div Second
<1>1. a \in Int /\ x >= Second * a /\ x < Second * a + Second
  BY Division, Parameters
<1>2. b \in Int /\ y >= Second * b /\ y < Second * b + Second
  BY Division, Parameters
<1> HIDE DEF a, b
<1>3. Second \in Nat /\ Second * a \in Int /\ Second * b \in Int
  BY <1>1, <1>2, Parameters
<1>4. a <= b => Second * a <= Second * b
  BY <1>1, <1>2, <1>3
<1>5. a > b => Second * b + Second <= Second * a
  BY <1>1, <1>2, <1>3
<1>6. (a <= b => y > x - Second) /\ (a > b => y < x)
  BY <1>1, <1>2, <1>3, <1>4, <1>5
<1>7. QED BY <1>6 DEF a, b

LEMMA LoopInit == RetryInit => LoopInv
<1> SUFFICES ASSUME RetryInit
             PROVE  LoopInv
  OBVIOUS
<1>1. RetryTypeOK
  <2>1. now \in Nat /\ began \in Nat /\ due \in Int /\ wake \in Nat
    BY Parameters DEF RetryInit
  <2>2. attempts \in 0..RetryMax
    BY Parameters DEF RetryInit
  <2>3. con \in States /\ closed \in BOOLEAN /\ since \in Nat /\ reachable \in BOOLEAN
    BY DEF RetryInit, States
  <2>4. QED BY <2>1, <2>2, <2>3 DEF RetryTypeOK
<1>2. WaitInv
  BY DEF RetryInit, WaitInv, Waiting
<1>3. NapInv
  BY Parameters DEF RetryInit, NapInv
<1>4. QED BY <1>1, <1>2, <1>3 DEF LoopInv

\* The steps of the loop.
LEMMA TopKeeps == LoopInv /\ Top => LoopInv'
<1> SUFFICES ASSUME LoopInv, Top
             PROVE  LoopInv'
  OBVIOUS
<1> USE DEF LoopInv, Top, Goto, times
<1>1. RetryTypeOK'
  BY Parameters DEF RetryTypeOK, States
<1>2. WaitInv'
  <2>1. ASSUME attempts >= RetryMax \/ closed
        PROVE  WaitInv'
    BY <2>1 DEF WaitInv, Waiting
  <2>2. ASSUME ~(attempts >= RetryMax \/ closed)
        PROVE  WaitInv'
    <3>1. con' = "dialing" /\ attempts' = attempts + 1 /\ due' = due /\ began' = began
      BY <2>2
    <3>2. attempts \in Nat /\ (attempts >= 1 => due - began = Wait(attempts - 1))
      BY DEF RetryTypeOK, WaitInv
    <3>3. attempts' - 2 = attempts - 1
      BY <3>1, <3>2
    <3>4. QED BY <3>1, <3>2, <3>3 DEF WaitInv, Waiting
  <2>3. QED BY <2>1, <2>2
<1>3. NapInv'
  BY DEF NapInv
<1>4. QED BY <1>1, <1>2, <1>3

LEMMA RefusedKeeps == LoopInv /\ Refused => LoopInv'
<1> SUFFICES ASSUME LoopInv, Refused
             PROVE  LoopInv'
  OBVIOUS
<1>1. attempts \in 0..RetryMax /\ attempts >= 1 /\ attempts - 1 \in Nat
  BY Parameters DEF LoopInv, RetryTypeOK, WaitInv, Refused, Waiting
<1>2. now' \in Nat /\ began' = now'
  BY Division DEF LoopInv, RetryTypeOK, Refused, Rebase
<1>3. due' = now' + Wait(attempts - 1)
  BY <1>1, PolicyIsWait DEF Refused
<1>4. Wait(attempts - 1) \in Nat
  BY <1>1, WaitGrows
<1>5. con' = "polling" /\ attempts' = attempts
  BY DEF Refused, Goto
<1>6. RetryTypeOK'
  BY <1>1, <1>2, <1>3, <1>4, <1>5 DEF LoopInv, RetryTypeOK, States, Refused
<1>7. WaitInv'
  BY <1>1, <1>2, <1>3, <1>4, <1>5 DEF WaitInv, Waiting
<1>8. NapInv'
  <2>1. now' < due' + Nap + Late
    BY <1>2, <1>3, <1>4, Parameters
  <2>2. QED BY <1>5, <2>1 DEF LoopInv, NapInv, Refused
<1>9. QED BY <1>6, <1>7, <1>8 DEF LoopInv

LEMMA PollKeeps == LoopInv /\ Poll => LoopInv'
<1> SUFFICES ASSUME LoopInv, Poll
             PROVE  LoopInv'
  OBVIOUS
<1>1. RetryTypeOK'
  BY Parameters DEF LoopInv, RetryTypeOK, States, Poll, Goto
<1>2. WaitInv'
  BY DEF LoopInv, WaitInv, Waiting, Poll, Goto
<1>3. NapInv'
  <2>1. CASE due \div Second <= now \div Second \/ closed
    BY <2>1 DEF LoopInv, NapInv, Poll, Goto
  <2>2. CASE ~(due \div Second <= now \div Second \/ closed)
    <3>1. now \in Nat /\ due \in Int
      BY DEF LoopInv, RetryTypeOK
    <3>2. due \div Second \in Int /\ now \div Second \in Int
      BY <3>1, Division
    <3>3. now < due
      BY <2>2, <3>1, <3>2, WholeSeconds
    <3>4. con' = "sleeping" /\ wake' = now + Nap /\ now' = now /\ due' = due
      BY <2>2 DEF Poll, Goto
    <3>5. since = 0 /\ since' = since /\ closed' = closed
      BY <2>2 DEF LoopInv, NapInv, Poll
    <3>6. QED BY <3>1, <3>3, <3>4, <3>5, Parameters DEF NapInv
  <2>3. QED BY <2>1, <2>2
<1>4. QED BY <1>1, <1>2, <1>3 DEF LoopInv

LEMMA OtherStepsKeep ==
    /\ LoopInv /\ (DialFails \/ Connected \/ Wake \/ ConnectionEnds) => LoopInv'
    /\ LoopInv /\ (Close \/ Toggle \/ UNCHANGED retryVars) => LoopInv'
<1>1. ASSUME LoopInv, DialFails \/ Connected \/ ConnectionEnds
      PROVE  LoopInv'
  <2>1. RetryTypeOK'
    BY <1>1, Parameters DEF LoopInv, RetryTypeOK, States, DialFails, Connected, ConnectionEnds, Goto, times
  <2>2. WaitInv' /\ NapInv'
    BY <1>1 DEF LoopInv, WaitInv, NapInv, Waiting, DialFails, Connected, ConnectionEnds, Goto, times
  <2>3. QED BY <2>1, <2>2 DEF LoopInv
<1>2. ASSUME LoopInv, Wake
      PROVE  LoopInv'
  <2>1. RetryTypeOK' /\ WaitInv'
    BY <1>2 DEF LoopInv, RetryTypeOK, States, WaitInv, Waiting, Wake, Goto, times
  <2>2. NapInv'
    <3>1. now < due + Nap + Late
      BY <1>2, Parameters DEF LoopInv, RetryTypeOK, NapInv, Wake
    <3>2. QED BY <1>2, <3>1 DEF LoopInv, NapInv, Wake, Goto, times
  <2>3. QED BY <2>1, <2>2 DEF LoopInv
<1>3. ASSUME LoopInv, Close \/ Toggle \/ UNCHANGED retryVars
      PROVE  LoopInv'
  <2>1. RetryTypeOK'
    BY <1>3 DEF LoopInv, RetryTypeOK, Close, Toggle, retryVars, times
  <2>2. WaitInv' /\ NapInv'
    BY <1>3 DEF LoopInv, WaitInv, NapInv, Waiting, Close, Toggle, retryVars, times
  <2>3. QED BY <2>1, <2>2 DEF LoopInv
<1>4. QED BY <1>1, <1>2, <1>3

LEMMA TickKeeps == LoopInv /\ Tick => LoopInv'
<1> SUFFICES ASSUME LoopInv, Tick
             PROVE  LoopInv'
  OBVIOUS
<1>1. now \in Nat /\ wake \in Nat /\ since \in Nat /\ due \in Int
  BY DEF LoopInv, RetryTypeOK
<1>2. now' \in Nat
  BY <1>1, Division DEF Tick
<1>3. since' \in Nat
  BY <1>1 DEF Tick
<1>4. RetryTypeOK'
  BY <1>2, <1>3 DEF LoopInv, RetryTypeOK, Tick
<1>5. WaitInv'
  BY DEF LoopInv, WaitInv, Waiting, Tick
<1>6. NapInv'
  <2>1. CASE con = "sleeping"
    <3>1. now' = now + 1 /\ now' <= wake + Late /\ con' = con /\ wake' = wake /\ due' = due
      BY <1>1, <2>1, Parameters DEF Tick
    <3>2. since' <= now' - (wake' - Nap)
      BY <1>1, <2>1, <3>1, Parameters DEF LoopInv, NapInv, Tick
    <3>3. since' <= Nap + Late
      BY <1>1, <1>3, <3>1, <3>2, Parameters
    <3>4. wake < due + Nap /\ (~closed' => since' = 0)
      BY <2>1 DEF LoopInv, NapInv, Tick
    <3>5. QED BY <2>1, <3>1, <3>2, <3>3, <3>4 DEF NapInv
  <2>2. CASE con # "sleeping"
    BY <2>2 DEF LoopInv, NapInv, Tick
  <2>3. QED BY <2>1, <2>2
<1>7. QED BY <1>4, <1>5, <1>6 DEF LoopInv

LEMMA LoopKeeps == LoopInv /\ [RetryNext]_retryVars => LoopInv'
BY TopKeeps, RefusedKeeps, PollKeeps, OtherStepsKeep, TickKeeps, Zenon DEF RetryNext, LoopStep

LEMMA LoopHolds == RetrySpec => []LoopInv
BY LoopInit, LoopKeeps, PTL DEF RetrySpec

\* The loop of a client keeps the types of its state, whatever the policy
\* returns: its attempts never exceed the maximum.
THEOREM RetryTypes == RetrySpec => []RetryTypeOK
<1>1. LoopInv => RetryTypeOK
  BY DEF LoopInv
<1>2. QED BY <1>1, LoopHolds, PTL

\* A wait lies between its bounds at every number of attempts, whatever the
\* processor makes of a product that does not fit; and a Close ends it with the
\* nap under way.
THEOREM WaitsAreInBounds == RetrySpec => []WaitInBounds
<1>1. LoopInv => WaitInBounds
  <2> SUFFICES ASSUME LoopInv, Waiting
               PROVE  /\ due - began <= WaitMax
                      /\ due - began >= WaitMin \/ due - began = WaitMax
                      /\ since <= Nap + Late
    BY DEF WaitInBounds
  <2>1. attempts \in Nat /\ attempts >= 1 /\ attempts - 1 \in Nat
    BY Parameters DEF LoopInv, RetryTypeOK, WaitInv
  <2>2. due - began = Wait(attempts - 1)
    BY <2>1 DEF LoopInv, WaitInv
  <2>3. QED BY <2>1, <2>2, WaitGrows DEF LoopInv, NapInv
<1>2. QED BY <1>1, LoopHolds, PTL

LEMMA WaitsGrow ==
    LoopInv /\ LoopInv' /\ [RetryNext]_retryVars =>
        (con = "dialing" /\ con' = "polling" /\ attempts > 1 => due' - began' >= due - began)
<1> SUFFICES ASSUME LoopInv, LoopInv', [RetryNext]_retryVars,
                    con = "dialing", con' = "polling", attempts > 1
             PROVE  due' - began' >= due - began
  OBVIOUS
<1>1. attempts' = attempts
  BY DEF RetryNext, LoopStep, Top, Refused, DialFails, Connected, Poll, Wake, ConnectionEnds,
         Tick, Close, Toggle, Goto, retryVars
<1>2. attempts \in Nat /\ attempts - 1 \in Nat /\ attempts - 1 > 0 /\ attempts - 1 - 1 = attempts - 2
  BY Parameters DEF LoopInv, RetryTypeOK
<1>3. due - began = Wait(attempts - 2)
  BY DEF LoopInv, WaitInv
<1>4. due' - began' = Wait(attempts - 1)
  BY <1>1, <1>2 DEF LoopInv, WaitInv, Waiting
<1>5. QED BY <1>2, <1>3, <1>4, WaitGrows

LEMMA DialsOnTime ==
    LoopInv /\ [RetryNext]_retryVars =>
        (con = "polling" /\ con' = "top" /\ ~closed =>
            /\ now - began > due - began - Second
            /\ now - began < due - began + Nap + Late)
<1> SUFFICES ASSUME LoopInv, [RetryNext]_retryVars, con = "polling", con' = "top", ~closed
             PROVE  /\ now - began > due - began - Second
                    /\ now - began < due - began + Nap + Late
  OBVIOUS
<1>1. Poll
  BY DEF RetryNext, LoopStep, Top, Refused, DialFails, Connected, Poll, Wake, ConnectionEnds,
         Tick, Close, Toggle, Goto, retryVars
<1>2. now \in Nat /\ due \in Int /\ began \in Nat /\ now < due + Nap + Late
  BY DEF LoopInv, RetryTypeOK, NapInv
<1>3. due \div Second <= now \div Second
  BY <1>1 DEF Poll, Goto
<1>4. now > due - Second
  BY <1>2, <1>3, WholeSeconds
<1>5. QED BY <1>2, <1>4, Parameters

\* In an outage no wait is shorter than the one before; and comparing whole
\* seconds twice a second brings the next dial neither a second early nor more
\* than a nap late.
THEOREM WaitsKept == RetrySpec => WaitsAreKept
<1>1. ASSUME LoopInv, LoopInv', [RetryNext]_retryVars
      PROVE  [/\ con = "dialing" /\ con' = "polling" /\ attempts > 1 => due' - began' >= due - began
              /\ con = "polling" /\ con' = "top" /\ ~closed =>
                     /\ now - began > due - began - Second
                     /\ now - began < due - began + Nap + Late]_retryVars
  BY <1>1, WaitsGrow, DialsOnTime
<1>2. QED BY <1>1, LoopHolds, PTL DEF RetrySpec, WaitsAreKept

-----------------------------------------------------------------------------
(* The handshake.                                                           *)

\* The response is sent after the verdict, which does not change then; and a client
\* that has a session has read it.
VerdictInv ==
    /\ sv \in {"answering", "answered", "registered", "gone"} => verdict # "none"
    /\ cl \in {"opened", "gone"} =>
          "response" \in sent /\ (verdict = "accepted" \/ (verdict = "refused" /\ errLen = 0))

LEMMA Lengths ==
    /\ Pieces \in Nat \ {0} /\ FieldLen \in Nat \ {0} /\ ErrLens \subseteq Nat
    /\ \A e \in Nat : PayloadLen(e) \in Nat \ {0}
BY HandshakeAssumption DEF HandshakeAssumption, PayloadLen

\* The cells of a response of which the first k have come.
LEMMA Cells ==
    ASSUME NEW e \in Nat, NEW k \in Nat
    PROVE  /\ Len(Payload(e, k)) = PayloadLen(e)
           /\ \A i \in 1..PayloadLen(e) :
                 Payload(e, k)[i] = IF i > k THEN 0
                                    ELSE IF i = 2 THEN FieldLen
                                    ELSE IF i = FieldLen + 4 THEN e ELSE 1
<1>1. FieldLen + 4 # 2
  BY Lengths
<1>2. QED BY <1>1, Lengths DEF Payload

\* The heart of it: if what is there of a response, with zeros for the rest, can be
\* unmarshalled and shows no err, then the response has none. The zeros are not a
\* tag, so nothing can be missing ahead of the err's length.
LEMMA TornIsNoConsent ==
    ASSUME NEW e \in Nat, NEW k \in Nat, Unmarshals(Payload(e, k)), ErrOf(Payload(e, k)) = 0
    PROVE  e = 0
<1> SUFFICES ASSUME e # 0
             PROVE  FALSE
  OBVIOUS
<1> DEFINE p == Payload(e, k)
<1>1. /\ FieldLen \in Nat \ {0} /\ Len(p) = FieldLen + e + 4
      /\ 1 \in 1..PayloadLen(e) /\ 2 \in 1..PayloadLen(e) /\ 3 \in 1..PayloadLen(e)
      /\ FieldLen + 3 \in 1..PayloadLen(e) /\ FieldLen + 4 \in 1..PayloadLen(e)
  <2>1. PayloadLen(e) = FieldLen + e + 4 /\ FieldLen \in Nat \ {0}
    BY Lengths DEF PayloadLen
  <2>2. Len(p) = PayloadLen(e)
    BY Cells
  <2> HIDE DEF p
  <2>3. QED BY <2>1, <2>2
<1>2. /\ p[1] = IF 1 > k THEN 0 ELSE 1
      /\ p[2] = IF 2 > k THEN 0 ELSE FieldLen
      /\ p[3] = 0 \/ 3 <= k
      /\ p[FieldLen + 3] = 0 \/ FieldLen + 3 <= k
      /\ p[FieldLen + 4] = IF FieldLen + 4 > k THEN 0 ELSE e
  <2>1. FieldLen + 4 # 2 /\ FieldLen + 4 # 1
    BY <1>1
  <2>2. \A i \in 1..PayloadLen(e) :
           p[i] = IF i > k THEN 0 ELSE IF i = 2 THEN FieldLen
                  ELSE IF i = FieldLen + 4 THEN e ELSE 1
    BY Cells
  <2> HIDE DEF p
  <2>3. QED BY <1>1, <2>1, <2>2
<1>3. Unmarshals(p) /\ ErrOf(p) = 0
  OBVIOUS
<1> HIDE DEF p
<1>4. k >= 2
  <2>1. p[1] # 0
    BY <1>3 DEF Unmarshals, Field
  <2>2. CASE k = 1
    <3>1. p[1 + 1] = 0
      BY <1>2, <2>2
    <3>2. After(p, 1) = 3
      BY <3>1 DEF After
    <3>3. Field(p, 3)
      BY <1>1, <1>3, <3>2 DEF Unmarshals
    <3>4. QED BY <1>2, <2>2, <3>3 DEF Field
  <2>3. QED BY <1>2, <2>1, <2>2
<1>5. After(p, 1) = FieldLen + 3
  <2>1. p[1 + 1] = FieldLen
    BY <1>2, <1>4
  <2>2. QED BY <1>1, <2>1 DEF After
<1>6. Field(p, FieldLen + 3) /\ After(p, FieldLen + 3) > Len(p) /\ p[FieldLen + 3 + 1] = 0
  <2>1. ~(FieldLen + 3 > Len(p))
    BY <1>1
  <2>2. QED BY <1>3, <1>5, <2>1 DEF Unmarshals, ErrOf
<1>7. After(p, FieldLen + 3) = FieldLen + 5
  BY <1>1, <1>6 DEF After
<1>8. QED BY <1>1, <1>6, <1>7

LEMMA HandshakeTypeInit == Init => TypeOK
<1> SUFFICES ASSUME Init
             PROVE  TypeOK
  OBVIOUS
<1>1. \A f \in Frames : Size(f) \in Nat
  BY Lengths DEF Init, Size
<1>2. arrived \in [Frames -> Nat] /\ \A f \in Frames : arrived[f] = 0
  BY DEF Init
<1>3. \A f \in Frames : arrived[f] <= Size(f) /\ ~(arrived[f] > 0)
  BY <1>1, <1>2
<1>4. QED BY <1>2, <1>3 DEF Init, TypeOK, ClientStates, ServerStates

LEMMA HandshakeTypeStep == TypeOK /\ [Next]_vars => TypeOK'
<1> SUFFICES ASSUME TypeOK, [Next]_vars
             PROVE  TypeOK'
  OBVIOUS
<1>t. /\ errLen \in Nat /\ arrived \in [Frames -> Nat]
      /\ \A f \in Frames : Size(f) \in Nat
      /\ "request" \in Frames /\ "response" \in Frames
  BY Lengths DEF TypeOK, Size, Frames
<1>s. errLen' = errLen => \A f \in Frames : Size(f)' = Size(f)
  BY DEF Size
<1> USE DEF TypeOK, ClientStates, ServerStates, Sides, Encode
<1>1. CASE ClientStep
  BY <1>1, <1>s, <1>t DEF ClientStep, Ask, ClientDecode, ClientFails, ClientSessionEnds
<1>2. CASE AcceptStream \/ Answer \/ Register \/ ServerFails \/ ServerSessionEnds
  BY <1>2, <1>s, <1>t DEF AcceptStream, Answer, Register, ServerFails, ServerSessionEnds
<1>3. CASE ServerDecode
  <2>1. "response" \notin sent /\ arrived["response"] = 0
    BY <1>3, <1>t DEF ServerDecode
  <2>2. errLen' \in Nat /\ (errLen' # 0 => verdict' = "refused")
    <3>1. \/ verdict' = "accepted" /\ errLen' = 0
          \/ verdict' = "refused" /\ errLen' \in ErrLens
      BY <1>3 DEF ServerDecode
    <3>2. \A e \in ErrLens : e \in Nat
      BY Lengths
    <3>3. QED BY <3>1, <3>2
  <2>3. \A f \in Frames : Size(f)' \in Nat /\ (f = "request" => Size(f)' = Size(f))
    BY <2>2, Lengths DEF Size
  <2>4. \A f \in Frames : arrived'[f] <= Size(f)' /\ (arrived'[f] > 0 => f \in sent')
    BY <1>3, <1>t, <2>1, <2>3 DEF ServerDecode, Frames
  <2>5. QED BY <1>3, <2>1, <2>2, <2>4 DEF ServerDecode
<1>4. ASSUME NEW f \in Frames, Arrive(f)
      PROVE  TypeOK'
  <2>1. arrived' \in [Frames -> Nat] /\ \A g \in Frames :
           arrived'[g] <= Size(g) /\ (arrived'[g] > 0 => g \in sent)
    BY <1>4, <1>t DEF Arrive
  <2>2. QED BY <1>4, <1>s, <2>1 DEF Arrive
<1>5. ASSUME NEW side \in Sides, Expire(side)
      PROVE  TypeOK'
  BY <1>5, <1>s DEF Expire
<1>6. CASE Lose \/ UNCHANGED vars
  BY <1>6, <1>s DEF Lose, vars
<1>7. QED BY <1>1, <1>2, <1>3, <1>4, <1>5, <1>6 DEF Next, ServerStep

\* The two sides of a handshake keep their types, what arrives was sent, and the
\* server goes on to a session only when its answer is on the way.
THEOREM HandshakeTypes == Spec => []TypeOK
BY HandshakeTypeInit, HandshakeTypeStep, PTL DEF Spec

LEMMA VerdictInit == Init => VerdictInv
BY DEF Init, VerdictInv, Frames

LEMMA VerdictStep == TypeOK /\ VerdictInv /\ [Next]_vars => VerdictInv'
<1> SUFFICES ASSUME TypeOK, VerdictInv, [Next]_vars
             PROVE  VerdictInv'
  OBVIOUS
<1>t. /\ errLen \in Nat /\ "response" \in Frames /\ arrived["response"] \in Nat
      /\ verdict \in {"none", "accepted", "refused"}
      /\ errLen # 0 => verdict = "refused"
      /\ arrived["response"] > 0 => "response" \in sent
      /\ "response" \in sent => sv \in {"answered", "registered", "gone"}
      /\ "response" \in sent => verdict # "none"
  BY DEF TypeOK, Frames, VerdictInv
<1>1. ASSUME Ask
      PROVE  VerdictInv'
  BY <1>1 DEF Ask, Encode, VerdictInv
<1>2. ASSUME ClientDecode
      PROVE  VerdictInv'
  <2>1. arrived["response"] > 0
    <3>1. Size("response") > 0
      BY <1>t, Lengths DEF Size
    <3>2. QED BY <1>2, <1>t, <3>1 DEF ClientDecode, Whole, Torn
  <2>2. "response" \in sent /\ arrived["response"] - 1 \in Nat
    BY <1>t, <2>1
  <2>3. CASE ErrOf(Response) = 0
    <3>1. errLen = 0
      BY <1>2, <1>t, <2>2, <2>3, TornIsNoConsent DEF ClientDecode, Response
    <3>2. QED BY <1>2, <1>t, <2>2, <2>3, <3>1 DEF ClientDecode, VerdictInv
  <2>4. CASE ErrOf(Response) # 0
    BY <1>2, <2>4 DEF ClientDecode, VerdictInv
  <2>5. QED BY <2>3, <2>4
<1>3. ASSUME ClientFails \/ ClientSessionEnds
      PROVE  VerdictInv'
  BY <1>3 DEF ClientFails, ClientSessionEnds, VerdictInv
<1>4. ASSUME AcceptStream \/ ServerDecode
      PROVE  VerdictInv'
  BY <1>4, <1>t DEF AcceptStream, ServerDecode, VerdictInv
<1>5. ASSUME Answer
      PROVE  VerdictInv'
  BY <1>5 DEF Answer, Encode, VerdictInv
<1>6. ASSUME Register \/ ServerFails \/ ServerSessionEnds
      PROVE  VerdictInv'
  BY <1>6 DEF Register, ServerFails, ServerSessionEnds, VerdictInv
<1>7. ASSUME NEW f \in Frames, Arrive(f)
      PROVE  VerdictInv'
  BY <1>7 DEF Arrive, VerdictInv
<1>8. ASSUME NEW side \in Sides, Expire(side)
      PROVE  VerdictInv'
  BY <1>8 DEF Expire, VerdictInv
<1>9. CASE Lose \/ UNCHANGED vars
  BY <1>9 DEF Lose, vars, VerdictInv
<1>10. QED
  BY <1>1, <1>2, <1>3, <1>4, <1>5, <1>6, <1>7, <1>8, <1>9 DEF Next, ClientStep, ServerStep

\* Wherever a response is torn, whatever a deadline or a lost connection leaves of
\* it, a client that was refused with a text does not take itself for accepted.
THEOREM OpenedAreAccepted == Spec => []OpenedIsAccepted
<1>1. VerdictInv => OpenedIsAccepted
  BY DEF VerdictInv, OpenedIsAccepted
<1>2. QED BY <1>1, HandshakeTypes, VerdictInit, VerdictStep, PTL DEF Spec
================================================================================
