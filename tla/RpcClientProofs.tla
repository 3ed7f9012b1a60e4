---------------------------- MODULE RpcClientProofs ----------------------------
(***************************************************************************)
(* Proofs about the client of a node, for any capacity of its channel, any *)
(* window and share of the devfee, and any number of connections.          *)
(***************************************************************************)
EXTENDS RpcClient, Integers, TLAPS

\* `block_template_ctr` counts requests of one connection.
CountOK == ctr <= counted /\ fees <= ctr

\* What the project has got after k windows and r requests: Share + 1 of every
\* whole window, and the first ones of the present window.
PaidAfter(k, r) == (Share + 1) * k + (IF r <= Share THEN r ELSE Share + 1)

FeeOK == fees = PaidAfter(ctr \div Window, ctr % Window)

\* Work is withdrawn together with `is_synced`, and only the option gives out
\* work of a node that is not synced.
WithdrawnOK ==
  /\ ~isSynced => mining = NoWork
  /\ answer = "unsynced" /\ ~MineUnsynced => ~isSynced

IInv == TypeOK /\ CountOK /\ FeeOK /\ WithdrawnOK

\* What `connect` has put in the channel that nobody reads yet.
UnreadOK ==
  /\ phase = "info" => Len(channel) = 0
  /\ phase = "first" => Len(channel) = 1
  /\ phase = "open" => Len(channel) = 2

\* The constants are what the assumptions of RpcClient say.
LEMMA Constants ==
  /\ Capacity \in Nat \ {0}
  /\ Window \in Nat \ {0}
  /\ Share \in 0..(Window - 1)
  /\ MaxRequests \in Nat /\ MaxConnections \in Nat
  /\ MineUnsynced \in BOOLEAN
<1>1. MineUnsynced \in BOOLEAN
  BY OptionsAssumption DEF MineUnsynced
<1>2. Window \in Nat \ {0} /\ Share \in 0..(Window - 1)
  BY FeeAssumption
<1> QED
  BY <1>1, <1>2, CapacityAssumption, BoundsAssumption

\* How quotient and remainder by the window move on.
LEMMA WindowStep ==
  ASSUME NEW n \in Nat
  PROVE  /\ n \div Window \in Nat /\ n % Window \in 0..(Window - 1)
         /\ n % Window = Window - 1 =>
              (n + 1) \div Window = (n \div Window) + 1 /\ (n + 1) % Window = 0
         /\ n % Window < Window - 1 =>
              (n + 1) \div Window = n \div Window /\ (n + 1) % Window = (n % Window) + 1
<1> DEFINE k == n \div Window
           r == n % Window
<1>1. k \in Nat /\ r \in 0..(Window - 1) /\ n = Window * k + r
  BY Constants
<1>2. ASSUME r = Window - 1
      PROVE  (n + 1) \div Window = k + 1 /\ (n + 1) % Window = 0
  <2>1. n + 1 = Window * (k + 1) + 0
    BY <1>1, <1>2, Constants
  <2> HIDE DEF k, r
  <2> QED
    BY <1>1, <2>1, Constants
<1>3. ASSUME r < Window - 1
      PROVE  (n + 1) \div Window = k /\ (n + 1) % Window = r + 1
  <2>1. n + 1 = Window * k + (r + 1)
    BY <1>1, Constants
  <2> HIDE DEF k, r
  <2> QED
    BY <1>1, <1>3, <2>1, Constants
<1> QED
  BY <1>1, <1>2, <1>3

\* A request that pays the project exactly if r <= Share leads from one count to
\* the next.
LEMMA PaidStep ==
  ASSUME NEW k \in Nat, NEW r \in 0..(Window - 1)
  PROVE  (IF r <= Share THEN PaidAfter(k, r) + 1 ELSE PaidAfter(k, r))
           = IF r = Window - 1 THEN PaidAfter(k + 1, 0) ELSE PaidAfter(k, r + 1)
<1>1. (Share + 1) * (k + 1) = (Share + 1) * k + (Share + 1)
  BY Constants
<1> QED
  BY <1>1, Constants DEF PaidAfter

\* `client_get_block_template`, as a step of the counter
LEMMA FeeStep ==
  ASSUME NEW n \in Nat
  PROVE  (IF n % Window <= Share THEN PaidAfter(n \div Window, n % Window) + 1
                                 ELSE PaidAfter(n \div Window, n % Window))
           = PaidAfter((n + 1) \div Window, (n + 1) % Window)
<1> DEFINE k == n \div Window
           r == n % Window
           k1 == (n + 1) \div Window
           r1 == (n + 1) % Window
<1>1. /\ k \in Nat /\ r \in 0..(Window - 1)
      /\ r = Window - 1 => k1 = k + 1 /\ r1 = 0
      /\ r < Window - 1 => k1 = k /\ r1 = r + 1
  BY WindowStep
<1>2. (IF r <= Share THEN PaidAfter(k, r) + 1 ELSE PaidAfter(k, r))
        = IF r = Window - 1 THEN PaidAfter(k + 1, 0) ELSE PaidAfter(k, r + 1)
  BY <1>1, PaidStep
<1> HIDE DEF k, r, k1, r1
<1>3. (IF r <= Share THEN PaidAfter(k, r) + 1 ELSE PaidAfter(k, r)) = PaidAfter(k1, r1)
  BY <1>1, <1>2, Constants
<1> QED
  BY <1>3 DEF k, r, k1, r1

-----------------------------------------------------------------------------

\* The client starts with no connection, no request and no work.
LEMMA InitIInv == Init => IInv
<1> SUFFICES ASSUME Init PROVE IInv
  OBVIOUS
<1>1. TypeOK
  <2>1. channel \in Seq(Request) /\ Len(channel) <= Capacity /\ owed \in Seq(Payee)
    BY Constants DEF Init
  <2>2. isSynced \in BOOLEAN /\ registered \in BOOLEAN
    BY DEF Init
  <2> QED
    BY <2>1, <2>2, Constants DEF Init, TypeOK, Phase
<1>2. CountOK /\ WithdrawnOK
  BY DEF Init, CountOK, WithdrawnOK
<1>3. FeeOK
  <2>1. 0 \div Window = 0 /\ 0 % Window = 0
    <3>1. 0 = Window * 0 + 0
      BY Constants
    <3> QED
      BY <3>1, Constants
  <2> QED
    BY <2>1, Constants DEF Init, FeeOK, PaidAfter
<1> QED
  BY <1>1, <1>2, <1>3 DEF IInv

\* `send` puts one request behind the others, within the bound.
LEMMA PutIs ==
  ASSUME TypeOK, NEW request \in Request, Put(request)
  PROVE  /\ channel' \in Seq(Request) /\ Len(channel') <= Capacity
         /\ Len(channel') = Len(channel) + 1
BY Constants DEF TypeOK, Put

\* Each step of `connect`, `listen`, `handle_message` and the node keeps the invariant.
LEMMA NextIInv == IInv /\ [Next]_vars => IInv'
<1> SUFFICES ASSUME IInv, [Next]_vars PROVE IInv'
  OBVIOUS
<1> USE Constants DEF Request, Payee, Info, Notify, NoWork, Phase
<1>1. CASE Connect
  <2>1. TypeOK'
    <3>1. <<>> \in Seq(Request) /\ <<>> \in Seq(Payee) /\ Len(<<>>) <= Capacity
      OBVIOUS
    <3>2. connections' \in 0..MaxConnections
      BY <1>1 DEF Connect, IInv, TypeOK
    <3>3. registered' \in BOOLEAN
      BY <1>1 DEF Connect
    <3> QED
      BY <1>1, <3>1, <3>2, <3>3 DEF Connect, IInv, TypeOK
  <2>2. (CountOK /\ WithdrawnOK)'
    BY <1>1 DEF Connect, IInv, TypeOK, CountOK, WithdrawnOK
  <2>3. FeeOK'
    <3>1. 0 = Window * 0 + 0
      OBVIOUS
    <3>2. 0 \div Window = 0 /\ 0 % Window = 0
      BY <3>1
    <3>3. PaidAfter(0, 0) = 0
      BY DEF PaidAfter
    <3> QED
      BY <1>1, <3>2, <3>3 DEF Connect, FeeOK
  <2> QED
    BY <2>1, <2>2, <2>3 DEF IInv
<1>2. ASSUME NEW request \in {Info, "miner", Notify}, Put(request),
             phase' \in {"first", "open", "second"},
             UNCHANGED <<connections, registered, owed, minerVars, feeVars>>
      PROVE  IInv'
  <2>1. channel' \in Seq(Request) /\ Len(channel') <= Capacity
    BY <1>2, PutIs DEF IInv
  <2>2. TypeOK'
    BY <1>2, <2>1 DEF IInv, TypeOK, minerVars, feeVars
  <2> QED
    BY <1>2, <2>2 DEF IInv, CountOK, FeeOK, WithdrawnOK, minerVars, feeVars, MineUnsynced, PaidAfter
<1>3. CASE OpenStream \/ Notification \/ Disconnect \/ Fail
  <2>1. phase' \in Phase /\ UNCHANGED <<connections, netVars, minerVars, feeVars>>
    BY <1>3 DEF OpenStream, Notification, Disconnect, Fail
  <2> QED
    BY <2>1 DEF IInv, TypeOK, CountOK, FeeOK, WithdrawnOK, netVars, minerVars, feeVars
<1>4. ASSUME NEW from \in {"second", "request"}, RequestNext(from, "listen")
      PROVE  IInv'
  <2> DEFINE payee == IF ctr % Window <= Share THEN "project" ELSE "miner"
  <2>1. /\ Put(payee) /\ counted < MaxRequests
        /\ ctr' = ctr + 1 /\ counted' = counted + 1
        /\ fees' = IF ctr % Window <= Share THEN fees + 1 ELSE fees
        /\ phase' = "listen"
        /\ UNCHANGED <<connections, registered, owed, minerVars>>
    BY <1>4 DEF RequestNext
  <2>2. channel' \in Seq(Request) /\ Len(channel') <= Capacity
    BY <2>1, PutIs DEF IInv
  <2>3. CountOK'
    BY <2>1 DEF IInv, TypeOK, CountOK
  <2>4. TypeOK'
    BY <2>1, <2>2 DEF IInv, TypeOK, CountOK, minerVars
  <2>5. FeeOK'
    <3>1. ctr \in Nat /\ fees = PaidAfter(ctr \div Window, ctr % Window)
      BY DEF IInv, TypeOK, FeeOK
    <3>2. fees' = IF ctr % Window <= Share
                    THEN PaidAfter(ctr \div Window, ctr % Window) + 1
                    ELSE PaidAfter(ctr \div Window, ctr % Window)
      BY <2>1, <3>1
    <3>3. fees' = PaidAfter((ctr + 1) \div Window, (ctr + 1) % Window)
      BY <3>1, <3>2, FeeStep, Zenon
    <3> QED
      BY <2>1, <3>3, Zenon DEF FeeOK
  <2> QED
    BY <2>1, <2>3, <2>4, <2>5 DEF IInv, WithdrawnOK, minerVars
<1>5. CASE NodeTakes
  <2>1. /\ channel # <<>> /\ channel' = Tail(channel)
        /\ registered' = (registered \/ Head(channel) = Notify)
        /\ owed' = IF Head(channel) \in Payee THEN Append(owed, Head(channel)) ELSE owed
        /\ UNCHANGED <<phase, connections, minerVars, feeVars>>
    BY <1>5 DEF NodeTakes
  <2>2. channel' \in Seq(Request) /\ Len(channel') <= Capacity
    BY <2>1 DEF IInv, TypeOK
  <2>3. owed' \in Seq(Payee)
    BY <2>1 DEF IInv, TypeOK
  <2>4. TypeOK'
    BY <2>1, <2>2, <2>3 DEF IInv, TypeOK, minerVars, feeVars
  <2> QED
    BY <2>1, <2>4 DEF IInv, CountOK, FeeOK, WithdrawnOK, minerVars, feeVars
<1>6. CASE TemplateAnswer
  <2>1. /\ owed # <<>> /\ owed' = Tail(owed)
        /\ UNCHANGED <<phase, connections, channel, registered, feeVars>>
        /\ \/ answer' = "synced" /\ ProcessBlock(Head(owed))
           \/ answer' = "unsynced" /\ MineUnsynced /\ ProcessBlock(Head(owed))
           \/ answer' = "unsynced" /\ WithdrawWork
           \/ UNCHANGED minerVars
    BY <1>6 DEF TemplateAnswer
  <2>2. owed' \in Seq(Payee) /\ Head(owed) \in Payee
    BY <2>1 DEF IInv, TypeOK
  <2>3. TypeOK'
    BY <2>1, <2>2 DEF IInv, TypeOK, feeVars, minerVars, ProcessBlock, WithdrawWork
  <2>4. WithdrawnOK'
    BY <2>1 DEF IInv, TypeOK, WithdrawnOK, minerVars, ProcessBlock, WithdrawWork
  <2> QED
    BY <2>1, <2>3, <2>4 DEF IInv, CountOK, FeeOK, feeVars
<1>7. CASE UNCHANGED vars
  BY <1>7 DEF vars, IInv, TypeOK, CountOK, FeeOK, WithdrawnOK, netVars, minerVars, feeVars
<1>8. CASE SendInfo \/ SendFirstRequest \/ SendNotify
  BY <1>2, <1>8 DEF SendInfo, SendFirstRequest, SendNotify
<1> QED
  BY <1>1, <1>3, <1>4, <1>5, <1>6, <1>7, <1>8 DEF Next

\* Every step the client and its node take keeps the invariant.
THEOREM Invariance == SafetySpec => []IInv
BY InitIInv, NextIInv, PTL DEF SafetySpec

\* `send_channel` keeps to its bound and holds only requests the node understands,
\* and every variable of `VelkardHandler` and `MinerManager` stays in its set.
THEOREM TypeCorrectness == SafetySpec => []TypeOK
<1>1. IInv => TypeOK
  BY DEF IInv
<1> QED
  BY <1>1, Invariance, PTL

\* `process_block(None)` withdraws the work of a node that is not synced, and
\* nothing gives it out again.
THEOREM WorkIsWithdrawn == SafetySpec => []UnsyncedMeansNoWork
<1>1. IInv => UnsyncedMeansNoWork
  BY DEF IInv, WithdrawnOK, UnsyncedMeansNoWork
<1> QED
  BY <1>1, Invariance, PTL

\* `client_get_block_template` never pays the project more than Share + 1 of a
\* window of requests, counted from the start of the connection.
THEOREM FeeIsBounded == SafetySpec => []FeePerConnection
<1>1. ASSUME IInv PROVE FeePerConnection
  <2> DEFINE k == ctr \div Window
             r == ctr % Window
  <2>1. k \in Nat /\ r \in 0..(Window - 1) /\ fees = PaidAfter(k, r)
    BY <1>1, WindowStep DEF IInv, TypeOK, FeeOK
  <2> HIDE DEF k, r
  <2>2. (Share + 1) * (k + 1) = (Share + 1) * k + (Share + 1)
    BY <2>1, Constants
  <2>3. fees <= (Share + 1) * (k + 1)
    BY <2>1, <2>2, Constants DEF PaidAfter
  <2> QED
    BY <2>3 DEF k, FeePerConnection
<1>2. IInv => FeePerConnection
  BY <1>1
<1> QED
  BY <1>2, Invariance, PTL

-----------------------------------------------------------------------------
(* The bound of the channel, before and after the stream is open           *)

\* Nothing waits in the channel before `connect` has made it.
LEMMA InitUnreadOK == Init => UnreadOK
BY DEF Init, UnreadOK

\* Only `connect` adds to what nobody reads yet, and it adds two requests.
LEMMA NextUnreadOK == IInv /\ UnreadOK /\ [Next]_vars => UnreadOK'
<1> SUFFICES ASSUME IInv, UnreadOK, [Next]_vars PROVE UnreadOK'
  OBVIOUS
<1> USE DEF UnreadOK
<1>1. CASE Connect
  <2>1. Len(<<>>) = 0
    OBVIOUS
  <2> QED
    BY <1>1, <2>1 DEF Connect
<1>2. CASE SendInfo
  <2>1. Len(channel') = Len(channel) + 1
    BY <1>2, PutIs DEF SendInfo, IInv, Request
  <2> QED
    BY <1>2, <2>1 DEF SendInfo
<1>3. CASE SendFirstRequest
  <2>1. Len(channel') = Len(channel) + 1
    BY <1>3, PutIs DEF SendFirstRequest, IInv, Request, Payee
  <2>2. phase = "first" /\ phase' = "open"
    BY <1>3 DEF SendFirstRequest
  <2>3. Len(channel) = 1
    BY <2>2
  <2> QED
    BY <2>1, <2>2, <2>3
<1>4. CASE \/ OpenStream \/ SendNotify \/ RequestNext("second", "listen")
           \/ RequestNext("request", "listen") \/ Notification \/ Disconnect \/ Fail
  <2>1. phase' \notin {"info", "first", "open"}
    BY <1>4 DEF OpenStream, SendNotify, RequestNext, Notification, Disconnect, Fail
  <2> QED
    BY <2>1
<1>5. CASE NodeTakes
  <2>1. phase \notin {"info", "first", "open"} /\ phase' = phase
    BY <1>5 DEF NodeTakes, Streaming
  <2> QED
    BY <2>1
<1>6. CASE TemplateAnswer \/ UNCHANGED vars
  BY <1>6 DEF TemplateAnswer, vars, netVars
<1> QED
  BY <1>1, <1>2, <1>3, <1>4, <1>5, <1>6 DEF Next

\* A channel of two slots is enough for what `connect` sends before anybody reads
\* it: neither request waits, on any connection.  With three, as in the code, one
\* slot is to spare when the stream opens.
FirstRequestsFit ==
  phase \in {"info", "first"} => Len(channel) < Capacity

\* `connect` never blocks in a `send` that nobody is there to read.
THEOREM ConnectNeverWaits ==
  ASSUME Capacity >= 2
  PROVE  SafetySpec => []FirstRequestsFit
<1>1. UnreadOK => FirstRequestsFit
  BY Constants DEF UnreadOK, FirstRequestsFit
<1> QED
  BY <1>1, InitUnreadOK, NextUnreadOK, Invariance, PTL DEF SafetySpec
=============================================================================
