------------------------ MODULE BlockDeliveryProofs ------------------------
(***************************************************************************)
(* Proofs about the delivery service, for any number of channels, clients, *)
(* senders and blocks.                                                     *)
(***************************************************************************)
EXTENDS BlockDelivery, TLAPS

\* A leaf is proved by Zenon, unless it names another prover.
USE Zenon

-----------------------------------------------------------------------------
(***************************************************************************)
(* The inductive invariant.                                                *)
(***************************************************************************)
Delivering(b) == b.at \notin {"unborn", "adhoc"}

\* What holds of each client object: only a delivery is ever closed, a closed
\* client has no open connection, and its channel holds the token of the one
\* Close at most.
Sound(b) ==
    /\ Delivering(b) => b.ch \in Channels
    /\ ~Delivering(b) => ~b.stopFlag /\ b.next = 0
    /\ ~b.stopFlag => b.stopChan = 0
    /\ b.stopFlag => b.conn # "open"
    /\ b.at = "ended" => b.stopFlag

\* The provider of a channel is a delivery of that channel, and a delivery
\* that has not been closed is its channel's provider.
Registered ==
    /\ \A ch \in Channels : blockProviders[ch] # Nil =>
          bc[blockProviders[ch]].ch = ch /\ Delivering(bc[blockProviders[ch]])
    /\ \A c \in Clients : Delivering(bc[c]) /\ ~bc[c].stopFlag =>
          blockProviders[bc[c].ch] = c

\* The client that SendToOrderer connects is its own, and a call under way is
\* for a channel.
AdHoc == \A s \in Senders :
            /\ sender[s].at = "connect" =>
                  sender[s].client \in Clients /\ bc[sender[s].client].at = "adhoc"
            /\ sender[s].at \in {"connect", "process"} => sender[s].ch \in Channels

\* Every block between the height and the position of a stream was received.
Received ==
    \A c \in Clients : bc[c].ch \in Channels =>
       \A k \in Nat : height[bc[c].ch] <= k /\ k < bc[c].next =>
          k \in payloads[bc[c].ch] \cup rejected[bc[c].ch]

Inv == /\ TypeOK
       /\ \A c \in Clients : Sound(bc[c])
       /\ Registered /\ AdHoc /\ Received /\ NoGap

-----------------------------------------------------------------------------
\* Close keeps a client object sound and closes it.
LEMMA ClosedSound ==
    ASSUME NEW b \in ClientType, Sound(b), Delivering(b)
    PROVE  /\ Closed(b) \in ClientType /\ Sound(Closed(b)) /\ Closed(b).stopFlag
           /\ Closed(b).at = b.at /\ Closed(b).ch = b.ch /\ Closed(b).next = b.next
           /\ Closed(b).conn # "open"
<1>1. CASE b.stopFlag
  BY <1>1 DEF Closed, Sound
<1>2. CASE ~b.stopFlag
  <2> DEFINE d == Closed(b)
  <2> DEFINE conn == IF b.conn = "open" THEN "closed" ELSE b.conn
  <2>1. b.stopChan + 1 = 1 /\ 1 \in 0 .. 1 /\ conn \in {"nil", "closed"}
    BY <1>2, SMT DEF Sound, ClientType
  <2>2. d = [b EXCEPT !.stopFlag = TRUE, !.stopChan = b.stopChan + 1, !.conn = conn]
    BY <1>2 DEF Closed
  <2>3. d \in ClientType
    <3> HIDE DEF conn, d
    <3>1. d = [b EXCEPT !.stopFlag = TRUE, !.stopChan = 1, !.conn = conn]
      BY <2>1, <2>2
    <3>2. QED
      BY <2>1, <3>1 DEF ClientType
  <2>4. /\ d.stopFlag /\ d.at = b.at /\ d.ch = b.ch /\ d.next = b.next
        /\ d.conn # "open"
    BY <2>1, <2>2 DEF ClientType
  <2>5. Sound(d)
    BY <2>4 DEF Sound, Delivering
  <2>6. QED
    BY <2>3, <2>4, <2>5
<1>3. QED
  BY <1>1, <1>2

\* So does the Stop of the provider.
LEMMA StoppedSound ==
    ASSUME NEW b \in ClientType, Sound(b), Delivering(b)
    PROVE  /\ Stopped(b) \in ClientType /\ Sound(Stopped(b)) /\ Stopped(b).stopFlag
           /\ Stopped(b).at = b.at /\ Stopped(b).ch = b.ch /\ Stopped(b).next = b.next
<1>1. [b EXCEPT !.done = TRUE] \in ClientType /\ Sound([b EXCEPT !.done = TRUE])
      /\ Delivering([b EXCEPT !.done = TRUE])
  BY DEF Sound, Delivering, ClientType
<1>2. [b EXCEPT !.done = TRUE].at = b.at /\ [b EXCEPT !.done = TRUE].ch = b.ch
      /\ [b EXCEPT !.done = TRUE].next = b.next
  BY DEF ClientType
<1>3. QED
  BY <1>1, <1>2, ClosedSound DEF Stopped

(***************************************************************************)
(* A step of a delivery goroutine that receives nothing replaces its       *)
(* client object by one as sound, of the same channel, that is closed when *)
(* it was, and whose stream stands where it stood, nowhere, or at the      *)
(* ledger's height.                                                        *)
(***************************************************************************)
Advances(c, r) ==
    /\ Delivering(bc[c]) /\ Delivering(r)
    /\ bc' = [bc EXCEPT ![c] = r]
    /\ r \in ClientType /\ Sound(r) /\ r.ch = bc[c].ch
    /\ bc[c].stopFlag => r.stopFlag
    /\ r.next \in {0, bc[c].next, height[bc[c].ch]}

Quiet ==
    /\ UNCHANGED <<service, sender, chains>>
    /\ Attempt' \in 0 .. AttemptLimit + 1
    /\ budget' \in [starts : Nat, sends : Nat, failures : Nat]

\* Such a step keeps the invariant.
LEMMA AdvanceStep ==
    ASSUME Inv, NEW c \in Clients, NEW r, Advances(c, r), Quiet PROVE Inv'
<1> USE DeliveryAssumption DEF Inv, Quiet, service, chains
<1>1. /\ bc \in [Clients -> ClientType] /\ bc' \in [Clients -> ClientType]
      /\ bc'[c] = r /\ \A d \in Clients \ {c} : bc'[d] = bc[d]
  BY DEF TypeOK, Advances
<1>2. TypeOK'
  BY <1>1 DEF TypeOK
<1>3. \A d \in Clients : Sound(bc'[d])
  BY <1>1 DEF Advances
<1>4. Registered'
  <2>1. \A d \in Clients : bc'[d].ch = bc[d].ch /\ (Delivering(bc[d]) <=> Delivering(bc'[d]))
                           /\ (bc[d].stopFlag => bc'[d].stopFlag)
    BY <1>1 DEF Advances
  <2>2. \A ch \in Channels : blockProviders[ch] \in Clients \cup {Nil}
    BY DEF TypeOK
  <2>3. QED
    BY <2>1, <2>2 DEF Registered
<1>5. AdHoc'
  BY <1>1, SMT DEF AdHoc, Advances, Delivering
<1>6. Received'
  <2>1. SUFFICES ASSUME bc'[c].ch \in Channels, NEW k \in Nat,
                        height[bc'[c].ch] <= k, k < bc'[c].next
                 PROVE  k \in payloads[bc'[c].ch] \cup rejected[bc'[c].ch]
    BY <1>1, SMT DEF Received
  <2>2. height[bc[c].ch] \in Nat /\ bc[c].next \in Nat /\ bc'[c].ch = bc[c].ch
    BY <1>1, <2>1, SMT DEF TypeOK, ClientType, Advances
  <2>3. bc'[c].next = bc[c].next
    BY <1>1, <2>1, <2>2, SMT DEF Advances
  <2>4. QED
    BY <2>1, <2>2, <2>3 DEF Received
<1>7. NoGap'
  BY DEF NoGap
<1>8. QED
  BY <1>2, <1>3, <1>4, <1>5, <1>6, <1>7

\* The workload and the attempts stay within their bounds.
LEMMA SpendType ==
    ASSUME TypeOK, NEW what \in {"starts", "sends", "failures"}, Spend(what)
    PROVE  budget' \in [starts : Nat, sends : Nat, failures : Nat]
<1>1. budget[what] - 1 \in Nat
  BY SMT DEF TypeOK, Spend
<1>2. QED
  BY <1>1 DEF TypeOK, Spend

\* The attempts are capped.
LEMMA AttemptType ==
    ASSUME TypeOK, CountAttempt PROVE Attempt' \in 0 .. AttemptLimit + 1
BY DeliveryAssumption, SMT DEF TypeOK, CountAttempt

\* The goroutine moves on with a client object that differs in other fields.
Moved(c, b) ==
    /\ b \in ClientType /\ b.ch = bc[c].ch
    /\ bc[c].stopFlag => b.stopFlag
    /\ ~b.stopFlag => b.stopChan = 0
    /\ b.stopFlag => b.conn # "open"
    /\ b.next \in {0, bc[c].next, height[bc[c].ch]}

Steps == {"loop", "dial", "dialled", "onConnect", "connected", "action", "recv",
          "sleep", "backoff", "ended"}

\* A client that stays at its delivery, or leaves it stopped, is one the invariant allows.
LEMMA GoesAdvances ==
    ASSUME Inv, NEW c \in Clients, Delivering(bc[c]), NEW b, NEW at \in Steps,
           Moved(c, b), Goes(c, b, at), at = "ended" => b.stopFlag
    PROVE  \E r : Advances(c, r)
<1> DEFINE r == [b EXCEPT !.at = at]
<1>1. bc[c] \in ClientType /\ Sound(bc[c]) /\ b \in ClientType
  BY DEF Inv, TypeOK, Moved
<1>2. /\ r \in ClientType /\ r.at = at /\ r.ch = b.ch /\ r.stopFlag = b.stopFlag
      /\ r.stopChan = b.stopChan /\ r.conn = b.conn /\ r.next = b.next
  BY <1>1 DEF ClientType, Steps
<1>3. Delivering(r)
  BY <1>2 DEF Delivering, Steps
<1>4. Sound(r)
  BY <1>1, <1>2, <1>3 DEF Sound, Moved
<1>5. Advances(c, r)
  BY <1>2, <1>3, <1>4 DEF Advances, Goes, Moved
<1>6. QED
  BY <1>5

\* The client object as it is, and after the changes the goroutine makes.
LEMMA Unmoved ==
    ASSUME Inv, NEW c \in Clients PROVE Moved(c, bc[c])
BY DEF Inv, TypeOK, Sound, Moved

\* disconnect only takes the connection away.
LEMMA DisconnectedMoved ==
    ASSUME Inv, NEW c \in Clients, NEW b, Moved(c, b) PROVE Moved(c, Disconnected(b))
<1>1. 0 \in 0 .. MaxBlocks
  BY DeliveryAssumption, SMT
<1>2. Disconnected(b) \in ClientType
  BY <1>1 DEF Disconnected, Moved, ClientType
<1>3. /\ Disconnected(b).ch = b.ch /\ Disconnected(b).stopFlag = b.stopFlag
      /\ Disconnected(b).stopChan = b.stopChan /\ Disconnected(b).conn = "nil"
      /\ Disconnected(b).next = 0
  BY DEF Disconnected, Moved, ClientType
<1>4. QED
  BY <1>2, <1>3 DEF Moved

\* The count of error statuses is the goroutine's own.
LEMMA ErrorsMoved ==
    ASSUME Inv, NEW c \in Clients, NEW e \in 0 .. wrongStatusThreshold + 1
    PROVE  Moved(c, [bc[c] EXCEPT !.errors = e])
<1>1. bc[c] \in ClientType
  BY DEF Inv, TypeOK
<1>2. [bc[c] EXCEPT !.errors = e] \in ClientType
  BY <1>1 DEF ClientType
<1>3. QED
  BY <1>1, <1>2, Unmoved DEF Moved, ClientType

\* The deferred Close leaves a closed client.
LEMMA ExitMoved ==
    ASSUME Inv, NEW c \in Clients, Delivering(bc[c]), Exit(c)
    PROVE  \E r : Advances(c, r)
<1> DEFINE d == Closed(bc[c])
           b == [d EXCEPT !.errors = 0, !.next = 0]
<1>1. bc[c] \in ClientType /\ Sound(bc[c])
  BY DEF Inv, TypeOK
<1>2. d \in ClientType /\ d.stopFlag /\ d.conn # "open" /\ d.ch = bc[c].ch
  BY <1>1, ClosedSound
<1>3. 0 \in 0 .. MaxBlocks /\ 0 \in 0 .. wrongStatusThreshold + 1
  BY DeliveryAssumption, SMT
<1>4. /\ b \in ClientType /\ b.stopFlag = d.stopFlag /\ b.conn = d.conn
      /\ b.ch = d.ch /\ b.next = 0
  <2> HIDE DEF d
  <2>1. QED
    BY <1>2, <1>3 DEF ClientType
<1>5. Moved(c, b)
  BY <1>2, <1>4 DEF Moved
<1>6. Goes(c, b, "ended")
  BY DEF Exit
<1>7. QED
  BY <1>2, <1>4, <1>5, <1>6, GoesAdvances DEF Steps

-----------------------------------------------------------------------------
(***************************************************************************)
(* The steps of the delivery goroutine.                                    *)
(***************************************************************************)
\* A turn of the loop stops or tries.
LEMMA tryStep ==
    ASSUME Inv, NEW c \in Clients, try(c) PROVE Inv'
<1>1. Delivering(bc[c])
  BY DEF try, Delivering
<1>2. Quiet
  <2>1. Attempt' \in 0 .. AttemptLimit + 1
    BY AttemptType DEF try, Inv, TypeOK
  <2>2. QED
    BY <2>1 DEF try, Quiet, Inv, TypeOK
<1>3. \E r : Advances(c, r)
  <2>1. CASE Exit(c)
    BY <1>1, <2>1, ExitMoved
  <2>2. CASE \E at \in {"dial", "action"} : Goes(c, bc[c], at)
    BY <1>1, <2>2, Unmoved, GoesAdvances DEF Steps
  <2>3. QED
    BY <2>1, <2>2 DEF try
<1>4. QED
  BY <1>2, <1>3, AdvanceStep

\* The sleep takes the token of Close, if any.
LEMMA sleepStep ==
    ASSUME Inv, NEW c \in Clients, sleep(c) PROVE Inv'
<1> DEFINE b == [bc[c] EXCEPT !.stopChan = 0]
<1>1. Delivering(bc[c]) /\ bc[c] \in ClientType /\ 0 \in 0 .. 1
  BY SMT DEF sleep, Delivering, Inv, TypeOK
<1>2. Quiet
  BY DEF sleep, Quiet, Inv, TypeOK
<1>3. /\ b \in ClientType /\ b.ch = bc[c].ch /\ b.stopFlag = bc[c].stopFlag
      /\ b.stopChan = 0 /\ b.conn = bc[c].conn /\ b.next = bc[c].next
  BY <1>1 DEF ClientType
<1>4. Moved(c, b)
  BY <1>3, Unmoved DEF Moved
<1>5. Goes(c, b, "backoff")
  BY DEF sleep
<1>6. QED
  BY <1>1, <1>2, <1>4, <1>5, GoesAdvances, AdvanceStep DEF Steps

\* Dialling changes nothing that others see.
LEMMA connectStep ==
    ASSUME Inv, NEW c \in Clients, connect(c) PROVE Inv'
<1>1. Delivering(bc[c]) /\ bc[c] \in ClientType
  BY DEF connect, Delivering, Inv, TypeOK
<1>2. Quiet
  <2>1. budget' \in [starts : Nat, sends : Nat, failures : Nat]
    BY SpendType DEF connect, Fails, Inv, TypeOK
  <2>2. QED
    BY <2>1 DEF connect, Quiet, Inv, TypeOK
<1>3. ASSUME NEW abc \in BOOLEAN PROVE Moved(c, [bc[c] EXCEPT !.ABC = abc])
  <2>1. [bc[c] EXCEPT !.ABC = abc] \in ClientType
    BY <1>1 DEF ClientType
  <2>2. QED
    BY <1>1, <2>1, Unmoved DEF Moved, ClientType
<1>4. bc[c].ABC \in BOOLEAN
  BY <1>1 DEF ClientType
<1>5. PICK abc \in BOOLEAN, at \in {"dialled", "sleep"} :
            Goes(c, [bc[c] EXCEPT !.ABC = abc], at)
  BY <1>4 DEF connect
<1>6. QED
  BY <1>1, <1>2, <1>3, <1>5, GoesAdvances, AdvanceStep DEF Steps

\* A client that was closed meanwhile disconnects again; another seeks the height.
LEMMA afterConnectStep ==
    ASSUME Inv, NEW c \in Clients, afterConnect(c) PROVE Inv'
<1> DEFINE n == RequestBlocks(bc[c].ch)
           b == [bc[c] EXCEPT !.conn = "open", !.next = n]
<1>1. Delivering(bc[c]) /\ bc[c] \in ClientType /\ Sound(bc[c])
  BY DEF afterConnect, Delivering, Inv, TypeOK
<1>2. Quiet
  BY DEF afterConnect, Quiet, Inv, TypeOK
<1>3. n = height[bc[c].ch] /\ n \in 0 .. MaxBlocks
  BY <1>1, SMT DEF RequestBlocks, Inv, TypeOK, Sound
<1>4. /\ b \in ClientType /\ b.ch = bc[c].ch /\ b.stopFlag = bc[c].stopFlag
      /\ b.stopChan = bc[c].stopChan /\ b.conn = "open" /\ b.next = n
  <2> HIDE DEF n
  <2>1. QED
    BY <1>1, <1>3 DEF ClientType
<1>5. CASE bc[c].stopFlag
  <2>1. Goes(c, Disconnected(b), "sleep")
    BY <1>4, <1>5 DEF afterConnect, Closing
  <2>2. Moved(c, Disconnected(bc[c]))
    BY Unmoved, DisconnectedMoved
  <2>3. Disconnected(b) = Disconnected(bc[c])
    BY <1>1 DEF Disconnected, ClientType
  <2>4. QED
    BY <1>1, <1>2, <2>1, <2>2, <2>3, GoesAdvances, AdvanceStep DEF Steps
<1>6. CASE ~bc[c].stopFlag
  <2>1. Goes(c, b, "onConnect")
    BY <1>4, <1>6 DEF afterConnect
  <2>2. Moved(c, b)
    BY <1>3, <1>4, <1>6, Unmoved DEF Moved
  <2>3. QED
    BY <1>1, <1>2, <2>1, <2>2, GoesAdvances, AdvanceStep DEF Steps
<1>7. QED
  BY <1>5, <1>6

\* Send, the end of afterConnect and Recv go on or disconnect.
LEMMA stayStep ==
    ASSUME Inv, NEW c \in Clients, Send(c) \/ connected(c) \/ Recv(c) \/ RecvFails(c)
    PROVE  Inv'
<1>1. Delivering(bc[c])
  BY DEF Send, connected, Recv, RecvFails, Delivering
<1>2. Quiet
  <2>1. budget' \in [starts : Nat, sends : Nat, failures : Nat]
    BY SpendType DEF Send, connected, Recv, RecvFails, Fails, Inv, TypeOK
  <2>2. Attempt' \in 0 .. AttemptLimit + 1
    <3>1. Attempt' = Attempt \/ Attempt' = 0 \/ CountAttempt
      BY DEF Send, connected, Recv, RecvFails
    <3>2. QED
      BY <3>1, AttemptType, DeliveryAssumption, SMT DEF Inv, TypeOK
  <2>3. UNCHANGED <<service, sender, chains>>
    BY DEF Send, connected, Recv, RecvFails
  <2>4. QED
    BY <2>1, <2>2, <2>3 DEF Quiet
<1>3. Moved(c, bc[c]) /\ Moved(c, Disconnected(bc[c]))
  BY Unmoved, DisconnectedMoved
<1>4. PICK b \in {bc[c], Disconnected(bc[c])},
           at \in {"sleep", "connected", "action", "recv"} : Goes(c, b, at)
  BY DEF Send, connected, Recv, RecvFails, Closing
<1>5. QED
  BY <1>1, <1>2, <1>3, <1>4, GoesAdvances, AdvanceStep DEF Steps

\* A status ends the delivery or the stream.
LEMMA RecvStatusStep ==
    ASSUME Inv, NEW c \in Clients, RecvStatus(c) PROVE Inv'
<1>1. Delivering(bc[c]) /\ bc[c] \in ClientType
  BY DEF RecvStatus, Delivering, Inv, TypeOK
<1>2. Quiet
  <2>1. budget' \in [starts : Nat, sends : Nat, failures : Nat]
    BY SpendType DEF RecvStatus, Fails, Inv, TypeOK
  <2>2. QED
    BY <2>1, DeliveryAssumption, SMT DEF RecvStatus, Quiet, Inv, TypeOK
<1>3. ASSUME NEW e \in 0 .. wrongStatusThreshold + 1,
             Goes(c, AfterStatus([bc[c] EXCEPT !.errors = e]), "loop")
      PROVE  \E r : Advances(c, r)
  <2>1. Moved(c, Disconnected([bc[c] EXCEPT !.errors = e]))
    BY <1>3, ErrorsMoved, DisconnectedMoved
  <2>2. QED
    BY <1>1, <1>3, <2>1, GoesAdvances DEF AfterStatus, Steps
<1>4. 0 \in 0 .. wrongStatusThreshold + 1
  BY DeliveryAssumption, SMT
<1>5. bc[c].errors + 1 > wrongStatusThreshold \/ bc[c].errors + 1 \in 0 .. wrongStatusThreshold + 1
  BY <1>1, DeliveryAssumption, SMT DEF ClientType
<1>6. QED
  BY <1>1, <1>2, <1>3, <1>4, <1>5, ExitMoved, AdvanceStep DEF RecvStatus

\* A block extends what was received by the block at the stream's position.
LEMMA RecvBlockStep ==
    ASSUME Inv, NEW c \in Clients, RecvBlock(c) PROVE Inv'
<1> DEFINE ch == bc[c].ch
           n == bc[c].next
           got == payloads[ch] \cup rejected[ch]
           r == [[bc[c] EXCEPT !.errors = 0, !.next = n + 1] EXCEPT !.at = "loop"]
<1> USE DeliveryAssumption DEF service
<1>1. /\ bc \in [Clients -> ClientType] /\ Sound(bc[c]) /\ bc[c] \in ClientType
      /\ Delivering(bc[c]) /\ ch \in Channels /\ ~bc[c].stopFlag
  BY DEF Inv, TypeOK, Sound, RecvBlock, Delivering
<1>2. n \in 0 .. MaxBlocks - 1 /\ n + 1 \in 0 .. MaxBlocks /\ 0 \in 0 .. wrongStatusThreshold + 1
  BY <1>1, SMT DEF RecvBlock, ClientType
<1>3. /\ r \in ClientType /\ r.at = "loop" /\ r.ch = ch /\ r.stopFlag = bc[c].stopFlag
      /\ r.stopChan = bc[c].stopChan /\ r.conn = bc[c].conn /\ r.next = n + 1
  <2> DEFINE m == n + 1
  <2>1. m \in 0 .. MaxBlocks
    BY <1>2
  <2> HIDE DEF m, n
  <2>2. [[bc[c] EXCEPT !.errors = 0, !.next = m] EXCEPT !.at = "loop"] \in ClientType
    BY <1>1, <1>2, <2>1 DEF ClientType
  <2>3. QED
    BY <1>1, <2>2 DEF ClientType, m
<1>4. Delivering(r) /\ Sound(r)
  BY <1>1, <1>3 DEF Delivering, Sound
<1>5. bc' = [bc EXCEPT ![c] = r]
  BY DEF RecvBlock, Goes
<1> HIDE DEF r
<1>6. /\ bc' \in [Clients -> ClientType]
      /\ bc'[c] = r /\ \A d \in Clients \ {c} : bc'[d] = bc[d]
  BY <1>1, <1>3, <1>5
<1>7. /\ payloads \in [Channels -> SUBSET (0 .. MaxBlocks - 1)]
      /\ rejected \in [Channels -> SUBSET (0 .. MaxBlocks - 1)]
      /\ height \in [Channels -> 0 .. MaxBlocks] /\ UNCHANGED height
  BY DEF RecvBlock, Inv, TypeOK
<1>8. \/ payloads' = [payloads EXCEPT ![ch] = @ \cup {n}] /\ UNCHANGED rejected
      \/ rejected' = [rejected EXCEPT ![ch] = @ \cup {n}] /\ UNCHANGED payloads
  BY DEF RecvBlock
<1>9. /\ payloads' \in [Channels -> SUBSET (0 .. MaxBlocks - 1)]
      /\ rejected' \in [Channels -> SUBSET (0 .. MaxBlocks - 1)]
  BY <1>1, <1>2, <1>7, <1>8, SMT
<1>10. /\ payloads'[ch] \cup rejected'[ch] = got \cup {n}
       /\ payloads'[ch] \subseteq payloads[ch] \cup {n}
       /\ \A o \in Channels \ {ch} : payloads'[o] = payloads[o] /\ rejected'[o] = rejected[o]
  BY <1>1, <1>7, <1>8, SMT
<1>11. TypeOK'
  <2>1. budget' \in [starts : Nat, sends : Nat, failures : Nat]
    BY SpendType DEF RecvBlock, Fails, Inv, TypeOK
  <2>2. QED
    BY <1>6, <1>7, <1>9, <2>1, SMT DEF Inv, TypeOK, RecvBlock
<1>12. \A d \in Clients : Sound(bc'[d])
  BY <1>4, <1>6 DEF Inv
<1>13. Registered'
  <2>1. \A d \in Clients : bc'[d].ch = bc[d].ch /\ (Delivering(bc[d]) <=> Delivering(bc'[d]))
                           /\ bc'[d].stopFlag = bc[d].stopFlag
    BY <1>1, <1>3, <1>4, <1>6
  <2>2. \A o \in Channels : blockProviders[o] \in Clients \cup {Nil}
    BY DEF Inv, TypeOK
  <2>3. QED
    BY <2>1, <2>2, ZenonT(40) DEF Inv, Registered, RecvBlock
<1>14. AdHoc'
  BY <1>1, <1>6 DEF Inv, AdHoc, Delivering, RecvBlock
<1>15. \A k \in Nat : height[ch] <= k /\ k < n => k \in got
  BY <1>1 DEF Inv, Received
<1>16. Received'
  <2>1. SUFFICES ASSUME NEW d \in Clients, bc'[d].ch \in Channels, NEW k \in Nat,
                        height[bc'[d].ch] <= k, k < bc'[d].next
                 PROVE  k \in payloads'[bc'[d].ch] \cup rejected'[bc'[d].ch]
    BY <1>7 DEF Received
  <2>2. CASE d = c
    <3>1. k \in got \cup {n}
      BY <1>2, <1>3, <1>6, <1>15, <2>1, <2>2, SMT
    <3>2. QED
      BY <1>3, <1>6, <1>10, <2>2, <3>1
  <2>3. CASE d # c
    <3>1. k \in payloads[bc[d].ch] \cup rejected[bc[d].ch]
      BY <1>6, <2>1, <2>3 DEF Inv, Received
    <3>2. QED
      BY <1>6, <1>10, <2>1, <2>3, <3>1, SMT
  <2>4. QED
    BY <2>2, <2>3
<1>17. NoGap'
  <2>1. SUFFICES ASSUME NEW o \in Channels, NEW m \in payloads'[o], NEW k \in height[o] .. m
                 PROVE  k \in payloads'[o] \cup rejected'[o]
    BY <1>7 DEF NoGap
  <2>2. CASE o # ch \/ m \in payloads[o]
    BY <1>10, <2>1, <2>2 DEF Inv, NoGap
  <2>3. CASE o = ch /\ m = n
    <3>1. k \in Nat /\ height[ch] <= k /\ k <= n
      BY <1>2, <1>7, <2>1, <2>3, SMT
    <3>2. k \in got \cup {n}
      BY <1>2, <1>15, <3>1, SMT
    <3>3. QED
      BY <1>10, <2>3, <3>2
  <2>4. QED
    BY <1>10, <2>1, <2>2, <2>3
<1>18. QED
  BY <1>11, <1>12, <1>13, <1>14, <1>16, <1>17 DEF Inv

-----------------------------------------------------------------------------
(***************************************************************************)
(* The service's operations, the senders and the commits.                  *)
(***************************************************************************)
\* A new client object, of a delivery or of a sender.
Born(ch, at) == [Fresh EXCEPT !.ch = ch, !.at = at]

\* A client object that is made for a delivery or a sender starts sound.
LEMMA NewClientSound ==
    ASSUME Free # {}, NEW ch \in Channels, NEW at \in {"loop", "adhoc"}
    PROVE  /\ NewClient \in Clients /\ bc[NewClient].at = "unborn"
           /\ Born(ch, at) \in ClientType /\ Sound(Born(ch, at)) /\ Born(ch, at).ch = ch
           /\ Born(ch, at).at = at /\ Born(ch, at).next = 0 /\ ~Born(ch, at).stopFlag
<1>1. NewClient \in Free
  BY DEF NewClient
<1>2. /\ 0 \in 0 .. MaxBlocks /\ 0 \in 0 .. 1 /\ 0 \in 0 .. wrongStatusThreshold + 1
  BY DeliveryAssumption, SMT
<1>3. Born(ch, at) \in ClientType
  BY <1>2 DEF ClientType, Fresh, Born
<1>4. QED
  BY <1>1, <1>3 DEF Free, Fresh, Sound, Delivering, Born

\* A delivery starts only when its channel has no provider.
LEMMA StartStep ==
    ASSUME Inv, NEW ch \in Channels, StartDeliverForChannel(ch) PROVE Inv'
<1> DEFINE new == NewClient
           b == Born(ch, "loop")
<1> USE DeliveryAssumption
<1>1. /\ new \in Clients /\ bc[new].at = "unborn" /\ b \in ClientType /\ Sound(b)
      /\ b.ch = ch /\ b.at = "loop" /\ b.next = 0 /\ ~b.stopFlag
  <2>1. Free # {} /\ "loop" \in {"loop", "adhoc"}
    BY DEF StartDeliverForChannel
  <2>2. QED
    BY <2>1, NewClientSound
<1>2. bc' = [bc EXCEPT ![new] = b] /\ blockProviders' = [blockProviders EXCEPT ![ch] = new]
      /\ broadcastClients' = [broadcastClients EXCEPT ![ch] = new]
      /\ blockProviders[ch] = Nil /\ UNCHANGED <<stopping, Attempt, sender, height, payloads, rejected>>
  BY DEF StartDeliverForChannel, MayStart, chains, Born
<1> HIDE DEF new, b
<1>3. /\ bc \in [Clients -> ClientType] /\ bc' \in [Clients -> ClientType]
      /\ bc'[new] = b /\ \A d \in Clients \ {new} : bc'[d] = bc[d]
      /\ blockProviders \in [Channels -> Clients \cup {Nil}]
      /\ blockProviders'[ch] = new
      /\ \A o \in Channels \ {ch} : blockProviders'[o] = blockProviders[o]
  BY <1>1, <1>2 DEF Inv, TypeOK
<1>4. TypeOK'
  <2>1. budget' \in [starts : Nat, sends : Nat, failures : Nat]
    BY SpendType DEF StartDeliverForChannel, Inv
  <2>2. QED
    BY <1>1, <1>2, <1>3, <2>1 DEF Inv, TypeOK
<1>5. \A d \in Clients : Sound(bc'[d])
  BY <1>1, <1>3 DEF Inv
<1>6. Registered'
  <2>1. \A o \in Channels \ {ch} : blockProviders[o] # new
    BY <1>1 DEF Inv, Registered, Delivering
  <2>2. \A o \in Channels : blockProviders'[o] # Nil =>
            bc'[blockProviders'[o]].ch = o /\ Delivering(bc'[blockProviders'[o]])
    BY <1>1, <1>3, <2>1, SMT DEF Inv, Registered, Delivering
  <2>3. \A d \in Clients : Delivering(bc'[d]) /\ ~bc'[d].stopFlag =>
            blockProviders'[bc'[d].ch] = d
    <3>1. SUFFICES ASSUME NEW d \in Clients, d # new, Delivering(bc[d]), ~bc[d].stopFlag
                   PROVE  blockProviders'[bc[d].ch] = d
      BY <1>1, <1>3
    <3>2. blockProviders[bc[d].ch] = d /\ bc[d].ch \in Channels
      BY <3>1 DEF Inv, Registered, Sound
    <3>3. QED
      BY <1>2, <1>3, <3>2
  <2>4. QED
    BY <2>2, <2>3 DEF Registered
<1>7. AdHoc'
  BY <1>1, <1>2, <1>3 DEF Inv, AdHoc
<1>8. Received'
  <2>1. \A k \in Nat : ~(k < 0)
    BY SMT
  <2>2. QED
    BY <1>1, <1>2, <1>3, <2>1 DEF Inv, Received
<1>9. NoGap'
  BY <1>2 DEF Inv, NoGap
<1>10. QED
  BY <1>4, <1>5, <1>6, <1>7, <1>8, <1>9 DEF Inv

\* Stopping closes the client of the provider, and only deliveries are
\* providers.
Closes(closed) ==
    /\ closed \subseteq {c \in Clients : Delivering(bc[c])}
    /\ bc' = [c \in Clients |-> IF c \in closed THEN Stopped(bc[c]) ELSE bc[c]]
    /\ \A ch \in Channels : blockProviders'[ch] # blockProviders[ch] =>
           blockProviders'[ch] = Nil /\ blockProviders[ch] \in closed
    /\ blockProviders' \in [Channels -> Clients \cup {Nil}]
    /\ stopping' \in BOOLEAN
    /\ UNCHANGED <<broadcastClients, Attempt, sender, chains, budget>>

\* Closing deliveries keeps the invariant.
LEMMA CloseStep ==
    ASSUME Inv, NEW closed, Closes(closed) PROVE Inv'
<1> USE DEF Closes, chains
<1>1. bc \in [Clients -> ClientType] /\ \A c \in Clients : Sound(bc[c])
  BY DEF Inv, TypeOK
<1>2. \A c \in Clients :
        /\ bc'[c] \in ClientType /\ Sound(bc'[c])
        /\ bc'[c].at = bc[c].at /\ bc'[c].ch = bc[c].ch /\ bc'[c].next = bc[c].next
        /\ ~bc'[c].stopFlag => c \notin closed /\ ~bc[c].stopFlag
  BY <1>1, StoppedSound
<1>3. TypeOK'
  BY <1>2 DEF Inv, TypeOK
<1>4. Registered'
  <2>1. \A ch \in Channels : blockProviders'[ch] # Nil =>
            bc'[blockProviders'[ch]].ch = ch /\ Delivering(bc'[blockProviders'[ch]])
    BY <1>2, SMT DEF Inv, Registered, Delivering
  <2>2. \A c \in Clients : Delivering(bc'[c]) /\ ~bc'[c].stopFlag =>
            blockProviders'[bc'[c].ch] = c
    <3>1. SUFFICES ASSUME NEW c \in Clients, Delivering(bc'[c]), ~bc'[c].stopFlag
                   PROVE  blockProviders'[bc'[c].ch] = c
      OBVIOUS
    <3>2. Delivering(bc[c]) /\ ~bc[c].stopFlag /\ c \notin closed /\ bc'[c].ch = bc[c].ch
      BY <1>2, <3>1 DEF Delivering
    <3>3. blockProviders[bc[c].ch] = c /\ bc[c].ch \in Channels
      BY <1>1, <3>2 DEF Inv, Registered, Sound
    <3>4. QED
      BY <3>2, <3>3
  <2>3. QED
    BY <2>1, <2>2 DEF Registered
<1>5. AdHoc'
  BY <1>2, SMT DEF Inv, AdHoc
<1>6. Received'
  BY <1>2 DEF Inv, Received
<1>7. NoGap'
  BY DEF Inv, NoGap
<1>8. QED
  BY <1>2, <1>3, <1>4, <1>5, <1>6, <1>7 DEF Inv

\* StopDeliverForChannel closes the channel's provider, Stop all of them.
LEMMA StopStep ==
    ASSUME Inv, Stop \/ \E ch \in Channels : StopDeliverForChannel(ch) PROVE Inv'
<1> USE DeliveryAssumption
<1>1. CASE Stop
  <2> DEFINE closed == {c \in Clients : \E ch \in Channels : blockProviders[ch] = c}
  <2>1. closed \subseteq {c \in Clients : Delivering(bc[c])}
    BY SMT DEF Inv, Registered
  <2>2. bc' = [c \in Clients |-> IF c \in closed THEN Stopped(bc[c]) ELSE bc[c]]
    BY <1>1 DEF Stop
  <2>3. Closes(closed)
    BY <1>1, <2>1, <2>2 DEF Stop, Closes, Inv, TypeOK
  <2>4. QED
    BY <2>3, CloseStep
<1>2. ASSUME NEW ch \in Channels, StopDeliverForChannel(ch) PROVE Inv'
  <2> DEFINE c == blockProviders[ch]
  <2>1. c \in Clients /\ Delivering(bc[c])
    BY <1>2, SMT DEF StopDeliverForChannel, Inv, TypeOK, Registered
  <2>2. bc' = [d \in Clients |-> IF d \in {c} THEN Stopped(bc[d]) ELSE bc[d]]
    BY <1>2, <2>1 DEF StopDeliverForChannel, Inv, TypeOK
  <2>3. /\ blockProviders' \in [Channels -> Clients \cup {Nil}]
        /\ \A o \in Channels : blockProviders'[o] # blockProviders[o] =>
               blockProviders'[o] = Nil /\ blockProviders[o] \in {c}
    BY <1>2 DEF StopDeliverForChannel, Inv, TypeOK
  <2>4. stopping' \in BOOLEAN /\ UNCHANGED <<broadcastClients, Attempt, sender, chains, budget>>
    BY <1>2 DEF StopDeliverForChannel, Inv, TypeOK
  <2>5. {c} \subseteq {d \in Clients : Delivering(bc[d])}
    BY <2>1
  <2>6. Closes({c})
    BY <2>2, <2>3, <2>4, <2>5 DEF Closes
  <2>7. QED
    BY <2>6, CloseStep
<1>3. QED
  BY <1>1, <1>2

\* A sender's client is new, and nobody else connects it.
LEMMA SendStep ==
    ASSUME Inv, NEW s \in Senders, NEW ch \in Channels, SendToOrderer(s, ch) PROVE Inv'
<1> USE DeliveryAssumption
<1>1. UNCHANGED <<blockProviders, broadcastClients, stopping, Attempt, height, payloads, rejected>>
  BY DEF SendToOrderer, service, chains
<1>2. budget' \in [starts : Nat, sends : Nat, failures : Nat]
  BY SpendType DEF SendToOrderer, Inv
<1>3. CASE UNCHANGED bc /\ \E at \in {"process", "refused"} :
              sender' = [sender EXCEPT ![s] = [at |-> at, ch |-> ch, client |-> Nil]]
  <2>1. TypeOK'
    BY <1>1, <1>2, <1>3, SMT DEF Inv, TypeOK
  <2>2. AdHoc'
    BY <1>3, SMT DEF Inv, AdHoc, TypeOK
  <2>3. QED
    BY <1>1, <1>3, <2>1, <2>2 DEF Inv, Registered, Received, NoGap
<1>4. CASE /\ Free # {}
           /\ sender' = [sender EXCEPT ![s] = [at |-> "connect", ch |-> ch, client |-> NewClient]]
           /\ bc' = [bc EXCEPT ![NewClient] = [Fresh EXCEPT !.ch = ch, !.at = "adhoc"]]
  <2> DEFINE new == NewClient
             b == Born(ch, "adhoc")
  <2>1. /\ new \in Clients /\ bc[new].at = "unborn" /\ b \in ClientType /\ Sound(b)
        /\ b.ch = ch /\ b.at = "adhoc" /\ b.next = 0
    <3>1. Free # {} /\ "adhoc" \in {"loop", "adhoc"}
      BY <1>4
    <3>2. QED
      BY <3>1, NewClientSound
  <2>2. /\ bc' = [bc EXCEPT ![new] = b]
        /\ sender' = [sender EXCEPT ![s] = [at |-> "connect", ch |-> ch, client |-> new]]
    BY <1>4 DEF Born
  <2> HIDE DEF new, b
  <2>3. /\ bc' \in [Clients -> ClientType] /\ bc'[new] = b
        /\ \A d \in Clients \ {new} : bc'[d] = bc[d]
    BY <2>1, <2>2 DEF Inv, TypeOK
  <2>4. TypeOK'
    BY <1>1, <1>2, <2>1, <2>2, <2>3 DEF Inv, TypeOK
  <2>5. \A d \in Clients : Sound(bc'[d])
    BY <2>1, <2>3 DEF Inv
  <2>6. Registered'
    <3>1. \A o \in Channels : blockProviders[o] # new /\ blockProviders[o] \in Clients \cup {Nil}
      BY <2>1, SMT DEF Inv, Registered, Delivering, TypeOK
    <3>2. ~Delivering(b)
      BY <2>1 DEF Delivering
    <3>3. QED
      BY <1>1, <2>3, <3>1, <3>2 DEF Inv, Registered
  <2>7. AdHoc'
    <3>1. \A t \in Senders : sender'[t] = IF t = s THEN [at |-> "connect", ch |-> ch, client |-> new]
                                                    ELSE sender[t]
      BY <2>2 DEF Inv, TypeOK
    <3>2. QED
      BY <2>1, <2>3, <3>1, SMT DEF Inv, AdHoc
  <2>8. Received'
    <3>1. \A k \in Nat : ~(k < 0)
      BY SMT
    <3>2. QED
      BY <1>1, <2>1, <2>3, <3>1 DEF Inv, Received
  <2>9. QED
    BY <1>1, <2>4, <2>5, <2>6, <2>7, <2>8 DEF Inv, NoGap
<1>5. QED
  BY <1>3, <1>4 DEF SendToOrderer

\* A client once it is connected, as the sender that created it leaves it.
Connected(a) == [a EXCEPT !.ABC = TRUE, !.conn = "open"]

\* Connecting changes the services and the connection of a client only.
LEMMA ConnectedType ==
    ASSUME NEW a \in ClientType
    PROVE  /\ Connected(a) \in ClientType /\ Connected(a).at = a.at /\ Connected(a).ch = a.ch
           /\ Connected(a).stopFlag = a.stopFlag /\ Connected(a).next = a.next
           /\ Connected(a).stopChan = a.stopChan
<1>0. PICK abc \in BOOLEAN : abc = TRUE
  OBVIOUS
<1> DEFINE m == [a EXCEPT !.ABC = abc]
<1> DEFINE b == [m EXCEPT !.conn = "open"]
<1>1. /\ m \in ClientType /\ m.at = a.at /\ m.ch = a.ch /\ m.stopFlag = a.stopFlag
      /\ m.next = a.next /\ m.stopChan = a.stopChan
  BY SMT DEF ClientType
<1>2. Connected(a) = b
  BY <1>0 DEF Connected
<1> HIDE DEF m
<1>3. /\ b \in ClientType /\ b.at = m.at /\ b.ch = m.ch /\ b.stopFlag = m.stopFlag
      /\ b.next = m.next /\ b.stopChan = m.stopChan
  BY <1>1, SMTT(20) DEF ClientType
<1> HIDE DEF b
<1>4. QED
  BY <1>1, <1>2, <1>3

\* The connection of a sender's client is opened before anyone can close it.
LEMMA ConnectAdHocStep ==
    ASSUME Inv, NEW s \in Senders, connectAdHoc(s) PROVE Inv'
<1> DEFINE c == sender[s].client
<1> USE DeliveryAssumption
<1>1. /\ c \in Clients /\ bc[c].at = "adhoc" /\ bc[c] \in ClientType /\ Sound(bc[c])
      /\ ~bc[c].stopFlag /\ bc[c].next = 0
  BY DEF connectAdHoc, Inv, AdHoc, TypeOK, Sound, Delivering
<1>2. PICK b \in ClientType :
        /\ bc' = [bc EXCEPT ![c] = b]
        /\ b.at = "adhoc" /\ b.ch = bc[c].ch /\ ~b.stopFlag /\ b.next = 0
        /\ b.stopChan = bc[c].stopChan
  <2>1. /\ Connected(bc[c]) \in ClientType /\ Connected(bc[c]).at = "adhoc"
        /\ Connected(bc[c]).ch = bc[c].ch /\ ~Connected(bc[c]).stopFlag
        /\ Connected(bc[c]).next = 0 /\ Connected(bc[c]).stopChan = bc[c].stopChan
    BY <1>1, ConnectedType
  <2>2. CASE bc' = [bc EXCEPT ![c].ABC = TRUE, ![c].conn = "open"]
    <3>1. bc' = [bc EXCEPT ![c] = Connected(bc[c])]
      BY <1>1, <2>2 DEF Inv, TypeOK, Connected
    <3>2. QED
      BY <2>1, <3>1
  <2>3. ASSUME NEW abc \in BOOLEAN, bc' = [bc EXCEPT ![c].ABC = abc]
        PROVE  \E b \in ClientType :
                 /\ bc' = [bc EXCEPT ![c] = b]
                 /\ b.at = "adhoc" /\ b.ch = bc[c].ch /\ ~b.stopFlag /\ b.next = 0
                 /\ b.stopChan = bc[c].stopChan
    <3> DEFINE b == [bc[c] EXCEPT !.ABC = abc]
    <3>1. bc' = [bc EXCEPT ![c] = b]
      BY <2>3
    <3>2. b \in ClientType /\ b.at = "adhoc" /\ b.ch = bc[c].ch /\ ~b.stopFlag /\ b.next = 0
          /\ b.stopChan = bc[c].stopChan
      BY <1>1, SMT DEF ClientType
    <3>3. QED
      BY <3>1, <3>2
  <2>4. QED
    BY <2>2, <2>3 DEF connectAdHoc
<1>3. /\ UNCHANGED <<blockProviders, stopping, Attempt, height, payloads, rejected>>
      /\ broadcastClients' = [broadcastClients EXCEPT ![sender[s].ch] = c]
      /\ sender' = [sender EXCEPT ![s].at = "process", ![s].client = Nil]
  BY DEF connectAdHoc, chains
<1>4. /\ bc' \in [Clients -> ClientType] /\ bc'[c] = b
      /\ \A d \in Clients \ {c} : bc'[d] = bc[d]
  BY <1>1, <1>2 DEF Inv, TypeOK
<1> DEFINE SenderType == [at : {"idle", "refused", "connect", "process", "sending"},
                          ch : Channels \cup {Nil}, client : Clients \cup {Nil}]
<1>5. /\ sender' \in [Senders -> SenderType] /\ sender'[s].at = "process"
      /\ sender'[s].ch = sender[s].ch /\ sender[s].at = "connect"
      /\ \A t \in Senders \ {s} : sender'[t] = sender[t]
  <2> DEFINE r == [sender[s] EXCEPT !.at = "process", !.client = Nil]
  <2>1. sender \in [Senders -> SenderType] /\ sender[s] \in SenderType
    BY DEF Inv, TypeOK
  <2>2. sender' = [sender EXCEPT ![s] = r]
    BY <1>3, <2>1
  <2>3. r \in SenderType /\ r.at = "process" /\ r.ch = sender[s].ch
    BY <2>1
  <2>4. sender[s].at = "connect"
    BY DEF connectAdHoc
  <2> HIDE DEF r, SenderType
  <2>5. QED
    BY <2>1, <2>2, <2>3, <2>4
<1>6. TypeOK'
  <2>1. budget' \in [starts : Nat, sends : Nat, failures : Nat]
    BY SpendType DEF connectAdHoc, Fails, Inv, TypeOK
  <2>2. broadcastClients' \in [Channels -> Clients \cup {Nil}]
    BY <1>1, <1>3 DEF Inv, TypeOK
  <2>3. QED
    BY <1>3, <1>4, <1>5, <2>1, <2>2 DEF Inv, TypeOK
<1>7. \A d \in Clients : Sound(bc'[d])
  BY <1>1, <1>2, <1>4 DEF Inv, Sound, Delivering
<1>8. Registered'
  <2>1. \A d \in Clients : bc'[d].at = bc[d].at /\ bc'[d].ch = bc[d].ch
                           /\ bc'[d].stopFlag = bc[d].stopFlag
    BY <1>1, <1>2, <1>4 DEF ClientType
  <2>2. \A o \in Channels : blockProviders[o] \in Clients \cup {Nil}
    BY DEF Inv, TypeOK
  <2>3. QED
    BY <1>3, <2>1, <2>2 DEF Inv, Registered, Delivering
<1>9. AdHoc'
  <2> HIDE DEF SenderType
  <2>1. \A t \in Senders : sender'[t].at = "connect" =>
          sender'[t].client \in Clients /\ bc'[sender'[t].client].at = "adhoc"
    BY <1>1, <1>2, <1>4, <1>5, SMT DEF Inv, AdHoc
  <2>2. \A t \in Senders : sender'[t].at \in {"connect", "process"} => sender'[t].ch \in Channels
    BY <1>5 DEF Inv, AdHoc
  <2>3. QED
    BY <2>1, <2>2 DEF AdHoc
<1>10. Received'
  BY <1>1, <1>2, <1>3, <1>4, ZenonT(40) DEF Inv, Received
<1>11. QED
  BY <1>3, <1>6, <1>7, <1>8, <1>9, <1>10 DEF Inv, NoGap

\* The rest of SendToOrderer touches the map of clients only.
LEMMA SendingStep ==
    ASSUME Inv, NEW s \in Senders, process(s) \/ ProcessEnvelope(s) PROVE Inv'
<1> USE DeliveryAssumption
<1> DEFINE SenderType == [at : {"idle", "refused", "connect", "process", "sending"},
                          ch : Channels \cup {Nil}, client : Clients \cup {Nil}]
           idle == [at |-> "idle", ch |-> Nil, client |-> Nil]
<1>1. UNCHANGED <<blockProviders, stopping, Attempt, bc, height, payloads, rejected>>
  BY DEF process, ProcessEnvelope, chains
<1>2. sender \in [Senders -> SenderType] /\ sender[s] \in SenderType
      /\ broadcastClients \in [Channels -> Clients \cup {Nil}]
  BY DEF Inv, TypeOK
<1>3. PICK r \in SenderType :
        sender' = [sender EXCEPT ![s] = r] /\ r.at \notin {"connect", "process"}
  <2>1. CASE sender' = [sender EXCEPT ![s] = idle]
    <3>1. idle \in SenderType /\ idle.at = "idle"
      OBVIOUS
    <3>2. QED
      BY <2>1, <3>1
  <2>2. CASE /\ broadcastClients[sender[s].ch] # Nil /\ sender[s].ch \in Channels
             /\ sender' = [sender EXCEPT ![s].at = "sending",
                                         ![s].client = broadcastClients[sender[s].ch]]
    <3> DEFINE c == broadcastClients[sender[s].ch]
               r == [sender[s] EXCEPT !.at = "sending", !.client = c]
    <3>1. c \in Clients
      BY <1>2, <2>2
    <3>2. sender' = [sender EXCEPT ![s] = r]
      BY <1>2, <2>2
    <3> HIDE DEF c
    <3>3. r \in SenderType /\ r.at = "sending"
      BY <1>2, <3>1
    <3>4. QED
      BY <3>2, <3>3
  <2>3. process(s) => sender[s].ch \in Channels
    BY DEF process, Inv, AdHoc
  <2>4. QED
    BY <2>1, <2>2, <2>3 DEF process, ProcessEnvelope
<1>4. broadcastClients' \in [Channels -> Clients \cup {Nil}]
  BY <1>2 DEF process, ProcessEnvelope
<1>5. budget' \in [starts : Nat, sends : Nat, failures : Nat]
  BY SpendType DEF process, ProcessEnvelope, Fails, Inv, TypeOK
<1>6. TypeOK'
  BY <1>1, <1>2, <1>3, <1>4, <1>5 DEF Inv, TypeOK
<1>7. AdHoc'
  BY <1>1, <1>2, <1>3 DEF Inv, AdHoc
<1>8. QED
  BY <1>1, <1>6, <1>7 DEF Inv, Registered, Received, NoGap

\* The height passes a block that is in the buffer.
LEMMA CommitStep ==
    ASSUME Inv, NEW ch \in Channels, CommitPayload(ch) PROVE Inv'
<1> USE DeliveryAssumption
<1>1. /\ UNCHANGED <<blockProviders, broadcastClients, stopping, Attempt, bc, sender,
                     payloads, rejected, budget>>
      /\ height' = [height EXCEPT ![ch] = @ + 1] /\ height[ch] \in payloads[ch]
  BY DEF CommitPayload, service
<1>2. /\ height \in [Channels -> 0 .. MaxBlocks]
      /\ payloads \in [Channels -> SUBSET (0 .. MaxBlocks - 1)]
  BY DEF Inv, TypeOK
<1>3. height[ch] + 1 \in 0 .. MaxBlocks
  BY <1>1, <1>2, SMT
<1>4. /\ height' \in [Channels -> 0 .. MaxBlocks]
      /\ \A o \in Channels : height'[o] \in Nat /\ height[o] \in Nat /\ height[o] <= height'[o]
  BY <1>1, <1>2, <1>3, SMT
<1>5. TypeOK'
  BY <1>1, <1>4 DEF Inv, TypeOK
<1>6. Received'
  <2>1. SUFFICES ASSUME NEW c \in Clients, bc[c].ch \in Channels, NEW k \in Nat,
                        height'[bc[c].ch] <= k, k < bc[c].next
                 PROVE  k \in payloads[bc[c].ch] \cup rejected[bc[c].ch]
    BY <1>1 DEF Received
  <2>2. height[bc[c].ch] <= k
    BY <1>4, <2>1, SMT
  <2>3. QED
    BY <2>1, <2>2 DEF Inv, Received
<1>7. NoGap'
  <2>1. SUFFICES ASSUME NEW o \in Channels, NEW n \in payloads[o], NEW k \in height'[o] .. n
                 PROVE  k \in payloads[o] \cup rejected[o]
    BY <1>1 DEF NoGap
  <2>2. k \in height[o] .. n
    BY <1>2, <1>4, <2>1, SMT
  <2>3. QED
    BY <2>1, <2>2 DEF Inv, NoGap
<1>8. QED
  BY <1>1, <1>5, <1>6, <1>7 DEF Inv, Registered, AdHoc

-----------------------------------------------------------------------------
(***************************************************************************)
(* The invariant, and what follows from it.                                *)
(***************************************************************************)
LEMMA DeliveryInvariant == Spec => []Inv
<1>1. Init => Inv
  <2>1. SUFFICES ASSUME Init PROVE Inv
    OBVIOUS
  <2>2. Fresh \in ClientType /\ Sound(Fresh)
    <3>1. 0 \in 0 .. MaxBlocks /\ 0 \in 0 .. 1 /\ 0 \in 0 .. wrongStatusThreshold + 1
      BY DeliveryAssumption, SMT
    <3>2. QED
      BY <3>1 DEF Fresh, ClientType, Sound, Delivering
  <2>3. 0 \in 0 .. MaxBlocks /\ 0 \in 0 .. AttemptLimit + 1
    BY DeliveryAssumption, SMT
  <2>4. TypeOK
    BY <2>1, <2>2, <2>3, DeliveryAssumption DEF Init, TypeOK
  <2>5. Registered /\ AdHoc /\ Received /\ NoGap
    BY <2>1, DeliveryAssumption
       DEF Init, Fresh, Registered, AdHoc, Received, NoGap, Delivering
  <2>6. QED
    BY <2>1, <2>2, <2>4, <2>5 DEF Inv, Init
<1>2. Inv /\ [Next]_vars => Inv'
  <2>1. SUFFICES ASSUME Inv, [Next]_vars PROVE Inv'
    OBVIOUS
  <2>2. CASE UNCHANGED vars
    BY <2>1, <2>2 DEF vars, Inv, TypeOK, Registered, AdHoc, Received, NoGap
  <2>3. ASSUME NEW c \in Clients, Deliver(c) PROVE Inv'
    BY <2>1, <2>3, tryStep, sleepStep, connectStep, afterConnectStep, stayStep,
       RecvBlockStep, RecvStatusStep DEF Deliver
  <2>4. QED
    BY <2>1, <2>2, <2>3, StartStep, StopStep, SendStep, ConnectAdHocStep,
       SendingStep, CommitStep DEF Next
<1>3. QED
  BY <1>1, <1>2, PTL DEF Spec

\* Wherever in connect, onConnect or Recv a Close meets it, a delivery that
\* has ended leaves no connection open.
THEOREM EndedAlwaysDisconnected == Spec => []EndedIsDisconnected
<1>1. Inv => EndedIsDisconnected
  BY DEF Inv, Sound, EndedIsDisconnected
<1>2. QED
  BY <1>1, DeliveryInvariant, PTL

\* A channel has at most one delivery that has not been told to stop.
THEOREM AtMostOneDelivery == Spec => []OneActiveDelivery
<1>1. Inv => OneActiveDelivery
  <2> SUFFICES ASSUME Inv, NEW c \in Clients, NEW d \in Clients, c # d, bc[c].ch = bc[d].ch,
                      {bc[c].at, bc[d].at} \cap {"unborn", "adhoc"} = {}
               PROVE  bc[c].stopFlag \/ bc[d].stopFlag
    BY DEF OneActiveDelivery
  <2>1. Delivering(bc[c]) /\ Delivering(bc[d])
    BY DEF Delivering
  <2>2. QED
    BY <2>1 DEF Inv, Registered
<1>2. QED
  BY <1>1, DeliveryInvariant, PTL

\* No reconnection, restart or second client ever skips a block that the
\* ledger waits for.
THEOREM NeverAGap == Spec => [](TypeOK /\ NoGap)
<1>1. Inv => TypeOK /\ NoGap
  BY DEF Inv
<1>2. QED
  BY <1>1, DeliveryInvariant, PTL
=============================================================================
