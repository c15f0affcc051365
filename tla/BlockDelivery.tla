---------------------------- MODULE BlockDelivery ----------------------------
(***************************************************************************)
(* The delivery service of the peer (core/deliverservice): one goroutine   *)
(* per channel pulls blocks from the orderer through a broadcastClient     *)
(* that reconnects, and hands the verified ones to the gossip payload      *)
(* buffer; StopDeliverForChannel, Stop and SendToOrderer run beside it.    *)
(*                                                                         *)
(* A client is one broadcastClient object.  bc[c].at is the point its      *)
(* delivery goroutine has reached; a client that SendToOrderer made has no *)
(* goroutine.  The orderer holds the blocks 0 .. MaxBlocks-1 of each       *)
(* channel and a stream sends them in order from the position of its seek. *)
(* A workload bounds the calls of StartDeliverForChannel and SendToOrderer *)
(* and the failures of the orderer's side: connections that break, error   *)
(* statuses, blocks that fail verification.                                *)
(***************************************************************************)
EXTENDS Naturals, FiniteSets

CONSTANTS Channels,              \* channel names
          Clients,               \* identities of broadcastClient objects
          Senders,               \* goroutines that call SendToOrderer
          MaxBlocks,             \* length of each channel's chain
          Workloads,             \* bounds [starts, sends, failures] to explore
          AttemptLimit,          \* the 3 of SendToOrderer
          wrongStatusThreshold,  \* 10 in the code
          Nil

ASSUME DeliveryAssumption ==
    /\ Nil \notin Clients \cup Channels
    /\ {MaxBlocks, AttemptLimit, wrongStatusThreshold} \subseteq Nat
    /\ Workloads \subseteq [starts : Nat, sends : Nat, failures : Nat]

VARIABLES blockProviders,    \* d.blockProviders: the client of each provider
          broadcastClients,  \* d.broadcastClients
          stopping,          \* d.stopping
          Attempt,           \* the package variable, capped at AttemptLimit + 1
          bc,                \* the broadcastClient objects
          sender,            \* [at, ch, client] of each SendToOrderer call
          height,            \* ledger height per channel
          payloads,          \* blocks handed to the payload buffer
          rejected,          \* blocks dropped because VerifyBlock failed
          budget             \* what is left of the workload

vars == <<blockProviders, broadcastClients, stopping, Attempt, bc, sender,
          height, payloads, rejected, budget>>

service == <<blockProviders, broadcastClients, stopping>>
chains == <<height, payloads, rejected>>

Fresh == [ch |-> Nil, at |-> "unborn", done |-> FALSE, stopFlag |-> FALSE,
          stopChan |-> 0, conn |-> "nil", ABC |-> FALSE, errors |-> 0, next |-> 0]

Free == {c \in Clients : bc[c].at = "unborn"}

Init == /\ blockProviders = [ch \in Channels |-> Nil]
        /\ broadcastClients = [ch \in Channels |-> Nil]
        /\ stopping = FALSE
        /\ Attempt = 0
        /\ bc = [c \in Clients |-> Fresh]
        /\ sender = [s \in Senders |-> [at |-> "idle", ch |-> Nil, client |-> Nil]]
        /\ height = [ch \in Channels |-> 0]
        /\ payloads = [ch \in Channels |-> {}]
        /\ rejected = [ch \in Channels |-> {}]
        /\ budget \in Workloads

-----------------------------------------------------------------------------
(* The client object.                                                      *)

Spend(what) == budget[what] > 0 /\ budget' = [budget EXCEPT ![what] = @ - 1]

Fails == Spend("failures")

\* Attempt++ without a lock: another goroutine's write may be lost.
CountAttempt ==
    Attempt' \in {Attempt, IF Attempt > AttemptLimit THEN Attempt ELSE Attempt + 1}

Disconnected(b) == [b EXCEPT !.conn = "nil", !.next = 0]

\* broadcastClient.Close
Closed(b) ==
    IF b.stopFlag THEN b
    ELSE [b EXCEPT !.stopFlag = TRUE, !.stopChan = @ + 1,
                   !.conn = IF @ = "open" THEN "closed" ELSE @]

Goes(c, b, at) == bc' = [bc EXCEPT ![c] = [b EXCEPT !.at = at]]

-----------------------------------------------------------------------------
(* The delivery goroutine: DeliverBlocks, Recv, try, doAction, connect.    *)

\* The deferred Close of DeliverBlocks; its local counters are gone.
Exit(c) == Goes(c, [Closed(bc[c]) EXCEPT !.errors = 0, !.next = 0], "ended")

\* The mutant retries for as long as the provider's loop does not ask isDone.
StopsAtLoopOnly(b) == b.at = "loop" /\ b.done

\* isDone of the provider's loop, and shouldStop of try.
shouldStop(b) == b.stopFlag \/ (b.at = "loop" /\ b.done)

\* isDone, then Recv enters try, which stops or counts an attempt; doAction
\* connects first when there is no connection.
try(c) ==
    /\ bc[c].at \in {"loop", "backoff"}
    /\ IF shouldStop(bc[c])
       THEN Exit(c) /\ UNCHANGED Attempt
       ELSE CountAttempt /\ Goes(c, bc[c], IF bc[c].conn = "nil" THEN "dial" ELSE "action")
    /\ UNCHANGED <<service, sender, chains, budget>>

\* sleep between two attempts ends by the timer or by the token of Close.
sleep(c) ==
    /\ bc[c].at = "sleep"
    /\ Goes(c, [bc[c] EXCEPT !.stopChan = 0], "backoff")
    /\ UNCHANGED <<service, Attempt, sender, chains, budget>>

\* connect up to the stream: no endpoint answers, Deliver fails, or a stream.
connect(c) ==
    /\ bc[c].at = "dial"
    /\ \/ Goes(c, [bc[c] EXCEPT !.ABC = TRUE], "dialled") /\ UNCHANGED budget
       \/ Fails /\ \E abc \in {bc[c].ABC, TRUE} :
                      Goes(c, [bc[c] EXCEPT !.ABC = abc], "sleep")
    /\ UNCHANGED <<service, Attempt, sender, chains>>

\* The mutant asks for the block after the one the ledger waits for.
SeekAfterHeight(ch) == height[ch] + 1

\* RequestBlocks seeks the ledger's height, or the oldest block when it is 0.
RequestBlocks(ch) == IF height[ch] > 0 THEN height[ch] ELSE 0

\* The mutant leaves the connection of a stopped client to Close.
ClosingKeepsConn(b) == b

\* An error of afterConnect makes connect disconnect.
Closing(b) == Disconnected(b)

\* First half of afterConnect, up to where RequestBlocks reads the height.
afterConnect(c) ==
    /\ bc[c].at = "dialled"
    /\ LET b == [bc[c] EXCEPT !.conn = "open", !.next = RequestBlocks(bc[c].ch)]
       IN  IF b.stopFlag THEN Goes(c, Closing(b), "sleep") ELSE Goes(c, b, "onConnect")
    /\ UNCHANGED <<service, Attempt, sender, chains, budget>>

\* onConnect: Send enters try.  A failed Send disconnects, sleeps and connects
\* anew, which asks again from the height of that time.  The message that failed
\* is then sent after it on the new stream; the ordering service reads the first
\* request of a stream and is busy with it, as it has no end.
Send(c) ==
    /\ bc[c].at = "onConnect"
    /\ \/ /\ bc[c].stopFlag
          /\ Goes(c, Closing(bc[c]), "sleep")
          /\ UNCHANGED <<Attempt, budget>>
       \/ /\ ~bc[c].stopFlag
          /\ Goes(c, bc[c], "connected")
          /\ Attempt' = 0
          /\ UNCHANGED budget
       \/ /\ ~bc[c].stopFlag
          /\ Fails
          /\ CountAttempt
          /\ Goes(c, Disconnected(bc[c]), "sleep")
    /\ UNCHANGED <<service, sender, chains>>

\* Second half of afterConnect.
connected(c) ==
    /\ bc[c].at = "connected"
    /\ IF bc[c].stopFlag THEN Goes(c, Closing(bc[c]), "sleep") ELSE Goes(c, bc[c], "action")
    /\ UNCHANGED <<service, Attempt, sender, chains, budget>>

\* The action of Recv looks at stopFlag once more before it blocks.
Recv(c) ==
    /\ bc[c].at = "action"
    /\ IF bc[c].stopFlag THEN Goes(c, Disconnected(bc[c]), "sleep") ELSE Goes(c, bc[c], "recv")
    /\ UNCHANGED <<service, Attempt, sender, chains, budget>>

\* The stream breaks, or Close has closed it under the blocked Recv.
RecvFails(c) ==
    /\ bc[c].at = "recv"
    /\ IF bc[c].conn = "closed" THEN UNCHANGED budget ELSE Fails
    /\ Goes(c, Disconnected(bc[c]), "sleep")
    /\ UNCHANGED <<service, Attempt, sender, chains>>

\* A block: verified and handed to the payload buffer, or dropped.
RecvBlock(c) ==
    LET b == bc[c] IN
    /\ b.at = "recv" /\ b.conn = "open" /\ b.next < MaxBlocks
    /\ Attempt' = 0
    /\ Goes(c, [b EXCEPT !.errors = 0, !.next = @ + 1], "loop")
    /\ \/ payloads' = [payloads EXCEPT ![b.ch] = @ \cup {b.next}] /\ UNCHANGED <<rejected, budget>>
       \/ Fails /\ rejected' = [rejected EXCEPT ![b.ch] = @ \cup {b.next}] /\ UNCHANGED payloads
    /\ UNCHANGED <<service, sender, height>>

\* After a status the orderer sends nothing more on the stream.
Exhausted(b) == [b EXCEPT !.next = MaxBlocks]

\* The mutant goes on with the stream that has answered with a status.
StatusKeepsStream(b) == Exhausted(b)

AfterStatus(b) == Disconnected(b)

\* A status: SUCCESS (or an unknown message) ends the delivery, and so do too
\* many client errors in a row; after any other the client asks again.
RecvStatus(c) ==
    LET b == bc[c] IN
    /\ b.at = "recv" /\ b.conn = "open"
    /\ Fails
    /\ Attempt' = 0
    /\ \/ Exit(c)
       \/ IF b.errors + 1 > wrongStatusThreshold
          THEN Exit(c)
          ELSE Goes(c, AfterStatus([b EXCEPT !.errors = @ + 1]), "loop")
       \/ Goes(c, AfterStatus([b EXCEPT !.errors = 0]), "loop")
    /\ UNCHANGED <<service, sender, chains>>

Deliver(c) == \/ try(c) \/ sleep(c) \/ connect(c) \/ afterConnect(c) \/ Send(c)
              \/ connected(c) \/ Recv(c) \/ RecvFails(c) \/ RecvBlock(c) \/ RecvStatus(c)

-----------------------------------------------------------------------------
(* The service's own operations, under d.lock.                             *)

NewClient == CHOOSE c \in Free : TRUE

MayStart(ch) == ~stopping /\ blockProviders[ch] = Nil

StartDeliverForChannel(ch) ==
    /\ MayStart(ch) /\ Free # {}
    /\ Spend("starts")
    /\ bc' = [bc EXCEPT ![NewClient] = [Fresh EXCEPT !.ch = ch, !.at = "loop"]]
    /\ blockProviders' = [blockProviders EXCEPT ![ch] = NewClient]
    /\ broadcastClients' = [broadcastClients EXCEPT ![ch] = NewClient]
    /\ UNCHANGED <<stopping, Attempt, sender, chains>>

\* blocksProviderImpl.Stop
Stopped(b) == Closed([b EXCEPT !.done = TRUE])

StopDeliverForChannel(ch) ==
    /\ ~stopping /\ blockProviders[ch] # Nil
    /\ bc' = [bc EXCEPT ![blockProviders[ch]] = Stopped(@)]
    /\ blockProviders' = [blockProviders EXCEPT ![ch] = Nil]
    /\ UNCHANGED <<broadcastClients, stopping, Attempt, sender, chains, budget>>

Stop ==
    /\ stopping' = TRUE
    /\ bc' = [c \in Clients |->
                 IF \E ch \in Channels : blockProviders[ch] = c THEN Stopped(bc[c]) ELSE bc[c]]
    /\ UNCHANGED <<blockProviders, broadcastClients, Attempt, sender, chains, budget>>

-----------------------------------------------------------------------------
(* SendToOrderer, without d.lock.                                          *)

Usable(c) == bc[c].ABC /\ ~bc[c].stopFlag

\* ProcessEnvelope can succeed: the connection behind ABC is live.
Live(c) == bc[c].conn = "open" \/ bc[c].at = "dialled"

SendToOrderer(s, ch) ==
    LET client == broadcastClients[ch]
        Goto(at, c) == sender' = [sender EXCEPT ![s] = [at |-> at, ch |-> ch, client |-> c]]
    IN  /\ sender[s].at \in {"idle", "refused"}
        /\ Spend("sends")
        /\ IF client # Nil /\ Usable(client) THEN Goto("process", Nil) /\ UNCHANGED bc
           ELSE IF Attempt > AttemptLimit THEN Goto("refused", Nil) /\ UNCHANGED bc
           ELSE /\ Free # {}
                /\ Goto("connect", NewClient)
                /\ bc' = [bc EXCEPT ![NewClient] = [Fresh EXCEPT !.ch = ch, !.at = "adhoc"]]
        /\ UNCHANGED <<service, Attempt, chains>>

\* bClient.connect(), whose error is ignored, and the store into the map.
connectAdHoc(s) ==
    LET c == sender[s].client IN
    /\ sender[s].at = "connect"
    /\ \/ bc' = [bc EXCEPT ![c].ABC = TRUE, ![c].conn = "open"] /\ UNCHANGED budget
       \/ Fails /\ \E abc \in BOOLEAN : bc' = [bc EXCEPT ![c].ABC = abc]
    /\ broadcastClients' = [broadcastClients EXCEPT ![sender[s].ch] = c]
    /\ sender' = [sender EXCEPT ![s].at = "process", ![s].client = Nil]
    /\ UNCHANGED <<blockProviders, stopping, Attempt, chains>>

\* The second look at the map: a client to send through, one to forget, or none.
process(s) ==
    LET ch == sender[s].ch
        client == broadcastClients[ch]
    IN  /\ sender[s].at = "process"
        /\ IF client # Nil /\ Usable(client)
           THEN /\ sender' = [sender EXCEPT ![s].at = "sending", ![s].client = client]
                /\ UNCHANGED broadcastClients
           ELSE /\ sender' = [sender EXCEPT ![s] = [at |-> "idle", ch |-> Nil, client |-> Nil]]
                /\ broadcastClients' = [broadcastClients EXCEPT ![ch] = Nil]
        /\ UNCHANGED <<blockProviders, stopping, Attempt, bc, chains, budget>>

\* ProcessEnvelope answers; an error forgets whichever client is in the map.
ProcessEnvelope(s) ==
    /\ sender[s].at = "sending"
    /\ sender' = [sender EXCEPT ![s] = [at |-> "idle", ch |-> Nil, client |-> Nil]]
    /\ \/ Live(sender[s].client) /\ UNCHANGED <<broadcastClients, budget>>
       \/ /\ IF Live(sender[s].client) THEN Fails ELSE UNCHANGED budget
          /\ broadcastClients' = [broadcastClients EXCEPT ![sender[s].ch] = Nil]
    /\ UNCHANGED <<blockProviders, stopping, Attempt, bc, chains>>

-----------------------------------------------------------------------------
\* The gossip state provider commits the payloads in order.
CommitPayload(ch) ==
    /\ height[ch] \in payloads[ch]
    /\ height' = [height EXCEPT ![ch] = @ + 1]
    /\ UNCHANGED <<service, Attempt, bc, sender, payloads, rejected, budget>>

Next == \/ \E c \in Clients : Deliver(c)
        \/ \E ch \in Channels : \/ StartDeliverForChannel(ch)
                                \/ StopDeliverForChannel(ch)
                                \/ CommitPayload(ch)
        \/ Stop
        \/ \E s \in Senders : \/ \E ch \in Channels : SendToOrderer(s, ch)
                              \/ connectAdHoc(s) \/ process(s) \/ ProcessEnvelope(s)

Spec == Init /\ [][Next]_vars

\* The goroutine of a client and the commits of a channel keep running.
Fairness == /\ \A c \in Clients : WF_vars(Deliver(c))
            /\ \A ch \in Channels : WF_vars(CommitPayload(ch))

FairSpec == Spec /\ Fairness

-----------------------------------------------------------------------------
(* Properties.                                                             *)

ClientType ==
    [ch : Channels \cup {Nil},
     at : {"unborn", "adhoc", "loop", "dial", "dialled", "onConnect", "connected",
           "action", "recv", "sleep", "backoff", "ended"},
     done : BOOLEAN, stopFlag : BOOLEAN, stopChan : 0 .. 1,
     conn : {"nil", "open", "closed"}, ABC : BOOLEAN,
     errors : 0 .. wrongStatusThreshold + 1, next : 0 .. MaxBlocks]

\* Every variable has its type; the stop channel of a client never holds
\* more than the one token its buffer has room for, so that Close never
\* blocks while it holds the client's and the service's locks.
TypeOK ==
    /\ blockProviders \in [Channels -> Clients \cup {Nil}]
    /\ broadcastClients \in [Channels -> Clients \cup {Nil}]
    /\ stopping \in BOOLEAN
    /\ Attempt \in 0 .. AttemptLimit + 1
    /\ bc \in [Clients -> ClientType]
    /\ sender \in [Senders -> [at : {"idle", "refused", "connect", "process", "sending"},
                               ch : Channels \cup {Nil}, client : Clients \cup {Nil}]]
    /\ height \in [Channels -> 0 .. MaxBlocks]
    /\ payloads \in [Channels -> SUBSET (0 .. MaxBlocks - 1)]
    /\ rejected \in [Channels -> SUBSET (0 .. MaxBlocks - 1)]
    /\ budget \in [starts : Nat, sends : Nat, failures : Nat]

\* A delivery goroutine that has ended leaves no connection open, wherever
\* in connect, onConnect or Recv the Close of another goroutine met it
\* (the argument in the comments of afterConnect).
EndedIsDisconnected == \A c \in Clients : bc[c].at = "ended" => bc[c].conn # "open"

\* At most one client per channel pulls blocks without having been told to
\* stop, through starts, stops, give-ups and restarts of the delivery.
OneActiveDelivery ==
    \A c, d \in Clients :
       /\ c # d /\ bc[c].ch = bc[d].ch
       /\ {bc[c].at, bc[d].at} \cap {"unborn", "adhoc"} = {}
       => bc[c].stopFlag \/ bc[d].stopFlag

\* Between the ledger's height and any block in the payload buffer nothing
\* is missing but blocks whose verification failed: a reconnection, or a new
\* client, never asks the orderer to start beyond what the ledger waits for.
NoGap ==
    \A ch \in Channels : \A n \in payloads[ch] :
       \A k \in height[ch] .. n : k \in payloads[ch] \cup rejected[ch]

\* A client that has been told to stop ends its goroutine, even when Close
\* finds it blocked in Recv, dialling or sleeping between two attempts.
StopTerminates ==
    \A c \in Clients : (bc[c].stopFlag /\ bc[c].at # "unborn") ~> bc[c].at = "ended"

\* A channel whose provider is never stopped and does not give up gets every
\* block into the ledger, whatever finite number of failures and error
\* statuses interrupts it, unless a block failed verification.
BlocksDelivered ==
    \A ch \in Channels :
       (blockProviders[ch] # Nil) ~>
          \/ height[ch] = MaxBlocks \/ rejected[ch] # {}
          \/ blockProviders[ch] = Nil \/ bc[blockProviders[ch]].stopFlag
=============================================================================
