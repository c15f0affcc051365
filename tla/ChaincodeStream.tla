-------------------------- MODULE ChaincodeStream --------------------------
(***************************************************************************)
(* One chaincode's stream once it is in the ready state: the peer's        *)
(* Handler (core/chaincode/handler.go), the shim's Handler in the          *)
(* chaincode's process (core/chaincode/shim/handler.go) and the callers of *)
(* ChaincodeSupport.Execute that use the stream.                           *)
(*                                                                         *)
(* A run is one call of Execute: it sends TRANSACTION or INIT and waits,   *)
(* with a timeout, on the notifier of its transaction context.  Two runs   *)
(* may carry the same transaction id: a proposal whose execution           *)
(* timed out may be submitted again.                                       *)
(*                                                                         *)
(* Every message is sent by a goroutine of its own (serialSendAsync), so   *)
(* the messages in flight in one direction are a set: any of them may      *)
(* arrive next.                                                            *)
(***************************************************************************)
EXTENDS Naturals, FiniteSets

CONSTANTS Runs,        \* calls of ChaincodeSupport.Execute
          Txids,       \* transaction ids
          Workloads,   \* what the runs are; a behaviour has one of them
          Nil

\* Requests the peer's handler answers itself, with serialSendAsync.
Direct == {"GET_STATE", "RANGE", "QUERY", "HISTORY", "NEXT", "CLOSE"}

\* Requests answered through nextState by enterBusyState.
Writes == {"PUT_STATE", "DEL_STATE"}
Busy == Writes \cup {"INVOKE"}

Requests == Direct \cup Busy
Iterless == {"GET_STATE", Nil} \cup Busy

(***************************************************************************)
(* A workload says which runs there are, gives each its transaction id,    *)
(* says which send INIT (the others send TRANSACTION), which stub calls    *)
(* the chaincode makes in a run and, as a bound, how many, and how the run *)
(* may end, if it does.                                                    *)
(***************************************************************************)
Workload == [runs : SUBSET Runs, tx : [Runs -> Txids], init : SUBSET Runs,
             calls : [Runs -> SUBSET Requests], max : [Runs -> Nat],
             ends : [Runs -> SUBSET {"COMPLETED", "ERROR"}]]

\* A message of the stream: the run it is of, the number of the stub call it belongs to
\* and, in an answer, the request it answers and whether the iterator has more.
Message ==
    [type : Requests \cup {"INIT", "TRANSACTION", "RESPONSE", "ERROR", "COMPLETED",
                           "TIMEOUT", "EXISTS"},
     run : Runs, n : Nat, req : Requests \cup {Nil}, more : BOOLEAN]

\* The runs of one transaction send the same message: they execute the same proposal.
ASSUME StreamAssumption ==
    /\ Workloads \subseteq Workload
    /\ \A l \in Workloads : \A r, q \in Runs :
          l.tx[r] = l.tx[q] => (r \in l.init <=> q \in l.init)
    /\ Nil \notin Runs \cup Requests \cup Message

VARIABLES
    load,      \* the workload
    loop,      \* the peer's processStream: where it is, and the message it holds
    work,      \* the goroutines that serve requests
    txCtxs,    \* Handler.txCtxs: the run whose context a transaction id has
    notifier,  \* responseNotifier of each run's context, a channel of capacity 1
    txidMap,   \* Handler.txidMap: transaction ids with a request being served
    exec,      \* where each run's Execute is
    result,    \* what each run's Execute got
    sim,       \* the transaction simulator of each run
    applied,   \* the writes SetState applied to the simulator of each run
    iter,      \* queryIteratorMap of each run's context: the runs with an iterator in it
    cc,        \* the chaincode's goroutine of each run
    responseChannel, \* shim Handler.responseChannel: the run waiting for a response
    shim,      \* the shim's chatWithPeer loop
    failed,    \* the runs whose goroutine in the shim ended with ERROR
    toShim, toPeer   \* messages in flight

context == <<txCtxs, notifier, exec, result>>
ledger == <<sim, applied, iter>>
process == <<cc, responseChannel, shim, failed>>
vars == <<load, loop, work, context, txidMap, ledger, process, toShim, toPeer>>

TxOf == load.tx
InitRuns == load.init

Idle == [at |-> "select", msg |-> Nil, send |-> FALSE]
Msg(type, r, n) == 
    [type |-> type, run |-> r, n |-> n, req |-> Nil, more |-> FALSE]
Answer(w) ==
    [Msg(w.reply, w.msg.run, w.msg.n) EXCEPT !.req = w.msg.type, !.more = w.more]
Up == loop.at # "ended" /\ loop.at # "panic"

\* Handler's lock: a notify that cannot send on the notifier keeps it.
Unlocked == loop.at \in {"select", "ended"}

Init ==
    /\ load \in Workloads
    /\ loop = Idle
    /\ work = {}
    /\ txCtxs = [t \in Txids |-> Nil]
    /\ notifier = [r \in Runs |-> {}]
    /\ txidMap = {}
    /\ exec = [r \in Runs |-> "idle"]
    /\ result = [r \in Runs |-> Nil]
    /\ sim = [r \in Runs |-> "none"]
    /\ applied = [r \in Runs |-> {}]
    /\ iter = [r \in Runs |-> {}]
    /\ cc = [r \in Runs |-> [at |-> "none", n |-> 0, req |-> Nil, acked |-> {}, more |-> FALSE]]
    /\ responseChannel = [t \in Txids |-> Nil]
    /\ shim = "select"
    /\ failed = {}
    /\ toShim = {}
    /\ toPeer = {}

-----------------------------------------------------------------------------
(***************************************************************************)
(* Execute: sendExecuteMessage (createTxContext, then triggerNextState,    *)
(* which blocks until the loop takes the message), the wait, and           *)
(* deleteTxContext.  The caller got its simulator before and ends it after.*)
(***************************************************************************)
createTxContextOverwrites(r) ==
    /\ r \in load.runs
    /\ exec[r] = "idle"
    /\ Unlocked
    /\ sim' = [sim EXCEPT ![r] = "open"]
    /\ txCtxs' = [txCtxs EXCEPT ![TxOf[r]] = r]
    /\ exec' = [exec EXCEPT ![r] = "trigger"]
    /\ UNCHANGED <<loop, work, notifier, result, txidMap, applied, iter, process,
                   toShim, toPeer>>

createTxContext(r) ==
    /\ r \in load.runs
    /\ exec[r] = "idle"
    /\ Unlocked
    /\ sim' = [sim EXCEPT ![r] = "open"]
    /\ IF txCtxs[TxOf[r]] # Nil
       THEN /\ result' = [result EXCEPT ![r] = Msg("EXISTS", r, 0)]
            /\ exec' = [exec EXCEPT ![r] = "end"]
            /\ UNCHANGED txCtxs
       ELSE /\ txCtxs' = [txCtxs EXCEPT ![TxOf[r]] = r]
            /\ exec' = [exec EXCEPT ![r] = "trigger"]
            /\ UNCHANGED result
    /\ UNCHANGED <<loop, work, notifier, txidMap, applied, iter, process, toShim, toPeer>>

\* processStream takes the run's message from nextState and sends it on.
sendExecuteMessage(r) ==
    /\ loop.at = "select"
    /\ exec[r] = "trigger"
    /\ exec' = [exec EXCEPT ![r] = "wait"]
    /\ toShim' = toShim \cup {Msg(IF r \in InitRuns THEN "INIT" ELSE "TRANSACTION", r, 0)}
    /\ UNCHANGED <<loop, work, txCtxs, notifier, result, txidMap, ledger, process, toPeer>>

ExecuteAnswered(r) ==
    /\ exec[r] = "wait"
    /\ \E m \in notifier[r] :
          /\ result' = [result EXCEPT ![r] = m]
          /\ notifier' = [notifier EXCEPT ![r] = @ \ {m}]
    /\ exec' = [exec EXCEPT ![r] = "delete"]
    /\ UNCHANGED <<loop, work, txCtxs, txidMap, ledger, process, toShim, toPeer>>

ExecuteNeverTimesOut(r) ==
    /\ exec[r] = "wait"
    /\ loop.at = "ended"
    /\ result' = [result EXCEPT ![r] = Msg("TIMEOUT", r, 0)]
    /\ exec' = [exec EXCEPT ![r] = "delete"]
    /\ UNCHANGED <<loop, work, txCtxs, notifier, txidMap, ledger, process, toShim, toPeer>>

ExecuteTimeout(r) ==
    /\ exec[r] = "wait"
    /\ result' = [result EXCEPT ![r] = Msg("TIMEOUT", r, 0)]
    /\ exec' = [exec EXCEPT ![r] = "delete"]
    /\ UNCHANGED <<loop, work, txCtxs, notifier, txidMap, ledger, process, toShim, toPeer>>

deleteTxContext(r) ==
    /\ exec[r] = "delete"
    /\ Unlocked
    /\ txCtxs' = [txCtxs EXCEPT ![TxOf[r]] = Nil]
    /\ exec' = [exec EXCEPT ![r] = "end"]
    /\ UNCHANGED <<loop, work, notifier, result, txidMap, ledger, process, toShim, toPeer>>

\* The endorser's deferred txsim.Done().  The iterators it closes were in a context that
\* is deleted by now.
Done(r) ==
    /\ exec[r] = "end"
    /\ exec' = [exec EXCEPT ![r] = "returned"]
    /\ sim' = [sim EXCEPT ![r] = "done"]
    /\ UNCHANGED <<loop, work, txCtxs, notifier, result, txidMap, applied, iter, process,
                   toShim, toPeer>>

-----------------------------------------------------------------------------

(***************************************************************************)
(* notify, called by HandleMessage for COMPLETED and ERROR: under the lock *)
(* it puts the message in the notifier of the transaction's context.  It   *)
(* closes the context's iterators and leaves them in queryIteratorMap.     *)
(* When the notifier is full it waits, and the lock stays taken.           *)
(***************************************************************************)
notify(m, send) ==
    LET c == txCtxs[TxOf[m.run]] IN
    IF c = Nil
    THEN /\ loop' = Idle
         /\ UNCHANGED notifier
    ELSE IF notifier[c] = {}
    THEN /\ notifier' = [notifier EXCEPT ![c] = {m}]
         /\ loop' = Idle
    ELSE /\ loop' = [at |-> "notify", msg |-> m, send |-> send]
         /\ UNCHANGED notifier

\* The send on the notifier succeeds once the executor has taken the message before it.
NotifyResumes ==
    /\ loop.at = "notify"
    /\ LET c == txCtxs[TxOf[loop.msg.run]] IN
          /\ notifier[c] = {}
          /\ notifier' = [notifier EXCEPT ![c] = {loop.msg}]
    /\ loop' = Idle
    /\ toShim' = toShim \cup (IF loop.send THEN {loop.msg} ELSE {})
    /\ UNCHANGED <<work, txCtxs, exec, result, txidMap, ledger, process, toPeer>>

\* processStream receives a message of the shim: a request gets a goroutine, the final
\* message goes to notify.
HandleMessage(m) ==
    /\ loop.at = "select"
    /\ m \in toPeer
    /\ toPeer' = toPeer \ {m}
    /\ IF m.type \in Requests
       THEN /\ work' = work \cup {[msg |-> m, at |-> "start", ctx |-> Nil, reply |-> Nil,
                                   more |-> FALSE]}
            /\ UNCHANGED <<loop, notifier>>
       ELSE /\ notify(m, FALSE)
            /\ UNCHANGED work
    /\ UNCHANGED <<txCtxs, exec, result, txidMap, ledger, process, toShim>>

-----------------------------------------------------------------------------
(***************************************************************************)
(* The goroutine of a request: createTXIDEntry, the transaction context,   *)
(* the ledger operation, deleteTXIDEntry, the answer.                      *)
(***************************************************************************)
Replace(w, v) == work' = (work \ {w}) \cup {v}

\* Both steps take the lock; between them only the context could change, which is the
\* same as its changing before the first.
createTXIDEntry(w) ==
    /\ w.at = "start"
    /\ Unlocked
    /\ LET t == TxOf[w.msg.run] IN
       IF t \in txidMap
       THEN /\ work' = work \ {w}
            /\ UNCHANGED txidMap
       ELSE /\ txidMap' = txidMap \cup {t}
            /\ Replace(w, IF txCtxs[t] = Nil
                          THEN [w EXCEPT !.at = "reply", !.reply = "ERROR"]
                          ELSE [w EXCEPT !.at = "use", !.ctx = txCtxs[t]])
    /\ UNCHANGED <<loop, context, ledger, process, toShim, toPeer>>

\* checkDone panics when the simulator is used after Done(); NEXT and CLOSE use the
\* iterator, QUERY and HISTORY a database.
Checked == {"GET_STATE", "RANGE"} \cup Writes

SimulatorPanics(w) ==
    /\ w.at = "use"
    /\ w.msg.type \in Checked
    /\ sim[w.ctx] = "done"
    /\ loop' = [Idle EXCEPT !.at = "panic"]
    /\ UNCHANGED <<work, context, txidMap, ledger, process, toShim, toPeer>>

Usable(w) ==
    /\ w.at = "use"
    /\ w.msg.type \in Checked => sim[w.ctx] = "open"
    /\ w.msg.type \in {"RANGE", "QUERY", "HISTORY", "NEXT", "CLOSE"} => Unlocked

OperationFailsSilently(w) ==
    /\ Usable(w)
    /\ Replace(w, [w EXCEPT !.at = "reply",
                            !.reply = IF w.msg.type \in Writes THEN "RESPONSE" ELSE "ERROR"])
    /\ UNCHANGED <<loop, context, txidMap, ledger, process, toShim, toPeer>>

\* The operation fails: a read or write error, an unknown iterator, or an INVOKE that is
\* refused before the call.  getQueryResponse deletes the iterator.
OperationFails(w) ==
    /\ Usable(w)
    /\ Replace(w, [w EXCEPT !.at = "reply", !.reply = "ERROR"])
    /\ iter' = IF w.msg.type = "NEXT" THEN [iter EXCEPT ![w.ctx] = @ \ {w.msg.run}] ELSE iter
    /\ UNCHANGED <<loop, context, txidMap, sim, applied, process, toShim, toPeer>>

handleGetState(w) ==
    /\ Usable(w)
    /\ w.msg.type = "GET_STATE"
    /\ Replace(w, [w EXCEPT !.at = "reply", !.reply = "RESPONSE"])
    /\ UNCHANGED <<loop, context, txidMap, ledger, process, toShim, toPeer>>

\* The goroutine calls another chaincode: the simulator of that chaincode's channel when it
\* is another one, lscc, Launch and Execute.
InvokeChaincode(w) ==
    /\ Usable(w)
    /\ w.msg.type = "INVOKE"
    /\ Replace(w, [w EXCEPT !.at = "calling"])
    /\ UNCHANGED <<loop, context, txidMap, ledger, process, toShim, toPeer>>

\* The call returned.  An error of lscc or Launch is answered with ERROR; the error of
\* Execute is assigned to the err that checkACL's := declared, and answered with RESPONSE.
InvokeReturns(w) ==
    /\ w.at = "calling"
    /\ \E reply \in {"RESPONSE", "ERROR"} :
          Replace(w, [w EXCEPT !.at = "reply", !.reply = reply])
    /\ UNCHANGED <<loop, context, txidMap, ledger, process, toShim, toPeer>>

\* On the caller's channel the called chaincode uses the caller's simulator.
CalleePanics(w) ==
    /\ w.at = "calling"
    /\ sim[w.ctx] = "done"
    /\ loop' = [Idle EXCEPT !.at = "panic"]
    /\ UNCHANGED <<work, context, txidMap, ledger, process, toShim, toPeer>>

\* PUT_STATE and DEL_STATE of enterBusyState.
SetState(w) ==
    /\ Usable(w)
    /\ w.msg.type \in Writes
    /\ Replace(w, [w EXCEPT !.at = "reply", !.reply = "RESPONSE"])
    /\ applied' = [applied EXCEPT ![w.ctx] = @ \cup {<<w.msg.run, w.msg.n>>}]
    /\ UNCHANGED <<loop, context, txidMap, sim, iter, process, toShim, toPeer>>

\* A page of the run's iterator: it stays in the map when the page is full and is deleted
\* when it reached the end.  A run has one iterator at a time.
getQueryResponse(w) ==
    /\ \E more \in BOOLEAN :
          /\ Replace(w, [w EXCEPT !.at = "reply", !.reply = "RESPONSE", !.more = more])
          /\ iter' = [iter EXCEPT ![w.ctx] = IF more THEN @ \cup {w.msg.run} ELSE @ \ {w.msg.run}]
    /\ UNCHANGED <<loop, context, txidMap, sim, applied, process, toShim, toPeer>>

handleGetStateByRange(w) ==
    Usable(w) /\ w.msg.type = "RANGE" /\ getQueryResponse(w)

handleGetQueryResult(w) ==
    Usable(w) /\ w.msg.type = "QUERY" /\ getQueryResponse(w)

handleGetHistoryForKey(w) ==
    Usable(w) /\ w.msg.type = "HISTORY" /\ getQueryResponse(w)

\* handleQueryStateNext: the next page of an iterator of the map, also of one that notify
\* or Done() has closed: LevelDB's then ends, CouchDB's goes on.
handleQueryStateNext(w) ==
    /\ Usable(w)
    /\ w.msg.type = "NEXT"
    /\ w.msg.run \in iter[w.ctx]
    /\ getQueryResponse(w)

handleQueryStateClose(w) ==
    /\ Usable(w)
    /\ w.msg.type = "CLOSE"
    /\ Replace(w, [w EXCEPT !.at = "reply", !.reply = "RESPONSE"])
    /\ iter' = [iter EXCEPT ![w.ctx] = @ \ {w.msg.run}]
    /\ UNCHANGED <<loop, context, txidMap, sim, applied, process, toShim, toPeer>>

\* The deferred function: deleteTXIDEntry first, then the answer, sent at once or, by
\* enterBusyState, offered to the loop.
deleteTXIDEntry(w) ==
    /\ w.at = "reply"
    /\ Unlocked
    /\ txidMap' = txidMap \ {TxOf[w.msg.run]}
    /\ IF w.msg.type \in Direct
       THEN /\ work' = work \ {w}
            /\ toShim' = IF loop.at = "ended" THEN toShim ELSE toShim \cup {Answer(w)}
       ELSE /\ Replace(w, [w EXCEPT !.at = "trigger"])
            /\ UNCHANGED toShim
    /\ UNCHANGED <<loop, context, ledger, process, toPeer>>

triggerNextStateNotifies(w) ==
    /\ loop.at = "select"
    /\ w.at = "trigger"
    /\ work' = work \ {w}
    /\ notify(Answer(w), TRUE)
    /\ toShim' = IF loop'.at = "notify" THEN toShim ELSE toShim \cup {Answer(w)}
    /\ UNCHANGED <<txCtxs, exec, result, txidMap, ledger, process, toPeer>>

\* triggerNextState of enterBusyState: the loop takes the answer; an ERROR passes notify
\* before it is sent to the shim.
triggerNextState(w) ==
    /\ loop.at = "select"
    /\ w.at = "trigger"
    /\ work' = work \ {w}
    /\ LET m == Answer(w) IN
       IF w.reply = "ERROR"
       THEN /\ notify(m, TRUE)
            /\ toShim' = IF loop'.at = "notify" THEN toShim ELSE toShim \cup {m}
       ELSE /\ toShim' = toShim \cup {m}
            /\ UNCHANGED <<loop, notifier>>
    /\ UNCHANGED <<txCtxs, exec, result, txidMap, ledger, process, toPeer>>

-----------------------------------------------------------------------------
(***************************************************************************)
(* The shim: chatWithPeer's loop and a goroutine for each run.             *)
(***************************************************************************)
\* beforeInit, beforeTransaction: the run gets its goroutine.
shimStart(m) ==
    /\ shim = "select"
    /\ m \in toShim
    /\ m.type \in {"INIT", "TRANSACTION"}
    /\ toShim' = toShim \ {m}
    /\ cc' = [cc EXCEPT ![m.run].at = "running"]
    /\ UNCHANGED <<loop, work, context, txidMap, ledger, responseChannel, shim, failed, toPeer>>

\* createChannel refuses a second request of a transaction, otherwise sendReceive sends.
createChannel(r, type) ==
    IF responseChannel[TxOf[r]] # Nil
    THEN /\ cc' = [cc EXCEPT ![r].n = @ + 1]
         /\ UNCHANGED <<responseChannel, toPeer>>
    ELSE /\ cc' = [cc EXCEPT ![r].at = "waiting", ![r].n = @ + 1, ![r].req = type]
         /\ responseChannel' = [responseChannel EXCEPT ![TxOf[r]] = r]
         /\ toPeer' = toPeer \cup {Msg(type, r, cc[r].n + 1)}

\* sendReceive, as far as the request.
stubCall(r, type) ==
    /\ type \in load.calls[r]
    /\ shim = "select"
    /\ cc[r].at = "running"
    /\ cc[r].n < load.max[r]
    /\ createChannel(r, type)
    /\ UNCHANGED <<loop, work, context, txidMap, ledger, shim, failed, toShim>>

\* The stub's functions, by the request they send.
GetState(r) == stubCall(r, "GET_STATE")
PutState(r) == stubCall(r, "PUT_STATE")
DelState(r) == stubCall(r, "DEL_STATE")
GetStateByRange(r) == stubCall(r, "RANGE")
GetQueryResult(r) == stubCall(r, "QUERY")
GetHistoryForKey(r) == stubCall(r, "HISTORY")
stubInvokeChaincode(r) == stubCall(r, "INVOKE")

\* An iterator fetches the next page as long as the last one said there is more.
fetchNextQueryResult(r) == cc[r].more /\ stubCall(r, "NEXT")
CloseIterator(r) == cc[r].more /\ stubCall(r, "CLOSE")

\* sendChannel, under the shim handler's lock: the run that waits on the transaction's
\* channel receives the message; without a channel it is dropped; a run that has its
\* response and has not deleted the channel never receives, and the lock stays taken.
sendChannel(m, next) ==
    LET o == responseChannel[TxOf[m.run]] IN
    IF o = Nil
    THEN cc' = next /\ UNCHANGED shim
    ELSE IF cc[o].at = "waiting"
    THEN /\ cc' = [next EXCEPT ![o].at = "received", ![o].more = m.more \/ (@ /\ m.req \in Iterless),
                               ![o].acked = IF m.type = "RESPONSE" /\ cc[o].req \in Writes
                                            THEN @ \cup {cc[o].n} ELSE @]
         /\ UNCHANGED shim
    ELSE cc' = next /\ shim' = "stuck"

\* afterResponse, afterError.
shimReceive(m) ==
    /\ shim = "select"
    /\ m \in toShim
    /\ m.type \in {"RESPONSE", "ERROR"}
    /\ toShim' = toShim \ {m}
    /\ sendChannel(m, cc)
    /\ UNCHANGED <<loop, work, context, txidMap, ledger, responseChannel, failed, toPeer>>

\* The deferred deleteChannel of the stub call; then the chaincode goes on.
deleteChannel(r) ==
    /\ shim # "stuck"
    /\ cc[r].at = "received"
    /\ cc' = [cc EXCEPT ![r].at = "running"]
    /\ responseChannel' = [responseChannel EXCEPT ![TxOf[r]] = Nil]
    /\ UNCHANGED <<loop, work, context, txidMap, ledger, shim, failed, toShim, toPeer>>

\* The goroutine of the run is done and the loop takes the final message; an ERROR of the
\* shim's own passes afterError before it is sent.
Finish(r, type) ==
    /\ shim = "select"
    /\ cc[r].at = "running"
    /\ toPeer' = toPeer \cup {Msg(type, r, 0)}
    /\ failed' = IF type = "ERROR" THEN failed \cup {r} ELSE failed
    /\ LET ended == [cc EXCEPT ![r].at = "ended", ![r].more = FALSE] IN
       IF type = "ERROR" THEN sendChannel(Msg(type, r, 0), ended)
                         ELSE cc' = ended /\ UNCHANGED shim
    /\ UNCHANGED <<loop, work, context, txidMap, ledger, responseChannel, toShim>>

\* ERROR: a payload the shim cannot read, a stub or a result it cannot make, or, in Init
\* only, an error status of the chaincode.
handleInit(r) == r \in InitRuns /\ \E type \in load.ends[r] : Finish(r, type)
handleTransaction(r) == r \notin InitRuns /\ \E type \in load.ends[r] : Finish(r, type)

\* The chaincode's process exits, or the connection breaks: processStream's Recv fails
\* and the peer's loop ends; what was in flight is lost.
StreamEnds ==
    /\ loop.at = "select"
    /\ loop' = [Idle EXCEPT !.at = "ended"]
    /\ shim' = "ended"
    /\ toShim' = {}
    /\ toPeer' = {}
    /\ cc' = [r \in Runs |-> [cc[r] EXCEPT !.at = "ended", !.more = FALSE]]
    /\ responseChannel' = [t \in Txids |-> Nil]
    /\ UNCHANGED <<work, context, txidMap, ledger, failed>>

-----------------------------------------------------------------------------
Alive == loop.at # "panic"
Step == Alive /\ UNCHANGED load

Executor(r) ==
    \/ createTxContext(r)
    \/ sendExecuteMessage(r)
    \/ ExecuteAnswered(r)
    \/ ExecuteTimeout(r)
    \/ deleteTxContext(r)
    \/ Done(r)

Serve(w) ==
    \/ createTXIDEntry(w)
    \/ SimulatorPanics(w)
    \/ OperationFails(w)
    \/ handleGetState(w)
    \/ InvokeChaincode(w)
    \/ SetState(w)
    \/ handleGetStateByRange(w)
    \/ handleGetQueryResult(w)
    \/ handleGetHistoryForKey(w)
    \/ handleQueryStateNext(w)
    \/ handleQueryStateClose(w)
    \/ deleteTXIDEntry(w)
    \/ triggerNextState(w)

Chaincode(r) ==
    \/ GetState(r) \/ PutState(r) \/ DelState(r)
    \/ GetStateByRange(r) \/ GetQueryResult(r) \/ GetHistoryForKey(r)
    \/ fetchNextQueryResult(r) \/ CloseIterator(r)
    \/ stubInvokeChaincode(r)
    \/ handleInit(r) \/ handleTransaction(r)

Next ==
    /\ Alive
    /\ UNCHANGED load
    /\ \/ \E r \in Runs : Executor(r)
       \/ \E m \in toPeer : HandleMessage(m)
       \/ NotifyResumes
       \/ \E w \in work : Serve(w)
       \/ \E w \in work : InvokeReturns(w) \/ CalleePanics(w)
       \/ \E m \in toShim : shimStart(m)
       \/ \E m \in toShim : shimReceive(m)
       \/ \E r \in Runs : Chaincode(r)
       \/ \E r \in Runs : deleteChannel(r)
       \/ StreamEnds

Spec == Init /\ [][Next]_vars

(***************************************************************************)
(* Goroutines that can run do run: executors, the two loops, the           *)
(* goroutines that serve requests and the end of a stub call.  Nothing is  *)
(* assumed of the chaincode itself: it need not call, nor return; nor of   *)
(* a call to another chaincode, which may wait for its container or for    *)
(* the commit lock of another channel.                                     *)
(***************************************************************************)
Fairness ==
    /\ \A r \in Runs :
          /\ WF_vars(Step /\ (\/ sendExecuteMessage(r) \/ ExecuteAnswered(r)
                              \/ ExecuteTimeout(r) \/ deleteTxContext(r) \/ Done(r)))
          /\ WF_vars(Step /\ deleteChannel(r))
    /\ WF_vars(Step /\ \E m \in toPeer : HandleMessage(m))
    /\ WF_vars(Step /\ NotifyResumes)
    /\ WF_vars(Step /\ \E w \in work : Serve(w))
    /\ WF_vars(Step /\ \E m \in toShim : shimStart(m) \/ shimReceive(m))

FairSpec == Spec /\ Fairness

-----------------------------------------------------------------------------

\* A run its Execute gave up on, while the chaincode may still be running it: the
\* execution timed out, a failed write answered it, or the message of another run did.
Abandoned(q) ==
    /\ result[q] # Nil
    /\ result[q].type \in {"TIMEOUT", "ERROR"} \/ result[q].run # q
    /\ exec[q] \in {"end", "returned"}

\* Another execution of the run's transaction was abandoned, its context deleted.
Disturbed(r) == \E q \in Runs \ {r} : TxOf[q] = TxOf[r] /\ Abandoned(q)

\* A notify that waits for ever: its executor chose the timeout, and deleteTxContext
\* waits for the lock notify holds; or its executor is still at triggerNextState and
\* waits for the loop, while an abandoned run of its transaction filled the notifier.
NotifyDeadlock ==
    /\ loop.at = "notify"
    /\ LET c == txCtxs[TxOf[loop.msg.run]] IN exec[c] # "wait" /\ notifier[c] # {}

(***************************************************************************)
(* An execution is answered by its own chaincode run, and its simulator    *)
(* holds its own run's writes, unless another execution of the same        *)
(* transaction had been abandoned: notify and isValidTxSim find the        *)
(* context by transaction id.  Runs of another transaction, and runs that  *)
(* follow each other as the caller waits for each, never meet.             *)
(***************************************************************************)
AnsweredByOwnRun ==
    \A r \in Runs :
       LET runs == {e[1] : e \in applied[r]} \cup
                   (IF result[r] = Nil THEN {} ELSE {result[r].run})
       IN  \A q \in runs \ {r} : TxOf[q] = TxOf[r] /\ Disturbed(r)

(***************************************************************************)
(* When Execute returns the run's COMPLETED, every write whose PutState or *)
(* DelState returned without an error is in the simulator whose results    *)
(* the endorser signs, also when other executions of the transaction were  *)
(* abandoned.  The exception is a run that overlaps another one of its     *)
(* transaction whose goroutine ended with ERROR: that message passes the   *)
(* shim's afterError and ends the call the run waits in, which from then   *)
(* on takes the answer of one call for the answer of the next.             *)
(***************************************************************************)
AckedWritesApplied ==
    \A r \in Runs :
       result[r] # Nil /\ result[r].type = "COMPLETED" /\ result[r].run = r
          /\ ~(Disturbed(r) /\ \E q \in Runs : TxOf[q] = TxOf[r] /\ q \in failed)
       => \A n \in cc[r].acked : <<r, n>> \in applied[r]

(***************************************************************************)
(* notify finds the notifier full, and keeps the handler locked, only      *)
(* when one of the two messages is the ERROR of a failed write or comes    *)
(* from another run of a transaction with an abandoned execution.          *)
(***************************************************************************)
NotifyWaitsOnlyAfterError ==
    loop.at = "notify" =>
       LET c == txCtxs[TxOf[loop.msg.run]] IN
       notifier[c] # {} => \E m \in notifier[c] \cup {loop.msg} :
             \/ m.run = c /\ m.type = "ERROR" /\ m.req \in Busy
             \/ m.run # c /\ Disturbed(c)

\* The shim's loop waits for ever, with the lock, for a run that has its response: the
\* ERROR of another run of the transaction had answered it before.
ShimDeadlock ==
    shim = "stuck" /\ \E q, r \in Runs : q # r /\ TxOf[q] = TxOf[r] /\ q \in failed

\* A goroutine of the run's transaction is in a call to another chaincode.  The request of
\* a run that meets it is dropped, and gets the answer of the call.
Calling(r) == \E w \in work : w.at = "calling" /\ TxOf[w.msg.run] = TxOf[r]

(***************************************************************************)
(* While the stream is up nobody waits for ever: an execution that created *)
(* its context returns, whatever the chaincode does, and every stub call   *)
(* is answered, also those of a run whose context is gone (they get        *)
(* ERROR) - unless a notify or the shim is deadlocked, or, for a stub      *)
(* call, as long as a call to another chaincode has not returned.          *)
(***************************************************************************)
CallsReturnWhileUp ==
    \A r \in Runs :
       /\ []<>(exec[r] \in {"idle", "returned"} \/ ~Up \/ NotifyDeadlock)
       /\ []<>(\/ cc[r].at # "waiting" \/ ~Up
              \/ NotifyDeadlock \/ ShimDeadlock \/ Calling(r))

=============================================================================
