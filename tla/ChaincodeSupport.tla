-------------------------- MODULE ChaincodeSupport --------------------------
(***************************************************************************)
(* The start of a chaincode and the execution of transactions on it: the   *)
(* registry of running chaincodes (core/chaincode/chaincode_support.go),   *)
(* the container that runs the chaincode (core/container), and the peer's  *)
(* side of the chaincode's stream as far as it moves the registry          *)
(* (core/chaincode/handler.go).                                            *)
(*                                                                         *)
(* The module follows one canonical chaincode name; entries of different   *)
(* names touch only in the registry's mutex, and every critical section of *)
(* that mutex is one step.  A client is a proposal that calls Launch and   *)
(* then Execute.  It starts at most one container and creates at most one  *)
(* chaincodeRTEnv, so both are named after it: the stream s is the one     *)
(* that the process started by client s opens.  The peer is not in         *)
(* development mode (userRunsCC is false).                                 *)
(***************************************************************************)
EXTENDS VMController, Sequences

Clients == Requests
Streams == Requests

CONSTANTS MaxFailures   \* bound: container and send operations that fail

ASSUME ChaincodeSupportAssumption == Nil \notin Requests /\ MaxFailures \in Nat

VARIABLES pc,          \* where a client is
          chrte,       \* the chaincodeRTEnv a client looked up, or Nil
          chaincodeMap,\* the chaincodeRTEnv under the name, or Nil
          handlerOf,   \* the stream in a chaincodeRTEnv; Nil: the placeholder
          readyNotify, \* the buffered channel of a placeholder
          notifies,    \* the placeholder whose channel a stream was given
          fsm,         \* the peer's state machine for a stream
          vmtype,      \* where the chaincode runs: docker, or in the peer
          container,   \* the process that runs, or Nil
          running,     \* the running flag of the in-process instance
          failures

registry == <<chaincodeMap, handlerOf, readyNotify, notifies>>
runtime == <<vmtype, container, running>>
vars == <<vmcVars, pc, chrte, registry, fsm, runtime, failures>>

\* pending: the process runs and has not registered.  ended: processStream
\* has returned, and the deregistration it deferred is still to come.
StreamStates == {"none", "pending", "created", "established", "ready",
                 "ended", "gone"}
Connected(s) == fsm[s] \in {"created", "established", "ready"}

Returned == {"executed", "failed"}
Goto(c, l) == pc' = [pc EXCEPT ![c] = l]
Fail == failures < MaxFailures /\ failures' = failures + 1

chaincodeHasBeenLaunched == chaincodeMap # Nil
registered(e) == handlerOf[e] # Nil
\* isRunning answers true in every state of the machine.
isRunning(s) == fsm[s] \in StreamStates

(***************************************************************************)
(* Launch, up to the start of the container.                               *)
(***************************************************************************)
Launch(c) ==
    /\ pc[c] = "idle"
    /\ Goto(c, IF ~chaincodeHasBeenLaunched THEN "fetch"
               ELSE IF ~registered(chaincodeMap) THEN "failed"
               ELSE IF isRunning(handlerOf[chaincodeMap]) THEN "launched"
               ELSE "sendReady")
    /\ UNCHANGED <<vmcVars, chrte, registry, fsm, runtime, failures>>

\* The deployment spec comes from LSCC, the code from the file system, and
\* the language of the spec must be one that has a command line.
GetCDSFromLSCC(c) ==
    /\ pc[c] = "fetch"
    /\ \/ Goto(c, "check") /\ UNCHANGED failures
       \/ Fail /\ Goto(c, "failed")
    /\ UNCHANGED <<vmcVars, chrte, registry, fsm, runtime>>

launchAndWaitForRegister(c) ==
    /\ pc[c] = "check"
    /\ Goto(c, IF chaincodeHasBeenLaunched THEN "failed" ELSE "start")
    /\ UNCHANGED <<vmcVars, chrte, registry, fsm, runtime, failures>>

(***************************************************************************)
(* The requests to the VM controller: StartImageReq and StopImageReq.      *)
(***************************************************************************)
VMCProcess(c) ==
    /\ \/ pc[c] \in {"start", "stop"} /\ lockContainer(c)
       \/ pc[c] \in {"start", "stop"} /\ AcquireContainer(c)
       \/ pc[c] \in {"started", "startFailed"} /\ unlockContainer(c)
    /\ UNCHANGED <<pc, chrte, registry, fsm, runtime, failures>>

\* The process is no more.  One that has not opened its stream never will;
\* what it has sent is still read from its stream.
ProcessEnds ==
    /\ container' = Nil
    /\ fsm' = IF container # Nil /\ fsm[container] = "pending"
              THEN [fsm EXCEPT ![container] = "gone"] ELSE fsm

\* Docker: stop, kill and remove whatever runs in the container.  Docker may
\* refuse all three or be out of reach: the error is ignored by the callers,
\* and the process stays.
stopInternal ==
    /\ vmtype = "docker"
    /\ \/ ProcessEnds /\ UNCHANGED failures
       \/ Fail /\ UNCHANGED <<container, fsm>>
    /\ UNCHANGED <<vmtype, running>>

\* Docker's Start cleans the container up and creates it, building the
\* image when there is none.  One of that name must not be there any more.
createContainer(c) ==
    /\ pc[c] = "start" /\ Inside(c)
    /\ \/ stopInternal /\ Goto(c, IF container' = Nil THEN "prelaunch" ELSE "startFailed")
       \/ /\ vmtype = "docker" /\ ProcessEnds /\ UNCHANGED <<vmtype, running>>
          /\ Fail /\ Goto(c, "startFailed")
    /\ UNCHANGED <<vmcVars, chrte, registry>>

\* The in-process Start is refused while the instance's flag is set, which
\* only Stop clears.
InprocStart(c) ==
    /\ pc[c] = "start" /\ Inside(c) /\ vmtype = "system"
    /\ Goto(c, IF running THEN "startFailed" ELSE "prelaunch")
    /\ UNCHANGED <<vmcVars, chrte, registry, fsm, runtime, failures>>

\* The placeholder replaces whatever is in the registry.
preLaunchSetup(c) ==
    /\ pc[c] = "prelaunch"
    /\ chaincodeMap' = c
    /\ Goto(c, "startContainer")
    /\ UNCHANGED <<vmcVars, chrte, handlerOf, readyNotify, notifies, fsm,
                   runtime, failures>>

\* The container is started, or the goroutines of launchInProc are, which
\* cannot fail.
StartContainer(c) ==
    /\ pc[c] = "startContainer"
    /\ \/ /\ container' = c /\ fsm' = [fsm EXCEPT ![c] = "pending"]
          /\ running' = (vmtype = "system")
          /\ Goto(c, "started") /\ UNCHANGED failures
       \/ /\ vmtype = "docker" /\ Fail
          /\ Goto(c, "startFailed") /\ UNCHANGED <<container, running, fsm>>
    /\ UNCHANGED <<vmcVars, chrte, registry, vmtype>>

\* A failed start deletes the entry of the name, whosever it is.  So does a
\* start that succeeded when the caller's context was cancelled meanwhile.
StartReturns(c) ==
    /\ pc[c] \in {"started", "startFailed"} /\ ~Inside(c)
    /\ \/ /\ pc[c] = "started" /\ Goto(c, "waitRegister")
          /\ UNCHANGED <<chaincodeMap, failures>>
       \/ /\ pc[c] = "startFailed" /\ Goto(c, "failed")
          /\ chaincodeMap' = Nil /\ UNCHANGED failures
       \/ /\ pc[c] = "started" /\ Fail /\ Goto(c, "failed")
          /\ chaincodeMap' = Nil
    /\ UNCHANGED <<vmcVars, chrte, handlerOf, readyNotify, notifies, fsm,
                   runtime>>

\* (mutant) The wait has no timeout.
WaitForRegisterForEver(c) ==
    /\ pc[c] = "waitRegister" /\ readyNotify[c] # <<>>
    /\ Goto(c, IF Head(readyNotify[c]) THEN "sendReady" ELSE "stop")
    /\ readyNotify' = [readyNotify EXCEPT ![c] = Tail(@)]
    /\ UNCHANGED <<vmcVars, chrte, chaincodeMap, handlerOf, notifies, fsm,
                   runtime, failures>>

\* The notification of the registration, or the timeout.
WaitForRegister(c) ==
    /\ pc[c] = "waitRegister"
    /\ \/ /\ readyNotify[c] # <<>>
          /\ Goto(c, IF Head(readyNotify[c]) THEN "sendReady" ELSE "stop")
          /\ readyNotify' = [readyNotify EXCEPT ![c] = Tail(@)]
       \/ Goto(c, "stop") /\ UNCHANGED readyNotify   \* the timeout
    /\ UNCHANGED <<vmcVars, chrte, chaincodeMap, handlerOf, notifies, fsm,
                   runtime, failures>>

\* (mutant) A Stop that finds no process to stop leaves the entry.
StopEarlyReturn(c) ==
    /\ pc[c] = "stop" /\ Inside(c)
    /\ stopInternal
    /\ unlockContainer(c)
    /\ Goto(c, IF container = Nil THEN "failed" ELSE "stopped")
    /\ UNCHANGED <<chrte, registry>>

\* The in-process Stop finds nothing to stop, or hands its message to
\* launchInProc - for which it waits for ever when launchInProc has returned.
InprocStop ==
    /\ vmtype = "system" /\ (running => container # Nil)
    /\ IF running THEN ProcessEnds ELSE UNCHANGED <<container, fsm>>
    /\ running' = FALSE /\ UNCHANGED <<vmtype, failures>>

\* Stop: the process is stopped inside the container's lock ...
Stop(c) ==
    /\ pc[c] = "stop" /\ Inside(c)
    /\ stopInternal \/ InprocStop
    /\ unlockContainer(c)
    /\ Goto(c, "stopped")
    /\ UNCHANGED <<chrte, registry>>

\* ... and then the entry of the name is deleted.
StopDeletesEntry(c) ==
    /\ pc[c] = "stopped"
    /\ chaincodeMap' = Nil
    /\ Goto(c, "failed")
    /\ UNCHANGED <<vmcVars, chrte, handlerOf, readyNotify, notifies, fsm,
                   runtime, failures>>

(***************************************************************************)
(* sendReady and Execute: the entry is looked up under the mutex, and its  *)
(* handler is read and used with the mutex released.                       *)
(***************************************************************************)
LookUp(c, at, found, missing) ==
    /\ pc[c] = at
    /\ chrte' = [chrte EXCEPT ![c] = chaincodeMap]
    /\ Goto(c, IF chaincodeHasBeenLaunched THEN found ELSE missing)
    /\ UNCHANGED <<vmcVars, registry, fsm, runtime, failures>>

\* createTxContext fails on a handler that is not registered.
createTxContext(c, at, created, failed) ==
    /\ pc[c] = at
    /\ Goto(c, IF registered(chrte[c]) THEN created ELSE failed)
    /\ UNCHANGED <<vmcVars, chrte, registry, fsm, runtime, failures>>

sendReady(c) == LookUp(c, "sendReady", "ready", "stop")
ready(c) == createTxContext(c, "ready", "triggerReady", "stop")
Execute(c) == LookUp(c, "launched", "execute", "failed")
sendExecuteMessage(c) ==
    createTxContext(c, "execute", "triggerExecute", "failed")

\* The stream on whose loop a client waits in triggerNextState.
Target(c) == handlerOf[chrte[c]]

\* The loop of the stream takes READY from a client: it moves an
\* established machine, answers the client, and sends READY to the shim.
TakeReady(c) ==
    LET s == Target(c) IN
    /\ pc[c] = "triggerReady" /\ Connected(s)
    /\ \/ /\ fsm[s] = "established"
          /\ fsm' = [fsm EXCEPT ![s] = "ready"]
          /\ Goto(c, "launched") /\ UNCHANGED failures
       \/ /\ fsm[s] # "established"           \* FSM.Cannot ends the stream
          /\ fsm' = [fsm EXCEPT ![s] = "ended"]
          /\ Goto(c, "waitReady") /\ UNCHANGED failures
       \/ /\ fsm[s] = "established" /\ Fail   \* the send fails
          /\ fsm' = [fsm EXCEPT ![s] = "ended"]
          /\ Goto(c, "launched")
    /\ UNCHANGED <<vmcVars, chrte, registry, runtime>>

\* The loop takes the transaction; only a ready machine can handle it.
TakeExecute(c) ==
    LET s == Target(c) IN
    /\ pc[c] = "triggerExecute" /\ Connected(s)
    /\ fsm' = [fsm EXCEPT ![s] = IF @ = "ready" THEN @ ELSE "ended"]
    /\ Goto(c, "waitExecute")
    /\ UNCHANGED <<vmcVars, chrte, registry, runtime, failures>>

\* The wait ends with the chaincode's answer or with the timeout.
EndWait(c) ==
    /\ pc[c] \in {"waitReady", "waitExecute"}
    /\ \/ pc[c] = "waitReady" /\ Goto(c, "stop")
       \/ /\ pc[c] = "waitExecute" /\ fsm[Target(c)] = "ready"
          /\ Goto(c, "executed")
       \/ pc[c] = "waitExecute" /\ Goto(c, "failed")
    /\ UNCHANGED <<vmcVars, chrte, registry, fsm, runtime, failures>>

(***************************************************************************)
(* The stream of a chaincode process.                                      *)
(***************************************************************************)
\* The process connects (HandleChaincodeStream) and sends REGISTER.
OpenStream(s) ==
    /\ fsm[s] = "pending"
    /\ fsm' = [fsm EXCEPT ![s] = "created"]
    /\ UNCHANGED <<vmcVars, pc, chrte, registry, runtime, failures>>

notifyDuringStartup(e, val) ==
    readyNotify' = [readyNotify EXCEPT ![e] = Append(@, val)]

\* A name that is registered, or that nobody launched, is refused.
Refused == chaincodeHasBeenLaunched => registered(chaincodeMap)

\* The stream takes the placeholder's place and its channel.
registerHandler(s) ==
    /\ handlerOf' = [handlerOf EXCEPT ![chaincodeMap] = s]
    /\ notifies' = [notifies EXCEPT ![s] = chaincodeMap]

\* REGISTER: the state machine calls registerHandler, answers REGISTERED
\* and, in the established state, notifies the client that waits.
beforeRegisterEvent(s) ==
    /\ fsm[s] = "created"
    /\ \/ /\ ~Refused /\ registerHandler(s)
          /\ fsm' = [fsm EXCEPT ![s] = "established"]
          /\ notifyDuringStartup(chaincodeMap, TRUE)
          /\ UNCHANGED failures
       \/ /\ ~Refused /\ registerHandler(s)
          /\ Fail /\ fsm' = [fsm EXCEPT ![s] = "ended"]
          /\ notifyDuringStartup(chaincodeMap, FALSE)
       \/ /\ Refused
          /\ fsm' = [fsm EXCEPT ![s] = "gone"]
          /\ UNCHANGED <<handlerOf, notifies, readyNotify, failures>>
    /\ UNCHANGED <<vmcVars, pc, chrte, chaincodeMap, runtime>>

\* The process, or the in-process shim, ends by itself.
ChaincodeExits(s) ==
    /\ container = s /\ Fail
    /\ ProcessEnds
    /\ UNCHANGED <<vmcVars, pc, chrte, registry, vmtype, running>>

\* launchInProc returns when the peer's side of the stream has; the flag of
\* the instance stays set.
launchInProc(s) ==
    /\ vmtype = "system" /\ container = s /\ fsm[s] = "gone"
    /\ container' = Nil
    /\ UNCHANGED <<vmcVars, pc, chrte, registry, fsm, vmtype, running, failures>>

\* (mutant) processStream does not deregister.
RecvEOFNoDeregister(s) ==
    /\ Connected(s) /\ container # s
    /\ fsm' = [fsm EXCEPT ![s] = "gone"]
    /\ UNCHANGED <<vmcVars, pc, chrte, registry, runtime, failures>>

\* The peer reads the end of the stream of a process that is gone.
RecvEOF(s) ==
    /\ Connected(s) /\ container # s
    /\ fsm' = [fsm EXCEPT ![s] = IF @ = "created" THEN "gone" ELSE "ended"]
    /\ UNCHANGED <<vmcVars, pc, chrte, registry, runtime, failures>>

\* deregister, deferred by processStream: the entry of the name goes,
\* whosever handler it holds by now.
deregisterHandler(s) ==
    /\ fsm[s] = "ended"
    /\ fsm' = [fsm EXCEPT ![s] = "gone"]
    /\ chaincodeMap' = Nil
    /\ UNCHANGED <<vmcVars, pc, chrte, handlerOf, readyNotify, notifies,
                   runtime, failures>>

-----------------------------------------------------------------------------
Init ==
    /\ VMCInit
    /\ pc = [c \in Clients |-> "idle"]
    /\ chrte = [c \in Clients |-> Nil]
    /\ chaincodeMap = Nil
    /\ handlerOf = [c \in Clients |-> Nil]
    /\ readyNotify = [c \in Clients |-> <<>>]
    /\ notifies = [s \in Streams |-> Nil]
    /\ fsm = [s \in Streams |-> "none"]
    /\ vmtype \in {"docker", "system"}
    /\ container = Nil /\ running = FALSE /\ failures = 0

ClientStep(c) ==
    \/ Launch(c) \/ GetCDSFromLSCC(c) \/ launchAndWaitForRegister(c)
    \/ VMCProcess(c) \/ createContainer(c) \/ InprocStart(c)
    \/ preLaunchSetup(c)
    \/ StartContainer(c) \/ StartReturns(c) \/ WaitForRegister(c)
    \/ Stop(c) \/ StopDeletesEntry(c)
    \/ sendReady(c) \/ ready(c) \/ Execute(c) \/ sendExecuteMessage(c)
    \/ TakeReady(c) \/ TakeExecute(c) \/ EndWait(c)

StreamStep(s) ==
    \/ OpenStream(s) \/ beforeRegisterEvent(s) \/ RecvEOF(s)
    \/ deregisterHandler(s) \/ launchInProc(s)

\* A client that waits in triggerNextState for a loop that has ended, or in
\* (or behind) an in-process Stop that nobody answers.
StopHangs(c) ==
    /\ pc[c] = "stop" /\ Inside(c)
    /\ vmtype = "system" /\ running /\ container = Nil
Hung(c) ==
    \/ /\ pc[c] \in {"triggerReady", "triggerExecute"}
       /\ ~Connected(Target(c))
    \/ StopHangs(c)
    \/ Waiting(c) /\ \E d \in Clients : StopHangs(d)

Next == \E c \in Clients : ClientStep(c) \/ StreamStep(c) \/ ChaincodeExits(c)

Spec == Init /\ [][Next]_vars
Fairness == \A c \in Clients : WF_vars(ClientStep(c)) /\ WF_vars(StreamStep(c))
FairSpec == Spec /\ Fairness

-----------------------------------------------------------------------------
TypeOK ==
    /\ VMCTypeOK
    /\ pc \in [Clients -> Returned \cup
             {"idle", "fetch", "check", "start", "prelaunch", "startContainer",
              "started", "startFailed", "waitRegister", "stop", "stopped",
              "sendReady", "ready", "triggerReady", "waitReady", "launched",
              "execute", "triggerExecute", "waitExecute"}]
    /\ chrte \in [Clients -> Clients \cup {Nil}]
    /\ chaincodeMap \in Clients \cup {Nil}
    /\ handlerOf \in [Clients -> Streams \cup {Nil}]
    /\ readyNotify \in [Clients -> Seq(BOOLEAN)]
    /\ notifies \in [Streams -> Clients \cup {Nil}]
    /\ fsm \in [Streams -> StreamStates]
    /\ vmtype \in {"docker", "system"} /\ running \in BOOLEAN
    /\ container \in Streams \cup {Nil} /\ failures \in Nat

(***************************************************************************)
(* A placeholder never outlives the launch that put it in the registry.    *)
(* While it is there every Launch of the chaincode fails with "premature   *)
(* execution", so one that stayed would make the chaincode unusable; each  *)
(* way out of launchAndWaitForRegister removes it or saw it replaced.      *)
(***************************************************************************)
PlaceholderIsAwaited ==
    \A e \in Clients :
        chaincodeMap = e /\ ~registered(e) =>
            pc[e] \in {"startContainer", "started", "startFailed",
                      "waitRegister", "stop", "stopped"}

(***************************************************************************)
(* The handler of a registered entry is a stream whose loop still runs, or *)
(* one whose loop has returned and which is about to delete the entry      *)
(* (processStream's deferred deregister).  An entry left behind by a       *)
(* stream that is gone would make every Launch succeed and every Execute   *)
(* wait for ever.                                                          *)
(***************************************************************************)
EntryHasStream ==
    \A e \in Clients :
        chaincodeMap = e /\ registered(e) =>
            fsm[handlerOf[e]] \in {"established", "ready", "ended"}

(***************************************************************************)
(* The channel of a placeholder is handed to one stream only and carries   *)
(* one message, so notifyDuringStartup, which the stream's loop calls,     *)
(* never blocks on its buffer of one - whoever else starts, stops or       *)
(* registers meanwhile.                                                    *)
(***************************************************************************)
NotifiedOnce ==
    /\ \A c \in Clients : Len(readyNotify[c]) <= 1
    /\ \A s, t \in Streams : notifies[s] # Nil /\ notifies[s] = notifies[t]
                             => s = t

(***************************************************************************)
(* Every proposal's Launch and Execute end, however the launches of the    *)
(* same chaincode overlap, unless the loop of the stream they address has  *)
(* already ended or an in-process Stop has nobody to talk to: no two of    *)
(* them wait for each other in the container's lock or for a notification  *)
(* that was given to somebody else.                                        *)
(***************************************************************************)
LaunchReturns ==
    \A c \in Clients : pc[c] # "idle" ~> pc[c] \in Returned \/ Hung(c)

=============================================================================
