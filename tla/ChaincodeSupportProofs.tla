----------------------- MODULE ChaincodeSupportProofs -----------------------
(***************************************************************************)
(* Proofs about the controller's container locks and the registry of       *)
(* running chaincodes, for any number of proposals that launch and execute *)
(* one chaincode at the same time.                                         *)
(*                                                                         *)
(* lockContainer and unlockContainer give mutual exclusion, and the        *)
(* reference count keeps the lock object in the map for as long as a       *)
(* request refers to it.                                                   *)
(***************************************************************************)
EXTENDS ChaincodeSupport, FiniteSetTheorems, SequenceTheorems, TLAPS

\* A leaf is proved by Zenon, unless it names another prover.
USE Zenon

(***************************************************************************)
(* The inductive invariant: the count is that of the requests under way,   *)
(* they all refer to the object in the map, and no other object is held.   *)
(***************************************************************************)
Counted ==
    /\ refCount = Cardinality(Active)
    /\ containerLocks = Nil => Active = {}
    /\ \A r \in Active : req[r].lock = containerLocks

Held ==
    /\ \A k \in locked : k = containerLocks
    /\ \A r \in Requests : Inside(r) => containerLocks \in locked
    /\ MutualExclusion

LockInv == VMCTypeOK /\ Counted /\ Held

\* The requests under way are finitely many.
LEMMA ActiveFinite == IsFiniteSet(Active)
BY VMControllerAssumption, FS_Subset DEF Active

\* Initially nobody holds anything.
LEMMA LockInit ==
    ASSUME VMCInit PROVE LockInv
<1>1. Active = {}
  BY DEF VMCInit, Active
<1>2. QED
  BY <1>1, FS_EmptySet
     DEF VMCInit, LockInv, VMCTypeOK, Counted, Held, MutualExclusion, Inside, Active

\* A request that takes a reference finds the object of the others, or there
\* are no others.
LEMMA LockStep ==
    ASSUME LockInv, NEW r \in Requests, lockContainer(r) PROVE LockInv'
<1> USE VMControllerAssumption DEF LockInv, VMCTypeOK, Counted, Held
<1>1. r \notin Active /\ req[r].at = "idle"
  BY DEF lockContainer, Active
<1>2. containerLocks' \in Locks
  <2>1. CASE containerLocks = Nil
    <3>1. NewLock \in Locks
      BY <2>1 DEF NewLock
    <3>2. QED
      BY <2>1, <3>1 DEF lockContainer
  <2>2. QED
    BY <2>1 DEF lockContainer
<1>3. /\ req'[r] = [at |-> "waiting", lock |-> containerLocks']
      /\ \A q \in Requests \ {r} : req'[q] = req[q]
      /\ req' \in [Requests -> [at : {"idle", "waiting", "inside"}, lock : Locks \cup {Nil}]]
  BY <1>2 DEF lockContainer
<1>4. Active' = Active \cup {r}
  BY <1>1, <1>3, SMT DEF Active
<1>5. refCount' = Cardinality(Active')
  <2>1. Cardinality(Active') = Cardinality(Active) + 1
    BY <1>1, <1>4, ActiveFinite, FS_AddElement
  <2>2. CASE containerLocks = Nil
    <3>1. Cardinality(Active) = 0
      BY <2>2, FS_EmptySet
    <3>2. QED
      BY <2>1, <2>2, <3>1, SMT DEF lockContainer
  <2>3. CASE containerLocks # Nil
    BY <2>1, <2>3 DEF lockContainer
  <2>4. QED
    BY <2>2, <2>3
<1>6. \A q \in Active' : req'[q].lock = containerLocks'
  BY <1>3, <1>4 DEF lockContainer, Active
<1>7. locked' = locked
  BY DEF lockContainer
<1>8. \A q \in Requests : Inside(q)' <=> Inside(q)
  BY <1>1, <1>3, SMT DEF Inside
<1>9. containerLocks = Nil => locked = {} /\ \A q \in Requests : ~Inside(q)
  BY DEF Inside, Active
<1>10. containerLocks # Nil => containerLocks' = containerLocks
  BY DEF lockContainer
<1>11. refCount' \in Nat
  BY SMT DEF lockContainer
<1>12. Held'
  BY <1>7, <1>8, <1>9, <1>10 DEF MutualExclusion
<1>13. QED
  BY <1>2, <1>3, <1>5, <1>6, <1>7, <1>11, <1>12

\* A request enters only when nobody holds the object, and nobody can hold
\* another.
LEMMA AcquireStep ==
    ASSUME LockInv, NEW r \in Requests, AcquireContainer(r) PROVE LockInv'
<1> USE VMControllerAssumption DEF LockInv, VMCTypeOK, Counted, Held
<1>1. r \in Active /\ req[r].lock = containerLocks /\ containerLocks \notin locked
      /\ containerLocks \in Locks
  BY DEF AcquireContainer, Waiting, Active
<1>2. \A q \in Requests : ~Inside(q)
  BY <1>1
<1>3. /\ req'[r].at = "inside" /\ req'[r].lock = req[r].lock
      /\ \A q \in Requests \ {r} : req'[q] = req[q]
      /\ req' \in [Requests -> [at : {"idle", "waiting", "inside"}, lock : Locks \cup {Nil}]]
  BY SMT DEF AcquireContainer
<1>4. Active' = Active
  BY <1>1, <1>3 DEF Active
<1>5. \A q \in Requests : Inside(q)' => q = r
  BY <1>2, <1>3 DEF Inside
<1>6. UNCHANGED <<containerLocks, refCount>> /\ locked' = locked \cup {containerLocks}
  BY <1>1 DEF AcquireContainer
<1>7. VMCTypeOK'
  BY <1>1, <1>3, <1>6
<1>8. Counted'
  BY <1>1, <1>3, <1>4, <1>6 DEF Active
<1>9. Held'
  BY <1>1, <1>5, <1>6 DEF MutualExclusion
<1>10. QED
  BY <1>7, <1>8, <1>9

\* A request that leaves finds the object, and takes it out of the map only
\* when it is the last to refer to it.
LEMMA UnlockStep ==
    ASSUME LockInv, NEW r \in Requests, unlockContainer(r) PROVE LockInv'
<1> USE VMControllerAssumption DEF LockInv, VMCTypeOK, Counted, Held
<1>1. r \in Active /\ containerLocks \in Locks /\ containerLocks \in locked
  BY DEF unlockContainer, Inside, Active
<1>2. /\ locked' = locked \ {containerLocks}
      /\ refCount' = refCount - 1
      /\ containerLocks' = IF refCount' = 0 THEN Nil ELSE containerLocks
  BY <1>1 DEF unlockContainer
<1>3. /\ req'[r] = [at |-> "idle", lock |-> Nil]
      /\ \A q \in Requests \ {r} : req'[q] = req[q]
      /\ req' \in [Requests -> [at : {"idle", "waiting", "inside"}, lock : Locks \cup {Nil}]]
  BY DEF unlockContainer
<1>4. Active' = Active \ {r}
  BY <1>3, SMT DEF Active
<1>5. Cardinality(Active') = Cardinality(Active) - 1 /\ IsFiniteSet(Active')
  BY <1>1, <1>4, ActiveFinite, FS_RemoveElement
<1>6. refCount' \in Nat
  BY <1>2, <1>5, FS_CardinalityType
<1>7. refCount' = 0 => Active' = {}
  BY <1>2, <1>5, FS_EmptySet
<1>8. \A q \in Requests : ~Inside(q)'
  BY <1>3 DEF unlockContainer, MutualExclusion, Inside
<1>9. locked' = {}
  BY <1>2
<1>10. Counted'
  BY <1>2, <1>3, <1>4, <1>5, <1>7 DEF Active
<1>11. Held'
  BY <1>8, <1>9 DEF MutualExclusion
<1>12. QED
  BY <1>1, <1>2, <1>3, <1>6, <1>9, <1>10, <1>11

\* Every step of a request keeps the invariant.
LEMMA VMCStep ==
    ASSUME LockInv, [VMCNext]_vmcVars PROVE LockInv'
<1>1. CASE UNCHANGED vmcVars
  BY <1>1 DEF vmcVars, LockInv, VMCTypeOK, Counted, Held, MutualExclusion, Inside, Active
<1>2. QED
  BY <1>1, LockStep, AcquireStep, UnlockStep DEF VMCNext

\* The invariant gives both properties of the lock.
LEMMA LockInvImplies ==
    ASSUME LockInv PROVE MutualExclusion /\ UnlockFindsItsLock
<1>1. MutualExclusion
  BY DEF LockInv, Held
<1>2. ASSUME NEW r \in Requests, Inside(r)
      PROVE  containerLocks # Nil /\ req[r].lock = containerLocks /\ containerLocks \in locked
  BY <1>2, VMControllerAssumption DEF LockInv, VMCTypeOK, Counted, Held, Inside, Active
<1>3. ASSUME NEW r \in Requests, Inside(r) PROVE refCount > 0
  <2>1. r \in Active
    BY <1>3 DEF Inside, Active
  <2>2. Cardinality(Active) # 0 /\ Cardinality(Active) \in Nat
    BY <2>1, ActiveFinite, FS_EmptySet, FS_CardinalityType
  <2>3. QED
    BY <2>2, SMT DEF LockInv, Counted
<1>4. QED
  BY <1>1, <1>2, <1>3 DEF UnlockFindsItsLock

\* Two requests for one container are never inside its lock at once.
THEOREM ContainerMutualExclusion == VMCSpec => []MutualExclusion
<1>1. VMCInit => LockInv
  BY LockInit
<1>2. LockInv /\ [VMCNext]_vmcVars => LockInv'
  BY VMCStep
<1>3. LockInv => MutualExclusion
  BY LockInvImplies
<1>4. QED
  BY <1>1, <1>2, <1>3, PTL DEF VMCSpec
-----------------------------------------------------------------------------
(***************************************************************************)
(* The requests of the clients use the container's lock as the controller  *)
(* allows: every step is one of the controller's, or leaves the lock alone.*)
(***************************************************************************)
LEMMA StepsOfController ==
    ASSUME [Next]_vars PROVE [VMCNext]_vmcVars
<1> USE DEF vmcVars
<1>1. CASE UNCHANGED vars
  BY <1>1 DEF vars
<1>2. ASSUME NEW c \in Requests, ClientStep(c) PROVE [VMCNext]_vmcVars
  <2>1. CASE VMCProcess(c)
    BY <2>1 DEF VMCProcess, VMCNext
  <2>2. CASE Stop(c)
    BY <2>2 DEF Stop, VMCNext
  <2>3. CASE Launch(c) \/ GetCDSFromLSCC(c) \/ launchAndWaitForRegister(c)
             \/ createContainer(c) \/ InprocStart(c) \/ preLaunchSetup(c)
    BY <2>3 DEF Launch, GetCDSFromLSCC, launchAndWaitForRegister,
                createContainer, InprocStart, preLaunchSetup
  <2>4. CASE StartContainer(c) \/ StartReturns(c) \/ WaitForRegister(c)
             \/ StopDeletesEntry(c) \/ TakeReady(c) \/ TakeExecute(c) \/ EndWait(c)
    BY <2>4 DEF StartContainer, StartReturns, WaitForRegister,
                StopDeletesEntry, TakeReady, TakeExecute, EndWait
  <2>5. CASE sendReady(c) \/ ready(c) \/ Execute(c) \/ sendExecuteMessage(c)
    BY <2>5 DEF sendReady, ready, Execute, sendExecuteMessage, LookUp, createTxContext
  <2>6. QED
    BY <1>2, <2>1, <2>2, <2>3, <2>4, <2>5 DEF ClientStep
<1>3. ASSUME NEW s \in Requests, StreamStep(s) \/ ChaincodeExits(s)
      PROVE  UNCHANGED vmcVars
  BY <1>3 DEF StreamStep, OpenStream, beforeRegisterEvent, RecvEOF,
              deregisterHandler, launchInProc, ChaincodeExits
<1>4. QED
  BY <1>1, <1>2, <1>3 DEF Next, Clients

\* The lock's invariant holds of the composition.
LEMMA LockInvariant == Spec => []LockInv
<1>1. Init => LockInv
  BY LockInit DEF Init
<1>2. LockInv /\ [Next]_vars => LockInv'
  BY VMCStep, StepsOfController
<1>3. QED
  BY <1>1, <1>2, PTL DEF Spec

\* Start and stop of one container never overlap, and unlockContainer always
\* finds the lock object it took, however the proposals interleave.
THEOREM StartStopExclusion == Spec => [](MutualExclusion /\ UnlockFindsItsLock)
<1>1. LockInv => MutualExclusion /\ UnlockFindsItsLock
  BY LockInvImplies
<1>2. QED
  BY <1>1, LockInvariant, PTL

-----------------------------------------------------------------------------
(***************************************************************************)
(* The registry.                                                           *)
(***************************************************************************)
BeforeEntry == {"idle", "fetch", "check", "start", "prelaunch"}
Awaiting == {"startContainer", "started", "startFailed", "waitRegister",
             "stop", "stopped"}
WithLoop == {"established", "ready", "ended"}

\* An entry's handler, and the stream named after its client, come after the
\* client's preLaunchSetup and StartContainer.
InOrder ==
    \A c \in Clients :
        /\ pc[c] \in BeforeEntry => handlerOf[c] = Nil
        /\ pc[c] \in BeforeEntry \cup {"startContainer"} => fsm[c] = "none"

\* A channel is empty until its entry has a handler, which is the one stream
\* that was given it.
ChannelOfHandler ==
    /\ \A e \in Clients : handlerOf[e] = Nil => readyNotify[e] = <<>>
    /\ \A e \in Clients : Len(readyNotify[e]) <= 1
    /\ \A s \in Streams : notifies[s] # Nil => handlerOf[notifies[s]] = s

RegistryInv ==
    PlaceholderIsAwaited /\ EntryHasStream /\ InOrder /\ ChannelOfHandler

\* A step fails at most once.
LEMMA FailuresType ==
    ASSUME failures \in Nat, Fail \/ UNCHANGED failures PROVE failures' \in Nat
BY SMT DEF Fail

\* What a stopped process leaves of its stream.
LEMMA ProcessEndsType ==
    ASSUME fsm \in [Streams -> StreamStates], ProcessEnds
    PROVE  fsm' \in [Streams -> StreamStates]
BY DEF ProcessEnds, StreamStates

\* The channels hold Booleans.
LEMMA NotifyType ==
    ASSUME readyNotify \in [Clients -> Seq(BOOLEAN)], NEW e \in Clients \cup {Nil},
           NEW v \in BOOLEAN, notifyDuringStartup(e, v)
    PROVE  readyNotify' \in [Clients -> Seq(BOOLEAN)]
<1>1. ASSUME e \in Clients PROVE Append(readyNotify[e], v) \in Seq(BOOLEAN)
  <2>1. readyNotify[e] \in Seq(BOOLEAN)
    BY <1>1
  <2>2. QED
    BY <2>1, AppendProperties
<1>2. QED
  BY <1>1 DEF notifyDuringStartup

\* Every step keeps the types.
LEMMA TypeStep ==
    ASSUME TypeOK, VMCTypeOK', NEW c \in Requests,
           ClientStep(c) \/ StreamStep(c) \/ ChaincodeExits(c)
    PROVE  TypeOK'
<1> USE ChaincodeSupportAssumption
    DEF TypeOK, Clients, Streams, Goto, registry, runtime, Returned, StreamStates
<1>1. CASE Launch(c)
  BY <1>1 DEF Launch
<1>2. CASE GetCDSFromLSCC(c)
  <2>1. failures' \in Nat
    <3>1. Fail \/ UNCHANGED failures
      BY <1>2 DEF GetCDSFromLSCC
    <3>2. QED
      BY <3>1, FailuresType
  <2>2. \E l \in {"check", "failed"} : pc' = [pc EXCEPT ![c] = l]
    BY <1>2 DEF GetCDSFromLSCC
  <2>3. QED
    BY <1>2, <2>1, <2>2 DEF GetCDSFromLSCC
<1>3. CASE launchAndWaitForRegister(c)
  BY <1>3 DEF launchAndWaitForRegister
<1>4. CASE VMCProcess(c)
  BY <1>4 DEF VMCProcess
<1>5. CASE createContainer(c)
  <2>1. failures' \in Nat
    <3>1. Fail \/ UNCHANGED failures
      BY <1>5 DEF createContainer, stopInternal
    <3>2. QED
      BY <3>1, FailuresType
  <2>2. \E l \in {"prelaunch", "startFailed"} : pc' = [pc EXCEPT ![c] = l]
    BY <1>5 DEF createContainer
  <2>3. fsm' \in [Streams -> StreamStates]
    BY <1>5, ProcessEndsType DEF createContainer, stopInternal
  <2>4. /\ container' \in {container, Nil}
        /\ UNCHANGED <<chrte, chaincodeMap, handlerOf, readyNotify, notifies, vmtype, running>>
    BY <1>5 DEF createContainer, stopInternal, ProcessEnds
  <2>5. QED
    BY <2>1, <2>2, <2>3, <2>4, ZenonT(40)
<1>6. CASE InprocStart(c)
  BY <1>6 DEF InprocStart
<1>7. CASE preLaunchSetup(c)
  BY <1>7 DEF preLaunchSetup
<1>8. CASE StartContainer(c)
  <2>1. failures' \in Nat
    <3>1. Fail \/ UNCHANGED failures
      BY <1>8 DEF StartContainer
    <3>2. QED
      BY <3>1, FailuresType
  <2>2. \E l \in {"started", "startFailed"} : pc' = [pc EXCEPT ![c] = l]
    BY <1>8 DEF StartContainer
  <2>3. fsm' \in [Streams -> StreamStates]
    BY <1>8 DEF StartContainer
  <2>4. container' \in Streams \cup {Nil} /\ running' \in BOOLEAN
    BY <1>8 DEF StartContainer
  <2>5. UNCHANGED <<chrte, chaincodeMap, handlerOf, readyNotify, notifies, vmtype>>
    BY <1>8 DEF StartContainer
  <2>6. QED
    BY <2>1, <2>2, <2>3, <2>4, <2>5, ZenonT(40)
<1>9. CASE StartReturns(c)
  <2>1. failures' \in Nat
    <3>1. Fail \/ UNCHANGED failures
      BY <1>9 DEF StartReturns
    <3>2. QED
      BY <3>1, FailuresType
  <2>2. \E l \in {"waitRegister", "failed"} : pc' = [pc EXCEPT ![c] = l]
    BY <1>9 DEF StartReturns
  <2>3. chaincodeMap' \in {chaincodeMap, Nil}
    BY <1>9 DEF StartReturns
  <2>4. UNCHANGED <<chrte, handlerOf, readyNotify, notifies, fsm, vmtype,
                    container, running>>
    BY <1>9 DEF StartReturns
  <2>5. QED
    BY <2>1, <2>2, <2>3, <2>4
<1>10. CASE WaitForRegister(c)
  <2>1. readyNotify' \in [Clients -> Seq(BOOLEAN)]
    <3>1. CASE UNCHANGED readyNotify
      BY <3>1
    <3>2. CASE readyNotify[c] # <<>> /\ readyNotify' = [readyNotify EXCEPT ![c] = Tail(@)]
      <4>1. Tail(readyNotify[c]) \in Seq(BOOLEAN)
        BY <3>2, SMT
      <4>2. QED
        BY <3>2, <4>1
    <3>3. QED
      BY <1>10, <3>1, <3>2 DEF WaitForRegister
  <2>2. \E l \in {"sendReady", "stop"} : pc' = [pc EXCEPT ![c] = l]
    BY <1>10 DEF WaitForRegister
  <2>3. UNCHANGED <<chrte, chaincodeMap, handlerOf, notifies, fsm, vmtype,
                    container, running, failures>>
    BY <1>10 DEF WaitForRegister
  <2>4. QED
    BY <2>1, <2>2, <2>3
<1>11. CASE Stop(c)
  <2>1. failures' \in Nat
    <3>1. Fail \/ UNCHANGED failures
      BY <1>11 DEF Stop, stopInternal, InprocStop
    <3>2. QED
      BY <3>1, FailuresType
  <2>2. pc' = [pc EXCEPT ![c] = "stopped"]
    BY <1>11 DEF Stop
  <2>3. fsm' \in [Streams -> StreamStates]
    BY <1>11, ProcessEndsType DEF Stop, stopInternal, InprocStop
  <2>4. /\ container' \in {container, Nil} /\ running' \in {running, FALSE}
        /\ UNCHANGED <<chrte, chaincodeMap, handlerOf, readyNotify, notifies, vmtype>>
    BY <1>11 DEF Stop, stopInternal, InprocStop, ProcessEnds
  <2>5. QED
    BY <2>1, <2>2, <2>3, <2>4, ZenonT(40)
<1>12. CASE StopDeletesEntry(c)
  BY <1>12 DEF StopDeletesEntry
<1>13. CASE sendReady(c)
  BY <1>13 DEF sendReady, LookUp
<1>14. CASE ready(c)
  BY <1>14 DEF ready, createTxContext
<1>15. CASE Execute(c)
  BY <1>15 DEF Execute, LookUp
<1>16. CASE sendExecuteMessage(c)
  BY <1>16 DEF sendExecuteMessage, createTxContext
<1>17. CASE TakeReady(c)
  <2>1. \E v \in {"ready", "ended"} : fsm' = [fsm EXCEPT ![Target(c)] = v]
    BY <1>17 DEF TakeReady
  <2>2. \E l \in {"launched", "waitReady"} : pc' = [pc EXCEPT ![c] = l]
    BY <1>17 DEF TakeReady
  <2>3. failures' \in Nat
    <3>1. Fail \/ UNCHANGED failures
      BY <1>17 DEF TakeReady
    <3>2. QED
      BY <3>1, FailuresType
  <2>4. UNCHANGED <<chrte, chaincodeMap, handlerOf, readyNotify, notifies,
                    vmtype, container, running>>
    BY <1>17 DEF TakeReady
  <2>5. QED
    BY <2>1, <2>2, <2>3, <2>4, ZenonT(40)
<1>18. CASE TakeExecute(c)
  BY <1>18 DEF TakeExecute
<1>19. CASE EndWait(c)
  BY <1>19 DEF EndWait
<1>20. CASE OpenStream(c)
  BY <1>20 DEF OpenStream
<1>21. CASE beforeRegisterEvent(c)
  <2>1. /\ handlerOf' \in [Clients -> Streams \cup {Nil}]
        /\ notifies' \in [Streams -> Clients \cup {Nil}]
    <3>1. CASE registerHandler(c)
      BY <3>1 DEF registerHandler
    <3>2. QED
      BY <1>21, <3>1 DEF beforeRegisterEvent
  <2>2. readyNotify' \in [Clients -> Seq(BOOLEAN)]
    <3>1. CASE ~Refused
      <4>1. PICK v \in BOOLEAN : notifyDuringStartup(chaincodeMap, v)
        BY <1>21, <3>1 DEF beforeRegisterEvent
      <4>2. QED
        BY <4>1, NotifyType
    <3>2. CASE Refused
      BY <1>21, <3>2 DEF beforeRegisterEvent
    <3>3. QED
      BY <3>1, <3>2
  <2>3. \E v \in {"established", "ended", "gone"} : fsm' = [fsm EXCEPT ![c] = v]
    BY <1>21 DEF beforeRegisterEvent
  <2>4. failures' \in Nat
    <3>1. Fail \/ UNCHANGED failures
      BY <1>21 DEF beforeRegisterEvent
    <3>2. QED
      BY <3>1, FailuresType
  <2>5. UNCHANGED <<pc, chrte, chaincodeMap, vmtype, container, running>>
    BY <1>21 DEF beforeRegisterEvent
  <2>6. QED
    BY <2>1, <2>2, <2>3, <2>4, <2>5
<1>22. CASE RecvEOF(c)
  BY <1>22 DEF RecvEOF
<1>23. CASE deregisterHandler(c)
  BY <1>23 DEF deregisterHandler
<1>24. CASE launchInProc(c)
  BY <1>24 DEF launchInProc
<1>25. CASE ChaincodeExits(c)
  BY <1>25, SMT DEF ChaincodeExits, ProcessEnds, Fail
<1>26. QED
  BY <1>1, <1>2, <1>3, <1>4, <1>5, <1>6, <1>7, <1>8, <1>9, <1>10, <1>11, <1>12, <1>13, <1>14,
       <1>15, <1>16, <1>17, <1>18, <1>19, <1>20, <1>21, <1>22, <1>23, <1>24, <1>25, ZenonT(40) DEF
       ClientStep, StreamStep

(***************************************************************************)
(* Most steps leave every entry and channel as it is, take no client back  *)
(* before its entry, take none away from a placeholder that stays, and     *)
(* take no stream out of WithLoop unless the entry goes.                   *)
(***************************************************************************)
Harmless ==
    /\ UNCHANGED <<handlerOf, readyNotify, notifies>>
    /\ chaincodeMap' \in {chaincodeMap, Nil}
    /\ \A d \in Clients :
          /\ pc'[d] \in BeforeEntry => pc[d] \in BeforeEntry
          /\ pc'[d] = "startContainer" => pc[d] \in BeforeEntry \cup {"startContainer"}
          /\ chaincodeMap' = d /\ pc[d] \in Awaiting => pc'[d] \in Awaiting
          /\ fsm[d] = "none" /\ fsm'[d] # "none" =>
                pc'[d] \notin BeforeEntry \cup {"startContainer"}
          /\ chaincodeMap' # Nil /\ fsm[d] \in WithLoop => fsm'[d] \in WithLoop

\* Such a step keeps the invariant.
LEMMA HarmlessStep ==
    ASSUME TypeOK, RegistryInv, Harmless PROVE RegistryInv'
<1> USE ChaincodeSupportAssumption DEF RegistryInv, Harmless
<1>1. PlaceholderIsAwaited'
  BY DEF PlaceholderIsAwaited, registered, Awaiting, Clients
<1>2. EntryHasStream'
  <2>1. SUFFICES ASSUME NEW e \in Clients, chaincodeMap' = e, handlerOf'[e] # Nil
                 PROVE  fsm'[handlerOf'[e]] \in WithLoop
    BY DEF EntryHasStream, registered, WithLoop
  <2>2. chaincodeMap = e /\ chaincodeMap' # Nil /\ handlerOf[e] \in Clients
        /\ handlerOf'[e] = handlerOf[e]
    BY <2>1 DEF TypeOK, Clients, Streams
  <2>3. fsm[handlerOf[e]] \in WithLoop
    BY <2>1, <2>2 DEF EntryHasStream, registered, WithLoop
  <2>4. QED
    BY <2>2, <2>3
<1>3. InOrder'
  BY DEF InOrder
<1>4. ChannelOfHandler'
  BY DEF ChannelOfHandler
<1>5. QED
  BY <1>1, <1>2, <1>3, <1>4

\* Steps that only move their client, or that remove the entry.
LEMMA ClientMoves ==
    ASSUME TypeOK, RegistryInv, NEW c \in Clients,
           \/ Launch(c) \/ GetCDSFromLSCC(c) \/ launchAndWaitForRegister(c)
           \/ VMCProcess(c) \/ InprocStart(c) \/ StartReturns(c)
           \/ StopDeletesEntry(c) \/ EndWait(c)
           \/ sendReady(c) \/ ready(c) \/ Execute(c) \/ sendExecuteMessage(c)
    PROVE  RegistryInv'
<1> USE ChaincodeSupportAssumption DEF Goto, registry, Awaiting, BeforeEntry, WithLoop
<1>1. DOMAIN pc = Clients
  BY DEF TypeOK
<1>2. CASE Launch(c) \/ GetCDSFromLSCC(c) \/ launchAndWaitForRegister(c)
  <2>1. \E l \in {"fetch", "check", "start", "failed", "launched", "sendReady"} :
            pc' = [pc EXCEPT ![c] = l]
    BY <1>2 DEF Launch, GetCDSFromLSCC, launchAndWaitForRegister
  <2>2. pc[c] \in {"idle", "fetch", "check"} /\ UNCHANGED <<registry, fsm>>
    BY <1>2 DEF Launch, GetCDSFromLSCC, launchAndWaitForRegister
  <2>3. Harmless
    BY <1>1, <2>1, <2>2 DEF Harmless
  <2>4. QED
    BY <2>3, HarmlessStep
<1>3. CASE VMCProcess(c)
  <2>1. Harmless
    BY <1>3 DEF VMCProcess, Harmless
  <2>2. QED
    BY <2>1, HarmlessStep
<1>4. CASE InprocStart(c)
  <2>1. Harmless
    BY <1>1, <1>4 DEF InprocStart, Harmless
  <2>2. QED
    BY <2>1, HarmlessStep
<1>5. CASE StartReturns(c) \/ StopDeletesEntry(c)
  <2>1. Harmless
    BY <1>1, <1>5 DEF StartReturns, StopDeletesEntry, Harmless, Clients
  <2>2. QED
    BY <2>1, HarmlessStep
<1>6. CASE EndWait(c)
  <2>1. Harmless
    BY <1>1, <1>6 DEF EndWait, Harmless
  <2>2. QED
    BY <2>1, HarmlessStep
<1>7. CASE sendReady(c) \/ ready(c) \/ Execute(c) \/ sendExecuteMessage(c)
  <2>1. Harmless
    BY <1>1, <1>7, ZenonT(40) DEF sendReady, ready, Execute, sendExecuteMessage, LookUp,
                      createTxContext, Harmless
  <2>2. QED
    BY <2>1, HarmlessStep
<1>8. QED
  BY <1>2, <1>3, <1>4, <1>5, <1>6, <1>7

\* Stopping a process touches only a stream that has not been opened.
EndsPending ==
    \A d \in Clients :
        fsm'[d] = fsm[d] \/ (fsm[d] = "pending" /\ fsm'[d] = "gone")

\* The end of the container's process is such a step.
LEMMA ProcessEndsMoves ==
    ASSUME fsm \in [Clients -> StreamStates], container \in Clients \cup {Nil}, ProcessEnds
    PROVE  EndsPending
<1>1. CASE container # Nil /\ fsm[container] = "pending"
  BY <1>1 DEF ProcessEnds, EndsPending
<1>2. CASE ~(container # Nil /\ fsm[container] = "pending")
  BY <1>2 DEF ProcessEnds, EndsPending
<1>3. QED
  BY <1>1, <1>2

\* Steps of the container and of the stream's loop, which move a machine.
LEMMA StreamMoves ==
    ASSUME TypeOK, RegistryInv, NEW c \in Clients,
           \/ createContainer(c) \/ StartContainer(c) \/ Stop(c)
           \/ TakeReady(c) \/ TakeExecute(c)
           \/ OpenStream(c) \/ RecvEOF(c) \/ deregisterHandler(c)
           \/ launchInProc(c) \/ ChaincodeExits(c)
    PROVE  RegistryInv'
<1> USE ChaincodeSupportAssumption DEF Goto, registry, Awaiting, BeforeEntry, WithLoop
<1>1. DOMAIN pc = Clients /\ fsm \in [Clients -> StreamStates] /\ container \in Clients \cup {Nil}
  BY DEF TypeOK, Streams, Clients
<1>2. ProcessEnds => EndsPending
  BY <1>1, ProcessEndsMoves
<1>3. CASE createContainer(c)
  <2>1. Harmless
    BY <1>1, <1>2, <1>3 DEF createContainer, stopInternal, EndsPending, Harmless
  <2>2. QED
    BY <2>1, HarmlessStep
<1>4. CASE StartContainer(c)
  <2>1. fsm[c] = "none"
    BY <1>4 DEF StartContainer, RegistryInv, InOrder
  <2>2. Harmless
    BY <1>1, <1>4, <2>1 DEF StartContainer, Harmless
  <2>3. QED
    BY <2>2, HarmlessStep
<1>5. CASE Stop(c)
  <2>1. EndsPending
    <3>1. ProcessEnds \/ UNCHANGED fsm
      BY <1>5 DEF Stop, stopInternal, InprocStop
    <3>2. UNCHANGED fsm => EndsPending
      BY DEF EndsPending
    <3>3. QED
      BY <1>2, <3>1, <3>2
  <2>2. Harmless
    BY <1>1, <1>5, <2>1 DEF Stop, EndsPending, Harmless
  <2>3. QED
    BY <2>2, HarmlessStep
<1>6. CASE TakeReady(c) \/ TakeExecute(c)
  <2>1. \A d \in Clients : fsm'[d] = fsm[d]
            \/ (fsm[d] # "none" /\ fsm'[d] \in {"ready", "ended"})
    <3>1. /\ fsm[Target(c)] \in {"created", "established", "ready"}
          /\ \E v \in {"ready", "ended"} : fsm' = [fsm EXCEPT ![Target(c)] = v]
      <4>1. CASE TakeReady(c)
        BY <4>1 DEF TakeReady, Connected
      <4>2. CASE TakeExecute(c)
        <5>1. fsm' = [fsm EXCEPT ![Target(c)] = IF fsm[Target(c)] = "ready" THEN "ready" ELSE "ended"]
          BY <4>2 DEF TakeExecute
        <5>2. QED
          BY <4>2, <5>1 DEF TakeExecute, Connected
      <4>3. QED
        BY <1>6, <4>1, <4>2
    <3>2. PICK v \in {"ready", "ended"} : fsm' = [fsm EXCEPT ![Target(c)] = v]
      BY <3>1
    <3>3. \A d \in Clients : fsm'[d] = IF d = Target(c) THEN v ELSE fsm[d]
      BY <1>1, <3>2
    <3>4. QED
      BY <3>1, <3>3
  <2>2. Harmless
    BY <1>1, <1>6, <2>1, ZenonT(40) DEF TakeReady, TakeExecute, Harmless
  <2>3. QED
    BY <2>2, HarmlessStep
<1>7. CASE OpenStream(c) \/ RecvEOF(c)
  <2>1. Harmless
    BY <1>1, <1>7 DEF OpenStream, RecvEOF, Connected, Harmless
  <2>2. QED
    BY <2>1, HarmlessStep
<1>8. CASE deregisterHandler(c)
  <2>1. Harmless
    BY <1>1, <1>8 DEF deregisterHandler, Harmless, Clients
  <2>2. QED
    BY <2>1, HarmlessStep
<1>9. CASE launchInProc(c) \/ ChaincodeExits(c)
  <2>1. Harmless
    BY <1>1, <1>2, <1>9 DEF launchInProc, ChaincodeExits, EndsPending, Harmless
  <2>2. QED
    BY <2>1, HarmlessStep
<1>10. QED
  BY <1>3, <1>4, <1>5, <1>6, <1>7, <1>8, <1>9

\* The placeholder replaces the entry before it has a handler.
LEMMA PlaceholderStep ==
    ASSUME TypeOK, RegistryInv, NEW c \in Clients, preLaunchSetup(c)
    PROVE  RegistryInv'
<1> USE ChaincodeSupportAssumption DEF RegistryInv, preLaunchSetup, Goto
<1>1. DOMAIN pc = Clients
  BY DEF TypeOK
<1>2. handlerOf[c] = Nil /\ fsm[c] = "none"
  BY DEF InOrder, BeforeEntry
<1>3. PlaceholderIsAwaited'
  BY <1>1 DEF PlaceholderIsAwaited
<1>4. EntryHasStream'
  BY <1>2 DEF EntryHasStream, registered
<1>5. InOrder'
  BY <1>1, <1>2 DEF InOrder, BeforeEntry
<1>6. ChannelOfHandler'
  BY DEF ChannelOfHandler
<1>7. QED
  BY <1>3, <1>4, <1>5, <1>6

\* A client that is notified finds its entry registered or gone.
LEMMA WaitStep ==
    ASSUME TypeOK, RegistryInv, NEW c \in Clients, WaitForRegister(c)
    PROVE  RegistryInv'
<1> USE ChaincodeSupportAssumption DEF RegistryInv, Goto
<1>1. DOMAIN pc = Clients /\ readyNotify \in [Clients -> Seq(BOOLEAN)]
  BY DEF TypeOK
<1>2. CASE UNCHANGED readyNotify /\ Goto(c, "stop")
  <2>1. Harmless
    BY <1>1, <1>2 DEF WaitForRegister, Harmless, Awaiting, BeforeEntry, WithLoop
  <2>2. QED
    BY <2>1, HarmlessStep
<1>3. CASE readyNotify[c] # <<>> /\ readyNotify' = [readyNotify EXCEPT ![c] = Tail(@)]
  <2>1. handlerOf[c] # Nil
    BY <1>3 DEF ChannelOfHandler
  <2>2. /\ \E l \in {"sendReady", "stop"} : pc' = [pc EXCEPT ![c] = l]
        /\ pc[c] = "waitRegister"
        /\ UNCHANGED <<chaincodeMap, handlerOf, notifies, fsm>>
    BY <1>3, <2>1 DEF WaitForRegister
  <2>3. PlaceholderIsAwaited'
    BY <1>1, <2>1, <2>2 DEF PlaceholderIsAwaited, registered
  <2>4. EntryHasStream'
    BY <2>2 DEF EntryHasStream, registered
  <2>5. InOrder'
    BY <1>1, <2>2 DEF InOrder, BeforeEntry
  <2>6. readyNotify'[c] = Tail(readyNotify[c])
        /\ \A d \in Clients \ {c} : readyNotify'[d] = readyNotify[d]
    BY <1>1, <1>3
  <2>7. readyNotify[c] \in Seq(BOOLEAN)
    BY <1>1
  <2>8. Len(Tail(readyNotify[c])) = Len(readyNotify[c]) - 1 /\ Len(readyNotify[c]) \in Nat
    BY <1>3, <2>7, HeadTailProperties, LenProperties
  <2>9. ChannelOfHandler'
    <3>1. \A e \in Clients : handlerOf'[e] = Nil => readyNotify'[e] = <<>>
      BY <2>1, <2>2, <2>6 DEF ChannelOfHandler
    <3>2. \A e \in Clients : Len(readyNotify'[e]) <= 1
      <4>1. \A e \in Clients : Len(readyNotify[e]) <= 1
        BY DEF ChannelOfHandler
      <4>2. ASSUME NEW d \in Clients, d # c PROVE Len(readyNotify'[d]) <= 1
        <5>1. readyNotify'[d] = readyNotify[d]
          BY <2>6, <4>2
        <5>2. QED
          BY <4>1, <5>1
      <4>3. Len(Tail(readyNotify[c])) <= 1
        BY <2>8, <4>1, SMT
      <4>4. Len(readyNotify'[c]) <= 1
        BY <2>6, <4>3
      <4>5. QED
        BY <4>2, <4>4
    <3>3. \A s \in Streams : notifies'[s] # Nil => handlerOf'[notifies'[s]] = s
      BY <2>2 DEF ChannelOfHandler
    <3>4. QED
      BY <3>1, <3>2, <3>3 DEF ChannelOfHandler
  <2>10. QED
    BY <2>3, <2>4, <2>5, <2>9
<1>4. QED
  BY <1>2, <1>3 DEF WaitForRegister

\* A stream that registers is the first to do so in its entry, and the
\* entry's client still waits.
LEMMA RegisterStep ==
    ASSUME TypeOK, RegistryInv, NEW s \in Streams, beforeRegisterEvent(s)
    PROVE  RegistryInv'
<1> USE ChaincodeSupportAssumption DEF RegistryInv
<1>1. /\ DOMAIN fsm = Clients /\ fsm[s] = "created" /\ UNCHANGED <<pc, chaincodeMap>>
      /\ handlerOf \in [Clients -> Clients \cup {Nil}]
      /\ notifies \in [Clients -> Clients \cup {Nil}]
      /\ readyNotify \in [Clients -> Seq(BOOLEAN)] /\ s \in Clients
  BY DEF beforeRegisterEvent, TypeOK, Streams, Clients
<1>2. CASE Refused
  <2>1. Harmless
    BY <1>1, <1>2 DEF beforeRegisterEvent, Harmless, WithLoop
  <2>2. QED
    BY <2>1, HarmlessStep
<1>3. CASE ~Refused
  <2> DEFINE e == chaincodeMap
  <2>1. e \in Clients /\ handlerOf[e] = Nil /\ readyNotify[e] = <<>>
    BY <1>3 DEF Refused, chaincodeHasBeenLaunched, registered, TypeOK, ChannelOfHandler
  <2>2. pc[e] \in Awaiting
    BY <2>1 DEF PlaceholderIsAwaited, registered, Awaiting
  <2>3. registerHandler(s)
    BY <1>3 DEF beforeRegisterEvent
  <2>4. /\ handlerOf'[e] = s /\ \A d \in Clients \ {e} : handlerOf'[d] = handlerOf[d]
        /\ notifies'[s] = e /\ \A t \in Clients \ {s} : notifies'[t] = notifies[t]
    BY <1>1, <2>1, <2>3 DEF registerHandler
  <2>5. PICK v \in BOOLEAN : notifyDuringStartup(e, v)
    BY <1>3 DEF beforeRegisterEvent
  <2>6. /\ readyNotify'[e] = Append(<<>>, v)
        /\ \A d \in Clients \ {e} : readyNotify'[d] = readyNotify[d]
    BY <1>1, <2>1, <2>5 DEF notifyDuringStartup
  <2>7. /\ fsm'[s] \in {"established", "ended"}
        /\ \A t \in Clients \ {s} : fsm'[t] = fsm[t]
    BY <1>1, <1>3 DEF beforeRegisterEvent
  <2>8. PlaceholderIsAwaited'
    BY <1>1, <2>1, <2>4 DEF PlaceholderIsAwaited, registered
  <2>9. EntryHasStream'
    BY <1>1, <2>1, <2>4, <2>7 DEF EntryHasStream, registered
  <2>10. InOrder'
    BY <1>1, <2>1, <2>2, <2>4, <2>7, SMT DEF InOrder, Awaiting, BeforeEntry
  <2>11. Len(readyNotify'[e]) = 1
    BY <2>6, SMT
  <2>12. ChannelOfHandler'
    <3>1. \A d \in Clients : handlerOf'[d] = Nil => readyNotify'[d] = <<>>
      BY <1>1, <2>1, <2>4, <2>6 DEF ChannelOfHandler, Clients
    <3>2. \A d \in Clients : Len(readyNotify'[d]) <= 1
      <4>1. \A d \in Clients : Len(readyNotify[d]) <= 1
        BY DEF ChannelOfHandler
      <4>2. ASSUME NEW d \in Clients, d # e PROVE Len(readyNotify'[d]) <= 1
        <5>1. readyNotify'[d] = readyNotify[d]
          BY <2>6, <4>2
        <5>2. QED
          BY <4>1, <5>1
      <4>3. Len(readyNotify'[e]) <= 1
        BY <2>11, SMT
      <4>4. QED
        BY <4>2, <4>3
    <3>3. \A t \in Streams : notifies'[t] # Nil => handlerOf'[notifies'[t]] = t
      BY <1>1, <2>1, <2>4, SMTT(30) DEF ChannelOfHandler, Streams, Clients
    <3>4. QED
      BY <3>1, <3>2, <3>3 DEF ChannelOfHandler
  <2>13. QED
    BY <2>8, <2>9, <2>10, <2>12
<1>4. QED
  BY <1>2, <1>3

(***************************************************************************)
(* The invariant of the composition.                                       *)
(***************************************************************************)
LEMMA SupportInvariant == Spec => [](LockInv /\ TypeOK /\ RegistryInv)
<1>1. Init => TypeOK /\ RegistryInv
  <2>1. SUFFICES ASSUME Init PROVE TypeOK /\ RegistryInv
    OBVIOUS
  <2>2. VMCTypeOK
    BY <2>1, LockInit DEF Init, LockInv
  <2>3. TypeOK
    <3>1. readyNotify \in [Clients -> Seq(BOOLEAN)]
      BY <2>1, SMT DEF Init
    <3>2. QED
      BY <2>1, <2>2, <3>1 DEF Init, StreamStates, Returned, Streams, Clients, TypeOK
  <2>4. RegistryInv
    BY <2>1, ChaincodeSupportAssumption, SMT
       DEF Init, RegistryInv, PlaceholderIsAwaited, EntryHasStream, InOrder,
           ChannelOfHandler, registered, Clients, Streams
  <2>5. QED
    BY <2>3, <2>4
<1>2. LockInv' /\ TypeOK /\ RegistryInv /\ [Next]_vars => TypeOK' /\ RegistryInv'
  <2>1. SUFFICES ASSUME LockInv', TypeOK, RegistryInv, [Next]_vars
                 PROVE  TypeOK' /\ RegistryInv'
    OBVIOUS
  <2>2. VMCTypeOK'
    BY <2>1 DEF LockInv
  <2>3. CASE UNCHANGED vars
    BY <2>1, <2>2, <2>3 DEF vars, registry, runtime, TypeOK, RegistryInv,
           PlaceholderIsAwaited, EntryHasStream, InOrder, ChannelOfHandler, registered
  <2>4. ASSUME NEW c \in Clients, ClientStep(c) \/ StreamStep(c) \/ ChaincodeExits(c)
        PROVE  TypeOK' /\ RegistryInv'
    <3>1. TypeOK'
      BY <2>1, <2>2, <2>4, TypeStep DEF Clients
    <3>2. RegistryInv'
      BY <2>1, <2>4, ClientMoves, StreamMoves, PlaceholderStep, WaitStep,
         RegisterStep DEF ClientStep, StreamStep, Clients, Streams
    <3>3. QED
      BY <3>1, <3>2
  <2>5. QED
    BY <2>1, <2>3, <2>4 DEF Next
<1>3. QED
  BY <1>1, <1>2, LockInvariant, PTL DEF Spec

\* Whoever starts, stops, registers or fails meanwhile: a placeholder never
\* outlives its launch, a registered entry never outlives its stream, and a
\* placeholder's channel is written once.
THEOREM RegistryCorrect ==
    Spec => [](PlaceholderIsAwaited /\ EntryHasStream /\ NotifiedOnce)
<1>1. TypeOK /\ RegistryInv => PlaceholderIsAwaited /\ EntryHasStream /\ NotifiedOnce
  <2>1. TypeOK /\ ChannelOfHandler => NotifiedOnce
    BY DEF TypeOK, ChannelOfHandler, NotifiedOnce
  <2>2. QED
    BY <2>1 DEF RegistryInv
<1>2. QED
  BY <1>1, SupportInvariant, PTL

\* As long as a chaincode is registered, the loop of its handler's stream runs or is about
\* to delete the entry in its deferred deregister.
THEOREM EntryAlwaysHasStream == Spec => []EntryHasStream
BY RegistryCorrect, PTL
=============================================================================
