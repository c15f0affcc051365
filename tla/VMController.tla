---------------------------- MODULE VMController ----------------------------
(***************************************************************************)
(* The reference-counted lock that the VM controller keeps for a           *)
(* container, so that the start and stop requests of one container run one *)
(* at a time (core/container/controller.go).                               *)
(*                                                                         *)
(* containerLocks is one entry of the controller's map: the lock object    *)
(* that is in the map for the container, or Nil.  A request takes its      *)
(* reference under the controller's mutex and then waits for the lock      *)
(* object it found, outside the mutex, so the entry may change while it    *)
(* waits.  What a request does inside the lock is left to the module that  *)
(* extends this one.                                                       *)
(***************************************************************************)
EXTENDS Naturals, FiniteSets

CONSTANTS Requests,   \* the goroutines that VMCProcess starts
          Locks,      \* the identities of refCountedLock objects
          Nil         \* no object

ASSUME VMControllerAssumption ==
    Nil \notin Locks /\ Locks # {} /\ IsFiniteSet(Requests)

VARIABLES containerLocks,  \* the lock object in the map, or Nil
          refCount,        \* the refCount of that object
          locked,          \* the lock objects that are held
          req              \* [at, lock]: where a request is, and its object

vmcVars == <<containerLocks, refCount, locked, req>>

Waiting(r) == req[r].at = "waiting"
Inside(r) == req[r].at = "inside"
Active == {r \in Requests : req[r].at # "idle"}

\* A refCountedLock that nothing refers to yet.
NewLock == CHOOSE k \in Locks : k \notin {req[r].lock : r \in Active}

\* The request takes a reference under the controller's mutex.
lockContainer(r) ==
    /\ req[r].at = "idle"
    /\ IF containerLocks = Nil
       THEN containerLocks' = NewLock /\ refCount' = 1
       ELSE refCount' = refCount + 1 /\ UNCHANGED containerLocks
    /\ req' = [req EXCEPT ![r] = [at |-> "waiting", lock |-> containerLocks']]
    /\ UNCHANGED locked

\* ... and waits for the object's lock with the mutex released.
AcquireContainer(r) ==
    /\ Waiting(r) /\ req[r].lock \notin locked
    /\ locked' = locked \cup {req[r].lock}
    /\ req' = [req EXCEPT ![r].at = "inside"]
    /\ UNCHANGED <<containerLocks, refCount>>

\* The object is looked up again, under the mutex.
unlockContainer(r) ==
    /\ Inside(r)
    /\ IF containerLocks = Nil
       THEN UNCHANGED <<containerLocks, refCount, locked>>
       ELSE /\ locked' = locked \ {containerLocks}
            /\ refCount' = refCount - 1
            /\ containerLocks' = IF refCount' = 0 THEN Nil ELSE containerLocks
    /\ req' = [req EXCEPT ![r] = [at |-> "idle", lock |-> Nil]]

VMCInit ==
    /\ containerLocks = Nil /\ refCount = 0 /\ locked = {}
    /\ req = [r \in Requests |-> [at |-> "idle", lock |-> Nil]]

VMCNext == \E r \in Requests :
    lockContainer(r) \/ AcquireContainer(r) \/ unlockContainer(r)

VMCSpec == VMCInit /\ [][VMCNext]_vmcVars

-----------------------------------------------------------------------------
VMCTypeOK ==
    /\ containerLocks \in Locks \cup {Nil} /\ refCount \in Nat
    /\ locked \in SUBSET Locks
    /\ req \in [Requests -> [at : {"idle", "waiting", "inside"},
                             lock : Locks \cup {Nil}]]

(***************************************************************************)
(* Two requests for one container are never inside their lock at once:     *)
(* the object in the map is never dropped while a request that found it    *)
(* still waits for it (lockContainer, unlockContainer), so no second       *)
(* object can let another request in.                                      *)
(***************************************************************************)
MutualExclusion ==
    \A r, q \in Requests : Inside(r) /\ Inside(q) => r = q

(***************************************************************************)
(* unlockContainer always finds the object that the request locked: it     *)
(* neither panics on "refcnt <= 0", nor reports "no lock to unlock", nor   *)
(* unlocks a lock that is not held.                                        *)
(***************************************************************************)
UnlockFindsItsLock ==
    \A r \in Requests : Inside(r) =>
        /\ containerLocks # Nil /\ req[r].lock = containerLocks
        /\ refCount > 0 /\ containerLocks \in locked

=============================================================================
