--------------------------- MODULE LedgerProvider ---------------------------
(***************************************************************************)
(* The life of the ledgers of one peer: their creation when a channel is   *)
(* joined, the list of ledger ids and the under-construction flag that the *)
(* id store keeps, the recovery of a half-created ledger, and the start of *)
(* the peer, which opens every listed ledger and builds its chain.         *)
(*                                                                         *)
(* Sources: core/ledger/kvledger/kv_ledger_provider.go,                    *)
(* core/ledger/ledgermgmt/ledger_mgmt.go and, for the callers,             *)
(* core/peer/peer.go.                                                      *)
(*                                                                         *)
(* ids, flag and height are durable.  The mutex of ledgermgmt is held      *)
(* during the whole of CreateLedger, so at most one creation is in         *)
(* progress: create is that creation, or Nil when the mutex is free.  The  *)
(* blocks of a ledger and what opening it replays are the subject of       *)
(* KVLedger; here a ledger has only a height.                              *)
(***************************************************************************)
EXTENDS Naturals, FiniteSets

CONSTANTS Ledgers,      \* the ledger (channel) ids
          Nil,          \* no flag, no creation
          MaxHeight,    \* bound: blocks of a ledger
          MaxCrashes,   \* bound: crashes of the peer
          MaxFailures   \* bound: calls that return an error

\* The points of Create between two durable writes.
Creations == [id : Ledgers, at : {"flagged", "opened", "committed"}]

ASSUME LedgerProviderAssumption ==
    /\ Nil \notin Ledgers \cup Creations
    /\ MaxHeight \in Nat /\ MaxCrashes \in Nat /\ MaxFailures \in Nat

VARIABLES ids,       \* the ids with an entry in the id store
          flag,      \* the id under underConstructionLedgerKey, or Nil
          height,    \* the height of each ledger's block store
          proc,      \* where the peer process is
          create,    \* the creation that holds the mutex, or Nil
          opened,    \* openedLedgers of ledgermgmt
          joining,   \* created ledgers whose createChain has not returned
          loading,   \* listed ledgers the start of the peer has yet to load
          chains,    \* chains.list of the peer
          crashes, failures

durable == <<ids, flag, height>>
volatile == <<create, opened, joining, loading, chains>>
bounds == <<crashes, failures>>
vars == <<durable, proc, volatile, bounds>>

\* panicked: NewProvider met a height it calls a data inconsistency.
\* hung: getAllLedgerIds met the flag, and never moves past it.
ProcStates == {"down", "recovered", "loading", "up", "panicked", "hung"}

CreateAt(point) == proc = "up" /\ create # Nil /\ create.at = point

Fail == failures < MaxFailures /\ failures' = failures + 1

\* One batch: the entry of the ledger is added and the flag deleted.
(***************************************************************************)
(* The id store.                                                           *)
(***************************************************************************)
CreateLedgerID(id) ==
    ids' = ids \cup {id} /\ flag' = Nil

UnsetUnderConstructionFlag == flag' = Nil /\ UNCHANGED ids

(***************************************************************************)
(* CreateLedger, step by step between its durable writes.                  *)
(***************************************************************************)
\* (mutant) An id that exists is not refused.
CreateAgain(id) ==
    /\ proc = "up" /\ create = Nil
    /\ flag' = id
    /\ create' = [id |-> id, at |-> "flagged"]
    /\ UNCHANGED <<ids, height, proc, opened, joining, loading, chains, bounds>>

\* The mutex is taken; an id that exists is refused with ErrLedgerIDExists;
\* otherwise the flag is set before anything else.
Create(id) ==
    /\ proc = "up" /\ create = Nil
    /\ id \notin ids
    /\ flag' = id
    /\ create' = [id |-> id, at |-> "flagged"]
    /\ UNCHANGED <<ids, height, proc, opened, joining, loading, chains, bounds>>

OpenInternal ==
    /\ CreateAt("flagged")
    /\ create' = [create EXCEPT !.at = "opened"]
    /\ UNCHANGED <<durable, proc, opened, joining, loading, chains, bounds>>

\* openInternal returns an error: the flag is unset and the error returned.
OpenInternalError ==
    /\ CreateAt("flagged") /\ Fail
    /\ UnsetUnderConstructionFlag
    /\ create' = Nil
    /\ UNCHANGED <<height, proc, opened, joining, loading, chains, crashes>>

\* ledger.Commit stores the genesis block.
CommitGenesis ==
    /\ CreateAt("opened")
    /\ height' = [height EXCEPT ![create.id] = @ + 1]
    /\ create' = [create EXCEPT !.at = "committed"]
    /\ UNCHANGED <<ids, flag, proc, opened, joining, loading, chains, bounds>>

\* ledger.Commit returns an error, which it does only before the block is
\* stored (it panics after that): the ledger is closed, the flag stays set.
CommitGenesisError ==
    /\ CreateAt("opened") /\ Fail
    /\ create' = Nil
    /\ UNCHANGED <<durable, proc, opened, joining, loading, chains, crashes>>

\* The ledger is marked as created, entered in openedLedgers and returned to
\* CreateChainFromBlock; the mutex is released.
MarkCreated ==
    /\ CreateAt("committed")
    /\ CreateLedgerID(create.id)
    /\ opened' = opened \cup {create.id}
    /\ joining' = joining \cup {create.id}
    /\ create' = Nil
    /\ UNCHANGED <<height, proc, loading, chains, bounds>>

(***************************************************************************)
(* createChain, and the blocks a chain commits.                            *)
(***************************************************************************)
CreateChain(id) ==
    /\ proc = "up" /\ id \in joining
    /\ joining' = joining \ {id}
    /\ chains' = chains \cup {id}
    /\ UNCHANGED <<durable, proc, create, opened, loading, bounds>>

\* createChain returns an error: the ledger stays created and opened.
CreateChainError(id) ==
    /\ proc = "up" /\ id \in joining /\ Fail
    /\ joining' = joining \ {id}
    /\ UNCHANGED <<durable, proc, create, opened, loading, chains, crashes>>

CommitBlock(id) ==
    /\ proc \in {"loading", "up"} /\ id \in chains
    /\ height[id] < MaxHeight
    /\ height' = [height EXCEPT ![id] = @ + 1]
    /\ UNCHANGED <<ids, flag, proc, volatile, bounds>>

\* The ledger returns an error, which it does only before the block is stored.
CommitBlockError(id) ==
    /\ proc \in {"loading", "up"} /\ id \in chains
    /\ height[id] < MaxHeight /\ Fail
    /\ UNCHANGED <<durable, proc, volatile, crashes>>

(***************************************************************************)
(* Crash and start.                                                        *)
(***************************************************************************)
Crash ==
    /\ proc # "down" /\ crashes < MaxCrashes
    /\ crashes' = crashes + 1
    /\ proc' = "down"
    /\ create' = Nil /\ opened' = {} /\ joining' = {} /\ loading' = {} /\ chains' = {}
    /\ UNCHANGED <<durable, failures>>

\* (mutant) A flagged ledger is dropped, whatever its height.
RecoverDroppingFlagged ==
    /\ proc = "down"
    /\ UnsetUnderConstructionFlag
    /\ proc' = "recovered"
    /\ UNCHANGED <<height, volatile, bounds>>

\* NewProvider: the flagged ledger, if any, is opened, and its height says how
\* far its creation came.
RecoverUnderConstructionLedger ==
    /\ proc = "down"
    /\ proc' = IF flag # Nil /\ height[flag] > 1 THEN "panicked" ELSE "recovered"
    /\ CASE flag = Nil -> UNCHANGED <<ids, flag>>
         [] flag # Nil /\ height[flag] = 0 -> UnsetUnderConstructionFlag
         [] flag # Nil /\ height[flag] = 1 -> CreateLedgerID(flag)
         [] OTHER -> UNCHANGED <<ids, flag>>
    /\ UNCHANGED <<height, volatile, bounds>>

\* GetLedgerIDs, as the start of the peer calls it.  The loop over the id
\* store does not move past the flag when it meets it.
GetLedgerIDs ==
    /\ proc = "recovered"
    /\ proc' = IF flag = Nil THEN "loading" ELSE "hung"
    /\ loading' = IF flag = Nil THEN ids ELSE {}
    /\ UNCHANGED <<durable, create, opened, joining, chains, bounds>>

\* OpenLedger: refused for a ledger that is open or not listed.
OpenLedger(id) ==
    /\ id \notin opened /\ id \in ids
    /\ opened' = opened \cup {id}

\* One turn of the loop of Initialize: the ledger is opened and its chain
\* created, and on an error the loop goes on with the next ledger.
LoadChain(id) ==
    /\ proc = "loading" /\ id \in loading
    /\ loading' = loading \ {id}
    /\ \/ /\ OpenLedger(id) /\ chains' = chains \cup {id}
          /\ UNCHANGED failures
       \/ /\ Fail /\ UNCHANGED <<opened, chains>>
       \/ /\ Fail /\ OpenLedger(id) /\ UNCHANGED chains
    /\ UNCHANGED <<durable, proc, create, joining, crashes>>

Started ==
    /\ proc = "loading" /\ loading = {}
    /\ proc' = "up"
    /\ UNCHANGED <<durable, volatile, bounds>>

(***************************************************************************)
(* The specification.                                                      *)
(***************************************************************************)
Init ==
    /\ ids = {} /\ flag = Nil /\ height = [id \in Ledgers |-> 0]
    /\ proc = "down"
    /\ create = Nil /\ opened = {} /\ joining = {} /\ loading = {} /\ chains = {}
    /\ crashes = 0 /\ failures = 0

CreateStep ==
    \/ OpenInternal \/ OpenInternalError
    \/ CommitGenesis \/ CommitGenesisError
    \/ MarkCreated

Start ==
    \/ RecoverUnderConstructionLedger \/ GetLedgerIDs
    \/ \E id \in Ledgers : LoadChain(id)
    \/ Started

Next ==
    \/ \E id \in Ledgers : Create(id)
    \/ CreateStep
    \/ \E id \in Ledgers : CreateChain(id) \/ CreateChainError(id)
    \/ \E id \in Ledgers : CommitBlock(id) \/ CommitBlockError(id)
    \/ Crash
    \/ Start

Spec == Init /\ [][Next]_vars

\* A goroutine inside CreateLedger keeps running until it returns, and the
\* operator starts a peer that is down.  Nobody is obliged to join a channel.
FairSpec == Spec /\ WF_vars(CreateStep) /\ WF_vars(Start)

(***************************************************************************)
(* Properties.                                                             *)
(***************************************************************************)
\* The types of the variables.
TypeOK ==
    /\ ids \subseteq Ledgers
    /\ flag \in Ledgers \cup {Nil}
    /\ height \in [Ledgers -> Nat]
    /\ proc \in ProcStates
    /\ create \in Creations \cup {Nil}
    /\ opened \subseteq Ledgers /\ joining \subseteq Ledgers
    /\ loading \subseteq Ledgers /\ chains \subseteq Ledgers
    /\ crashes \in Nat /\ failures \in Nat

\* "The creation of ledger and committing the genesis block would [be] an
\* atomic action" (CreateLedger): once the provider is usable, and outside a
\* creation, a ledger is in the id store exactly when it has a genesis block,
\* whatever crashes and errors there were.
CreationIsAtomic ==
    proc \in {"recovered", "loading", "up"} =>
        \A id \in Ledgers :
            (create = Nil \/ create.id # id) => (id \in ids <=> height[id] > 0)

\* No sequence of creations, errors, crashes and restarts leaves the peer
\* unable to start: recoverUnderConstructionLedger never meets the data
\* inconsistency it panics on, and the endless loop of getAllLedgerIds over a
\* set flag is never entered by the start of the peer.  A join repeated after
\* a createChain that failed does not commit a second genesis block.
AlwaysStarts == proc \notin {"panicked", "hung"}

\* The one who commits to a ledger is its chain, and it has the ledger open:
\* a chain in chains.list, or about to enter it, is of a ledger that is listed
\* and in openedLedgers, so that a second OpenLedger of it is refused.
ChainsAreOpen == (chains \cup joining) \subseteq (opened \cap ids)

\* A genesis block once stored is not lost: its ledger is eventually listed,
\* by the creation itself or by the recovery after a crash.
GenesisIsListed ==
    \A id \in Ledgers : (height[id] > 0) ~> (id \in ids)
=============================================================================
