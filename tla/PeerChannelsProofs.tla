------------------------- MODULE PeerChannelsProofs -------------------------
(***************************************************************************)
(* Proofs about LedgerProvider and PeerChannels, for every set of          *)
(* channels, every configuration and every bound.  First the ledgers: what *)
(* is listed has a genesis block, and the peer starts.  Then the channels: *)
(* they act on the ledgers as LedgerProvider allows, the cached            *)
(* configuration is never behind the ledger, and no update of the trusted  *)
(* authorities is lost.                                                    *)
(***************************************************************************)
EXTENDS PeerChannels, FiniteSetTheorems, TLAPS

\* A leaf is proved by Zenon, unless it names another prover.
USE Zenon

(***************************************************************************)
(* The inductive invariant: how far the flag, the creation in progress and *)
(* the height of a ledger can be apart.                                    *)
(***************************************************************************)
CreationFlagged ==
    create # Nil =>
        /\ proc = "up" /\ flag = create.id /\ create.id \notin ids
        /\ height[create.id] = IF create.at = "committed" THEN 1 ELSE 0

FlaggedUnlisted == flag # Nil => flag \notin ids /\ height[flag] <= 1

ListedHasGenesis == \A id \in ids : height[id] > 0

\* A genesis block without an entry is that of the flagged ledger, in a
\* creation that has yet to write the entry or was cut off before it could.
UnlistedGenesis ==
    \A id \in Ledgers \ ids :
        height[id] > 0 => flag = id /\ (create # Nil \/ proc = "down")

FlagClearedByRecovery == proc \in {"recovered", "loading"} => flag = Nil

Served ==
    /\ (chains \cup joining) \subseteq (opened \cap ids)
    /\ loading \subseteq ids

Construction ==
    /\ CreationFlagged /\ FlaggedUnlisted
    /\ ListedHasGenesis /\ UnlistedGenesis
    /\ FlagClearedByRecovery /\ Served
    /\ AlwaysStarts

(***************************************************************************)
(* Every step keeps the types and the invariant.                           *)
(***************************************************************************)
\* The initial state has the types and satisfies the invariant.
LEMMA InitConstruction ==
    ASSUME Init PROVE TypeOK /\ Construction
BY LedgerProviderAssumption, SMT
   DEF Init, TypeOK, ProcStates, Construction, CreationFlagged, FlaggedUnlisted, ListedHasGenesis, UnlistedGenesis,
               FlagClearedByRecovery, Served, AlwaysStarts

\* No action of the provider, of ledgermgmt or of the peer breaks the types.
LEMMA NextTypeOK ==
    ASSUME TypeOK, [Next]_vars PROVE TypeOK'
<1> USE LedgerProviderAssumption DEF TypeOK, Creations, ProcStates
<1>1. ASSUME NEW id \in Ledgers, Create(id) PROVE TypeOK'
  BY <1>1 DEF Create, durable, volatile, bounds
<1>2. ASSUME OpenInternal PROVE TypeOK'
  BY <1>2 DEF OpenInternal, CreateAt, durable, volatile, bounds
<1>3. ASSUME OpenInternalError PROVE TypeOK'
  BY <1>3, SMT DEF OpenInternalError, CreateAt, Fail, UnsetUnderConstructionFlag, durable,
       volatile, bounds
<1>4. ASSUME CommitGenesis PROVE TypeOK'
  BY <1>4, SMT DEF CommitGenesis, CreateAt, durable, volatile, bounds
<1>5. ASSUME CommitGenesisError PROVE TypeOK'
  BY <1>5, SMT DEF CommitGenesisError, CreateAt, Fail, durable, volatile, bounds
<1>6. ASSUME MarkCreated PROVE TypeOK'
  BY <1>6 DEF MarkCreated, CreateAt, CreateLedgerID, durable, volatile, bounds
<1>7. ASSUME NEW id \in Ledgers, CreateChain(id) PROVE TypeOK'
  BY <1>7 DEF CreateChain, durable, volatile, bounds
<1>8. ASSUME NEW id \in Ledgers, CreateChainError(id) PROVE TypeOK'
  BY <1>8, SMT DEF CreateChainError, Fail, durable, volatile, bounds
<1>9. ASSUME NEW id \in Ledgers, CommitBlock(id) PROVE TypeOK'
  BY <1>9, SMT DEF CommitBlock, durable, volatile, bounds
<1>10. ASSUME Crash PROVE TypeOK'
  BY <1>10, SMT DEF Crash, durable, volatile, bounds
<1>11. ASSUME RecoverUnderConstructionLedger PROVE TypeOK'
  BY <1>11 DEF RecoverUnderConstructionLedger, UnsetUnderConstructionFlag,
               CreateLedgerID, durable, volatile, bounds
<1>12. ASSUME GetLedgerIDs PROVE TypeOK'
  BY <1>12 DEF GetLedgerIDs, durable, volatile, bounds
<1>13. ASSUME NEW id \in Ledgers, LoadChain(id) PROVE TypeOK'
  BY <1>13, SMT DEF LoadChain, OpenLedger, Fail, durable, volatile, bounds
<1>14. ASSUME Started PROVE TypeOK'
  BY <1>14 DEF Started, durable, volatile, bounds
<1>15. ASSUME NEW id \in Ledgers, CommitBlockError(id) PROVE TypeOK'
  BY <1>15, SMT DEF CommitBlockError, Fail, durable, volatile, bounds
<1>16. CASE UNCHANGED vars
  BY <1>16 DEF vars, durable, volatile, bounds
<1>17. QED
  BY <1>1, <1>2, <1>3, <1>4, <1>5, <1>6, <1>7, <1>8, <1>9, <1>10, <1>11, <1>12, <1>13, <1>14,
       <1>15, <1>16 DEF Next, CreateStep, Start

\* No action of the provider, of ledgermgmt or of the peer breaks the
\* invariant.
LEMMA NextConstruction ==
    ASSUME TypeOK, Construction, [Next]_vars PROVE Construction'
<1> USE LedgerProviderAssumption DEF TypeOK, Creations, ProcStates
<1>1. ASSUME NEW id \in Ledgers, Create(id) PROVE Construction'
  BY <1>1, SMT DEF Create, durable, volatile, bounds,
               Construction, CreationFlagged, FlaggedUnlisted, ListedHasGenesis, UnlistedGenesis,
               FlagClearedByRecovery, Served, AlwaysStarts
<1>2. ASSUME OpenInternal PROVE Construction'
  BY <1>2 DEF OpenInternal, CreateAt, durable, volatile, bounds,
               Construction, CreationFlagged, FlaggedUnlisted, ListedHasGenesis, UnlistedGenesis,
               FlagClearedByRecovery, Served, AlwaysStarts
<1>3. ASSUME OpenInternalError PROVE Construction'
  BY <1>3, SMT DEF OpenInternalError, CreateAt, Fail, UnsetUnderConstructionFlag, durable,
       volatile, bounds,
               Construction, CreationFlagged, FlaggedUnlisted, ListedHasGenesis, UnlistedGenesis,
               FlagClearedByRecovery, Served, AlwaysStarts
<1>4. ASSUME CommitGenesis PROVE Construction'
  <2> DEFINE c == create.id
  <2>1. c \in Ledgers /\ flag = c /\ c \notin ids /\ height[c] = 0 /\ proc = "up"
    BY <1>4 DEF CommitGenesis, CreateAt, Construction, CreationFlagged
  <2>2. /\ create' \in Creations
        /\ create'.id = c /\ create'.at = "committed" /\ create' # Nil
    BY <1>4 DEF CommitGenesis, CreateAt
  <2>3. height'[c] = 1 /\ \A id \in Ledgers \ {c} : height'[id] = height[id]
    BY <1>4, <2>1, SMT DEF CommitGenesis
  <2>4. UNCHANGED <<ids, flag, proc, opened, joining, loading, chains>>
    BY <1>4 DEF CommitGenesis
  <2> HIDE DEF c
  <2>5. QED
    BY <2>1, <2>2, <2>3, <2>4, SMT
    DEF Construction, CreationFlagged, FlaggedUnlisted, ListedHasGenesis, UnlistedGenesis,
        FlagClearedByRecovery, Served, AlwaysStarts
<1>5. ASSUME CommitGenesisError PROVE Construction'
  BY <1>5, SMT DEF CommitGenesisError, CreateAt, Fail, durable, volatile, bounds,
               Construction, CreationFlagged, FlaggedUnlisted, ListedHasGenesis, UnlistedGenesis,
               FlagClearedByRecovery, Served, AlwaysStarts
<1>6. ASSUME MarkCreated PROVE Construction'
  BY <1>6, SMT DEF MarkCreated, CreateAt, CreateLedgerID, durable, volatile, bounds,
               Construction, CreationFlagged, FlaggedUnlisted, ListedHasGenesis, UnlistedGenesis,
               FlagClearedByRecovery, Served, AlwaysStarts
<1>7. ASSUME NEW id \in Ledgers, CreateChain(id) PROVE Construction'
  BY <1>7 DEF CreateChain, durable, volatile, bounds,
               Construction, CreationFlagged, FlaggedUnlisted, ListedHasGenesis, UnlistedGenesis,
               FlagClearedByRecovery, Served, AlwaysStarts
<1>8. ASSUME NEW id \in Ledgers, CreateChainError(id) PROVE Construction'
  BY <1>8 DEF CreateChainError, Fail, durable, volatile, bounds,
               Construction, CreationFlagged, FlaggedUnlisted, ListedHasGenesis, UnlistedGenesis,
               FlagClearedByRecovery, Served, AlwaysStarts
<1>9. ASSUME NEW id \in Ledgers, CommitBlock(id) PROVE Construction'
  BY <1>9, SMT DEF CommitBlock, durable, volatile, bounds,
               Construction, CreationFlagged, FlaggedUnlisted, ListedHasGenesis, UnlistedGenesis,
               FlagClearedByRecovery, Served, AlwaysStarts
<1>10. ASSUME Crash PROVE Construction'
  BY <1>10 DEF Crash, durable, volatile, bounds,
               Construction, CreationFlagged, FlaggedUnlisted, ListedHasGenesis, UnlistedGenesis,
               FlagClearedByRecovery, Served, AlwaysStarts
<1>11. ASSUME RecoverUnderConstructionLedger PROVE Construction'
  BY <1>11, SMT DEF RecoverUnderConstructionLedger, UnsetUnderConstructionFlag,
               CreateLedgerID, durable, volatile, bounds,
               Construction, CreationFlagged, FlaggedUnlisted, ListedHasGenesis, UnlistedGenesis,
               FlagClearedByRecovery, Served, AlwaysStarts
<1>12. ASSUME GetLedgerIDs PROVE Construction'
  BY <1>12 DEF GetLedgerIDs, durable, volatile, bounds,
               Construction, CreationFlagged, FlaggedUnlisted, ListedHasGenesis, UnlistedGenesis,
               FlagClearedByRecovery, Served, AlwaysStarts
<1>13. ASSUME NEW id \in Ledgers, LoadChain(id) PROVE Construction'
  BY <1>13 DEF LoadChain, OpenLedger, Fail, durable, volatile, bounds,
               Construction, CreationFlagged, FlaggedUnlisted, ListedHasGenesis, UnlistedGenesis,
               FlagClearedByRecovery, Served, AlwaysStarts
<1>14. ASSUME Started PROVE Construction'
  BY <1>14 DEF Started, durable, volatile, bounds,
               Construction, CreationFlagged, FlaggedUnlisted, ListedHasGenesis, UnlistedGenesis,
               FlagClearedByRecovery, Served, AlwaysStarts
<1>15. ASSUME NEW id \in Ledgers, CommitBlockError(id) PROVE Construction'
  BY <1>15 DEF CommitBlockError, Fail, durable, volatile, bounds,
               Construction, CreationFlagged, FlaggedUnlisted, ListedHasGenesis, UnlistedGenesis,
               FlagClearedByRecovery, Served, AlwaysStarts
<1>16. CASE UNCHANGED vars
  BY <1>16 DEF vars, durable, volatile, bounds, Construction, CreationFlagged, FlaggedUnlisted,
       ListedHasGenesis, UnlistedGenesis,
               FlagClearedByRecovery, Served, AlwaysStarts
<1>17. QED
  BY <1>1, <1>2, <1>3, <1>4, <1>5, <1>6, <1>7, <1>8, <1>9, <1>10, <1>11, <1>12, <1>13, <1>14,
       <1>15, <1>16 DEF Next, CreateStep, Start

(***************************************************************************)
(* The theorems.                                                           *)
(***************************************************************************)
\* The invariant holds in every reachable state.
THEOREM ConstructionHolds == Spec => [](TypeOK /\ Construction)
<1>1. Init => TypeOK /\ Construction
  BY InitConstruction
<1>2. TypeOK /\ Construction /\ [Next]_vars => (TypeOK /\ Construction)'
  BY NextTypeOK, NextConstruction
<1>3. QED
  BY <1>1, <1>2, PTL DEF Spec

\* CreateLedger is atomic, as its comment claims: outside a creation, and once
\* a crash has been recovered from, the id store lists exactly the ledgers
\* that have a genesis block.
THEOREM CreationAlwaysAtomic == Spec => []CreationIsAtomic
<1>1. TypeOK /\ Construction => CreationIsAtomic
  BY LedgerProviderAssumption
     DEF CreationIsAtomic, TypeOK, Creations, Construction, CreationFlagged, FlaggedUnlisted, ListedHasGenesis, UnlistedGenesis,
               FlagClearedByRecovery, Served, AlwaysStarts
<1>2. QED
  BY <1>1, ConstructionHolds, PTL

\* The peer can always be started again: the panic of
\* recoverUnderConstructionLedger and the endless loop of getAllLedgerIds are
\* out of reach of its start.
THEOREM PeerAlwaysStarts == Spec => []AlwaysStarts
<1>1. Construction => AlwaysStarts
  BY DEF Construction
<1>2. QED
  BY <1>1, ConstructionHolds, PTL

\* A chain of the peer always has its ledger listed and open.
THEOREM ChainsAlwaysOpen == Spec => []ChainsAreOpen
<1>1. Construction => ChainsAreOpen
  BY DEF Construction, Served, ChainsAreOpen
<1>2. QED
  BY <1>1, ConstructionHolds, PTL

-----------------------------------------------------------------------------

(***************************************************************************)
(* The inductive invariant of the channels.                                *)
(***************************************************************************)
Types ==
    /\ config \in [Ledgers -> Nat] /\ applied \in [Ledgers -> Nat]
    /\ stage \in [Ledgers -> Stages]
    /\ cb \in [Ledgers -> Nat \cup {Nil}]
    /\ committer \in [Ledgers -> {"idle", "applied", "cached", "failed"}]
    /\ updating \in [Ledgers -> {"idle", "called", "built", "reading"}]
    /\ DOMAIN roots = Ledgers /\ roots = [id \in Ledgers |-> roots[id]]
    /\ DOMAIN collected = Ledgers /\ collected = [id \in Ledgers |-> collected[id]]

\* Where a channel is in createChain, and what that says of the list.
Listing ==
    \A id \in Ledgers :
        /\ stage[id] \in {"listed", "ready"} <=> cb[id] # Nil
        /\ stage[id] \in {"gossip", "listed", "ready"} => id \in chains
        /\ stage[id] = "manager" => id \notin chains /\ id \in joining \cup loading
        /\ updating[id] # "idle" => stage[id] = "manager" \/ committer[id] = "applied"
        /\ committer[id] # "idle" => id \in chains /\ applied[id] > 0
        /\ committer[id] = "cached" => cb[id] # Nil /\ cb[id] = applied[id]

\* The configuration in the ledger of a channel that is being joined is that
\* of its genesis block.
Configured ==
    /\ \A id \in Ledgers :
        /\ height[id] > 0 => config[id] > 0
        /\ id \notin ids \/ id \in joining => config[id] <= 1
        /\ stage[id] \notin {"none", "failed"} => applied[id] >= config[id]
        /\ stage[id] = "gossip" /\ proc = "up" => config[id] <= 1
    /\ joining \cap chains = {} /\ loading \cap chains = {}
    /\ proc # "up" => joining = {} /\ create = Nil
    /\ proc # "loading" => loading = {}
    /\ proc \notin {"loading", "up"} => chains = {}

Matches(cas, cs) ==
    /\ {c.subject : c \in cas} = {c.subject : c \in cs}
    /\ cas \subseteq cs

\* While the lock is held for reading the roots stay what was collected; when
\* nobody is between the two steps the server has what was collected last,
\* provided that it parses.
Trust ==
    /\ \A id \in Ledgers : updating[id] = "reading" => collected[id] = TrustedRoots
    /\ (\A id \in Ledgers : updating[id] \notin {"built", "reading"}) /\ AllParse(TrustedRoots)
        => Matches(clientCAs, TrustedRoots)
    /\ \A id \in Ledgers :
        applied[id] # 0 /\ updating[id] # "called" => roots[id] = Certs(id, applied[id])

ChannelsInv == Types /\ Listing /\ Configured /\ CachedConfigNotBehind /\ Trust

(***************************************************************************)
(* Every step of the channels is a step of LedgerProvider.                 *)
(***************************************************************************)
\* Every action is one of LedgerProvider's or leaves the ledgers alone; the
\* panic of deploySysCC is out of reach because InitChain follows the entry
\* in chains.list.
LEMMA StepRefines ==
    ASSUME Types, Listing, [ChannelsNext]_allVars PROVE [Next]_vars
<1>1. ASSUME NEW id \in Ledgers, JoinChain(id) PROVE [Next]_vars
  BY <1>1 DEF JoinChain, Next
<1>2. ASSUME NEW id \in Ledgers, CreateChainFails(id) PROVE [Next]_vars
  BY <1>2 DEF CreateChainFails, Next, Start
<1>3. ASSUME NEW id \in Ledgers, CommitPlainBlock(id) PROVE [Next]_vars
  BY <1>3 DEF CommitPlainBlock, Next
<1>4. ASSUME NEW id \in Ledgers, ApplyConfig(id) PROVE [Next]_vars
  BY <1>4 DEF ApplyConfig
<1>5. ASSUME NEW id \in Ledgers, NewManager(id) PROVE [Next]_vars
  BY <1>5 DEF NewManager
<1>6. ASSUME NEW id \in Ledgers, InitializeChannel(id) PROVE [Next]_vars
  BY <1>6 DEF InitializeChannel, Next, Start
<1>7. ASSUME NEW id \in Ledgers, ListChain(id) PROVE [Next]_vars
  BY <1>7 DEF ListChain
<1>8. ASSUME NEW id \in Ledgers, InitChain(id) PROVE [Next]_vars
  BY <1>8 DEF InitChain, deploySysCC, Listed, Listing, vars
<1>9. ASSUME NEW id \in Ledgers, buildTrustedRootsForChain(id) PROVE [Next]_vars
  BY <1>9 DEF buildTrustedRootsForChain
<1>10. ASSUME NEW id \in Ledgers, CollectRoots(id) PROVE [Next]_vars
  BY <1>10 DEF CollectRoots
<1>11. ASSUME NEW id \in Ledgers, SetClientRootCAs(id) PROVE [Next]_vars
  BY <1>11 DEF SetClientRootCAs
<1>12. ASSUME NEW id \in Ledgers, SetCurrConfigBlock(id) PROVE [Next]_vars
  BY <1>12 DEF SetCurrConfigBlock
<1>13. ASSUME NEW id \in Ledgers, CommitConfigBlock(id) PROVE [Next]_vars
  BY <1>13 DEF CommitConfigBlock, Next
<1>14. ASSUME CreateLedgerStep PROVE [Next]_vars
  BY <1>14 DEF CreateLedgerStep, Next
<1>15. ASSUME CrashPeer PROVE [Next]_vars
  BY <1>15 DEF CrashPeer, Next
<1>16. ASSUME StartPeer PROVE [Next]_vars
  BY <1>16 DEF StartPeer, Next, Start
<1>17. CASE UNCHANGED allVars
  BY <1>17 DEF allVars
<1>18. QED
  BY <1>1, <1>2, <1>3, <1>4, <1>5, <1>6, <1>7, <1>8, <1>9, <1>10, <1>11, <1>12, <1>13, <1>14,
     <1>15, <1>16, <1>17 DEF ChannelsNext, ChannelStep

\* No action breaks the types.
LEMMA TypesStep ==
    ASSUME TypeOK, Types, [ChannelsNext]_allVars PROVE Types'
<1> USE LedgerProviderAssumption, CertsAssumption DEF Types, TypeOK, Stages, vars, durable, volatile, bounds, chVars, caVars
<1>1. ASSUME NEW id \in Ledgers, JoinChain(id) PROVE Types'
  BY <1>1 DEF JoinChain, Create
<1>2. ASSUME NEW id \in Ledgers, CreateChainFails(id) PROVE Types'
  BY <1>2 DEF CreateChainFails, CreateChainError, LoadChain, OpenLedger, Fail
<1>3. ASSUME NEW id \in Ledgers, CommitPlainBlock(id) PROVE Types'
  BY <1>3 DEF CommitPlainBlock, CommitBlock, Committing
<1>4. ASSUME NEW id \in Ledgers, ApplyConfig(id) PROVE Types'
  BY <1>4, SMT DEF ApplyConfig, NextSequence, Committing
<1>5. ASSUME NEW id \in Ledgers, NewManager(id) PROVE Types'
  BY <1>5 DEF NewManager, ConfigBlock, getCurrConfigBlockFromLedger, MayCreateChain, Alone
<1>6. ASSUME NEW id \in Ledgers, InitializeChannel(id) PROVE Types'
  BY <1>6 DEF InitializeChannel, CreateChain, LoadChain, OpenLedger, Fail
<1>7. ASSUME NEW id \in Ledgers, ListChain(id) PROVE Types'
  BY <1>7 DEF ListChain, ConfigBlock, getCurrConfigBlockFromLedger
<1>8. ASSUME NEW id \in Ledgers, InitChain(id) PROVE Types'
  BY <1>8 DEF InitChain, deploySysCC, Listed
<1>9. ASSUME NEW id \in Ledgers, buildTrustedRootsForChain(id) PROVE Types'
  BY <1>9 DEF buildTrustedRootsForChain
<1>10. ASSUME NEW id \in Ledgers, CollectRoots(id) PROVE Types'
  BY <1>10 DEF CollectRoots
<1>11. ASSUME NEW id \in Ledgers, SetClientRootCAs(id) PROVE Types'
  BY <1>11 DEF SetClientRootCAs
<1>12. ASSUME NEW id \in Ledgers, SetCurrConfigBlock(id) PROVE Types'
  BY <1>12 DEF SetCurrConfigBlock, Listed, Committing
<1>13. ASSUME NEW id \in Ledgers, CommitConfigBlock(id) PROVE Types'
  BY <1>13, SMT DEF CommitConfigBlock, CommitBlock, CommitBlockError, Fail, Committing
<1>14. ASSUME CreateLedgerStep PROVE Types'
  BY <1>14 DEF CreateLedgerStep, CreateStep, OpenInternal, OpenInternalError, CommitGenesis,
       CommitGenesisError, MarkCreated, CreateLedgerID, UnsetUnderConstructionFlag, CreateAt, Fail
<1>15. ASSUME CrashPeer PROVE Types'
  BY <1>15 DEF CrashPeer, Crash
<1>16. ASSUME StartPeer PROVE Types'
  BY <1>16 DEF StartPeer, RecoverUnderConstructionLedger, GetLedgerIDs, Started, CreateLedgerID,
       UnsetUnderConstructionFlag
<1>17. CASE UNCHANGED allVars
  BY <1>17 DEF allVars
<1>18. QED
  BY <1>1, <1>2, <1>3, <1>4, <1>5, <1>6, <1>7, <1>8, <1>9, <1>10, <1>11, <1>12, <1>13, <1>14,
       <1>15, <1>16, <1>17, ZenonT(40) DEF ChannelsNext, ChannelStep

\* No action breaks the order of createChain, or lets the cached block differ
\* from the configuration about to be stored.
LEMMA ListingStep ==
    ASSUME TypeOK, Construction, Types, Listing, Configured, [ChannelsNext]_allVars PROVE Listing'
<1> USE LedgerProviderAssumption, CertsAssumption DEF Types, TypeOK, Stages, Construction, Served, ListedHasGenesis, Listing, Configured, vars, durable, volatile, bounds, chVars, caVars
<1>1. ASSUME NEW id \in Ledgers, JoinChain(id) PROVE Listing'
  BY <1>1 DEF JoinChain, Create
<1>2. ASSUME NEW id \in Ledgers, CreateChainFails(id) PROVE Listing'
  BY <1>2, SMT DEF CreateChainFails, CreateChainError, LoadChain, OpenLedger, Fail
<1>3. ASSUME NEW id \in Ledgers, CommitPlainBlock(id) PROVE Listing'
  BY <1>3 DEF CommitPlainBlock, CommitBlock, Committing
<1>4. ASSUME NEW id \in Ledgers, ApplyConfig(id) PROVE Listing'
  BY <1>4, SMTT(30) DEF ApplyConfig, NextSequence, Committing
<1>5. ASSUME NEW id \in Ledgers, NewManager(id) PROVE Listing'
  BY <1>5, SMTT(30) DEF NewManager, ConfigBlock, getCurrConfigBlockFromLedger, MayCreateChain, Alone
<1>6. ASSUME NEW id \in Ledgers, InitializeChannel(id) PROVE Listing'
  BY <1>6, SMTT(30) DEF InitializeChannel, CreateChain, LoadChain, OpenLedger, Fail
<1>7. ASSUME NEW id \in Ledgers, ListChain(id) PROVE Listing'
  BY <1>7, SMT DEF ListChain, ConfigBlock, getCurrConfigBlockFromLedger
<1>8. ASSUME NEW id \in Ledgers, InitChain(id) PROVE Listing'
  BY <1>8 DEF InitChain, deploySysCC, Listed
<1>9. ASSUME NEW id \in Ledgers, buildTrustedRootsForChain(id) PROVE Listing'
  BY <1>9 DEF buildTrustedRootsForChain
<1>10. ASSUME NEW id \in Ledgers, CollectRoots(id) PROVE Listing'
  BY <1>10 DEF CollectRoots
<1>11. ASSUME NEW id \in Ledgers, SetClientRootCAs(id) PROVE Listing'
  BY <1>11 DEF SetClientRootCAs
<1>12. ASSUME NEW id \in Ledgers, SetCurrConfigBlock(id) PROVE Listing'
  BY <1>12, SMTT(30) DEF SetCurrConfigBlock, Listed, Committing
<1>13. ASSUME NEW id \in Ledgers, CommitConfigBlock(id) PROVE Listing'
  BY <1>13, SMTT(30) DEF CommitConfigBlock, CommitBlock, CommitBlockError, Fail, Committing
<1>14. ASSUME CreateLedgerStep PROVE Listing'
  BY <1>14, SMT DEF CreateLedgerStep, CreateStep, OpenInternal, OpenInternalError, CommitGenesis,
       CommitGenesisError, MarkCreated, CreateLedgerID, UnsetUnderConstructionFlag, CreateAt, Fail
<1>15. ASSUME CrashPeer PROVE Listing'
  BY <1>15 DEF CrashPeer, Crash
<1>16. ASSUME StartPeer PROVE Listing'
  BY <1>16 DEF StartPeer, RecoverUnderConstructionLedger, GetLedgerIDs, Started, CreateLedgerID,
       UnsetUnderConstructionFlag
<1>17. CASE UNCHANGED allVars
  BY <1>17 DEF allVars
<1>18. QED
  BY <1>1, <1>2, <1>3, <1>4, <1>5, <1>6, <1>7, <1>8, <1>9, <1>10, <1>11, <1>12, <1>13, <1>14,
       <1>15, <1>16, <1>17, ZenonT(40) DEF ChannelsNext, ChannelStep

\* No action breaks what is known of the configuration of a joined channel.
LEMMA ConfiguredStep ==
    ASSUME TypeOK, Construction, Types, Listing, Configured, [ChannelsNext]_allVars PROVE Configured'
<1> USE LedgerProviderAssumption, CertsAssumption DEF Types, TypeOK, Stages, Construction, Served, ListedHasGenesis, CreationFlagged, UnlistedGenesis, Creations, Listing, Configured, vars, durable, volatile, bounds, chVars, caVars
<1>1. ASSUME NEW id \in Ledgers, JoinChain(id) PROVE Configured'
  BY <1>1 DEF JoinChain, Create
<1>2. ASSUME NEW id \in Ledgers, CreateChainFails(id) PROVE Configured'
  BY <1>2, SMT DEF CreateChainFails, CreateChainError, LoadChain, OpenLedger, Fail
<1>3. ASSUME NEW id \in Ledgers, CommitPlainBlock(id) PROVE Configured'
  BY <1>3 DEF CommitPlainBlock, CommitBlock, Committing
<1>4. ASSUME NEW id \in Ledgers, ApplyConfig(id) PROVE Configured'
  BY <1>4, SMT DEF ApplyConfig, NextSequence, Committing
<1>5. ASSUME NEW id \in Ledgers, NewManager(id) PROVE Configured'
  BY <1>5, SMT DEF NewManager, ConfigBlock, getCurrConfigBlockFromLedger, MayCreateChain, Alone
<1>6. ASSUME NEW id \in Ledgers, InitializeChannel(id) PROVE Configured'
  <2>1. CASE proc = "up"
    <3>1. /\ id \in joining /\ joining' = joining \ {id} /\ chains' = chains \cup {id}
          /\ UNCHANGED <<durable, proc, create, loading, config, applied>>
          /\ stage' = [stage EXCEPT ![id] = "gossip"] /\ stage[id] = "manager"
      BY <1>6, <2>1 DEF InitializeChannel, CreateChain
    <3>2. QED
      BY <3>1, <2>1, SMT
  <2>2. CASE proc # "up"
    <3>1. /\ proc = "loading" /\ id \in loading /\ loading' = loading \ {id}
          /\ id \in chains' /\ OpenLedger(id) /\ chains' = chains \cup {id}
          /\ UNCHANGED <<durable, proc, create, joining, config, applied>>
          /\ stage' = [stage EXCEPT ![id] = "gossip"] /\ stage[id] = "manager"
      BY <1>6, <2>2 DEF InitializeChannel, LoadChain
    <3>2. QED
      BY <3>1, <2>2, SMT
  <2>3. QED
    BY <2>1, <2>2
<1>7. ASSUME NEW id \in Ledgers, ListChain(id) PROVE Configured'
  BY <1>7 DEF ListChain, ConfigBlock, getCurrConfigBlockFromLedger
<1>8. ASSUME NEW id \in Ledgers, InitChain(id) PROVE Configured'
  BY <1>8 DEF InitChain, deploySysCC, Listed
<1>9. ASSUME NEW id \in Ledgers, buildTrustedRootsForChain(id) PROVE Configured'
  BY <1>9 DEF buildTrustedRootsForChain
<1>10. ASSUME NEW id \in Ledgers, CollectRoots(id) PROVE Configured'
  BY <1>10 DEF CollectRoots
<1>11. ASSUME NEW id \in Ledgers, SetClientRootCAs(id) PROVE Configured'
  BY <1>11 DEF SetClientRootCAs
<1>12. ASSUME NEW id \in Ledgers, SetCurrConfigBlock(id) PROVE Configured'
  BY <1>12 DEF SetCurrConfigBlock, Listed, Committing
<1>13. ASSUME NEW id \in Ledgers, CommitConfigBlock(id) PROVE Configured'
  BY <1>13, SMTT(30) DEF CommitConfigBlock, CommitBlock, CommitBlockError, Fail, Committing
<1>14. ASSUME CreateLedgerStep PROVE Configured'
  BY <1>14, SMTT(30) DEF CreateLedgerStep, CreateStep, OpenInternal, OpenInternalError,
       CommitGenesis, CommitGenesisError, MarkCreated, CreateLedgerID, UnsetUnderConstructionFlag,
       CreateAt, Fail
<1>15. ASSUME CrashPeer PROVE Configured'
  BY <1>15, SMT DEF CrashPeer, Crash
<1>16. ASSUME StartPeer PROVE Configured'
  BY <1>16, SMT DEF StartPeer, RecoverUnderConstructionLedger, GetLedgerIDs, Started,
       Outside, CreateLedgerID, UnsetUnderConstructionFlag
<1>17. CASE UNCHANGED allVars
  BY <1>17 DEF allVars
<1>18. QED
  BY <1>1, <1>2, <1>3, <1>4, <1>5, <1>6, <1>7, <1>8, <1>9, <1>10, <1>11, <1>12, <1>13, <1>14,
       <1>15, <1>16, <1>17 DEF ChannelsNext, ChannelStep

\* The configuration a client gets stays at or ahead of the ledger's: it is
\* entered in the list before another can be committed, and replaced before
\* the next one is stored.
LEMMA CachedStep ==
    ASSUME TypeOK, Construction, Types, Listing, Configured, CachedConfigNotBehind,
           [ChannelsNext]_allVars
    PROVE  CachedConfigNotBehind'
<1> USE LedgerProviderAssumption, CertsAssumption DEF Types, CachedConfigNotBehind
<1>1. ASSUME NEW id \in Ledgers, ListChain(id) PROVE CachedConfigNotBehind'
  BY <1>1, SMT DEF ListChain, ConfigBlock, getCurrConfigBlockFromLedger, Configured
<1>2. ASSUME NEW id \in Ledgers, SetCurrConfigBlock(id) PROVE CachedConfigNotBehind'
  BY <1>2 DEF SetCurrConfigBlock, Listed, Committing, Configured, Listing
<1>3. ASSUME NEW id \in Ledgers, CommitConfigBlock(id) PROVE CachedConfigNotBehind'
  BY <1>3, SMT DEF CommitConfigBlock, Committing, Listing
<1>4. ASSUME CreateLedgerStep PROVE CachedConfigNotBehind'
  <2>1. ASSUME NEW id \in Ledgers, cb[id] # Nil PROVE config[id] > 0
    BY <2>1 DEF Listing, Configured, Construction, Served, ListedHasGenesis, TypeOK, Stages
  <2>2. QED
    BY <1>4, <2>1, SMT DEF CreateLedgerStep, chVars
<1>5. ASSUME CrashPeer PROVE CachedConfigNotBehind'
  BY <1>5 DEF CrashPeer
<1>6. CASE UNCHANGED <<config, cb>>
  BY <1>6
<1>7. QED
  BY <1>1, <1>2, <1>3, <1>4, <1>5, <1>6
  DEF ChannelsNext, ChannelStep, JoinChain, CreateChainFails, CommitPlainBlock, ApplyConfig,
      NewManager, InitializeChannel, InitChain, buildTrustedRootsForChain, CollectRoots,
      SetClientRootCAs, StartPeer, allVars, chVars

\* Of a set of certificates SetClientRootCAs keeps one for each subject.
LEMMA OnePerSubjectMatches ==
    ASSUME NEW cs, NEW s \in OnePerSubject(cs) PROVE Matches(s, cs)
<1>1. s \subseteq cs /\ \A c \in cs : Cardinality({d \in s : d.subject = c.subject}) = 1
  BY DEF OnePerSubject
<1>2. ASSUME NEW c \in cs PROVE \E d \in s : d.subject = c.subject
  BY <1>1, FS_EmptySet, SMT
<1>3. QED
  BY <1>1, <1>2 DEF Matches

\* updateTrustedRoots loses no update: the roots cannot change between the
\* moment they are collected and the moment the server has them.
LEMMA TrustStep ==
    ASSUME TypeOK, Construction, Types, Listing, Configured, Trust, [ChannelsNext]_allVars
    PROVE  Trust'
<1> USE DEF Types
<1>1. ASSUME NEW id \in Ledgers, buildTrustedRootsForChain(id) PROVE Trust'
  <2>1. /\ \A c \in Ledgers : updating'[c] # "reading"
        /\ updating'[id] = "built" /\ roots'[id] = Certs(id, applied[id])
        /\ \A c \in Ledgers \ {id} : updating'[c] = updating[c] /\ roots'[c] = roots[c]
        /\ applied' = applied
    BY <1>1 DEF buildTrustedRootsForChain, MayWrite, Readers, chVars
  <2>2. QED
    BY <2>1 DEF Trust
<1>2. ASSUME NEW id \in Ledgers, CollectRoots(id) PROVE Trust'
  <2>1. /\ roots' = roots /\ applied' = applied
        /\ updating'[id] = "reading" /\ collected'[id] = TrustedRoots /\ updating[id] # "called"
        /\ \A c \in Ledgers \ {id} : updating'[c] = updating[c] /\ collected'[c] = collected[c]
    BY <1>2 DEF CollectRoots, chVars, TrustedRoots
  <2>2. TrustedRoots' = TrustedRoots
    BY <2>1, SMT DEF TrustedRoots
  <2>3. QED
    BY <2>1, <2>2 DEF Trust
<1>3. ASSUME NEW id \in Ledgers, SetClientRootCAs(id) PROVE Trust'
  <2>1. /\ roots' = roots /\ applied' = applied
        /\ updating'[id] = "idle" /\ updating[id] = "reading"
        /\ \A c \in Ledgers \ {id} : updating'[c] = updating[c] /\ collected'[c] = collected[c]
        /\ AllParse(collected[id]) => clientCAs' \in OnePerSubject(collected[id])
    BY <1>3 DEF SetClientRootCAs, chVars
  <2>2. TrustedRoots' = TrustedRoots
    BY <2>1, SMT DEF TrustedRoots
  <2>3. AllParse(TrustedRoots) => Matches(clientCAs', TrustedRoots)
    BY <2>1, OnePerSubjectMatches DEF Trust
  <2>4. QED
    BY <2>1, <2>2, <2>3 DEF Trust
<1>4. ASSUME NEW id \in Ledgers, NewManager(id) \/ ApplyConfig(id) PROVE Trust'
  <2>1. /\ roots' = roots /\ collected' = collected /\ clientCAs' = clientCAs
        /\ updating'[id] = "called"
        /\ \A c \in Ledgers \ {id} : updating'[c] = updating[c] /\ applied'[c] = applied[c]
    BY <1>4 DEF NewManager, ApplyConfig, caVars
  <2>2. TrustedRoots' = TrustedRoots
    BY <2>1, SMT DEF TrustedRoots
  <2>3. updating[id] \notin {"built", "reading"}
    BY <1>4 DEF NewManager, MayCreateChain, ApplyConfig, Committing, Listing, Configured
  <2>4. QED
    BY <2>1, <2>2, <2>3 DEF Trust
<1>5. ASSUME CrashPeer PROVE Trust'
  BY <1>5, SMT DEF CrashPeer, Trust, TrustedRoots, Matches
<1>6. CASE UNCHANGED <<applied, caVars>>
  BY <1>6, SMT DEF Trust, TrustedRoots, caVars
<1>7. QED
  BY <1>1, <1>2, <1>3, <1>4, <1>5, <1>6
  DEF ChannelsNext, ChannelStep, JoinChain, CreateChainFails, CommitPlainBlock, ListChain,
      InitializeChannel, InitChain, SetCurrConfigBlock, CommitConfigBlock, CreateLedgerStep,
      StartPeer, allVars, chVars

(***************************************************************************)
(* The theorems.                                                           *)
(***************************************************************************)
\* The initial state satisfies the invariant.
LEMMA InitChannels ==
    ASSUME ChannelsInit PROVE ChannelsInv
BY LedgerProviderAssumption, CertsAssumption, SMT
   DEF ChannelsInit, Init, NoChannels, ChannelsInv, Types, Stages, Listing, Configured,
       CachedConfigNotBehind, Trust, TrustedRoots, Matches

\* The invariant holds in every reachable state, and every step is one of
\* LedgerProvider.
THEOREM ChannelsInvariant ==
    ChannelsSpec => [](TypeOK /\ Construction /\ ChannelsInv) /\ [][Next]_vars
<1>1. ChannelsInit => TypeOK /\ Construction /\ ChannelsInv
  BY InitConstruction, InitChannels DEF ChannelsInit
<1>2. TypeOK /\ Construction /\ ChannelsInv /\ [ChannelsNext]_allVars
      => (TypeOK /\ Construction /\ ChannelsInv)' /\ [Next]_vars
  <2> SUFFICES ASSUME TypeOK, Construction, ChannelsInv, [ChannelsNext]_allVars
               PROVE  (TypeOK /\ Construction /\ ChannelsInv)' /\ [Next]_vars
    OBVIOUS
  <2>1. [Next]_vars
    BY StepRefines DEF ChannelsInv
  <2>2. TypeOK' /\ Construction'
    BY <2>1, NextTypeOK, NextConstruction
  <2>3. ChannelsInv'
    BY TypesStep, ListingStep, ConfiguredStep, CachedStep, TrustStep DEF ChannelsInv
  <2>4. QED
    BY <2>1, <2>2, <2>3
<1>3. QED
  BY <1>1, <1>2, PTL DEF ChannelsSpec

\* What holds of LedgerProvider holds of the ledgers under the channels.
LEMMA ChannelsImplementLedgerProvider == ChannelsSpec => Spec
<1>1. ChannelsInit => Init
  BY DEF ChannelsInit
<1>2. QED
  BY <1>1, ChannelsInvariant, PTL DEF ChannelsSpec, Spec

\* The configuration block a client gets is never older than the ledger's.
THEOREM CachedConfigNeverBehind == ChannelsSpec => []CachedConfigNotBehind
<1>1. ChannelsInv => CachedConfigNotBehind
  BY DEF ChannelsInv
<1>2. QED
  BY <1>1, ChannelsInvariant, PTL

\* No channel's update of the trusted authorities is lost to another's.
THEOREM TrustAlwaysFollowsChannels == ChannelsSpec => []TrustFollowsChannels
<1>1. ChannelsInv => TrustFollowsChannels
  BY DEF ChannelsInv, Types, Trust, TrustFollowsChannels, TrustedRoots, Matches
<1>2. QED
  BY <1>1, ChannelsInvariant, PTL

\* The creation of ledgers stays atomic, and the peer able to start, under the
\* channels as they are really brought up.
THEOREM ChannelsCreationAtomic == ChannelsSpec => [](CreationIsAtomic /\ AlwaysStarts)
<1>1. QED
  BY ChannelsImplementLedgerProvider, CreationAlwaysAtomic, PeerAlwaysStarts, PTL
=============================================================================
