---------------------------- MODULE PeerChannels ----------------------------
(***************************************************************************)
(* The channels of one peer on top of the life of its ledgers              *)
(* (LedgerProvider): how createChain brings a channel up step by step,     *)
(* when it is joined and when the peer starts; what a configuration block  *)
(* changes (the channel's configuration, the cached configuration block,   *)
(* the authorities the peer's server trusts); and the races between the    *)
(* two, because gossip commits blocks of a channel before the channel is   *)
(* in chains.list.                                                         *)
(*                                                                         *)
(* Sources: core/peer/peer.go, core/scc/cscc/configure.go,                 *)
(* core/scc/sysccapi.go, core/comm/server.go, and the callback of          *)
(* core/committer/committer_impl.go.                                       *)
(*                                                                         *)
(* The variable chains of LedgerProvider is here the set of channels given *)
(* to gossip; chains.list has the channels with a cached block (cb).  A    *)
(* configuration is its sequence number, 1 for that of the genesis block.  *)
(* The peer's server uses TLS.                                             *)
(***************************************************************************)
EXTENDS LedgerProvider

CONSTANTS Authorities,      \* certificates: a subject, and whether they parse
          StaticCAs,        \* the authorities the server is configured with
          Certs(_, _)       \* the authorities of a channel's configuration n

ASSUME CertsAssumption ==
    /\ Nil \notin Nat /\ StaticCAs \subseteq Authorities
    /\ \A id \in Ledgers : \A n \in 0..MaxHeight : Certs(id, n) \subseteq Authorities

VARIABLES
    config,     \* configuration in the ledger (durable), 0 before genesis
    stage,      \* how far createChain and InitChain are for a channel
    applied,    \* configuration of the channel's configtx manager
    cb,         \* chains.list[id].cb, Nil for a channel not in the list
    committer,  \* where the commit of a configuration block is
    roots,      \* rootCASupport.AppRootCAsByChain
    updating,   \* where updateTrustedRoots is for a channel
    collected,  \* the roots it has collected
    clientCAs   \* clientRootCAs of the peer's server

chVars == <<stage, applied, cb, committer>>
caVars == <<roots, updating, collected, clientCAs>>
allVars == <<vars, config, chVars, caVars>>

\* failed: createChain returned an error since the peer started.
Stages == {"none", "manager", "gossip", "listed", "ready", "failed"}

Outside == {"none", "ready", "failed"}

-----------------------------------------------------------------------------
(* updateTrustedRoots, the callback of a configuration that is applied.    *)
(* rootCASupport's lock is held for reading until the server is set.       *)

Readers == {id \in Ledgers : updating[id] = "reading"}

\* Mutant: the lock is not held while the server is set.
MayWriteAnyTime == TRUE

MayWrite == Readers = {}

\* buildTrustedRootsForChain, under the write lock.
buildTrustedRootsForChain(id) ==
    /\ updating[id] = "called" /\ MayWrite
    /\ roots' = [roots EXCEPT ![id] = Certs(id, applied[id])]
    /\ updating' = [updating EXCEPT ![id] = "built"]
    /\ UNCHANGED <<vars, config, chVars, collected, clientCAs>>

TrustedRoots == StaticCAs \cup UNION {roots[c] : c \in Ledgers}

\* The loop over the roots of all channels, under the read lock.
CollectRoots(id) ==
    /\ updating[id] = "built"
    /\ collected' = [collected EXCEPT ![id] = TrustedRoots]
    /\ updating' = [updating EXCEPT ![id] = "reading"]
    /\ UNCHANGED <<vars, config, chVars, roots, clientCAs>>

\* Certificates are kept by subject: of two with the same one remains, and which
\* one depends on the order of a map.
OnePerSubject(cs) ==
    {s \in SUBSET cs : \A c \in cs : Cardinality({d \in s : d.subject = c.subject}) = 1}

AllParse(cs) == \A c \in cs : c.parses

\* One that does not parse is an error, logged by updateTrustedRoots: the server
\* keeps the authorities it has.
SetClientRootCAs(id) ==
    /\ updating[id] = "reading"
    /\ IF AllParse(collected[id]) THEN clientCAs' \in OnePerSubject(collected[id])
       ELSE UNCHANGED clientCAs
    /\ updating' = [updating EXCEPT ![id] = "idle"]
    /\ collected' = [collected EXCEPT ![id] = {}]
    /\ UNCHANGED <<vars, config, chVars, roots>>

-----------------------------------------------------------------------------
(* createChain. *)

\* A request to join: what its block is, and who signs it.
Requests == [block : {"garbage", "transaction", "noApplicationGroup", "config"}, admin : BOOLEAN]

validateConfigBlock(block) == block = "config"

\* The creator is an administrator in the peer's own organisation.
CheckPolicyNoChannel(req) == req.admin

\* Any other request is refused before it changes anything.
MayJoin(req) == validateConfigBlock(req.block) /\ CheckPolicyNoChannel(req)

\* cscc's JoinChain, up to the first step of CreateLedger.
JoinChain(id) ==
    /\ \E req \in Requests : MayJoin(req)
    /\ Create(id)
    /\ UNCHANGED <<config, chVars, caVars>>

\* The steps of CreateLedger.
CreateLedgerStep ==
    /\ CreateStep
    /\ config' = [id \in Ledgers |-> IF config[id] = 0 /\ height'[id] = 1 THEN 1 ELSE config[id]]
    /\ UNCHANGED <<chVars, caVars>>

\* Nobody else is in createChain: the start of the peer loads one at a time.
Alone(id) == \A c \in Ledgers \ {id} : stage[c] \in Outside

MayCreateChain(id) ==
    \/ proc = "up" /\ id \in joining
    \/ proc = "loading" /\ id \in loading /\ Alone(id)

\* The last block names the block of the last configuration.
getCurrConfigBlockFromLedger(id) == config[id]

\* The block createChain is called with: the genesis block of a join, or at the
\* start of the peer the last configuration in the ledger.
ConfigBlock(id) == IF proc = "up" THEN 1 ELSE getCurrConfigBlockFromLedger(id)

\* The configtx manager is made from the block, and calls back
\* updateTrustedRoots.
NewManager(id) ==
    /\ stage[id] = "none" /\ MayCreateChain(id)
    /\ applied' = [applied EXCEPT ![id] = ConfigBlock(id)]
    /\ stage' = [stage EXCEPT ![id] = "manager"]
    /\ updating' = [updating EXCEPT ![id] = "called"]
    /\ UNCHANGED <<vars, config, cb, committer, roots, collected, clientCAs>>

\* Mutant: at the start of the peer an error ends the loop over the ledgers.
CreateChainFailsAborts(id) ==
    /\ stage[id] \in {"none", "manager"} /\ updating[id] = "idle" /\ MayCreateChain(id)
    /\ IF proc = "up" THEN CreateChainError(id)
       ELSE Fail /\ loading' = {}
            /\ UNCHANGED <<durable, proc, create, opened, joining, chains, crashes>>
    /\ stage' = [stage EXCEPT ![id] = "failed"]
    /\ UNCHANGED <<config, applied, cb, committer, caVars>>

\* The ledger cannot be opened, the block is not a configuration, or there is
\* no ordering service in it: createChain returns an error, and a start of the
\* peer goes on with the next ledger.
CreateChainFails(id) ==
    /\ stage[id] \in {"none", "manager"} /\ updating[id] = "idle" /\ MayCreateChain(id)
    /\ IF proc = "up" THEN CreateChainError(id) ELSE LoadChain(id) /\ id \notin chains'
    /\ stage' = [stage EXCEPT ![id] = "failed"]
    /\ UNCHANGED <<config, applied, cb, committer, caVars>>

\* Gossip gets the channel and its committer: from here on blocks arrive.
InitializeChannel(id) ==
    /\ stage[id] = "manager" /\ updating[id] = "idle"
    /\ IF proc = "up" THEN CreateChain(id) ELSE LoadChain(id) /\ id \in chains'
    /\ stage' = [stage EXCEPT ![id] = "gossip"]
    /\ UNCHANGED <<config, applied, cb, committer, caVars>>

\* chains.list[cid] is set, with the block createChain was called with: that of
\* the ledger has not changed since, as SetCurrConfigBlock needs the entry.
ListChain(id) ==
    /\ stage[id] = "gossip"
    /\ cb' = [cb EXCEPT ![id] = ConfigBlock(id)]
    /\ stage' = [stage EXCEPT ![id] = "listed"]
    /\ UNCHANGED <<vars, config, applied, committer, caVars>>

\* GetLedger finds the channel.
Listed(id) == cb[id] # Nil

\* A channel without a ledger in the list is a panic.
deploySysCC(id) == proc' = IF Listed(id) THEN proc ELSE "panicked"

InitChain(id) ==
    /\ stage[id] = "listed"
    /\ stage' = [stage EXCEPT ![id] = "ready"]
    /\ deploySysCC(id)
    /\ UNCHANGED <<durable, volatile, bounds, config, applied, cb, committer, caVars>>

-----------------------------------------------------------------------------
(* The committer of a channel. *)

Committing(id, at) == id \in chains /\ committer[id] = at

\* A block without a configuration.
CommitPlainBlock(id) ==
    /\ Committing(id, "idle")
    /\ CommitBlock(id)
    /\ UNCHANGED <<config, chVars, caVars>>

NextSequence(id) == applied[id] + 1

\* The validation of a configuration block applies it to the manager, which
\* calls back updateTrustedRoots.
ApplyConfig(id) ==
    /\ Committing(id, "idle") /\ proc \in {"loading", "up"}
    /\ height[id] < MaxHeight
    /\ applied' = [applied EXCEPT ![id] = NextSequence(id)]
    /\ committer' = [committer EXCEPT ![id] = "applied"]
    /\ updating' = [updating EXCEPT ![id] = "called"]
    /\ UNCHANGED <<vars, config, stage, cb, roots, collected, clientCAs>>

\* Mutant: a channel that is not in the list is no error.
SetCurrConfigBlockLenient(id) ==
    /\ Committing(id, "applied") /\ updating[id] = "idle"
    /\ cb' = IF Listed(id) THEN [cb EXCEPT ![id] = applied[id]] ELSE cb
    /\ committer' = [committer EXCEPT ![id] = "cached"]
    /\ UNCHANGED <<vars, config, stage, applied, caVars>>

\* The callback of Commit: an error for a channel that is not in the list ends
\* the commit before the block is stored.
SetCurrConfigBlock(id) ==
    /\ Committing(id, "applied") /\ updating[id] = "idle"
    /\ cb' = IF Listed(id) THEN [cb EXCEPT ![id] = applied[id]] ELSE cb
    /\ committer' = [committer EXCEPT ![id] = IF Listed(id) THEN "cached" ELSE "failed"]
    /\ UNCHANGED <<vars, config, stage, applied, caVars>>

\* The block is stored, or the ledger returns an error.
CommitConfigBlock(id) ==
    /\ Committing(id, "cached")
    /\ \/ /\ CommitBlock(id)
          /\ config' = [config EXCEPT ![id] = applied[id]]
          /\ committer' = [committer EXCEPT ![id] = "idle"]
       \/ /\ CommitBlockError(id) /\ UNCHANGED config
          /\ committer' = [committer EXCEPT ![id] = "failed"]
    /\ UNCHANGED <<stage, applied, cb, caVars>>

-----------------------------------------------------------------------------
(* Crash and start. *)

NoChannels ==
    /\ stage = [id \in Ledgers |-> "none"] /\ applied = [id \in Ledgers |-> 0]
    /\ cb = [id \in Ledgers |-> Nil] /\ committer = [id \in Ledgers |-> "idle"]
    /\ roots = [id \in Ledgers |-> {}] /\ updating = [id \in Ledgers |-> "idle"]
    /\ collected = [id \in Ledgers |-> {}] /\ clientCAs = StaticCAs

CrashPeer ==
    /\ Crash
    /\ stage' = [id \in Ledgers |-> "none"] /\ applied' = [id \in Ledgers |-> 0]
    /\ cb' = [id \in Ledgers |-> Nil] /\ committer' = [id \in Ledgers |-> "idle"]
    /\ roots' = [id \in Ledgers |-> {}] /\ updating' = [id \in Ledgers |-> "idle"]
    /\ collected' = [id \in Ledgers |-> {}] /\ clientCAs' = StaticCAs
    /\ UNCHANGED config

StartPeer ==
    /\ RecoverUnderConstructionLedger \/ GetLedgerIDs
       \/ (Started /\ \A id \in Ledgers : stage[id] \in Outside)
    /\ UNCHANGED <<config, chVars, caVars>>

ChannelsInit == Init /\ NoChannels /\ config = [id \in Ledgers |-> 0]

\* What the goroutine in createChain, or in a commit, does next.
ChannelStep(id) ==
    \/ NewManager(id) \/ InitializeChannel(id) \/ ListChain(id) \/ InitChain(id)
    \/ buildTrustedRootsForChain(id) \/ CollectRoots(id) \/ SetClientRootCAs(id)
    \/ SetCurrConfigBlock(id) \/ CommitConfigBlock(id)

ChannelsNext ==
    \/ \E id \in Ledgers : JoinChain(id) \/ CreateChainFails(id)
    \/ \E id \in Ledgers : CommitPlainBlock(id) \/ ApplyConfig(id)
    \/ \E id \in Ledgers : ChannelStep(id)
    \/ CreateLedgerStep \/ CrashPeer \/ StartPeer

ChannelsSpec == ChannelsInit /\ [][ChannelsNext]_allVars

\* A goroutine in CreateLedger, createChain or Commit keeps running, and the
\* operator starts a peer that is down.
ChannelsFairness ==
    /\ WF_allVars(CreateLedgerStep) /\ WF_allVars(StartPeer)
    /\ \A id \in Ledgers : WF_allVars(ChannelStep(id))

-----------------------------------------------------------------------------
(* Properties. *)

\* The configuration block a client gets (GetCurrConfigBlock) is never older
\* than the one in the ledger, although gossip may commit configuration blocks
\* between InitializeChannel and the entry in chains.list, which then holds
\* the block createChain was given (createChain, SetCurrConfigBlock).
CachedConfigNotBehind == \A id \in Ledgers : cb[id] # Nil => cb[id] >= config[id]

\* Whatever channels apply configurations at the same time, once no update is
\* under way the server trusts exactly the authorities (by subject) of the
\* configurations applied: no channel's update is lost to another's, and one
\* that failed on a certificate that does not parse is made good by the first
\* after that certificate is gone (updateTrustedRoots,
\* buildTrustedRootsForChain, SetClientRootCAs).
TrustFollowsChannels ==
    (\A id \in Ledgers : updating[id] = "idle") =>
        /\ AllParse(TrustedRoots) =>
            /\ {c.subject : c \in clientCAs} = {c.subject : c \in TrustedRoots}
            /\ clientCAs \subseteq TrustedRoots
        /\ \A id \in Ledgers : applied[id] # 0 => roots[id] = Certs(id, applied[id])

\* A ledger that is listed gets its channel, or an error of its own: after a
\* createChain that failed once the ledger existed (a join of it is refused from
\* then on) a restart brings the channel up; the error of one channel does not
\* keep the next from being loaded ("We continue to the next chain rather than
\* abort"); and channels that set the server's authorities at the same time do
\* not wait for one another for good (CreateChainFromBlock, Initialize,
\* createChain, updateTrustedRoots).
ListedComesUp ==
    \A id \in Ledgers : (id \in ids) ~> (stage[id] \in {"ready", "failed"})
=============================================================================
