----------------------------- MODULE TxPipeline -----------------------------
(***************************************************************************)
(* A transaction from proposal to commit: endorsers check, simulate and    *)
(* sign a proposal (Endorser, escc), the client gathers endorsements of    *)
(* equal results, the orderer puts envelopes into blocks, and the          *)
(* committer validates a block (TxValidator), tells the channel of a new   *)
(* configuration and commits it with the check of read versions.           *)
(*                                                                         *)
(* The client and the orderer are external: the client may submit what it  *)
(* gathered at any time, also malformed, and the orderer may put the same  *)
(* envelope into two blocks.  Values are left out: a key has a version     *)
(* only, except lscc's.                                                    *)
(***************************************************************************)
EXTENDS TxValidator

CONSTANTS Orgs, Workloads, MaxBlocks, MaxTxs

VARIABLES
  load,       \* the requests by transaction, lscc's entries to start with, bounds
  ledger,     \* what is committed
  members,    \* the organisations of the configuration in force
  admitted,   \* proposals past the endorser's checks: <<tx, org>>
  responses,  \* endorsed results the client gathered: [org, rw, ran]
  envelope,   \* what the client submitted
  chain,      \* the blocks the orderer cut
  flags,      \* of the block being committed, Nil if none is
  last,       \* the block committed last: for each transaction the envelope,
              \* whether it was valid, and the ledger it was applied to
  faults

vars == <<load, ledger, members, admitted, responses, envelope, chain, flags, last, faults>>

Txs == DOMAIN load.reqs
Req(t) == load.reqs[t]

(* A system chaincode's name cannot be deployed: callChaincode refuses it. *)
(* Nil stands for no block: it is not the flags of one.                    *)
ASSUME PipelineAssumption ==
  /\ MaxBlocks \in Nat /\ MaxTxs \in Nat
  /\ IsFiniteSet(Orgs) /\ Nil \notin Orgs \cup Chaincodes
  /\ Chaincodes \cap SysCC = {}
  /\ \A n \in 1..MaxTxs : Nil \notin [1..n -> Codes]

(* Requests name chaincodes: one to run and those it calls.  An update of  *)
(* the configuration goes to the orderer, not to endorsers.  The entry of  *)
(* a chaincode, on the ledger or asked for, has a policy.                  *)
IsEntry(cd) == cd = Nil \/ cd.policy \in Nat

ASSUME WorkloadAssumption ==
  \A w \in Workloads : (\A c \in Chaincodes : IsEntry(w.lscc[c])) /\ \A t \in DOMAIN w.reqs :
    /\ w.reqs[t].fn \in {"invoke", "deploy", "upgrade", "approve", "query", "config"}
    /\ w.reqs[t].fn \in {"invoke", "deploy", "upgrade", "approve"} => w.reqs[t].cc \in Chaincodes
    /\ w.reqs[t].fn = "invoke" => w.reqs[t].calls \subseteq Chaincodes \cup SysCC
    /\ w.reqs[t].fn \in {"invoke", "deploy", "upgrade", "approve"} => IsEntry(w.reqs[t].data)
    /\ w.reqs[t].fn = "config" => w.reqs[t].to = {}

Keys == {"lscc"} \X Chaincodes \cup Chaincodes \X {"k"} \cup {<<"rbcapproval", "k">>}

Init ==
  /\ load \in Workloads
  /\ ledger = [lscc |-> load.lscc, ver |-> [k \in Keys |-> <<0, 0>>], txs |-> {},
               members |-> Orgs, height |-> 0]
  /\ members = Orgs
  /\ admitted = {}
  /\ responses = [t \in Txs |-> {}]
  /\ envelope = [t \in Txs |-> Nil]
  /\ chain = << >> /\ flags = Nil /\ last = << >> /\ faults = 0

-----------------------------------------------------------------------------
(* ProcessProposal up to the transaction simulator: the proposal has the   *)
(* right form and is signed by a member, the chaincode may be called from  *)
(* outside, the transaction is not on the ledger and, for an application   *)
(* chaincode, its creator may write to the channel.  One that is malformed *)
(* is refused before anything is read and leaves no trace.                 *)
Target(req) ==
  CASE req.fn \in {"deploy", "upgrade"} -> "lscc"
    [] req.fn = "approve" -> "rbcapproval"
    [] req.fn = "query"   -> "qscc"
    [] OTHER -> req.cc

(* The channel's policy on what its creator signed: its writers are its    *)
(* members.                                                                *)
CheckPolicyBySignedData(creator) == creator \in members

CheckPolicy(req) == CheckPolicyBySignedData(req.creator)

ProcessProposal(t, o) ==
  /\ o \in Req(t).to
  /\ ValidateProposalMessage([req |-> Req(t), defect |-> Nil], members)
  /\ Target(Req(t)) \notin NotInvokableExternal
  /\ t \notin ledger.txs
  /\ Target(Req(t)) \notin SysCC => CheckPolicy(Req(t))
  /\ envelope[t] = Nil
  /\ <<t, o>> \notin admitted /\ ~\E r \in responses[t] : r.org = o
  /\ admitted' = admitted \cup {<<t, o>>}
  /\ UNCHANGED <<load, ledger, members, responses, envelope, chain, flags, last, faults>>

getCDSFromLSCCUnread(ccs) == {}

(* The endorser and, for a call from chaincode to chaincode, the peer ask  *)
(* lscc for the version with the simulator of the transaction: the entry   *)
(* is part of what the transaction read.                                   *)
getCDSFromLSCC(ccs) == {<<"lscc", c>> : c \in ccs}

RW(reads, writes, data) ==
  [reads |-> [k \in reads |-> ledger.ver[k]], writes |-> writes, data |-> data]

(* The application chaincodes that a call runs.                            *)
Runs(req) == {c \in {req.cc} \cup req.calls : c \notin SysCC}

executeDeployUnread(cc) == {}

(* lscc reads the entry of the chaincode it deploys or upgrades.           *)
getCCInstance(cc) == {<<"lscc", cc>>}

(* The call of the chaincode, Nil if it fails.  An application chaincode   *)
(* updates its key and those of the chaincodes it calls, without reading   *)
(* them if `blind'; a call of lscc writes the entry in `data', after which *)
(* the chaincode's Init runs.  An approval writes the entry too, blindly   *)
(* if the package is embedded.                                             *)
callChaincode(req) ==
  LET cd == ledger.lscc[req.cc]
  IN  CASE req.fn = "invoke" ->
             LET own == {<<c, "k">> : c \in Runs(req)}
             IN  RW(getCDSFromLSCC(Runs(req)) \cup (IF req.blind THEN {} ELSE own),
                    own \cup (IF "lscc" \in req.calls THEN {<<"lscc", req.new>>} ELSE {}),
                    IF "lscc" \in req.calls THEN req.data ELSE Nil)
        [] req.fn = "deploy" ->
             IF cd # Nil \/ req.creator \notin req.data.inst THEN Nil
             ELSE RW(getCCInstance(req.cc), {<<"lscc", req.cc>>, <<req.cc, "k">>}, req.data)
        [] req.fn = "upgrade" ->
             IF \/ cd = Nil \/ cd.version = req.data.version \/ cd.inst = Nil
                \/ req.creator \notin cd.inst \cap req.data.inst THEN Nil
             ELSE RW(getCCInstance(req.cc), {<<"lscc", req.cc>>, <<req.cc, "k">>}, req.data)
        [] req.fn = "approve" ->
             IF ~req.blind /\ (cd = Nil \/ cd.version = req.data.version) THEN Nil
             ELSE RW({<<"rbcapproval", "k">>}
                       \cup (IF req.blind THEN {} ELSE getCCInstance(req.cc)),
                     {<<"rbcapproval", "k">>, <<"lscc", req.cc>>}, req.data)
        [] req.fn = "query" -> RW({}, {}, Nil)

(* The result of a simulation: an error for a chaincode without an entry.  *)
simulateProposal(req) ==
  IF req.fn = "invoke" /\ \E c \in Runs(req) : ledger.lscc[c] = Nil THEN Nil
  ELSE callChaincode(req)

(* escc signs, and ProcessProposal hands out, a result below 400 only.     *)
Endorsed(status) == status < 400

endorseProposal(t, o) ==
  /\ <<t, o>> \in admitted
  /\ admitted' = admitted \ {<<t, o>>}
  /\ \E status \in {200, 400, 500} :
       LET rw  == simulateProposal(Req(t))
           ran == [c \in Runs(Req(t)) |->
                     IF ledger.lscc[c] = Nil THEN Nil ELSE ledger.lscc[c].version]
       IN  responses' = IF rw # Nil /\ Endorsed(status)
                        THEN [responses EXCEPT ![t] = @ \cup {[org |-> o, rw |-> rw, ran |-> ran]}]
                        ELSE responses
  /\ UNCHANGED <<load, ledger, members, envelope, chain, flags, last, faults>>

-----------------------------------------------------------------------------
(* The client submits the endorsements of one result, a single one perhaps *)
(* twice, or a configuration update.  load.defects: malformed envelopes.   *)
Endorsements(orgs) ==
  LET n == Cardinality(orgs)
  IN  {CHOOSE e \in [1..n -> orgs] : \A o \in orgs : \E i \in 1..n : e[i] = o}
        \cup {<<o, o>> : o \in {p \in orgs : n = 1}}

Submit(t) ==
  /\ envelope[t] = Nil
  /\ \E defect \in {Nil} \cup load.defects :
       IF Req(t).fn = "config"
       THEN envelope' = [envelope EXCEPT ![t] =
              [tx |-> t, name |-> Nil, req |-> Req(t), defect |-> defect]]
       ELSE \E r \in responses[t] :
              LET same == {s.org : s \in {s \in responses[t] : s.rw = r.rw /\ s.ran = r.ran}}
              IN  \E orgs \in SUBSET same \ {{}} : \E e \in Endorsements(orgs) :
                    envelope' = [envelope EXCEPT ![t] =
                      [tx |-> t, name |-> Target(Req(t)), req |-> Req(t), rw |-> r.rw,
                       ran |-> r.ran, endorsements |-> e, defect |-> defect]]
  /\ responses' = [responses EXCEPT ![t] = {}]
  /\ UNCHANGED <<load, ledger, members, admitted, chain, flags, last, faults>>

(* A block of submitted envelopes.  A configuration update has a block of  *)
(* its own and, with its sequence number, is ordered once.                 *)
Order(ts) ==
  /\ Len(chain) < MaxBlocks
  /\ \A i \in DOMAIN ts : envelope[ts[i]] # Nil
  /\ \A i \in DOMAIN ts : Req(ts[i]).fn = "config" =>
       Len(ts) = 1 /\ \A n \in DOMAIN chain : chain[n][1].tx # ts[i]
  /\ chain' = Append(chain, [i \in DOMAIN ts |-> envelope[ts[i]]])
  /\ UNCHANGED <<load, ledger, members, admitted, responses, envelope, flags, last, faults>>

-----------------------------------------------------------------------------
(* Commit, first half: the block is validated and, if it is a              *)
(* configuration, that is in force from here on.  An error ends Commit     *)
(* with nothing changed.                                                   *)
ValidateBlock(block) ==
  /\ \E failing \in {{}} \cup {{i} : i \in DOMAIN block} :
       /\ faults' = faults + Cardinality(failing) /\ faults' <= load.faults
       /\ IF ConfigError(members, block, failing) THEN UNCHANGED <<flags, members>>
          ELSE /\ flags' = Validate(ledger, members, block, failing)
               /\ members' = IF block[1].req.fn = "config" /\ flags'[1] = "VALID"
                             THEN block[1].req.members ELSE members
  /\ UNCHANGED <<load, ledger, admitted, responses, envelope, chain, last>>

(* The check of what was read, and the writes.                             *)
Current(l, env) == \A k \in DOMAIN env.rw.reads : l.ver[k] = env.rw.reads[k]

Version(l, i) == <<l.height + 1, i>>

Apply(l, env, i) ==
  IF env.req.fn = "config" THEN [l EXCEPT !.members = env.req.members]
  ELSE [l EXCEPT !.ver = [k \in Keys |-> IF k \in env.rw.writes THEN Version(l, i) ELSE @[k]],
                 !.lscc = [c \in Chaincodes |->
                             IF <<"lscc", c>> \in env.rw.writes THEN env.rw.data ELSE @[c]]]

IsValid(l, env, flag) == flag = "VALID" /\ (env.req.fn = "config" \/ Current(l, env))

(* The ledger after the first i transactions of a block, for every i.      *)
Stages(block) ==
  LET After[i \in 0..Len(block)] ==
        IF i = 0 THEN ledger
        ELSE IF IsValid(After[i - 1], block[i], flags[i]) THEN Apply(After[i - 1], block[i], i)
        ELSE After[i - 1]
  IN  After

LedgerCommit(block) ==
  LET After == Stages(block)
  IN  /\ ledger' = [After[Len(block)] EXCEPT !.height = @ + 1,
                      !.txs = @ \cup {block[i].tx : i \in DOMAIN block}]
      /\ last' = [i \in DOMAIN block |->
                    [env |-> block[i], valid |-> IsValid(After[i - 1], block[i], flags[i]),
                     before |-> After[i - 1]]]
      /\ flags' = Nil
      /\ UNCHANGED <<load, members, admitted, responses, envelope, chain, faults>>

(* Mutant: the configuration after a start is that of the genesis block.   *)
RestartFromGenesis == members' = Orgs

(* The peer stops and starts again: the configuration is the one of the    *)
(* last configuration block on the ledger.                                 *)
Restart == members' = ledger.members

Crash ==
  /\ faults < load.faults /\ faults' = faults + 1
  /\ Restart
  /\ flags' = Nil /\ admitted' = {}
  /\ UNCHANGED <<load, ledger, responses, envelope, chain, last>>

(* The committer takes one block after the other.                          *)
Commit ==
  /\ ledger.height < Len(chain)
  /\ LET block == chain[ledger.height + 1]
     IN  IF flags = Nil THEN ValidateBlock(block) ELSE LedgerCommit(block)

Blocks == {ts \in UNION {[1..n -> Txs] : n \in 1..MaxTxs} :
             \A i, j \in DOMAIN ts : ts[i] = ts[j] => i = j}

Next ==
  \/ \E t \in Txs : \/ Submit(t)
                    \/ \E o \in Orgs : ProcessProposal(t, o) \/ endorseProposal(t, o)
  \/ \E ts \in Blocks : Order(ts)
  \/ Commit
  \/ Crash

Spec == Init /\ [][Next]_vars

-----------------------------------------------------------------------------
Invocation(e) == e.env.req.fn = "invoke"
Endorsers(env) == {env.endorsements[i] : i \in DOMAIN env.endorsements}

(* A valid invocation ran, in every chaincode it called, the version that  *)
(* is on the ledger where it is applied: validation compares versions with *)
(* the ledger before the block, and what an earlier transaction of the     *)
(* block changes, by lscc or by an approval, is caught by the read of      *)
(* lscc's entry (getCDSFromLSCC, EXPIRED_CHAINCODE).                       *)
RanCurrentVersion ==
  \A i \in DOMAIN last : last[i].valid /\ Invocation(last[i]) =>
    \A c \in DOMAIN last[i].env.ran :
      /\ last[i].before.lscc[c] # Nil
      /\ last[i].env.ran[c] = last[i].before.lscc[c].version

(* A valid invocation has, for every namespace it writes, as many          *)
(* different members among its endorsers as the policy asks for that is on *)
(* the ledger where it is applied (VSCCValidateTx, deduplicateIdentity).   *)
PolicyHeldAtCommit ==
  \A i \in DOMAIN last : last[i].valid /\ Invocation(last[i]) =>
    \A c \in DOMAIN last[i].env.ran :
      Cardinality(Endorsers(last[i].env) \cap last[i].before.members)
        >= last[i].before.lscc[c].policy

(* The creator of a valid transaction belongs to the channel as configured *)
(* on the ledger where it is applied, although a configuration is in force *)
(* before its block is committed and a crash comes in between or after it  *)
(* (checkSignatureFromCreator, Apply, getCurrConfigBlockFromLedger).       *)
CreatorIsMember ==
  \A i \in DOMAIN last : last[i].valid /\ last[i].env.req.fn # "config" =>
    last[i].env.req.creator \in last[i].before.members

(* A block with a valid upgrade of a chaincode has no valid invocation of  *)
(* it, before or after the upgrade, and no other valid upgrade             *)
(* (invalidTXsForUpgradeCC).                                               *)
UpgradeExcludesInvocations ==
  \A i, j \in DOMAIN last :
    /\ i # j /\ last[i].valid /\ last[j].valid /\ last[i].env.req.fn = "upgrade"
    => /\ Invocation(last[j]) => last[j].env.req.cc # last[i].env.req.cc
       /\ last[j].env.req.fn = "upgrade" => last[j].env.req.cc # last[i].env.req.cc

(* Where a deploy is applied the chaincode has no entry, and where an      *)
(* upgrade is applied it has one of another version whose instantiation    *)
(* policy the creator satisfies, although both are checked against the     *)
(* ledger before the block (executeDeploy, executeUpgrade,                 *)
(* ValidateLSCCInvocation).                                                *)
LifecycleCurrent ==
  \A i \in DOMAIN last : last[i].valid =>
    LET req == last[i].env.req
        cd  == last[i].before.lscc[req.cc]
    IN  /\ req.fn = "deploy" => cd = Nil
        /\ req.fn = "upgrade" =>
             /\ cd # Nil /\ cd.version # req.data.version
             /\ cd.inst # Nil /\ req.creator \in cd.inst

=============================================================================
