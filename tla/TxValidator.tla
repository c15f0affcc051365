---------------------------- MODULE TxValidator ----------------------------
(***************************************************************************)
(* Validation of a block before it is committed: the checks on a           *)
(* transaction's form (msgvalidation), the system chaincode vscc with its  *)
(* rules for lscc, the policies per namespace, and the rule for blocks     *)
(* that upgrade a chaincode (txvalidator).                                 *)
(*                                                                         *)
(* Everything here is a function of the ledger as it was before the block: *)
(* ledger.lscc is the chaincode data by chaincode, ledger.ver the version  *)
(* of every key, ledger.txs the transaction ids of all blocks.  A key is a *)
(* pair whose first part is its namespace.  A policy asks for n signatures *)
(* of distinct members.                                                    *)
(***************************************************************************)
EXTENDS Naturals, Sequences, FiniteSets

CONSTANTS Chaincodes, Nil

SysCC == {"lscc", "cscc", "qscc", "escc", "vscc", "rbccustomer", "rbcapproval"}
NotInvokableExternal == {"escc", "vscc"}
NotInvokableCC2CC == {"cscc", "escc", "vscc"}

-----------------------------------------------------------------------------
(* What may be wrong with the form of a proposal or an envelope.           *)
Defects == {"payload", "headerType", "epoch", "nonce", "signature", "type", "txid",
            "visibility", "actions", "actionNonce", "proposalHash"}

(* The codes that flag a transaction.                                      *)
Codes == {"VALID", "BAD_PAYLOAD", "BAD_COMMON_HEADER", "BAD_CREATOR_SIGNATURE",
          "UNSUPPORTED_TX_PAYLOAD", "BAD_PROPOSAL_TXID", "INVALID_ENDORSER_TRANSACTION",
          "DUPLICATE_TXID", "ILLEGAL_WRITESET", "INVALID_OTHER_REASON", "EXPIRED_CHAINCODE",
          "ENDORSEMENT_POLICY_FAILURE", "CHAINCODE_VERSION_CONFLICT"}

validateChannelHeader(msg) == msg.defect \notin {"headerType", "epoch"}

validateSignatureHeader(msg) == msg.defect # "nonce"

validateCommonHeader(msg) == validateChannelHeader(msg) /\ validateSignatureHeader(msg)

(* The creator's certificate is one of the channel as it is configured now *)
(* (a configuration is signed by the orderer), and the signature verifies. *)
checkSignatureFromCreator(msg, members) ==
  /\ msg.req.fn # "config" => msg.req.creator \in members
  /\ msg.defect # "signature"

validateChaincodeProposalMessage(msg) == msg.defect # "visibility"

(* What an endorser checks of a signed proposal before anything else.      *)
ValidateProposalMessage(msg, members) ==
  /\ msg.defect # "payload"
  /\ validateCommonHeader(msg)
  /\ checkSignatureFromCreator(msg, members)
  /\ msg.defect \notin {"txid", "type"}
  /\ validateChaincodeProposalMessage(msg)

(* One action, with a header of its own, and the hash that the endorsers   *)
(* signed is that of the proposal in the envelope.                         *)
validateEndorserTransaction(env) ==
  env.defect \notin {"actions", "actionNonce", "proposalHash"}

(* The form of an envelope, as the code that flags it.                     *)
ValidateTransaction(env, members) ==
  CASE env.defect = "payload" -> "BAD_PAYLOAD"
    [] ~validateCommonHeader(env) -> "BAD_COMMON_HEADER"
    [] ~checkSignatureFromCreator(env, members) -> "BAD_CREATOR_SIGNATURE"
    [] env.defect = "type" -> "UNSUPPORTED_TX_PAYLOAD"
    [] env.defect = "txid" /\ env.req.fn # "config" -> "BAD_PROPOSAL_TXID"
    [] env.req.fn # "config" /\ ~validateEndorserTransaction(env) -> "INVALID_ENDORSER_TRANSACTION"
    [] OTHER -> "VALID"

-----------------------------------------------------------------------------
deduplicateIdentityKeepsAll(endorsements) == DOMAIN endorsements

(* The endorsements that count: the first one of each identity.            *)
deduplicateIdentity(endorsements) ==
  {i \in DOMAIN endorsements : \A j \in 1..(i - 1) : endorsements[j] # endorsements[i]}

(* policy.Evaluate: enough signatures of members of the channel.           *)
Evaluate(policy, env, members) ==
  Cardinality({i \in deduplicateIdentity(env.endorsements) : env.endorsements[i] \in members})
    >= policy

(* The entry of a chaincode before the block, Nil if it has none.          *)
getInstantiatedCC(ledger, cc) == ledger.lscc[cc]

(* The creator satisfies an instantiation policy; Nil is no policy.        *)
checkInstantiationPolicy(creator, inst) == inst # Nil /\ creator \in inst

(* vscc's rules for a call of lscc: only deploy and upgrade, one entry     *)
(* written, of the chaincode and version asked for, nothing but that       *)
(* chaincode's namespace besides, and the instantiation policy: the new    *)
(* one for a deploy, the one on the ledger for an upgrade.                 *)
ValidateLSCCInvocation(ledger, env) ==
  LET cc  == env.req.cc
      cd  == getInstantiatedCC(ledger, cc)
      new == env.rw.data
  IN  /\ env.req.fn \in {"deploy", "upgrade"}
      /\ {k \in env.rw.writes : k[1] = "lscc"} = {<<"lscc", cc>>}
      /\ new.version = env.req.data.version
      /\ \A k \in env.rw.writes : k[1] \in {"lscc", cc}
      /\ IF env.req.fn = "deploy"
         THEN checkInstantiationPolicy(env.req.creator, new.inst) /\ cd = Nil
         ELSE /\ cd # Nil
              /\ checkInstantiationPolicy(env.req.creator, cd.inst)
              /\ cd.version # env.req.data.version

(* A run of vscc; `fails' if the chaincode could not be executed.          *)
VSCCValidateTxForCC(ledger, members, env, policy, fails) ==
  /\ ~fails
  /\ Evaluate(policy, env, members)
  /\ env.name = "lscc" => ValidateLSCCInvocation(ledger, env)

(* Version and policy of a namespace, Nil if lscc has none.  The default   *)
(* policy of lscc and the rbc chaincodes asks for one member.              *)
GetInfoForValidate(ledger, ns) ==
  IF ns \in {"lscc", "rbccustomer", "rbcapproval"} THEN [version |-> "sys", policy |-> 1]
  ELSE IF ns \in SysCC \/ ledger.lscc[ns] = Nil THEN Nil
  ELSE [version |-> ledger.lscc[ns].version, policy |-> ledger.lscc[ns].policy]

Namespaces(rw) == {k[1] : k \in rw.writes}

IllegalWriteset(env) ==
  IF env.name \in SysCC THEN env.name \in NotInvokableExternal
  ELSE Namespaces(env.rw) \cap ({"lscc"} \cup NotInvokableExternal \cup NotInvokableCC2CC) # {}

(* The namespaces whose policy is evaluated: all that an application       *)
(* chaincode writes; a system chaincode's own.                             *)
Checked(env) == IF env.name \in SysCC THEN {env.name} ELSE Namespaces(env.rw)

(* Several checks may fail: which one is reported depends on the order of  *)
(* the namespaces, and only whether the code is VALID matters below.       *)
VSCCValidateTx(ledger, members, env, fails) ==
  LET Info(ns) == GetInfoForValidate(ledger, ns)
  IN  IF IllegalWriteset(env) THEN "ILLEGAL_WRITESET"
      ELSE IF \E ns \in Checked(env) : Info(ns) = Nil THEN "INVALID_OTHER_REASON"
      ELSE IF env.name \in Checked(env) \ SysCC /\ Info(env.name).version # env.ran[env.name]
      THEN "EXPIRED_CHAINCODE"
      ELSE IF \E ns \in Checked(env) :
                ~VSCCValidateTxForCC(ledger, members, env, Info(ns).policy, fails)
      THEN "ENDORSEMENT_POLICY_FAILURE"
      ELSE "VALID"

Duplicate(ledger, env) == env.tx \in ledger.txs

-----------------------------------------------------------------------------
(* The chaincodes a transaction upgrades, as far as the validator sees.    *)
getTxCCInstance(env) == IF env.name = "lscc" /\ env.req.fn = "upgrade" THEN {env.req.cc} ELSE {}

(* Where the block upgrades the chaincode, by a transaction vscc accepts.  *)
Upgrades(block, codes, cc) ==
  {i \in DOMAIN block : codes[i] = "VALID" /\ cc \in getTxCCInstance(block[i])}

UpgradedBefore(block, codes, i) ==
  \E j \in Upgrades(block, codes, block[i].name) : j < i

(* The transaction calls a chaincode that the block upgrades.              *)
CallsUpgraded(block, codes, i) == Upgrades(block, codes, block[i].name) # {}

(* The transaction upgrades a chaincode that the block upgrades again.     *)
Superseded(block, codes, i) ==
  \E j \in Upgrades(block, codes, block[i].req.cc) :
    i < j /\ i \in Upgrades(block, codes, block[i].req.cc)

invalidTXsForUpgradeCC(block, codes) ==
  [i \in DOMAIN block |->
    IF codes[i] = "VALID" /\ (Superseded(block, codes, i) \/ CallsUpgraded(block, codes, i))
    THEN "CHAINCODE_VERSION_CONFLICT" ELSE codes[i]]

(* Validate returns an error, and no flags, for a configuration of the     *)
(* right form that cannot be read or is refused when it is applied.        *)
ConfigError(members, block, failing) ==
  \E i \in failing : block[i].req.fn = "config" /\ ValidateTransaction(block[i], members) = "VALID"

(* The flags of a block; vscc cannot be executed for those in `failing'.   *)
Validate(ledger, members, block, failing) ==
  LET Flag(i) ==
        LET env == block[i]
        IN  IF ValidateTransaction(env, members) # "VALID" THEN ValidateTransaction(env, members)
            ELSE IF env.req.fn = "config" THEN "VALID"
            ELSE IF Duplicate(ledger, env) THEN "DUPLICATE_TXID"
            ELSE VSCCValidateTx(ledger, members, env, i \in failing)
  IN  invalidTXsForUpgradeCC(block, [i \in DOMAIN block |-> Flag(i)])
=============================================================================
