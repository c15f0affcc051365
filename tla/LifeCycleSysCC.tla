--------------------------- MODULE LifeCycleSysCC ---------------------------
(***************************************************************************)
(* The life cycle of user chaincodes: packages on the file system of each  *)
(* peer (ccprovider), the chaincode data on the ledger (lscc) and its      *)
(* history.  A package is its code and the instantiation policy it was     *)
(* signed with, Nil for a raw package.                                     *)
(*                                                                         *)
(* lscc's functions that write are read and write sets, as in RBCCustomer; *)
(* `admin' is whether the signer satisfies the instantiation policy, `scc' *)
(* whether the escc and vscc that were named are system chaincodes.        *)
(***************************************************************************)
EXTENDS RBCCustomer, Sequences

CONSTANTS Peers, Chaincodes, Versions, Codes

VARIABLES fs, history

Names == Chaincodes \X Versions
CCPackage == [code : Codes, policy : {"any", Nil}]
CCData == [version : Versions, code : Codes, policy : {"any", "admins", Nil},
           scc : BOOLEAN]

ChaincodeKeys == {"cc"} \X Chaincodes

-----------------------------------------------------------------------------
(* A package of a name and version that is there already is overwritten.   *)
PutChaincodeToFS(p, n, pack) == fs' = [fs EXCEPT ![p][n] = pack]

GetChaincodeFromFS(p, n) == fs[p][n]

executeInstall(p, n, pack) == PutChaincodeToFS(p, n, pack)

getInstantiationPolicy(pack) == IF pack.policy # Nil THEN pack.policy ELSE "admins"

checkInstantiationPolicy(policy, admin) == policy = "admins" => admin

getCCInstance(cc) == state[<<"cc", cc>>]

(* The writes of putChaincodeData: none, and an error, if escc or vscc is  *)
(* not a system chaincode.                                                 *)
putChaincodeData(cc, cd) == IF cd.scc THEN Put(NoWrites, <<"cc", cc>>, cd) ELSE NoWrites

(* ChaincodeData: Data and Buf both come from one package, so that one     *)
(* code stands for the two.                                                *)
Data(version, pack, policy, scc) ==
  [version |-> version, code |-> pack.code, policy |-> policy, scc |-> scc]

(* The data a deploy or an upgrade writes, having read the entry.          *)
CreateChaincode(n, pack, scc) ==
  RWSet({<<"cc", n[1]>>},
        putChaincodeData(n[1], Data(n[2], pack, getInstantiationPolicy(pack), scc)), {}, {})

executeDeploy(p, n, admin, scc) ==
  LET pack == GetChaincodeFromFS(p, n)
  IN  IF /\ getCCInstance(n[1]) = Nil
         /\ pack # Nil
         /\ checkInstantiationPolicy(getInstantiationPolicy(pack), admin)
         /\ scc
      THEN CreateChaincode(n, pack, scc)
      ELSE Error({<<"cc", n[1]>>})

executeUpgrade(p, n, admin, scc) ==
  LET cd   == getCCInstance(n[1])
      pack == GetChaincodeFromFS(p, n)
  IN  IF /\ cd # Nil
         /\ cd.version # n[2]
         /\ cd.policy # Nil
         /\ checkInstantiationPolicy(cd.policy, admin)
         /\ pack # Nil
         /\ checkInstantiationPolicy(getInstantiationPolicy(pack), admin)
         /\ scc
      THEN CreateChaincode(n, pack, scc)
      ELSE Error({<<"cc", n[1]>>})

(* What an approval to deploy or upgrade embeds: the package, without the  *)
(* default policy.                                                         *)
getInstallChainCode(p, n, scc) ==
  IF fs[p][n] = Nil THEN Nil ELSE Data(n[2], fs[p][n], fs[p][n].policy, scc)

(* updateToVersion, from the approval chaincode: with a payload the data   *)
(* it holds, whatever is on the ledger; without, the oldest entry of the   *)
(* history with the version.  An error of putChaincodeData is not looked   *)
(* at: the call succeeds and writes nothing.                               *)
Oldest(cc, v) ==
  LET at == {i \in 1..Len(history[cc]) : history[cc][i].version = v}
  IN  IF at = {} THEN Nil
      ELSE history[cc][CHOOSE i \in at : \A j \in at : i <= j]

updateToVersionReinstalls(p, cc, v, payload) ==
  IF fs[p][<<cc, v>>] # Nil
  THEN RWSet({}, putChaincodeData(cc, getInstallChainCode(p, <<cc, v>>, TRUE)), {}, {})
  ELSE Error({<<"cc", cc>>})

updateToVersion(p, cc, v, payload) ==
  IF payload # Nil THEN RWSet({}, putChaincodeData(cc, payload), {}, {})
  ELSE IF /\ state[<<"cc", cc>>] # Nil
          /\ state[<<"cc", cc>>].version # v
          /\ Oldest(cc, v) # Nil
  THEN RWSet({<<"cc", cc>>}, putChaincodeData(cc, Oldest(cc, v)), {}, {})
  ELSE Error({<<"cc", cc>>})
=============================================================================
