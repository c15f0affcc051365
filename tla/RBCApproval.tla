----------------------------- MODULE RBCApproval -----------------------------
(***************************************************************************)
(* Joint approval, the system chaincode rbcapproval: a customer asks for a *)
(* call of another chaincode, the super users sign in favour or against,   *)
(* and the sign that decides performs the call in the same transaction.    *)
(*                                                                         *)
(* A call is an edit or a registration of a customer, a change of a        *)
(* chaincode's data, or something else, which leaves all of this alone.    *)
(* The last module of this stack: transactions are simulated by a peer and *)
(* committed later, in any order, if what they read is still current.      *)
(***************************************************************************)
EXTENDS LifeCycleSysCC, Integers

CONSTANTS Approvals, Workloads

VARIABLES load, version, tx, sim

ledgerVars == <<state, lists, history, version>>
vars == <<state, lists, fs, history, load, version, tx, sim>>

ApprovalKeys == {"approval"} \X Approvals
Keys == CustomerKeys \cup ChaincodeKeys \cup ApprovalKeys

(* Proposals: a registration, an edit (0 and Nil for "leave it"), a call   *)
(* to approve, a vote.  What a deployment embeds is added when it is asked *)
(* for; an update may come with a payload of the client's own.             *)
Registration == [id : Customers, no : Numbers, type : Types, cert : Certs]
Edit == [id : Customers, type : {0} \cup Types, status : {0} \cup Statuses,
         cert : Certs \cup {Nil}]
ProposedCall == [kind : {"modify"}, edit : Edit]
                  \cup [kind : {"register"}, entity : Registration]
                  \cup [kind : {"deploy"}, cc : Chaincodes, v : Versions, scc : BOOLEAN,
                        payload : {Nil}]
                  \cup [kind : {"update"}, cc : Chaincodes, v : Versions,
                        payload : CCData \cup {Nil}]
                  \cup [kind : {"other"}]
Operation ==
  [fn : {"register"}, by : Certs, entity : Registration]
    \cup [fn : {"modify", "modifyDict"}, by : Certs, edit : Edit]
    \cup [fn : {"newApproval"}, by : Certs,
          approval : [id : Approvals, veto : 1..3, call : ProposedCall]]
    \cup [fn : {"approval"}, by : Certs, id : Approvals, vote : 1..2]
    \cup [fn : {"deploy", "upgrade"}, by : Certs, name : Names, admin : BOOLEAN,
          scc : BOOLEAN]

(* An approval on the ledger, with what its call embeds.                   *)
ApprovalEntity ==
  [veto : 1..3, status : 1..3, signs : Seq([no : Numbers, vote : 1..2]),
   call : ProposedCall \cup [kind : {"deploy"}, cc : Chaincodes, v : Versions, scc : BOOLEAN,
                             payload : CCData]]

ASSUME GovernanceAssumption ==
  /\ Nil \notin Customers \cup CustomerEntity \cup CCData \cup ApprovalEntity
  /\ IsFiniteSet(Customers) /\ PageSize \in Nat

(* The founders are customers that registrations could have left.          *)
ASSUME WorkloadAssumption ==
  \A w \in Workloads :
    /\ \A t \in DOMAIN w.ops : t # Nil /\ w.ops[t] \in Operation
    /\ \A c \in DOMAIN w.founders : c \in Customers /\ w.founders[c] \in CustomerEntity
    /\ \A c, d \in DOMAIN w.founders : w.founders[c].no = w.founders[d].no => c = d

-----------------------------------------------------------------------------
(* How many super users the chaincode counts: -1 if rbccustomer does not   *)
(* answer.                                                                 *)
getSuperCustomerNum == {queryAll, -1}

Tally(signs, vote) == Cardinality({i \in DOMAIN signs : signs[i].vote = vote})

(* The verdict on an approval: 1 pending, 2 passed, 3 rejected.  The types *)
(* are 1: one veto rejects, 2: two thirds, 3: half.                        *)
Verdict(veto, signs, n) ==
  LET in == Tally(signs, 1)
      out == Tally(signs, 2)
  IN  CASE veto = 1 -> IF out > 0 THEN 3 ELSE IF in >= n THEN 2 ELSE 1
        [] veto = 2 -> IF out > (n + 1) \div 3 THEN 3
                       ELSE IF in >= (n + 2) \div 3 THEN 2 ELSE 1
        [] veto = 3 -> IF out > (n + 1) \div 2 THEN 3
                       ELSE IF in >= (n + 1) \div 2 THEN 2 ELSE 1

(* The call of a passed approval, on behalf of whoever signed last.        *)
InvokeChaincode(p, by, call) ==
  CASE call.kind = "modify"   -> modifyInfo(by, "rbcapproval", call.edit)
    [] call.kind = "register" -> register(by, call.entity)
    [] call.kind \in {"deploy", "update"} -> updateToVersion(p, call.cc, call.v, call.payload)
    [] call.kind = "other"    -> Error({})

(* What the approval and the call it may perform leave.  A call that fails *)
(* is logged and the verdict stands.                                       *)
Save(p, by, id, entity, reads, adds, removes) ==
  LET call == IF entity.status = 2 THEN InvokeChaincode(p, by, entity.call) ELSE Error({})
  IN  IF call.end = "panic" THEN Panic
      ELSE RWSet(reads \cup call.reads,
                 Put(call.writes, <<"approval", id>>, entity),
                 adds \cup call.adds, removes \cup call.removes)

(* A deployment or an upgrade embeds the package of the peer it is         *)
(* proposed to; a change back to an earlier version embeds nothing.        *)
Embed(p, call) ==
  IF call.kind = "deploy"
  THEN [call EXCEPT !.payload = getInstallChainCode(p, <<call.cc, call.v>>, call.scc)]
  ELSE call

newApproval(p, by, a, n, page) ==
  LET creater == queryOne(by)
      call    == Embed(p, a.call)
      signs   == IF creater.type = 1 THEN <<[no |-> creater.no, vote |-> 1]>> ELSE << >>
      status  == IF n <= Len(signs) THEN Verdict(a.veto, signs, n) ELSE 1
  IN  IF /\ state[<<"approval", a.id>>] = Nil
         /\ creater # Nil
         /\ creater.status = 1
         /\ a.call.kind = "deploy" => call.payload # Nil
      THEN Save(p, by, a.id, [veto |-> a.veto, call |-> call, status |-> status, signs |-> signs],
                {<<"approval", a.id>>} \cup QueryOneReads(by) \cup QueryAllReads(page),
                {<<<<"approval">>, a.id>>, <<<<"approval", status>>, a.id>>}, {})
      ELSE Error({})

MaySignDecided(entity, signer) ==
  /\ signer.status = 1 /\ signer.type = 1
  /\ \A i \in DOMAIN entity.signs : entity.signs[i].no # signer.no

MaySign(entity, signer) ==
  /\ entity.status = 1 /\ signer.status = 1 /\ signer.type = 1
  /\ \A i \in DOMAIN entity.signs : entity.signs[i].no # signer.no

(* What leaves the list of pending approvals.                              *)
Unlisted(id, status) == IF status = 1 THEN {} ELSE {<<<<"approval", 1>>, id>>}

(* A super user signs a pending approval, once.                            *)
approval(p, by, id, vote, n, page) ==
  LET entity == state[<<"approval", id>>]
      signer == queryOne(by)
      signs  == Append(entity.signs, [no |-> signer.no, vote |-> vote])
      status == Verdict(entity.veto, signs, n)
  IN  IF entity # Nil /\ signer # Nil /\ MaySign(entity, signer)
      THEN Save(p, by, id, [entity EXCEPT !.signs = signs, !.status = status],
                {<<"approval", id>>} \cup QueryOneReads(by) \cup QueryAllReads(page),
                IF status = 1 THEN {} ELSE {<<<<"approval", status>>, id>>},
                Unlisted(id, status))
      ELSE Error({})

-----------------------------------------------------------------------------
(* The read and write set of a proposal on a peer; n is the count of super *)
(* users it works with, from the page it read.                             *)
Simulate(p, op, n, page) ==
  CASE op.fn = "register"    -> register(op.by, op.entity)
    [] op.fn = "modify"      -> modifyInfo(op.by, "rbccustomer", op.edit)
    [] op.fn = "modifyDict"  -> modifyDict(op.by, op.edit)
    [] op.fn = "newApproval" -> newApproval(p, op.by, op.approval, n, page)
    [] op.fn = "approval"    -> approval(p, op.by, op.id, op.vote, n, page)
    [] op.fn = "deploy"      -> executeDeploy(p, op.name, op.admin, op.scc)
    [] op.fn = "upgrade"     -> executeUpgrade(p, op.name, op.admin, op.scc)

Counts(op) == IF op.fn \in {"newApproval", "approval"} THEN getSuperCustomerNum ELSE {0}

Founder(c) == load.founders[c]

Init ==
  /\ load \in Workloads
  /\ LET F == DOMAIN load.founders
     IN  /\ state = [k \in Keys |->
               IF k[1] = "customer" /\ k[2] \in F THEN Founder(k[2])
               ELSE IF k[1] = "id" /\ k[2] \in F THEN k[2]
               ELSE IF k[1] = "no" /\ (\E c \in F : Founder(c).no = k[2])
               THEN CHOOSE c \in F : Founder(c).no = k[2]
               ELSE IF k[1] = "cert" /\ (\E c \in F : Founder(c).cert = k[2])
               THEN CHOOSE c \in F : Founder(c).cert = k[2]
               ELSE Nil]
         /\ lists = {<<<<"all">>, c>> : c \in F}
                      \cup {<<<<"status", Founder(c).status>>, c>> : c \in F}
                      \cup UNION {{<<l, c>> : l \in Entries(Founder(c))} : c \in F}
  /\ history = [c \in Chaincodes |-> << >>]
  /\ fs = [p \in Peers |-> [n \in Names |-> Nil]]
  /\ version = [k \in Keys |-> Nil]
  /\ tx = [t \in DOMAIN load.ops |-> "new"]
  /\ sim = [t \in DOMAIN load.ops |-> Nil]

Install(p, n, pack) ==
  /\ <<p, n, pack>> \in load.installs
  /\ fs[p][n] # pack
  /\ executeInstall(p, n, pack)
  /\ UNCHANGED <<state, lists, history, version, load, tx, sim>>

(* A peer simulates a proposal; what was read is remembered with its       *)
(* versions.                                                               *)
Endorse(t, p) ==
  /\ tx[t] = "new"
  /\ \E n \in Counts(load.ops[t]), page \in QueryAllPages :
       LET rw == Simulate(p, load.ops[t], n, page)
       IN  /\ rw.end = "success"
           /\ sim' = [sim EXCEPT ![t] = [rw |-> rw, n |-> n,
                                         at |-> [k \in rw.reads |-> version[k]]]]
  /\ tx' = [tx EXCEPT ![t] = "endorsed"]
  /\ UNCHANGED <<state, lists, history, version, load, fs>>

(* The transaction is ordered and validated: valid if what it read is      *)
(* still current.                                                          *)
Commit(t) ==
  /\ tx[t] = "endorsed"
  /\ LET rw == sim[t].rw
         W  == DOMAIN rw.writes
     IN  IF \A k \in rw.reads : version[k] = sim[t].at[k]
         THEN /\ tx' = [tx EXCEPT ![t] = "valid"]
              /\ state' = [k \in Keys |-> IF k \in W THEN rw.writes[k] ELSE state[k]]
              /\ version' = [k \in Keys |-> IF k \in W THEN t ELSE version[k]]
              /\ lists' = (lists \ rw.removes) \cup rw.adds
              /\ history' = [c \in Chaincodes |->
                               IF <<"cc", c>> \in W THEN Append(history[c], rw.writes[<<"cc", c>>])
                               ELSE history[c]]
         ELSE tx' = [tx EXCEPT ![t] = "invalid"] /\ UNCHANGED ledgerVars
  /\ sim' = [sim EXCEPT ![t] = Nil]
  /\ UNCHANGED <<load, fs>>

Next ==
  \/ \E t \in DOMAIN load.ops : (\E p \in Peers : Endorse(t, p)) \/ Commit(t)
  \/ \E p \in Peers, n \in Names, pack \in CCPackage : Install(p, n, pack)

Spec == Init /\ [][Next]_vars

-----------------------------------------------------------------------------
Customer(c) == state[<<"customer", c>>]
IsUpdate(call) == call.kind \in {"deploy", "update"}
Entity(a) == state[<<"approval", a>>]
CustomerLists(id) == {m[1] : m \in {l \in lists : l[1][1] # "approval" /\ l[2] = id}}

(* register and modifyInfo keep the lists and indices true to the          *)
(* entities, whatever transactions run side by side.  A customer is in the *)
(* list of all, in the lists of its type and of its type and status, and   *)
(* in a list of a status.  (A change of type and status together leaves    *)
(* the list of the old status, so that it may be of an old status, and     *)
(* there may be more than one.)  Its identifier finds it, two customers    *)
(* never have one number, and a replaced certificate identifies nobody.    *)
CustomersIndexed ==
  /\ \A c \in Customers : state[<<"id", c>>] = IF Customer(c) = Nil THEN Nil ELSE c
  /\ \A c \in Customers :
       IF Customer(c) = Nil THEN CustomerLists(c) = {}
       ELSE \E S \in SUBSET Statuses :
              /\ S # {}
              /\ CustomerLists(c) = {<<"all">>} \cup {<<"status", s>> : s \in S}
                                      \cup Entries(Customer(c))
  /\ \A c, d \in Customers :
       Customer(c) # Nil /\ Customer(d) # Nil /\ Customer(c).no = Customer(d).no => c = d
  /\ \A c \in Certs : state[<<"cert", c>>] # Nil =>
       Customer(state[<<"cert", c>>]) # Nil /\ Customer(state[<<"cert", c>>]).cert = c

(* A verdict is final: an approval that passed or was rejected is never    *)
(* written again, so its call is performed once.                           *)
VerdictFinal ==
  [][\A a \in Approvals :
       Entity(a) # Nil /\ Entity(a).status # 1 =>
         Entity(a)' = Entity(a) /\ version'[<<"approval", a>>] = version[<<"approval", a>>]]_vars

(* The count of super users behind a verdict, as far as it is within the   *)
(* page that queryAll reads, is never higher than the number there is when *)
(* the verdict commits: one of the page that ceases to be a super user     *)
(* meanwhile invalidates the transaction.  (One beyond the page, or one    *)
(* that is registered meanwhile, is not noticed: with PageSize + 1 super   *)
(* users a verdict may rest on one more than there is.)                    *)
CountNotTooHigh ==
  [][\A t \in DOMAIN load.ops :
       tx[t] = "endorsed" /\ tx'[t] = "valid" => Paged(sim[t].n) <= queryAll]_vars

(* What an approval does is what was asked for.  Type, status and          *)
(* certificate of a customer change only in the step in which an approval  *)
(* of an edit of it passes, and to what that edit makes of the customer    *)
(* then, whatever was committed since the proposal was simulated.  What an *)
(* approval deploys is what was embedded when it was asked for, not what   *)
(* the file system holds when it passes, and it is nothing if its escc or  *)
(* vscc is not a system chaincode; a change back finds a version of the    *)
(* history or changes nothing.                                             *)
EffectsAsApproved ==
  [][/\ \A c \in Customers :
          Customer(c) # Nil /\ Customer(c)' # Customer(c) =>
            \E a \in Approvals :
              /\ Entity(a)' # Entity(a) /\ Entity(a)'.status = 2
              /\ Entity(a)'.call.kind = "modify" /\ Entity(a)'.call.edit.id = c
              /\ Customer(c)' = Edited(Customer(c), Entity(a)'.call.edit)
     /\ \A a \in Approvals :
          Entity(a)' # Entity(a) /\ Entity(a)'.status = 2 /\ IsUpdate(Entity(a)'.call) =>
            LET call == Entity(a)'.call
                old  == state[<<"cc", call.cc>>]
                cd   == state'[<<"cc", call.cc>>]
            IN  IF call.payload # Nil THEN cd = IF call.payload.scc THEN call.payload ELSE old
                ELSE \/ cd = old
                     \/ \E i \in DOMAIN history[call.cc] :
                          history[call.cc][i] = cd /\ cd.version = call.v]_vars

=============================================================================
