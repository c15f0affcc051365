-------------------------- MODULE RBCApprovalProofs --------------------------
(***************************************************************************)
(* Proofs about RBCApproval, for any customers, approvals, chaincodes and  *)
(* peers and any number of transactions.                                   *)
(*                                                                         *)
(* A transaction works on what its simulation read.  The argument: as long *)
(* as what it read is current (Fresh), its read and write set relates to   *)
(* the committed state as it did when it was simulated (Effect), because a *)
(* commit that touches what the relation depends on also writes a key that *)
(* was read.  So a valid transaction changes the state as if it ran there. *)
(***************************************************************************)
EXTENDS RBCApproval, TLAPS

\* A leaf is proved by Zenon, unless it names another prover.
USE Zenon

-----------------------------------------------------------------------------
(* The invariant. *)

\* The call of an approval on the ledger.
IsCall(call) ==
  /\ call.kind \in {"modify", "register", "deploy", "update", "other"}
  /\ call.kind = "modify" => call.edit \in Edit
  /\ call.kind = "register" => call.entity \in Registration
  /\ IsUpdate(call) => call.cc \in Chaincodes /\ call.payload \in CCData \cup {Nil}

IsApproval(entity) ==
  /\ entity \in ApprovalEntity
  /\ entity = [veto |-> entity.veto, call |-> entity.call, status |-> entity.status,
               signs |-> entity.signs]
  /\ entity.veto \in 1..3 /\ entity.status \in 1..3
  /\ entity.signs \in Seq([no : Numbers, vote : 1..2])
  /\ IsCall(entity.call)

\* A value of the key k.
IsValue(k, v) ==
  /\ k[1] = "customer" => v \in CustomerEntity
  /\ k[1] \in {"id", "no", "cert"} => v \in Customers \cup {Nil}
  /\ k[1] = "approval" => IsApproval(v)
  /\ k[1] = "cc" => v \in CCData

\* A history of a chaincode: of the entries with a version, one is the oldest.
IsFirst(h, v, i) ==
  i \in 1..Len(h) /\ h[i].version = v /\ \A j \in 1..Len(h) : h[j].version = v => i <= j

Histories == {h \in Seq(CCData) : \A i \in 1..Len(h) : \E f \in 1..Len(h) : IsFirst(h, h[i].version, f)}

StateOK ==
  /\ state = [k \in Keys |-> state[k]]
  /\ \A k \in Keys : state[k] = Nil \/ IsValue(k, state[k])
  /\ \A m \in lists : m = <<m[1], m[2]>>
  /\ history \in [Chaincodes -> Histories]
  /\ fs \in [Peers -> [Names -> CCPackage \cup {Nil}]]

\* A version is of a transaction that was valid.
IsVersion(v) == v = Nil \/ (v \in DOMAIN load.ops /\ tx[v] = "valid")

VersionsOK ==
  /\ load \in Workloads
  /\ tx \in [DOMAIN load.ops -> {"new", "endorsed", "valid", "invalid"}]
  /\ sim = [t \in DOMAIN load.ops |-> sim[t]]
  /\ version = [k \in Keys |-> version[k]]
  /\ \A k \in Keys : IsVersion(version[k])
  /\ \A t \in DOMAIN load.ops : tx[t] = "endorsed" =>
       /\ sim[t].rw.reads \subseteq Keys
       /\ \A k \in sim[t].rw.reads : IsVersion(sim[t].at[k])

\* What a transaction read is current.
Fresh(t) == \A k \in sim[t].rw.reads : version[k] = sim[t].at[k]

\* A read and write set leaves the customers alone.
Untouched(rw) ==
  /\ \A k \in DOMAIN rw.writes : k[1] \in {"approval", "cc"}
  /\ \A m \in rw.adds \cup rw.removes : m[1][1] = "approval"

\* It registers a customer that is not there yet.
Registered(e) == [no |-> e.no, type |-> e.type, status |-> 1, cert |-> e.cert]

RegisteredKeys(e) == {<<"customer", e.id>>, <<"id", e.id>>, <<"no", e.no>>, <<"cert", e.cert>>}
RegisteredLists(e) == {<<l, e.id>> : l \in {<<"all">>, <<"status", 1>>} \cup Entries(Registered(e))}

Registers(rw, e) ==
  /\ \A k \in DOMAIN rw.writes : k[1] \in {"approval", "cc"} \/ k \in RegisteredKeys(e)
  /\ RegisteredKeys(e) \subseteq DOMAIN rw.writes
  /\ rw.writes[<<"customer", e.id>>] = Registered(e)
  /\ rw.writes[<<"id", e.id>>] = e.id
  /\ rw.writes[<<"no", e.no>>] = e.id
  /\ rw.writes[<<"cert", e.cert>>] = e.id
  /\ \A k \in {<<"customer", e.id>>, <<"no", e.no>>} : k \in rw.reads /\ state[k] = Nil
  /\ \A m \in rw.adds : m[1][1] = "approval" \/ m \in RegisteredLists(e)
  /\ RegisteredLists(e) \subseteq rw.adds
  /\ \A m \in rw.removes : m[1][1] = "approval"

\* It passes the approval of the edit of a customer.
Passes(rw, e) ==
  \E a \in Approvals :
    /\ <<"approval", a>> \in DOMAIN rw.writes
    /\ rw.writes[<<"approval", a>>].status = 2
    /\ rw.writes[<<"approval", a>>].call.kind = "modify"
    /\ rw.writes[<<"approval", a>>].call.edit = e

\* It edits a customer from what the customer is.
EditsKeys(rw, e, old) ==
  /\ \A k \in DOMAIN rw.writes :
       \/ k[1] \in {"approval", "cc"}
       \/ k = <<"customer", e.id>>
       \/ e.cert # Nil /\ k \in {<<"cert", e.cert>>, <<"cert", old.cert>>}
  /\ <<"customer", e.id>> \in rw.reads \cap DOMAIN rw.writes
  /\ rw.writes[<<"customer", e.id>>] = Edited(old, e)
  /\ e.cert # Nil =>
       /\ {<<"cert", e.cert>>, <<"cert", old.cert>>} \subseteq DOMAIN rw.writes
       /\ rw.writes[<<"cert", e.cert>>] = e.id
       /\ old.cert # e.cert => rw.writes[<<"cert", old.cert>>] = Nil

EditsLists(rw, e, old) ==
  /\ \A m \in rw.adds : m[1][1] = "approval" \/ m \in {<<l, e.id>> : l \in Moves(old, Edited(old, e)).in}
  /\ \A m \in rw.removes : m[1][1] = "approval" \/ m \in {<<l, e.id>> : l \in Moves(old, Edited(old, e)).out}
  /\ \A l \in Moves(old, Edited(old, e)).in : <<l, e.id>> \in rw.adds
  /\ \A l \in Moves(old, Edited(old, e)).out : <<l, e.id>> \in rw.removes

Edits(rw, e) ==
  LET old == state[<<"customer", e.id>>]
  IN  /\ old # Nil
      /\ EditsKeys(rw, e, old) /\ EditsLists(rw, e, old)
      /\ Edited(old, e) # old => Passes(rw, e)

\* It changes a chaincode as the call says: to the data of the payload, if that is not
\* refused, or to an entry of the history.
Updates(rw, call) ==
  LET key == <<"cc", call.cc>>
  IN  /\ call.payload # Nil /\ call.payload.scc =>
           key \in DOMAIN rw.writes /\ rw.writes[key] = call.payload
      /\ call.payload # Nil /\ ~call.payload.scc => key \notin DOMAIN rw.writes
      /\ call.payload = Nil /\ key \in DOMAIN rw.writes =>
           \E i \in DOMAIN history[call.cc] :
             history[call.cc][i] = rw.writes[key] /\ rw.writes[key].version = call.v

\* What it does to approvals, and what those that pass do to chaincodes.
Decides(rw) ==
  \A a \in Approvals : <<"approval", a>> \in DOMAIN rw.writes =>
    LET old  == state[<<"approval", a>>]
        new  == rw.writes[<<"approval", a>>]
    IN  /\ <<"approval", a>> \in rw.reads
        /\ old = Nil \/ old.status = 1
        /\ new.status = 2 /\ IsUpdate(new.call) => Updates(rw, new.call)

Typed(rw) ==
  /\ DOMAIN rw.writes \subseteq Keys
  /\ \A k \in DOMAIN rw.writes : IsValue(k, rw.writes[k])
  /\ \A m \in rw.adds : m = <<m[1], m[2]>>

Effect(rw) ==
  /\ Typed(rw)
  /\ Untouched(rw) \/ (\E e \in Registration : Registers(rw, e)) \/ (\E e \in Edit : Edits(rw, e))
  /\ Decides(rw)

\* The super users that were counted and are still there.
Counted(rw) ==
  {c \in Customers : <<"customer", c>> \in rw.reads /\ <<<<"type_status", 1, 1>>, c>> \in lists}

\* A number of some of them, as far as it is within the page, or none.
Number(n, T) == n \in {-1, 0} \/ \E S \in SUBSET T : Paged(n) = Cardinality(S)

CountOK(s) == Number(s.n, Counted(s.rw))

EndorsedOK ==
  \A t \in DOMAIN load.ops : tx[t] = "endorsed" /\ Fresh(t) =>
    \A s \in {sim[t]} : Effect(s.rw) /\ CountOK(s)

\* The index of identifiers, and that of numbers.
IdsIndexed ==
  \A c \in Customers : state[<<"id", c>>] = IF Customer(c) = Nil THEN Nil ELSE c

NumbersIndexed ==
  \A c \in Customers : Customer(c) # Nil => state[<<"no", Customer(c).no>>] = c

GovernanceInv == StateOK /\ VersionsOK /\ EndorsedOK /\ CustomersIndexed /\ NumbersIndexed

-----------------------------------------------------------------------------
(* Read and write sets. *)

\* A set of writes starts empty.
LEMMA NoWritesFacts == DOMAIN NoWrites = {}
BY DEF NoWrites

\* The parts of a read and write set.
LEMMA RWFacts ==
  ASSUME NEW r, NEW w, NEW a, NEW d
  PROVE  /\ RWSet(r, w, a, d).end = "success" /\ RWSet(r, w, a, d).reads = r
         /\ RWSet(r, w, a, d).writes = w /\ RWSet(r, w, a, d).adds = a
         /\ RWSet(r, w, a, d).removes = d
         /\ Error(r).end = "error" /\ Error(r).reads = r /\ Error(r).writes = NoWrites
         /\ Error(r).adds = {} /\ Error(r).removes = {}
         /\ Panic.end = "panic"
BY DEF RWSet, Error, Panic

\* The kinds of keys.
LEMMA KeyFacts ==
  /\ \A c \in Customers : <<"customer", c>> \in Keys /\ <<"id", c>> \in Keys
  /\ \A c \in Numbers : <<"no", c>> \in Keys
  /\ \A c \in Certs : <<"cert", c>> \in Keys
  /\ \A c \in Approvals : <<"approval", c>> \in Keys
  /\ \A c \in Chaincodes : <<"cc", c>> \in Keys
BY DEF Keys, CustomerKeys, ChaincodeKeys, ApprovalKeys

\* The customer behind a certificate, and what is read to find it.
LEMMA QueryOneFacts ==
  ASSUME StateOK, NEW cert \in Certs
  PROVE  /\ QueryOneReads(cert) \subseteq Keys
         /\ queryOne(cert) \in CustomerEntity \cup {Nil}
<1>1. state[<<"cert", cert>>] \in Customers \cup {Nil}
  BY KeyFacts DEF StateOK, IsValue
<1>2. \A c \in Customers : state[<<"customer", c>>] \in CustomerEntity \cup {Nil}
  BY KeyFacts DEF StateOK, IsValue
<1> QED
  BY <1>1, <1>2, KeyFacts DEF QueryOneReads, queryOne

\* A registration that succeeds.
LEMMA RegisterSets ==
  ASSUME StateOK, NEW by \in Certs, NEW e \in Registration, register(by, e).end = "success"
  PROVE  LET rw == register(by, e)
         IN  /\ rw.reads \subseteq Keys /\ Registers(rw, e) /\ Typed(rw)
             /\ DOMAIN rw.writes \subseteq CustomerKeys
<1> DEFINE rw == register(by, e)
           new == Registered(e)
           K == <<"customer", e.id>>
           N == <<"no", e.no>>
           C == <<"cert", e.cert>>
           I == <<"id", e.id>>
           rd == FreeKeys(e) \cup (IF Size(<<"all">>) > 0 THEN QueryOneReads(by) ELSE {})
           ws == Put(Put(Put(Put(NoWrites, I, e.id), N, e.id), C, e.id), K, new)
           ad == {<<l, e.id>> : l \in {<<"all">>, <<"status", 1>>} \cup Entries(new)}
<1>1. /\ e.id \in Customers /\ e.no \in Numbers /\ e.cert \in Certs /\ e.type \in Types
      /\ new \in CustomerEntity
  BY SMT DEF Registration, Registered, CustomerEntity, Types, Statuses
<1>2. rw = RWSet(rd, ws, ad, {}) /\ \A k \in FreeKeys(e) : state[k] = Nil
  BY RWFacts DEF register, Registered
<1>3. /\ K # N /\ K # C /\ N # C /\ I # K /\ I # N /\ I # C
      /\ K \in Keys /\ N \in Keys /\ C \in Keys /\ I \in Keys
      /\ K \in CustomerKeys /\ N \in CustomerKeys /\ C \in CustomerKeys /\ I \in CustomerKeys
  BY <1>1, KeyFacts DEF CustomerKeys
<1>4. /\ DOMAIN ws = {K, I, N, C}
      /\ ws[K] = new /\ ws[I] = e.id /\ ws[N] = e.id /\ ws[C] = e.id
  <2> DEFINE w0 == Put(NoWrites, I, e.id)
             w1 == Put(w0, N, e.id)
             w2 == Put(w1, C, e.id)
  <2>1. DOMAIN w0 = {I} /\ w0[I] = e.id
    BY NoWritesFacts DEF Put
  <2> HIDE DEF w0, N, C, K, I
  <2>2. DOMAIN w1 = {I, N} /\ w1[I] = e.id /\ w1[N] = e.id
    BY <1>3, <2>1 DEF Put
  <2> HIDE DEF w1
  <2>3. DOMAIN w2 = {I, N, C} /\ w2[I] = e.id /\ w2[N] = e.id /\ w2[C] = e.id
    BY <1>3, <2>2 DEF Put
  <2> HIDE DEF w2
  <2>4. DOMAIN Put(w2, K, new) = {K, I, N, C} /\ Put(w2, K, new)[K] = new
        /\ Put(w2, K, new)[I] = e.id
        /\ Put(w2, K, new)[N] = e.id /\ Put(w2, K, new)[C] = e.id
    BY <1>3, <2>3 DEF Put
  <2> QED
    BY <2>4 DEF w0, w1, w2
<1> HIDE DEF ws
<1>5. rw.reads = rd /\ rw.writes = ws /\ rw.adds = ad /\ rw.removes = {}
  BY <1>2, RWFacts, SMT
<1>6. K \in rd /\ N \in rd /\ state[K] = Nil /\ state[N] = Nil
  BY <1>2 DEF FreeKeys
<1>7. rd \subseteq Keys
  BY <1>3, QueryOneFacts DEF FreeKeys
<1> HIDE DEF rw, rd
<1>8. Registers(rw, e)
  <2>1. RegisteredKeys(e) = {K, I, N, C} /\ RegisteredLists(e) = ad
    BY DEF RegisteredKeys, RegisteredLists
  <2> QED
    BY <1>4, <1>5, <1>6, <2>1 DEF Registers
<1>9. Typed(rw)
  <2>1. \A k \in DOMAIN rw.writes : k \in Keys /\ IsValue(k, rw.writes[k])
    BY <1>1, <1>3, <1>4, <1>5, SMT DEF IsValue
  <2>2. \A m \in rw.adds : m = <<m[1], m[2]>>
    BY <1>5, SMT
  <2> QED
    BY <2>1, <2>2 DEF Typed
<1>10. DOMAIN rw.writes \subseteq CustomerKeys
  BY <1>3, <1>4, <1>5
<1> QED
  BY <1>5, <1>7, <1>8, <1>9, <1>10 DEF rw

\* A registration asked for directly.
LEMMA RegisterEffect ==
  ASSUME StateOK, NEW by \in Certs, NEW e \in Registration, register(by, e).end = "success"
  PROVE  register(by, e).reads \subseteq Keys /\ Effect(register(by, e))
<1>1. PICK rw : rw = register(by, e)
  OBVIOUS
<1>2. /\ rw.reads \subseteq Keys /\ Registers(rw, e) /\ Typed(rw)
      /\ DOMAIN rw.writes \subseteq CustomerKeys
  BY <1>1, RegisterSets
<1>3. Decides(rw)
  BY <1>2 DEF Decides, CustomerKeys
<1> QED
  BY <1>1, <1>2, <1>3 DEF Effect

\* An edit that does not ask for anything changes nothing.
LEMMA EditedFacts ==
  ASSUME NEW old \in CustomerEntity, NEW e \in Edit
  PROVE  /\ Edited(old, e) \in CustomerEntity
         /\ Edited(old, e).no = old.no
         /\ e.cert = Nil => Edited(old, e).cert = old.cert
         /\ e.cert # Nil => Edited(old, e).cert = e.cert
         /\ e.type = 0 /\ e.status = 0 /\ e.cert = Nil => Edited(old, e) = old
<1>1. e.type \in {0} \cup Types /\ e.status \in {0} \cup Statuses /\ e.cert \in Certs \cup {Nil}
  BY DEF Edit
<1>2. Edited(old, e) \in CustomerEntity
  BY <1>1 DEF CustomerEntity, Edited
<1>3. /\ Edited(old, e).no = old.no
      /\ e.cert = Nil => Edited(old, e).cert = old.cert
      /\ e.cert # Nil => Edited(old, e).cert = e.cert
  BY DEF Edited
<1>4. e.type = 0 /\ e.status = 0 /\ e.cert = Nil => Edited(old, e) = old
  BY DEF CustomerEntity, Edited
<1> QED
  BY <1>2, <1>3, <1>4

\* An edit that succeeds; directly, it changes no attribute.
LEMMA ModifySets ==
  ASSUME StateOK, NEW by \in Certs, NEW via, NEW e \in Edit,
         modifyInfo(by, via, e).end = "success"
  PROVE  LET rw  == modifyInfo(by, via, e)
             old == state[<<"customer", e.id>>]
         IN  /\ old # Nil /\ old \in CustomerEntity
             /\ rw.reads \subseteq Keys
             /\ EditsKeys(rw, e, old) /\ EditsLists(rw, e, old)
             /\ DOMAIN rw.writes \subseteq CustomerKeys
             /\ \A k \in DOMAIN rw.writes : IsValue(k, rw.writes[k])
             /\ \A m \in rw.adds : m = <<m[1], m[2]>>
             /\ via # "rbcapproval" => Edited(old, e) = old
<1> DEFINE rw == modifyInfo(by, via, e)
           K == <<"customer", e.id>>
           old == state[K]
           new == Edited(old, e)
           rd == QueryOneReads(by) \cup {K}
           iw == IndexWrites(old, e)
           ws == Put(iw, K, new)
           ad == {<<l, e.id>> : l \in Moves(old, new).in}
           rm == {<<l, e.id>> : l \in Moves(old, new).out}
<1>1. e.id \in Customers /\ e.cert \in Certs \cup {Nil} /\ K \in Keys
  BY KeyFacts DEF Edit
<1>2. old # Nil /\ MayModify(queryOne(by), via, e) /\ rw = RWSet(rd, ws, ad, rm)
  <2>1. getTxCustomerEntity(by) # Nil
    BY RWFacts DEF modifyInfo
  <2>2. old # Nil
    BY <2>1, RWFacts DEF modifyInfo
  <2>3. modifyInfo(by, via, e) =
          IF MayModify(queryOne(by), via, e) THEN RWSet(rd, ws, ad, rm) ELSE Error(rd)
    BY <2>1, <2>2 DEF modifyInfo, getTxCustomerEntity
  <2>4. MayModify(queryOne(by), via, e)
    BY <2>3, RWFacts
  <2> QED
    BY <2>2, <2>3, <2>4
<1>3. old \in CustomerEntity
  BY <1>1, <1>2 DEF StateOK, IsValue
<1>4. new \in CustomerEntity /\ old.cert \in Certs
  BY <1>3, EditedFacts DEF CustomerEntity
<1>5. rw.reads = rd /\ rw.writes = ws /\ rw.adds = ad /\ rw.removes = rm
  BY <1>2, RWFacts, SMT
<1>6. rd \subseteq Keys
  BY <1>1, QueryOneFacts
<1> HIDE DEF old, new
<1>7. /\ e.cert = Nil => DOMAIN iw = {}
      /\ e.cert # Nil => /\ DOMAIN iw = {<<"cert", e.cert>>, <<"cert", old.cert>>}
                         /\ iw[<<"cert", e.cert>>] = e.id
                         /\ old.cert # e.cert => iw[<<"cert", old.cert>>] = Nil
  <2>1. CASE e.cert = Nil
    BY <2>1, NoWritesFacts DEF IndexWrites
  <2>2. CASE e.cert # Nil
    <3> DEFINE w1 == Put(NoWrites, <<"cert", old.cert>>, Nil)
    <3>1. DOMAIN w1 = {<<"cert", old.cert>>} /\ w1[<<"cert", old.cert>>] = Nil
      BY NoWritesFacts DEF Put
    <3>2. iw = Put(w1, <<"cert", e.cert>>, e.id)
      BY <2>2 DEF IndexWrites
    <3> HIDE DEF w1, iw
    <3>3. old.cert # e.cert => <<"cert", old.cert>> # <<"cert", e.cert>>
      OBVIOUS
    <3> QED
      BY <2>2, <3>1, <3>2, <3>3 DEF Put
  <2> QED
    BY <2>1, <2>2
<1> HIDE DEF iw
<1>8. /\ DOMAIN ws = DOMAIN iw \cup {K} /\ ws[K] = new
      /\ \A k \in DOMAIN iw : k # K => ws[k] = iw[k]
  BY DEF Put
<1> HIDE DEF ws
<1>9. EditsKeys(rw, e, old)
  <2>1. <<"cert", e.cert>> # K /\ <<"cert", old.cert>> # K
    OBVIOUS
  <2> HIDE DEF rw
  <2> QED
    BY <1>5, <1>7, <1>8, <2>1 DEF EditsKeys, new
<1>10. EditsLists(rw, e, old)
  <2> HIDE DEF rw
  <2> QED
    BY <1>5 DEF EditsLists, new
<1>11. \A k \in DOMAIN ws : k \in CustomerKeys /\ IsValue(k, ws[k])
  <2>1. IsValue(K, new) /\ K \in CustomerKeys
    BY <1>1, <1>4 DEF IsValue, CustomerKeys
  <2>2. ASSUME e.cert # Nil, NEW k \in {<<"cert", e.cert>>, <<"cert", old.cert>>}
        PROVE  k \in CustomerKeys /\ IsValue(k, ws[k])
    <3>1. k[1] = "cert" /\ k # K /\ k \in CustomerKeys
      BY <1>1, <1>4, <2>2, SMT DEF CustomerKeys
    <3>2. ws[k] \in Customers \cup {Nil}
      BY <1>1, <1>7, <1>8, <2>2, <3>1
    <3> QED
      BY <3>1, <3>2 DEF IsValue
  <2> QED
    BY <1>7, <1>8, <2>1, <2>2
<1>12. \A m \in ad : m = <<m[1], m[2]>>
  BY SMT
<1>13. via # "rbcapproval" => new = old
  <2>1. via # "rbcapproval" => e.type = 0 /\ e.status = 0 /\ e.cert = Nil
    BY <1>2 DEF MayModify
  <2> QED
    BY <1>3, <2>1, EditedFacts DEF new
<1> HIDE DEF rw, ad
<1> QED
  BY <1>2, <1>3, <1>5, <1>6, <1>9, <1>10, <1>11, <1>12, <1>13 DEF rw, new, old

\* A call that ends with an error writes nothing.
LEMMA ErrorFacts ==
  ASSUME NEW r
  PROVE  /\ Error(r).end = "error" /\ Error(r).reads = r /\ DOMAIN Error(r).writes = {}
         /\ Error(r).adds = {} /\ Error(r).removes = {}
BY NoWritesFacts DEF Error

\* A history stays one when an entry is appended.
LEMMA HistoryAppend ==
  ASSUME NEW h \in Histories, NEW d \in CCData
  PROVE  /\ Append(h, d) \in Histories
         /\ \A i \in DOMAIN h : i \in DOMAIN Append(h, d) /\ Append(h, d)[i] = h[i]
<1> DEFINE g == Append(h, d)
<1>1. h \in Seq(CCData) /\ Len(h) \in Nat
  BY SMT DEF Histories
<1>2. /\ g \in Seq(CCData) /\ Len(g) = Len(h) + 1 /\ g[Len(h) + 1] = d
      /\ DOMAIN h = 1..Len(h) /\ DOMAIN g = 1..Len(g)
      /\ \A i \in 1..Len(h) : g[i] = h[i]
  BY <1>1, SMT
<1> HIDE DEF g
<1>3. ASSUME NEW i \in 1..Len(g) PROVE \E f \in 1..Len(g) : IsFirst(g, g[i].version, f)
  <2>1. CASE \E k \in 1..Len(h) : h[k].version = g[i].version
    <3>1. PICK k \in 1..Len(h) : h[k].version = g[i].version
      BY <2>1
    <3>2. PICK f \in 1..Len(h) : IsFirst(h, g[i].version, f)
      BY <3>1 DEF Histories
    <3>3. IsFirst(g, g[i].version, f)
      BY <1>1, <1>2, <3>2, SMT DEF IsFirst
    <3> QED
      BY <1>1, <1>2, <3>3, SMT
  <2>2. CASE ~\E k \in 1..Len(h) : h[k].version = g[i].version
    <3>1. IsFirst(g, g[i].version, i)
      BY <1>1, <1>2, <2>2, SMT DEF IsFirst
    <3> QED
      BY <3>1
  <2> QED
    BY <2>1, <2>2
<1>4. g \in Histories
  BY <1>2, <1>3 DEF Histories
<1> QED
  BY <1>1, <1>2, <1>4, SMT DEF g

\* The oldest entry of the history with a version is one of its entries.
LEMMA OldestFacts ==
  ASSUME StateOK, NEW cc \in Chaincodes, NEW v, Oldest(cc, v) # Nil
  PROVE  /\ Oldest(cc, v) \in CCData
         /\ \E i \in DOMAIN history[cc] : history[cc][i] = Oldest(cc, v) /\ Oldest(cc, v).version = v
<1> DEFINE at == {i \in 1..Len(history[cc]) : history[cc][i].version = v}
           first == CHOOSE i \in at : \A j \in at : i <= j
<1>1. history[cc] \in Histories /\ history[cc] \in Seq(CCData)
  BY DEF StateOK, Histories
<1>2. at # {} /\ Oldest(cc, v) = history[cc][first]
  BY DEF Oldest
<1>3. \E i \in at : \A j \in at : i <= j
  <2>1. PICK k \in 1..Len(history[cc]) : history[cc][k].version = v
    BY <1>2
  <2>2. PICK f : IsFirst(history[cc], v, f)
    BY <1>1, <2>1 DEF Histories
  <2> QED
    BY <2>2 DEF IsFirst
<1>4. first \in at
  <2> HIDE DEF at
  <2> QED
    BY <1>3
<1> HIDE DEF first
<1>5. first \in DOMAIN history[cc] /\ history[cc][first].version = v
  BY <1>1, <1>4, SMT
<1>6. history[cc][first] \in CCData
  BY <1>1, <1>4, SMT
<1> QED
  BY <1>2, <1>5, <1>6

\* What putChaincodeData writes.
LEMMA PutDataFacts ==
  ASSUME NEW cc, NEW cd
  PROVE  /\ cd.scc => /\ DOMAIN putChaincodeData(cc, cd) = {<<"cc", cc>>}
                      /\ putChaincodeData(cc, cd)[<<"cc", cc>>] = cd
         /\ ~cd.scc => DOMAIN putChaincodeData(cc, cd) = {}
BY NoWritesFacts DEF putChaincodeData, Put

\* What a call does to a chaincode that an approval performs.
UpdateOnly(call, c) ==
  /\ DOMAIN call.writes \subseteq {<<"cc", c.cc>>}
  /\ \A k \in DOMAIN call.writes : call.writes[k] \in CCData
  /\ call.adds = {} /\ call.removes = {}
  /\ Updates(call, c)

LEMMA UpdateFacts ==
  ASSUME StateOK, NEW p \in Peers, NEW c, IsCall(c), IsUpdate(c)
  PROVE  LET call == updateToVersion(p, c.cc, c.v, c.payload)
         IN  call.reads \subseteq Keys /\ UpdateOnly(call, c)
<1> DEFINE key == <<"cc", c.cc>>
<1>1. PICK call : call = updateToVersion(p, c.cc, c.v, c.payload)
  OBVIOUS
<1>2. c.cc \in Chaincodes /\ key \in Keys /\ c.payload \in CCData \cup {Nil}
  BY KeyFacts DEF IsCall
<1>3. CASE c.payload # Nil
  <2>1. PICK d : d = c.payload
    OBVIOUS
  <2>2. PICK w : w = putChaincodeData(c.cc, d)
    OBVIOUS
  <2>3. call = RWSet({}, w, {}, {})
    BY <1>1, <1>3, <2>1, <2>2 DEF updateToVersion
  <2>4. call.reads = {} /\ call.writes = w /\ call.adds = {} /\ call.removes = {}
    BY <2>3, RWFacts, SMT
  <2>5. /\ d.scc => DOMAIN w = {key} /\ w[key] = d
        /\ ~d.scc => DOMAIN w = {}
    BY <2>2, PutDataFacts
  <2>6. d \in CCData
    BY <1>2, <1>3, <2>1
  <2>7. Updates(call, c)
    BY <1>3, <2>1, <2>4, <2>5 DEF Updates
  <2> QED
    BY <1>1, <2>4, <2>5, <2>6, <2>7 DEF UpdateOnly
<1>4. CASE c.payload = Nil
  <2>1. CASE call = Error({key})
    <3>1. call.reads = {key} /\ DOMAIN call.writes = {} /\ call.adds = {} /\ call.removes = {}
      BY <2>1, ErrorFacts
    <3>2. Updates(call, c)
      BY <1>4, <3>1 DEF Updates
    <3> QED
      BY <1>1, <1>2, <3>1, <3>2 DEF UpdateOnly
  <2>2. CASE Oldest(c.cc, c.v) # Nil /\ call = RWSet({key}, putChaincodeData(c.cc, Oldest(c.cc, c.v)), {}, {})
    <3>1. PICK o : o = Oldest(c.cc, c.v)
      OBVIOUS
    <3>2. o \in CCData /\ \E i \in DOMAIN history[c.cc] : history[c.cc][i] = o /\ o.version = c.v
      BY <1>2, <2>2, <3>1, OldestFacts
    <3>3. PICK w : w = putChaincodeData(c.cc, o)
      OBVIOUS
    <3>4. /\ o.scc => DOMAIN w = {key} /\ w[key] = o
          /\ ~o.scc => DOMAIN w = {}
      BY <3>3, PutDataFacts
    <3>5. call.reads = {key} /\ call.writes = w /\ call.adds = {} /\ call.removes = {}
      BY <2>2, <3>1, <3>3, RWFacts, SMT
    <3>6. Updates(call, c)
      BY <1>4, <3>2, <3>4, <3>5 DEF Updates
    <3> QED
      BY <1>1, <1>2, <3>2, <3>4, <3>5, <3>6 DEF UpdateOnly
  <2> QED
    BY <1>1, <1>4, <2>1, <2>2 DEF updateToVersion
<1> QED
  BY <1>3, <1>4

\* A registration that does not succeed is an error that read nothing.
LEMMA RegisterFails ==
  ASSUME NEW by, NEW e, register(by, e).end # "success"
  PROVE  register(by, e) = Error({})
<1> DEFINE ok == /\ Size(<<"all">>) > 0 => RegistrantAllowed(getTxCustomerEntity(by), e)
                 /\ \A k \in FreeKeys(e) : state[k] = Nil
<1>1. CASE ok
  <2>1. PICK r, w, a : register(by, e) = RWSet(r, w, a, {})
    BY <1>1 DEF register
  <2> QED
    BY <2>1, RWFacts, SMT
<1>2. CASE ~ok
  BY <1>2 DEF register
<1> QED
  BY <1>1, <1>2

\* What a call does that an approval performs.
LEMMA InvokeFacts ==
  ASSUME StateOK, NEW p \in Peers, NEW by \in Certs, NEW c, IsCall(c),
         InvokeChaincode(p, by, c).end # "panic"
  PROVE  LET call == InvokeChaincode(p, by, c)
         IN  /\ call.reads \subseteq Keys
             /\ \/ /\ ~IsUpdate(c)
                   /\ DOMAIN call.writes = {} /\ call.adds = {} /\ call.removes = {}
                \/ /\ c.kind = "modify" /\ call = modifyInfo(by, "rbcapproval", c.edit)
                   /\ call.end = "success"
                \/ /\ c.kind = "register" /\ call = register(by, c.entity)
                   /\ call.end = "success"
                \/ IsUpdate(c) /\ UpdateOnly(call, c)
<1> DEFINE call == InvokeChaincode(p, by, c)
<1>1. CASE c.kind = "modify"
  <2>1. call = modifyInfo(by, "rbcapproval", c.edit) /\ c.edit \in Edit /\ ~IsUpdate(c)
    BY <1>1 DEF InvokeChaincode, IsCall, IsUpdate
  <2>2. CASE call.end = "success"
    BY <1>1, <2>1, <2>2, ModifySets
  <2>3. CASE call.end # "success"
    <3> DEFINE rd == QueryOneReads(by) \cup {<<"customer", c.edit.id>>}
    <3>1. call = Error(rd)
      <4> DEFINE e == c.edit
                 old == state[<<"customer", e.id>>]
                 new == Edited(old, e)
                 mm == RWSet(rd, Put(IndexWrites(old, e), <<"customer", e.id>>, new),
                             {<<l, e.id>> : l \in Moves(old, new).in},
                             {<<l, e.id>> : l \in Moves(old, new).out})
      <4>1. modifyInfo(by, "rbcapproval", e) \in {Error(rd), Panic, mm}
        BY DEF modifyInfo, getTxCustomerEntity
      <4>2. mm.end = "success" /\ Panic.end = "panic"
        BY RWFacts, SMT
      <4> HIDE DEF mm, e, rd
      <4> QED
        BY <2>1, <2>3, <4>1, <4>2 DEF e
    <3>2. rd \subseteq Keys
      BY <2>1, QueryOneFacts, KeyFacts DEF Edit
    <3> HIDE DEF rd
    <3>3. call.reads = rd /\ DOMAIN call.writes = {} /\ call.adds = {} /\ call.removes = {}
      BY <3>1, ErrorFacts
    <3> HIDE DEF call
    <3> QED
      BY <2>1, <3>2, <3>3 DEF call
  <2> QED
    BY <2>2, <2>3
<1>2. CASE c.kind = "register"
  <2>1. call = register(by, c.entity) /\ c.entity \in Registration /\ ~IsUpdate(c)
    BY <1>2 DEF InvokeChaincode, IsCall, IsUpdate
  <2>2. CASE call.end = "success"
    BY <1>2, <2>1, <2>2, RegisterSets
  <2>3. CASE call.end # "success"
    <3>1. call = Error({})
      BY <2>1, <2>3, RegisterFails
    <3>2. call.reads = {} /\ DOMAIN call.writes = {} /\ call.adds = {} /\ call.removes = {}
      BY <3>1, ErrorFacts
    <3> HIDE DEF call
    <3> QED
      BY <2>1, <3>2 DEF call
  <2> QED
    BY <2>2, <2>3
<1>3. CASE IsUpdate(c)
  <2>1. call = updateToVersion(p, c.cc, c.v, c.payload)
    BY <1>3 DEF InvokeChaincode, IsUpdate
  <2> QED
    BY <1>3, <2>1, UpdateFacts
<1>4. CASE c.kind = "other"
  <2>1. call = Error({}) /\ ~IsUpdate(c)
    BY <1>4 DEF InvokeChaincode, IsUpdate
  <2>2. call.reads = {} /\ DOMAIN call.writes = {} /\ call.adds = {} /\ call.removes = {}
    BY <2>1, ErrorFacts
  <2> HIDE DEF call
  <2> QED
    BY <2>1, <2>2 DEF call
<1> QED
  BY <1>1, <1>2, <1>3, <1>4 DEF IsCall, IsUpdate

\* An approval that is saved, with the call it performs if it has passed.
LEMMA SaveEffect ==
  ASSUME StateOK, NEW p \in Peers, NEW by \in Certs, NEW id \in Approvals,
         NEW entity, IsApproval(entity),
         NEW rd \in SUBSET Keys, <<"approval", id>> \in rd,
         state[<<"approval", id>>] = Nil \/ state[<<"approval", id>>].status = 1,
         NEW ad, NEW rm, \A m \in ad \cup rm : m[1][1] = "approval" /\ m = <<m[1], m[2]>>,
         Save(p, by, id, entity, rd, ad, rm).end = "success"
  PROVE  LET rw == Save(p, by, id, entity, rd, ad, rm)
         IN  rd \subseteq rw.reads /\ rw.reads \subseteq Keys /\ Effect(rw)
<1> DEFINE rw == Save(p, by, id, entity, rd, ad, rm)
           call == IF entity.status = 2 THEN InvokeChaincode(p, by, entity.call) ELSE Error({})
           c == entity.call
           A == <<"approval", id>>
           key == <<"cc", c.cc>>
           ws == Put(call.writes, A, entity)
<1>1. call.end # "panic" /\ rw = RWSet(rd \cup call.reads, ws, ad \cup call.adds, rm \cup call.removes)
  BY RWFacts DEF Save
<1>2. IsCall(c) /\ A \in Keys
  BY KeyFacts DEF IsApproval
<1>3. entity.status # 2 => call.reads = {} /\ DOMAIN call.writes = {} /\ call.adds = {} /\ call.removes = {}
  <2>1. entity.status # 2 => call = Error({})
    OBVIOUS
  <2> HIDE DEF call
  <2> QED
    BY <2>1, ErrorFacts
<1>4. entity.status = 2 => call = InvokeChaincode(p, by, c)
  OBVIOUS
<1> HIDE DEF call
<1>5. /\ rw.reads = rd \cup call.reads /\ rw.writes = ws
      /\ rw.adds = ad \cup call.adds /\ rw.removes = rm \cup call.removes
  BY <1>1, RWFacts, SMT
<1>6. /\ DOMAIN ws = DOMAIN call.writes \cup {A} /\ ws[A] = entity
      /\ \A k \in DOMAIN call.writes : k # A => ws[k] = call.writes[k]
  BY DEF Put
<1> HIDE DEF ws, rw
<1>7. IsValue(A, entity)
  BY DEF IsValue
<1>8. \A a \in Approvals : <<"approval", a>> = A => a = id
  OBVIOUS
<1>9. A \in rw.reads /\ rd \subseteq rw.reads
  BY <1>5
<1>10. CASE DOMAIN call.writes = {} /\ call.adds = {} /\ call.removes = {} /\ call.reads \subseteq Keys
             /\ (entity.status = 2 => ~IsUpdate(c))
  <2>1. Typed(rw)
    BY <1>2, <1>5, <1>6, <1>7, <1>10 DEF Typed
  <2>2. Untouched(rw)
    BY <1>5, <1>6, <1>10, SMT DEF Untouched
  <2>3. Decides(rw)
    BY <1>5, <1>6, <1>8, <1>9, <1>10 DEF Decides
  <2> QED
    BY <1>5, <1>9, <1>10, <2>1, <2>2, <2>3 DEF Effect, rw
<1>11. CASE /\ entity.status = 2 /\ c.kind = "modify" /\ call = modifyInfo(by, "rbcapproval", c.edit)
            /\ call.end = "success"
  <2> DEFINE e == c.edit
             old == state[<<"customer", e.id>>]
  <2>1. e \in Edit
    BY <1>2, <1>11 DEF IsCall
  <2>2. /\ old # Nil /\ old \in CustomerEntity
        /\ call.reads \subseteq Keys
        /\ EditsKeys(call, e, old) /\ EditsLists(call, e, old)
        /\ DOMAIN call.writes \subseteq CustomerKeys
        /\ \A k \in DOMAIN call.writes : IsValue(k, call.writes[k])
        /\ \A m \in call.adds : m = <<m[1], m[2]>>
    BY <1>11, <2>1, ModifySets
  <2>3. CustomerKeys \subseteq Keys /\ A \notin CustomerKeys /\ key \notin CustomerKeys /\ key # A
        /\ \A k \in CustomerKeys : k[1] # "approval"
    BY DEF Keys, CustomerKeys
  <2> HIDE DEF key, e, old
  <2>4. Typed(rw)
    <3>1. \A k \in DOMAIN rw.writes : k \in Keys /\ IsValue(k, rw.writes[k])
      BY <1>2, <1>5, <1>6, <1>7, <2>2, <2>3, SMT
    <3>2. \A m \in rw.adds : m = <<m[1], m[2]>>
      BY <1>5, <2>2
    <3> QED
      BY <3>1, <3>2 DEF Typed
  <2>5. Passes(rw, e)
    BY <1>5, <1>6, <1>11 DEF Passes, e
  <2>6. EditsKeys(rw, e, old)
    <3>1. \A k \in DOMAIN call.writes : k \in DOMAIN rw.writes /\ rw.writes[k] = call.writes[k]
      BY <1>5, <1>6, <2>2, <2>3
    <3>2. \A k \in DOMAIN rw.writes : k \in DOMAIN call.writes \/ k[1] = "approval"
      BY <1>5, <1>6, SMT
    <3>3. call.reads \subseteq rw.reads
      BY <1>5
    <3> QED
      BY <2>2, <3>1, <3>2, <3>3 DEF EditsKeys
  <2>7. EditsLists(rw, e, old)
    BY <1>5, <2>2 DEF EditsLists
  <2>8. Edits(rw, e)
    BY <2>2, <2>5, <2>6, <2>7, ZenonT(40) DEF Edits, old
  <2>9. Decides(rw)
    <3>1. rw.writes[A] = entity /\ entity.call.kind = "modify"
      BY <1>5, <1>6, <1>11
    <3>2. ASSUME NEW a \in Approvals, <<"approval", a>> \in DOMAIN rw.writes PROVE a = id
      <4>1. <<"approval", a>> \notin CustomerKeys
        BY DEF CustomerKeys
      <4>2. <<"approval", a>> = A
        BY <1>5, <1>6, <2>2, <3>2, <4>1
      <4> QED
        BY <1>8, <4>2
    <3>3. ASSUME NEW a \in Approvals, a = id
          PROVE  /\ <<"approval", a>> \in rw.reads
                 /\ state[<<"approval", a>>] = Nil \/ state[<<"approval", a>>].status = 1
                 /\ ~IsUpdate(rw.writes[<<"approval", a>>].call)
      BY <1>9, <3>1, <3>3 DEF IsUpdate
    <3> QED
      BY <3>2, <3>3 DEF Decides
  <2> QED
    BY <1>5, <1>9, <2>1, <2>2, <2>4, <2>8, <2>9 DEF Effect, rw
<1>12. CASE /\ entity.status = 2 /\ c.kind = "register" /\ call = register(by, c.entity)
            /\ call.end = "success"
  <2>1. PICK e : e = c.entity
    OBVIOUS
  <2>2. e \in Registration
    BY <1>2, <1>12, <2>1 DEF IsCall
  <2>3. /\ call.reads \subseteq Keys /\ Registers(call, e) /\ Typed(call)
        /\ DOMAIN call.writes \subseteq CustomerKeys
    BY <1>12, <2>1, <2>2, RegisterSets
  <2>4. CustomerKeys \subseteq Keys /\ A \notin CustomerKeys
    BY DEF Keys, CustomerKeys
  <2>5. /\ \A k \in DOMAIN call.writes : k \in DOMAIN rw.writes /\ rw.writes[k] = call.writes[k]
        /\ \A k \in DOMAIN rw.writes : k \in DOMAIN call.writes \/ k = A
        /\ rw.writes[A] = entity
    BY <1>5, <1>6, <2>3, <2>4
  <2>6. A[1] = "approval"
    OBVIOUS
  <2> HIDE DEF A
  <2>7. Typed(rw)
    <3>1. \A k \in DOMAIN rw.writes : k \in Keys /\ IsValue(k, rw.writes[k])
      BY <1>2, <1>7, <2>3, <2>5 DEF Typed
    <3>2. \A m \in rw.adds : m = <<m[1], m[2]>>
      BY <1>5, <2>3 DEF Typed
    <3> QED
      BY <3>1, <3>2 DEF Typed
  <2>8. Registers(rw, e)
    <3>1. call.reads \subseteq rw.reads /\ call.adds \subseteq rw.adds
      BY <1>5
    <3>2. \A k \in DOMAIN rw.writes : k[1] \in {"approval", "cc"} \/ k \in RegisteredKeys(e)
      BY <2>3, <2>5, <2>6 DEF Registers
    <3>3. /\ RegisteredKeys(e) \subseteq DOMAIN rw.writes
          /\ \A k \in RegisteredKeys(e) : rw.writes[k] = call.writes[k]
      BY <2>3, <2>5 DEF Registers
    <3>4. \A k \in {<<"customer", e.id>>, <<"id", e.id>>, <<"no", e.no>>, <<"cert", e.cert>>} :
            rw.writes[k] = call.writes[k]
      BY <3>3 DEF RegisteredKeys
    <3>5. /\ rw.writes[<<"customer", e.id>>] = Registered(e) /\ rw.writes[<<"id", e.id>>] = e.id
          /\ rw.writes[<<"no", e.no>>] = e.id /\ rw.writes[<<"cert", e.cert>>] = e.id
      BY <2>3, <3>4 DEF Registers
    <3>6. \A k \in {<<"customer", e.id>>, <<"no", e.no>>} : k \in rw.reads /\ state[k] = Nil
      BY <2>3, <3>1 DEF Registers
    <3>7. /\ \A m \in rw.adds : m[1][1] = "approval" \/ m \in RegisteredLists(e)
          /\ RegisteredLists(e) \subseteq rw.adds
          /\ \A m \in rw.removes : m[1][1] = "approval"
      BY <1>5, <2>3, <3>1 DEF Registers
    <3> QED
      BY <3>2, <3>3, <3>5, <3>6, <3>7 DEF Registers
  <2>9. ASSUME NEW a \in Approvals, <<"approval", a>> \in DOMAIN rw.writes PROVE a = id
    <3>1. <<"approval", a>> \notin CustomerKeys
      BY DEF CustomerKeys
    <3>2. <<"approval", a>> = A
      BY <2>3, <2>5, <2>9, <3>1
    <3> QED
      BY <1>8, <3>2
  <2>10. ASSUME NEW a \in Approvals, a = id
         PROVE  /\ <<"approval", a>> \in rw.reads
                /\ state[<<"approval", a>>] = Nil \/ state[<<"approval", a>>].status = 1
                /\ ~IsUpdate(rw.writes[<<"approval", a>>].call)
    BY <1>9, <1>12, <2>5, <2>10 DEF IsUpdate, A
  <2>11. Decides(rw)
    BY <2>9, <2>10 DEF Decides
  <2>12. rw.reads \subseteq Keys
    BY <1>5, <2>3
  <2> QED
    BY <1>9, <2>2, <2>7, <2>8, <2>11, <2>12 DEF Effect, rw
<1>13. CASE entity.status = 2 /\ IsUpdate(c) /\ call.reads \subseteq Keys /\ UpdateOnly(call, c)
  <2>1. key \in Keys /\ key # A /\ key[1] = "cc"
    BY <1>2, <1>13, KeyFacts DEF IsCall
  <2>2. /\ DOMAIN call.writes \subseteq {key} /\ \A k \in DOMAIN call.writes : call.writes[k] \in CCData
        /\ call.adds = {} /\ call.removes = {} /\ Updates(call, c)
    BY <1>13 DEF UpdateOnly
  <2>3. /\ A \in DOMAIN rw.writes /\ DOMAIN rw.writes \subseteq {key, A} /\ rw.writes[A] = entity
        /\ key \in DOMAIN rw.writes <=> key \in DOMAIN call.writes
        /\ key \in DOMAIN call.writes => rw.writes[key] = call.writes[key]
    BY <1>5, <1>6, <2>1, <2>2
  <2>4. Typed(rw)
    <3>1. ASSUME key \in DOMAIN rw.writes PROVE IsValue(key, rw.writes[key])
      BY <2>1, <2>2, <2>3, <3>1 DEF IsValue
    <3>2. \A m \in rw.adds : m = <<m[1], m[2]>>
      BY <1>5, <2>2
    <3> HIDE DEF key, A
    <3> QED
      BY <1>2, <1>7, <2>1, <2>3, <3>1, <3>2 DEF Typed
  <2>5. Untouched(rw)
    <3>1. A[1] = "approval"
      OBVIOUS
    <3>2. \A m \in rw.adds \cup rw.removes : m[1][1] = "approval"
      BY <1>5, <2>2
    <3> HIDE DEF key, A
    <3> QED
      BY <2>1, <2>3, <3>1, <3>2 DEF Untouched
  <2>6. Updates(rw, c)
    BY <2>2, <2>3 DEF Updates
  <2>7. Decides(rw)
    <3> SUFFICES ASSUME NEW a \in Approvals, <<"approval", a>> \in DOMAIN rw.writes
                 PROVE  /\ <<"approval", a>> \in rw.reads
                        /\ \/ state[<<"approval", a>>] = Nil
                           \/ state[<<"approval", a>>].status = 1
                        /\ rw.writes[<<"approval", a>>] = entity
      BY <2>6 DEF Decides
    <3>1. <<"approval", a>> # key
      OBVIOUS
    <3>2. a = id
      BY <1>8, <2>3, <3>1
    <3> QED
      BY <1>9, <2>3, <3>2, ZenonT(40)
  <2> QED
    BY <1>5, <1>9, <1>13, <2>4, <2>5, <2>7 DEF Effect, rw
<1>14. CASE entity.status # 2
  BY <1>3, <1>10, <1>14
<1>15. CASE entity.status = 2
  <2>1. call = InvokeChaincode(p, by, c) /\ InvokeChaincode(p, by, c).end # "panic"
    BY <1>1, <1>4, <1>15
  <2>2. /\ call.reads \subseteq Keys
        /\ \/ /\ ~IsUpdate(c)
              /\ DOMAIN call.writes = {} /\ call.adds = {} /\ call.removes = {}
           \/ /\ c.kind = "modify" /\ call = modifyInfo(by, "rbcapproval", c.edit)
              /\ call.end = "success"
           \/ /\ c.kind = "register" /\ call = register(by, c.entity)
              /\ call.end = "success"
           \/ IsUpdate(c) /\ UpdateOnly(call, c)
    <3> HIDE DEF c
    <3> QED
      BY <1>2, <2>1, InvokeFacts
  <2> HIDE DEF c, key
  <2> QED
    BY <1>10, <1>11, <1>12, <1>13, <1>15, <2>2
<1> QED
  BY <1>14, <1>15

\* modify and modifyDict called directly leave the attributes of the customer as they are.
LEMMA DirectEffect ==
  ASSUME StateOK, NEW by \in Certs, NEW e \in Edit,
         modifyInfo(by, "rbccustomer", e).end = "success"
  PROVE  LET rw == modifyInfo(by, "rbccustomer", e) IN rw.reads \subseteq Keys /\ Effect(rw)
<1> DEFINE rw == modifyInfo(by, "rbccustomer", e)
           old == state[<<"customer", e.id>>]
<1>1. /\ old # Nil /\ rw.reads \subseteq Keys
      /\ EditsKeys(rw, e, old) /\ EditsLists(rw, e, old)
      /\ DOMAIN rw.writes \subseteq CustomerKeys
      /\ \A k \in DOMAIN rw.writes : IsValue(k, rw.writes[k])
      /\ \A m \in rw.adds : m = <<m[1], m[2]>>
      /\ Edited(old, e) = old
  BY ModifySets, SMT
<1> HIDE DEF rw
<1>2. Typed(rw)
  BY <1>1 DEF Typed, Keys
<1>3. Edits(rw, e)
  BY <1>1 DEF Edits
<1>4. Decides(rw)
  BY <1>1 DEF Decides, CustomerKeys
<1> QED
  BY <1>1, <1>2, <1>3, <1>4 DEF Effect, rw

\* The data of a package that is installed.
LEMMA DataFacts ==
  ASSUME StateOK, NEW p \in Peers, NEW n \in Names, NEW scc \in BOOLEAN, fs[p][n] # Nil
  PROVE  /\ Data(n[2], fs[p][n], getInstantiationPolicy(fs[p][n]), scc) \in CCData
         /\ Data(n[2], fs[p][n], fs[p][n].policy, scc) \in CCData
<1>1. fs[p][n] \in CCPackage /\ n[2] \in Versions
  BY SMT DEF StateOK, Names
<1> QED
  BY <1>1 DEF Data, CCData, CCPackage, getInstantiationPolicy

\* A deployment or an upgrade by lscc changes the data of one chaincode.
LEMMA LifeCycleEffect ==
  ASSUME StateOK, NEW p \in Peers, NEW n \in Names, NEW admin, NEW scc \in BOOLEAN, NEW rw,
         rw \in {executeDeploy(p, n, admin, scc), executeUpgrade(p, n, admin, scc)},
         rw.end = "success"
  PROVE  rw.reads \subseteq Keys /\ Effect(rw)
<1> DEFINE cd == Data(n[2], fs[p][n], getInstantiationPolicy(fs[p][n]), scc)
           key == <<"cc", n[1]>>
           ws == putChaincodeData(n[1], cd)
<1>1. rw = RWSet({key}, ws, {}, {}) /\ fs[p][n] # Nil /\ scc
  BY ErrorFacts DEF executeDeploy, executeUpgrade, GetChaincodeFromFS, CreateChaincode
<1>2. cd \in CCData /\ cd.scc
  BY <1>1, DataFacts DEF Data
<1>3. key \in Keys /\ IsValue(key, cd)
  BY <1>2, KeyFacts DEF Names, IsValue
<1> HIDE DEF cd
<1>4. DOMAIN ws = {key} /\ ws[key] = cd
  BY <1>2, PutDataFacts
<1> HIDE DEF ws
<1>5. rw.reads = {key} /\ rw.writes = ws /\ rw.adds = {} /\ rw.removes = {}
  BY <1>1, RWFacts, SMT
<1>6. Typed(rw)
  BY <1>3, <1>4, <1>5 DEF Typed
<1>7. Untouched(rw)
  BY <1>4, <1>5, SMT DEF Untouched
<1>8. Decides(rw)
  BY <1>4, <1>5, SMT DEF Decides
<1> QED
  BY <1>3, <1>5, <1>6, <1>7, <1>8 DEF Effect

\* queryAll reads customers.
LEMMA QueryAllFacts == \A page \in QueryAllPages : QueryAllReads(page) \subseteq Keys
BY KeyFacts DEF QueryAllReads, QueryAllPages

\* A verdict is one of the three.
LEMMA VerdictFacts ==
  ASSUME NEW veto \in 1..3, NEW signs, NEW n
  PROVE  Verdict(veto, signs, n) \in 1..3
<1>1. veto = 1 \/ veto = 2 \/ veto = 3
  BY SMT
<1> QED
  BY <1>1, SMT DEF Verdict

\* An approval that is asked for.
LEMMA NewApprovalEffect ==
  ASSUME StateOK, NEW p \in Peers, NEW by \in Certs, NEW n, NEW page \in QueryAllPages,
         NEW a \in [id : Approvals, veto : 1..3, call : ProposedCall],
         newApproval(p, by, a, n, page).end = "success"
  PROVE  LET rw == newApproval(p, by, a, n, page)
         IN  QueryAllReads(page) \subseteq rw.reads /\ rw.reads \subseteq Keys /\ Effect(rw)
<1> DEFINE creater == queryOne(by)
           call    == Embed(p, a.call)
           signs   == IF creater.type = 1 THEN <<[no |-> creater.no, vote |-> 1]>> ELSE << >>
           status  == IF n <= Len(signs) THEN Verdict(a.veto, signs, n) ELSE 1
           entity  == [veto |-> a.veto, call |-> call, status |-> status, signs |-> signs]
           rd      == {<<"approval", a.id>>} \cup QueryOneReads(by) \cup QueryAllReads(page)
           ad      == {<<<<"approval">>, a.id>>, <<<<"approval", status>>, a.id>>}
<1>1. a.id \in Approvals /\ a.veto \in 1..3 /\ a.call \in ProposedCall
  OBVIOUS
<1>2. /\ state[<<"approval", a.id>>] = Nil /\ creater # Nil
      /\ a.call.kind = "deploy" => call.payload # Nil
      /\ newApproval(p, by, a, n, page) = Save(p, by, a.id, entity, rd, ad, {})
  BY ErrorFacts DEF newApproval
<1>3. /\ IsCall(call)
      /\ call \in ProposedCall \cup [kind : {"deploy"}, cc : Chaincodes, v : Versions, scc : BOOLEAN,
                                     payload : CCData]
  <2>1. CASE a.call.kind = "deploy"
    <3>1. a.call \in [kind : {"deploy"}, cc : Chaincodes, v : Versions, scc : BOOLEAN, payload : {Nil}]
      BY <1>1, <2>1 DEF ProposedCall
    <3> DEFINE nm == <<a.call.cc, a.call.v>>
    <3>2. nm \in Names
      BY <3>1 DEF Names
    <3>3. call = [a.call EXCEPT !.payload = getInstallChainCode(p, nm, a.call.scc)]
      BY <2>1 DEF Embed
    <3>4. call.kind = "deploy" /\ call.cc = a.call.cc /\ call.payload = getInstallChainCode(p, nm, a.call.scc)
      BY <2>1, <3>1, <3>3
    <3>5. getInstallChainCode(p, nm, a.call.scc) # Nil
      BY <1>2, <2>1, <3>4
    <3>6. getInstallChainCode(p, nm, a.call.scc) \in CCData
      BY <3>1, <3>2, <3>5, DataFacts DEF getInstallChainCode
    <3>7. call \in [kind : {"deploy"}, cc : Chaincodes, v : Versions, scc : BOOLEAN, payload : CCData]
      BY <2>1, <3>1, <3>3, <3>6
    <3> HIDE DEF call
    <3> QED
      BY <3>1, <3>4, <3>6, <3>7 DEF IsCall, IsUpdate
  <2>2. CASE a.call.kind # "deploy"
    <3>1. call = a.call
      BY <2>2 DEF Embed
    <3>2. \/ a.call.kind = "modify" /\ a.call.edit \in Edit
          \/ a.call.kind = "register" /\ a.call.entity \in Registration
          \/ a.call.kind = "update" /\ a.call.cc \in Chaincodes /\ a.call.payload \in CCData \cup {Nil}
          \/ a.call.kind = "other"
      BY <1>1, <2>2 DEF ProposedCall
    <3> HIDE DEF call
    <3> QED
      BY <1>1, <3>1, <3>2 DEF IsCall, IsUpdate
  <2> QED
    BY <2>1, <2>2
<1>4. signs \in Seq([no : Numbers, vote : 1..2])
  <2>1. creater \in CustomerEntity
    BY <1>2, QueryOneFacts
  <2>2. creater.no \in Numbers
    BY <2>1 DEF CustomerEntity
  <2> HIDE DEF creater
  <2>3. [no |-> creater.no, vote |-> 1] \in [no : Numbers, vote : 1..2]
    BY <2>2, SMT
  <2>4. CASE creater.type = 1
    BY <2>3, <2>4, SMT
  <2>5. CASE creater.type # 1
    BY <2>5, SMT
  <2> QED
    BY <2>4, <2>5
<1>5. status \in 1..3
  BY <1>1, VerdictFacts, SMT
<1> HIDE DEF signs, status, call, creater
<1>6. IsApproval(entity)
  BY <1>1, <1>3, <1>4, <1>5 DEF IsApproval, ApprovalEntity
<1>7. rd \subseteq Keys /\ <<"approval", a.id>> \in rd /\ QueryAllReads(page) \subseteq rd
  BY <1>1, KeyFacts, QueryOneFacts, QueryAllFacts
<1>8. \A m \in ad \cup {} : m[1][1] = "approval" /\ m = <<m[1], m[2]>>
  BY SMT
<1> HIDE DEF entity, rd, ad
<1> QED
  BY <1>1, <1>2, <1>6, <1>7, <1>8, SaveEffect, SMT

\* An approval that is signed.
LEMMA ApprovalEffect ==
  ASSUME StateOK, NEW p \in Peers, NEW by \in Certs, NEW n, NEW page \in QueryAllPages,
         NEW id \in Approvals, NEW vote \in 1..2,
         approval(p, by, id, vote, n, page).end = "success"
  PROVE  LET rw == approval(p, by, id, vote, n, page)
         IN  QueryAllReads(page) \subseteq rw.reads /\ rw.reads \subseteq Keys /\ Effect(rw)
<1> DEFINE old    == state[<<"approval", id>>]
           signer == queryOne(by)
           signs  == Append(old.signs, [no |-> signer.no, vote |-> vote])
           status == Verdict(old.veto, signs, n)
           entity == [old EXCEPT !.signs = signs, !.status = status]
           rd     == {<<"approval", id>>} \cup QueryOneReads(by) \cup QueryAllReads(page)
           ad     == IF status = 1 THEN {} ELSE {<<<<"approval", status>>, id>>}
           rm     == Unlisted(id, status)
<1>1. /\ old # Nil /\ signer # Nil /\ old.status = 1
      /\ approval(p, by, id, vote, n, page) = Save(p, by, id, entity, rd, ad, rm)
  BY ErrorFacts DEF approval, MaySign
<1>2. IsApproval(old)
  BY <1>1, KeyFacts DEF StateOK, IsValue
<1>3. signs \in Seq([no : Numbers, vote : 1..2])
  <2>1. signer \in CustomerEntity
    BY <1>1, QueryOneFacts
  <2>2. signer.no \in Numbers
    BY <2>1 DEF CustomerEntity
  <2> HIDE DEF signer
  <2>3. [no |-> signer.no, vote |-> vote] \in [no : Numbers, vote : 1..2]
    BY <2>2
  <2>4. old.signs \in Seq([no : Numbers, vote : 1..2])
    BY <1>2 DEF IsApproval
  <2> QED
    BY <2>3, <2>4, SMT
<1>4. status \in 1..3
  BY <1>2, VerdictFacts DEF IsApproval
<1> HIDE DEF signs, status, signer
<1>5. /\ entity = [veto |-> old.veto, call |-> old.call, status |-> status, signs |-> signs]
      /\ old.veto \in 1..3 /\ IsCall(old.call) /\ old \in ApprovalEntity
  <2>1. old = [veto |-> old.veto, call |-> old.call, status |-> old.status, signs |-> old.signs]
        /\ old.veto \in 1..3 /\ IsCall(old.call) /\ old \in ApprovalEntity
    BY <1>2 DEF IsApproval
  <2> DEFINE v == old.veto
             c == old.call
             s == old.status
             g == old.signs
  <2>2. old = [veto |-> v, call |-> c, status |-> s, signs |-> g]
    BY <2>1
  <2> HIDE DEF old, v, c, s, g
  <2>3. entity = [[veto |-> v, call |-> c, status |-> s, signs |-> g]
                    EXCEPT !.signs = signs, !.status = status]
    BY <2>2
  <2>4. entity = [veto |-> v, call |-> c, status |-> status, signs |-> signs]
    <3> HIDE DEF entity
    <3>1. entity = [[[veto |-> v, call |-> c, status |-> s, signs |-> g] EXCEPT !.signs = signs]
                      EXCEPT !.status = status]
      BY <2>3
    <3>2. [[veto |-> v, call |-> c, status |-> s, signs |-> g] EXCEPT !.signs = signs]
            = [veto |-> v, call |-> c, status |-> s, signs |-> signs]
      BY SMT
    <3>3. [[veto |-> v, call |-> c, status |-> s, signs |-> signs] EXCEPT !.status = status]
            = [veto |-> v, call |-> c, status |-> status, signs |-> signs]
      BY SMT
    <3> QED
      BY <3>1, <3>2, <3>3
  <2> QED
    BY <2>1, <2>4 DEF v, c
<1> HIDE DEF entity
<1>6. IsApproval(entity)
  <2>1. entity \in ApprovalEntity
    BY <1>3, <1>4, <1>5 DEF ApprovalEntity
  <2> QED
    BY <1>3, <1>4, <1>5, <2>1 DEF IsApproval
<1>7. rd \in SUBSET Keys /\ <<"approval", id>> \in rd /\ QueryAllReads(page) \subseteq rd
  BY KeyFacts, QueryOneFacts, QueryAllFacts
<1>8. \A m \in ad \cup rm : m[1][1] = "approval" /\ m = <<m[1], m[2]>>
  BY SMT DEF Unlisted
<1> HIDE DEF rd, ad, rm
<1> QED
  BY <1>1, <1>6, <1>7, <1>8, SaveEffect, SMT

\* The count of super users, as far as it is within the page, is the number of those read.
LEMMA CountFacts ==
  ASSUME NEW rw, NEW n \in getSuperCustomerNum, NEW page \in QueryAllPages,
         QueryAllReads(page) \subseteq rw.reads
  PROVE  Number(n, Counted(rw))
<1>1. page \subseteq Counted(rw)
  BY DEF Counted, QueryAllReads, QueryAllPages
<1>2. Cardinality(page) = Paged(queryAll)
  BY DEF QueryAllPages
<1>3. n = queryAll \/ n = -1
  BY DEF getSuperCustomerNum
<1> QED
  BY <1>1, <1>2, <1>3 DEF Number

\* Whatever is proposed, what its simulation leaves has an effect of one of the kinds.
LEMMA SimulateEffect ==
  ASSUME StateOK, NEW p \in Peers, NEW op \in Operation, NEW n \in Counts(op),
         NEW page \in QueryAllPages, Simulate(p, op, n, page).end = "success"
  PROVE  LET rw == Simulate(p, op, n, page)
         IN  /\ rw.reads \subseteq Keys /\ Effect(rw)
             /\ Number(n, Counted(rw))
<1> DEFINE rw == Simulate(p, op, n, page)
<1>1. CASE op.fn \notin {"newApproval", "approval"}
  <2>1. n = 0
    BY <1>1 DEF Counts
  <2>2. Number(n, Counted(rw))
    BY <2>1 DEF Number
  <2>3. rw.reads \subseteq Keys /\ Effect(rw)
    <3>1. CASE op \in [fn : {"register"}, by : Certs, entity : Registration]
      <4>1. rw = register(op.by, op.entity) /\ op.by \in Certs /\ op.entity \in Registration
        BY <3>1 DEF Simulate
      <4> QED
        BY <4>1, RegisterEffect
    <3>2. CASE op \in [fn : {"modify", "modifyDict"}, by : Certs, edit : Edit]
      <4>1. op.by \in Certs /\ op.edit \in Edit /\ op.fn \in {"modify", "modifyDict"}
        BY <3>2
      <4>2. CASE op.fn = "modify"
        <5>1. rw = modifyInfo(op.by, "rbccustomer", op.edit)
          BY <4>2 DEF Simulate
        <5> QED
          BY <4>1, <5>1, DirectEffect
      <4>3. CASE op.fn = "modifyDict"
        <5> DEFINE e == [op.edit EXCEPT !.type = 0, !.status = 0, !.cert = Nil]
        <5>1. rw = modifyDict(op.by, op.edit)
          BY <4>3 DEF Simulate
        <5>2. rw = modifyInfo(op.by, "rbccustomer", e)
          <6>1. Panic.end # "success"
            BY RWFacts
          <6> QED
            BY <5>1, <6>1 DEF modifyDict
        <5>3. e \in Edit
          BY <4>1 DEF Edit
        <5> HIDE DEF e
        <5> QED
          BY <4>1, <5>2, <5>3, DirectEffect
      <4> QED
        BY <4>1, <4>2, <4>3
    <3>3. CASE op \in [fn : {"deploy", "upgrade"}, by : Certs, name : Names, admin : BOOLEAN,
                        scc : BOOLEAN]
      <4>1. op.name \in Names /\ op.scc \in BOOLEAN /\ op.fn \in {"deploy", "upgrade"}
        BY <3>3
      <4>2. rw \in {executeDeploy(p, op.name, op.admin, op.scc),
                   executeUpgrade(p, op.name, op.admin, op.scc)}
        BY <4>1 DEF Simulate
      <4> HIDE DEF rw
      <4>3. rw.end = "success"
        BY DEF rw
      <4> QED
        BY <4>1, <4>2, <4>3, LifeCycleEffect
    <3> QED
      BY <1>1, <3>1, <3>2, <3>3 DEF Operation
  <2> QED
    BY <2>2, <2>3
<1>2. CASE op.fn \in {"newApproval", "approval"}
  <2>1. n \in getSuperCustomerNum
    BY <1>2 DEF Counts
  <2>2. QueryAllReads(page) \subseteq rw.reads /\ rw.reads \subseteq Keys /\ Effect(rw)
    <3>1. CASE op \in [fn : {"newApproval"}, by : Certs,
                       approval : [id : Approvals, veto : 1..3, call : ProposedCall]]
      <4>1. /\ rw = newApproval(p, op.by, op.approval, n, page) /\ op.by \in Certs
            /\ op.approval \in [id : Approvals, veto : 1..3, call : ProposedCall]
        BY <3>1 DEF Simulate
      <4> QED
        BY <4>1, NewApprovalEffect, SMT
    <3>2. CASE op \in [fn : {"approval"}, by : Certs, id : Approvals, vote : 1..2]
      <4>1. /\ rw = approval(p, op.by, op.id, op.vote, n, page) /\ op.by \in Certs
            /\ op.id \in Approvals /\ op.vote \in 1..2
        BY <3>2 DEF Simulate
      <4>2. PICK by \in Certs, id \in Approvals, vote \in 1..2 :
              by = op.by /\ id = op.id /\ vote = op.vote
        BY <4>1
      <4>3. approval(p, by, id, vote, n, page).end = "success"
        BY <4>1, <4>2
      <4>4. LET r == approval(p, by, id, vote, n, page)
            IN  QueryAllReads(page) \subseteq r.reads /\ r.reads \subseteq Keys /\ Effect(r)
        BY <4>3, ApprovalEffect
      <4> QED
        BY <4>1, <4>2, <4>4
    <3> QED
      BY <1>2, <3>1, <3>2 DEF Operation
  <2> HIDE DEF rw
  <2>3. Number(n, Counted(rw))
    BY <2>1, <2>2, CountFacts
  <2> QED
    BY <2>2, <2>3 DEF rw
<1> QED
  BY <1>1, <1>2

-----------------------------------------------------------------------------
(* What a commit leaves of the read and write sets that wait. *)

\* The history of the chaincodes only grows.
Grows == \A cc \in Chaincodes : \A i \in DOMAIN history[cc] :
           i \in DOMAIN history'[cc] /\ history'[cc][i] = history[cc][i]

\* An effect depends on what was read and on the history.
LEMMA EffectStable ==
  ASSUME NEW rw, Effect(rw), \A k \in rw.reads : state'[k] = state[k], Grows
  PROVE  Effect(rw)'
<1>1. Typed(rw)'
  BY DEF Effect, Typed
<1>2. ASSUME Untouched(rw) PROVE Untouched(rw)'
  BY <1>2 DEF Untouched
<1>3. ASSUME NEW e \in Registration, Registers(rw, e) PROVE Registers(rw, e)'
  BY <1>3 DEF Registers
<1>4. ASSUME NEW e \in Edit, Edits(rw, e) PROVE Edits(rw, e)'
  <2>1. PICK old : old = state[<<"customer", e.id>>]
    OBVIOUS
  <2>2. /\ old # Nil /\ EditsKeys(rw, e, old) /\ EditsLists(rw, e, old)
        /\ Edited(old, e) # old => Passes(rw, e)
    BY <1>4, <2>1 DEF Edits
  <2>3. state'[<<"customer", e.id>>] = old
    BY <2>1, <2>2 DEF EditsKeys
  <2>4. EditsKeys(rw, e, old)' /\ EditsLists(rw, e, old)' /\ (Passes(rw, e)' <=> Passes(rw, e))
    BY <2>2 DEF EditsKeys, EditsLists, Passes
  <2> QED
    BY <2>2, <2>3, <2>4 DEF Edits
<1>5. Decides(rw)'
  <2> SUFFICES ASSUME NEW a \in Approvals, <<"approval", a>> \in DOMAIN rw.writes
               PROVE  LET new == rw.writes[<<"approval", a>>]
                      IN  /\ <<"approval", a>> \in rw.reads
                          /\ state'[<<"approval", a>>] = Nil \/ state'[<<"approval", a>>].status = 1
                          /\ new.status = 2 /\ IsUpdate(new.call) => Updates(rw, new.call)'
    BY DEF Decides, IsUpdate
  <2>1. PICK new : new = rw.writes[<<"approval", a>>]
    OBVIOUS
  <2>2. PICK call : call = new.call
    OBVIOUS
  <2>3. /\ <<"approval", a>> \in rw.reads
        /\ state[<<"approval", a>>] = Nil \/ state[<<"approval", a>>].status = 1
        /\ new.status = 2 /\ IsUpdate(call) => Updates(rw, call)
    BY <2>1, <2>2 DEF Effect, Decides
  <2>4. IsUpdate(call) => call.cc \in Chaincodes
    <3>1. IsApproval(new)
      BY <2>1 DEF Effect, Typed, IsValue
    <3> QED
      BY <2>2, <3>1 DEF IsApproval, IsCall
  <2>5. state'[<<"approval", a>>] = state[<<"approval", a>>]
    BY <2>3
  <2>6. ASSUME IsUpdate(call), Updates(rw, call) PROVE Updates(rw, call)'
    <3> DEFINE key == <<"cc", call.cc>>
    <3>1. call.cc \in Chaincodes
      BY <2>4, <2>6
    <3>2. ASSUME call.payload = Nil, key \in DOMAIN rw.writes
          PROVE  \E i \in DOMAIN history'[call.cc] :
                   history'[call.cc][i] = rw.writes[key] /\ rw.writes[key].version = call.v
      <4>1. PICK i \in DOMAIN history[call.cc] :
              history[call.cc][i] = rw.writes[key] /\ rw.writes[key].version = call.v
        BY <2>6, <3>2 DEF Updates
      <4>2. i \in DOMAIN history'[call.cc] /\ history'[call.cc][i] = history[call.cc][i]
        BY <3>1 DEF Grows
      <4> QED
        BY <4>1, <4>2
    <3> QED
      BY <2>6, <3>2 DEF Updates
  <2>7. new.status = 2 /\ IsUpdate(call) => Updates(rw, call)'
    BY <2>3, <2>6
  <2> QED
    BY <2>1, <2>2, <2>3, <2>5, <2>7
<1> QED
  BY <1>1, <1>2, <1>3, <1>4, <1>5 DEF Effect

\* A count stays good as long as no customer that was counted leaves the list.
LEMMA CountStable ==
  ASSUME NEW s, CountOK(s),
         \A c \in Counted(s.rw) : <<<<"type_status", 1, 1>>, c>> \in lists'
  PROVE  CountOK(s)'
<1>1. Counted(s.rw) \subseteq Counted(s.rw)'
  BY DEF Counted
<1>2. Number(s.n, Counted(s.rw)')
  BY <1>1 DEF CountOK, Number
<1> QED
  BY <1>2 DEF CountOK, Number

\* What a valid transaction does to the ledger.
Applies(rw, u) ==
  /\ state' = [k \in Keys |-> IF k \in DOMAIN rw.writes THEN rw.writes[k] ELSE state[k]]
  /\ version' = [k \in Keys |-> IF k \in DOMAIN rw.writes THEN u ELSE version[k]]
  /\ lists' = (lists \ rw.removes) \cup rw.adds
  /\ history' = [c \in Chaincodes |->
                   IF <<"cc", c>> \in DOMAIN rw.writes THEN Append(history[c], rw.writes[<<"cc", c>>])
                   ELSE history[c]]

\* A customer that leaves the list of active super users is written.
LEMMA LeavesWritten ==
  ASSUME NEW rw, Effect(rw), NEW u, Applies(rw, u), NEW c \in Customers,
         <<<<"type_status", 1, 1>>, c>> \in lists, <<"customer", c>> \notin DOMAIN rw.writes
  PROVE  <<<<"type_status", 1, 1>>, c>> \in lists'
<1> DEFINE m == <<<<"type_status", 1, 1>>, c>>
<1>1. m[1][1] # "approval" /\ m[2] = c
  OBVIOUS
<1>2. m \notin rw.removes
  <2>1. CASE Untouched(rw)
    BY <1>1, <2>1 DEF Untouched
  <2>2. CASE \E e \in Registration : Registers(rw, e)
    BY <1>1, <2>2 DEF Registers
  <2>3. ASSUME NEW e \in Edit, Edits(rw, e) PROVE m \notin rw.removes
    <3>1. PICK old : EditsKeys(rw, e, old) /\ EditsLists(rw, e, old)
      BY <2>3 DEF Edits
    <3>2. c # e.id
      BY <3>1 DEF EditsKeys
    <3>3. m \notin {<<l, e.id>> : l \in Moves(old, Edited(old, e)).out}
      BY <3>2
    <3> HIDE DEF m
    <3> QED
      BY <1>1, <3>1, <3>3 DEF EditsLists
  <2> QED
    BY <2>1, <2>2, <2>3 DEF Effect
<1> QED
  BY <1>2 DEF Applies

\* A commit appends to histories.
LEMMA HistoryGrows ==
  ASSUME StateOK, NEW rw, Effect(rw), NEW u, Applies(rw, u)
  PROVE  Grows /\ history' \in [Chaincodes -> Histories]
<1>1. ASSUME NEW c \in Chaincodes
      PROVE  /\ history'[c] \in Histories
             /\ \A i \in DOMAIN history[c] :
                  i \in DOMAIN history'[c] /\ history'[c][i] = history[c][i]
  <2>1. history[c] \in Histories
    BY DEF StateOK
  <2>2. CASE <<"cc", c>> \in DOMAIN rw.writes
    <3> DEFINE d == rw.writes[<<"cc", c>>]
    <3>1. d \in CCData
      BY <2>2 DEF Effect, Typed, IsValue
    <3>2. history'[c] = Append(history[c], d)
      BY <2>2 DEF Applies
    <3> HIDE DEF d
    <3> QED
      BY <2>1, <3>1, <3>2, HistoryAppend, ZenonT(40)
  <2>3. CASE <<"cc", c>> \notin DOMAIN rw.writes
    BY <2>1, <2>3 DEF Applies
  <2> QED
    BY <2>2, <2>3
<1>2. history' = [c \in Chaincodes |-> history'[c]]
  BY DEF Applies
<1> QED
  BY <1>1, <1>2 DEF Grows

\* A commit keeps the ledger typed.
LEMMA StateOKAfter ==
  ASSUME StateOK, NEW rw, Effect(rw), NEW u, Applies(rw, u), fs' = fs
  PROVE  StateOK'
<1>1. state' = [k \in Keys |-> state'[k]]
  BY DEF Applies
<1>2. \A k \in Keys : state'[k] = Nil \/ IsValue(k, state'[k])
  BY DEF Applies, Effect, Typed, StateOK
<1>3. \A m \in lists' : m = <<m[1], m[2]>>
  BY DEF Applies, Effect, Typed, StateOK
<1>4. history' \in [Chaincodes -> Histories]
  BY HistoryGrows
<1>5. fs' \in [Peers -> [Names -> CCPackage \cup {Nil}]]
  BY DEF StateOK
<1>6. \A k \in Keys : (state[k] = Nil \/ IsValue(k, state[k]))' <=> (state'[k] = Nil \/ IsValue(k, state'[k]))
  BY DEF IsValue
<1> QED
  BY <1>1, <1>2, <1>3, <1>4, <1>5, <1>6 DEF StateOK

-----------------------------------------------------------------------------
(* What a commit does to the registry of customers. *)

\* The first components of the pairs with a given second component.
LEMMA Firsts ==
  ASSUME NEW L, \A m \in L : m = <<m[1], m[2]>>, NEW id, NEW l
  PROVE  l \in {m[1] : m \in {x \in L : x[1][1] # "approval" /\ x[2] = id}}
           <=> l[1] # "approval" /\ <<l, id>> \in L
<1> DEFINE F == {m[1] : m \in {x \in L : x[1][1] # "approval" /\ x[2] = id}}
<1>1. ASSUME l \in F PROVE l[1] # "approval" /\ <<l, id>> \in L
  <2>1. PICK m \in L : m[1][1] # "approval" /\ m[2] = id /\ l = m[1]
    BY <1>1
  <2>2. m = <<m[1], m[2]>>
    OBVIOUS
  <2> QED
    BY <2>1, <2>2
<1>2. ASSUME l[1] # "approval", <<l, id>> \in L PROVE l \in F
  <2> DEFINE m == <<l, id>>
  <2>1. m \in L /\ m[1] = l /\ m[2] = id
    BY <1>2
  <2> HIDE DEF m
  <2> QED
    BY <1>2, <2>1
<1> QED
  BY <1>1, <1>2

\* The lists a customer is in after a commit.
LEMMA ListsAfter ==
  ASSUME StateOK, StateOK', NEW rw, NEW u, Applies(rw, u), NEW id, NEW l
  PROVE  l \in CustomerLists(id)' <=>
           /\ l[1] # "approval"
           /\ (l \in CustomerLists(id) /\ <<l, id>> \notin rw.removes) \/ <<l, id>> \in rw.adds
<1>1. l \in CustomerLists(id) <=> l[1] # "approval" /\ <<l, id>> \in lists
  BY Firsts DEF StateOK, CustomerLists
<1>2. l \in CustomerLists(id)' <=> l[1] # "approval" /\ <<l, id>> \in lists'
  <2>1. PICK L : L = lists'
    OBVIOUS
  <2>2. CustomerLists(id)' = {m[1] : m \in {x \in L : x[1][1] # "approval" /\ x[2] = id}}
    BY <2>1 DEF CustomerLists
  <2>3. \A m \in L : m = <<m[1], m[2]>>
    BY <2>1 DEF StateOK
  <2> QED
    BY <2>1, <2>2, <2>3, Firsts
<1> QED
  BY <1>1, <1>2 DEF Applies

\* The lists L are those of the entity e, and M is left of L when old becomes new.
ListsOf(e, L) ==
  \E S \in SUBSET Statuses :
    S # {} /\ L = {<<"all">>} \cup {<<"status", s>> : s \in S} \cup Entries(e)

Moved(old, new, L, M) ==
  \A l : l \in M <=> (l \in L /\ l \notin Moves(old, new).out) \/ l \in Moves(old, new).in

\* No list of approvals is among the lists a registration is moved between.
LEMMA MovesNoApproval ==
  ASSUME NEW old, NEW new
  PROVE  \A l : l \in Moves(old, new).in \cup Moves(old, new).out => l[1] # "approval"
<1>1. \A e : \A l \in Entries(e) : l[1] # "approval"
  BY SMT DEF Entries
<1> QED BY <1>1, SMT DEF Moves

\* An edit moves a customer between the lists of its type and status.
LEMMA MovesLists ==
  ASSUME NEW old \in CustomerEntity, NEW new \in CustomerEntity, NEW L, NEW M,
         ListsOf(old, L), Moved(old, new, L, M)
  PROVE  ListsOf(new, M)
<1>1. PICK S \in SUBSET Statuses :
        S # {} /\ L = {<<"all">>} \cup {<<"status", s>> : s \in S} \cup Entries(old)
  BY DEF ListsOf
<1> SUFFICES \E R \in SUBSET Statuses :
               R # {} /\ M = {<<"all">>} \cup {<<"status", s>> : s \in R} \cup Entries(new)
  BY DEF ListsOf
<1>2. \A l : l \in M <=> (l \in L /\ l \notin Moves(old, new).out) \/ l \in Moves(old, new).in
  BY DEF Moved
<1> DEFINE t == old.type
           s0 == old.status
           v == new.type
           s1 == new.status
<1>3. s0 \in Statuses /\ s1 \in Statuses
  BY DEF CustomerEntity
<1>4. /\ Entries(old) = {<<"type", t>>, <<"type_status", t, s0>>}
      /\ Entries(new) = {<<"type", v>>, <<"type_status", v, s1>>}
  BY DEF Entries
<1>5. /\ t # v => Moves(old, new).out = Entries(old) /\ Moves(old, new).in = Entries(new)
      /\ t = v /\ s0 # s1 =>
           /\ Moves(old, new).out = {<<"type_status", t, s0>>, <<"status", s0>>}
           /\ Moves(old, new).in = {<<"type_status", v, s1>>, <<"status", s1>>}
      /\ t = v /\ s0 = s1 => Moves(old, new).out = {} /\ Moves(old, new).in = {}
  BY DEF Moves
<1> HIDE DEF t, s0, v, s1
<1>6. \A x, y, z : /\ <<"all">> # <<"type", x>> /\ <<"all">> # <<"type_status", x, y>>
                   /\ <<"all">> # <<"status", x>>
                   /\ <<"status", z>> # <<"type", x>> /\ <<"status", z>> # <<"type_status", x, y>>
                   /\ <<"type", z>> # <<"type_status", x, y>>
                   /\ <<"status", x>> = <<"status", z>> => x = z
  <2>1. \A x : <<"all">>[1] = "all" /\ <<"type", x>>[1] = "type" /\ <<"status", x>>[1] = "status"
    OBVIOUS
  <2>2. \A x, y : <<"type_status", x, y>>[1] = "type_status"
    OBVIOUS
  <2> QED
    BY <2>1, <2>2
<1>7. CASE t # v
  <2>1. \A l : l \in M <=> l \in {<<"all">>} \cup {<<"status", s>> : s \in S} \cup Entries(new)
    BY <1>1, <1>2, <1>4, <1>5, <1>6, <1>7, SMT
  <2> QED
    BY <1>1, <2>1
<1>8. CASE t = v /\ s0 # s1
  <2> DEFINE R == (S \ {s0}) \cup {s1}
  <2>1. R \in SUBSET Statuses /\ R # {}
    BY <1>3
  <2>2. \A l : l \in M <=> l \in {<<"all">>} \cup {<<"status", s>> : s \in R} \cup Entries(new)
    BY <1>1, <1>2, <1>4, <1>5, <1>6, <1>8, SMT
  <2> HIDE DEF R
  <2>3. M = {<<"all">>} \cup {<<"status", s>> : s \in R} \cup Entries(new)
    BY <2>2
  <2> QED
    BY <2>1, <2>3
<1>9. CASE t = v /\ s0 = s1
  <2>1. \A l : l \in M <=> l \in {<<"all">>} \cup {<<"status", s>> : s \in S} \cup Entries(new)
    BY <1>1, <1>2, <1>4, <1>5, <1>9
  <2> QED
    BY <1>1, <2>1
<1> QED
  BY <1>7, <1>8, <1>9

\* The parts of CustomersIndexed: the lists of a customer, and the index of certificates.
InLists(c) ==
  IF Customer(c) = Nil THEN CustomerLists(c) = {}
  ELSE ListsOf(Customer(c), CustomerLists(c))

CertsIndexed ==
  \A c \in Certs : state[<<"cert", c>>] # Nil =>
    Customer(state[<<"cert", c>>]) # Nil /\ Customer(state[<<"cert", c>>]).cert = c

Indexed == (\A c \in Customers : InLists(c)) /\ IdsIndexed /\ NumbersIndexed /\ CertsIndexed

\* The parts make up CustomersIndexed, since the index of numbers names one customer.
LEMMA IndexedIs ==
  ASSUME NumbersIndexed
  PROVE  CustomersIndexed <=> Indexed
<1>1. \A c, d \in Customers :
        Customer(c) # Nil /\ Customer(d) # Nil /\ Customer(c).no = Customer(d).no => c = d
  <2> SUFFICES ASSUME NEW c \in Customers, NEW d \in Customers, Customer(c) # Nil, Customer(d) # Nil,
                      Customer(c).no = Customer(d).no
               PROVE  c = d
    OBVIOUS
  <2>1. state[<<"no", Customer(c).no>>] = c /\ state[<<"no", Customer(d).no>>] = d
    BY DEF NumbersIndexed
  <2> QED
    BY <2>1
<1> QED
  BY <1>1 DEF CustomersIndexed, Indexed, InLists, ListsOf, IdsIndexed, CertsIndexed

\* The same of the next state.
LEMMA IndexedIsNext ==
  ASSUME Indexed'
  PROVE  CustomersIndexed' /\ NumbersIndexed'
<1>1. \A c, d \in Customers :
        Customer(c)' # Nil /\ Customer(d)' # Nil /\ Customer(c)'.no = Customer(d)'.no => c = d
  <2> SUFFICES ASSUME NEW c \in Customers, NEW d \in Customers,
                      Customer(c)' # Nil, Customer(d)' # Nil, Customer(c)'.no = Customer(d)'.no
               PROVE  c = d
    OBVIOUS
  <2>1. state'[<<"no", Customer(c)'.no>>] = c /\ state'[<<"no", Customer(d)'.no>>] = d
    BY DEF Indexed, NumbersIndexed
  <2> QED
    BY <2>1
<1> QED
  BY <1>1 DEF CustomersIndexed, Indexed, InLists, ListsOf, IdsIndexed, CertsIndexed

\* A customer that is neither written nor moved stays in its lists.
LEMMA SameLists ==
  ASSUME StateOK, StateOK', NEW rw, NEW u, Applies(rw, u), NEW c \in Customers, InLists(c),
         <<"customer", c>> \notin DOMAIN rw.writes,
         \A m \in rw.adds \cup rw.removes : m[1][1] = "approval" \/ m[2] # c
  PROVE  InLists(c)'
<1>1. Customer(c)' = Customer(c)
  BY KeyFacts DEF Applies, Customer
<1>2. \A l : l \in CustomerLists(c)' <=> l \in CustomerLists(c)
  <2> SUFFICES ASSUME NEW l PROVE l \in CustomerLists(c)' <=> l \in CustomerLists(c)
    OBVIOUS
  <2>1. l \in CustomerLists(c)' <=>
          /\ l[1] # "approval"
          /\ (l \in CustomerLists(c) /\ <<l, c>> \notin rw.removes) \/ <<l, c>> \in rw.adds
    BY ListsAfter
  <2>2. l[1] # "approval" => <<l, c>> \notin rw.adds /\ <<l, c>> \notin rw.removes
    <3> DEFINE m == <<l, c>>
    <3>1. m[1] = l /\ m[2] = c
      OBVIOUS
    <3> HIDE DEF m
    <3>2. l[1] # "approval" => m \notin rw.adds \cup rw.removes
      BY <3>1
    <3> QED
      BY <3>2 DEF m
  <2>3. l \in CustomerLists(c) => l[1] # "approval"
    BY DEF CustomerLists
  <2> QED
    BY <2>1, <2>2, <2>3
<1>3. CustomerLists(c)' = CustomerLists(c)
  <2>1. PICK M : M = CustomerLists(c)'
    OBVIOUS
  <2>2. PICK L : L = CustomerLists(c)
    OBVIOUS
  <2>3. M = L
    BY <1>2, <2>1, <2>2
  <2> QED
    BY <2>1, <2>2, <2>3
<1> QED
  BY <1>1, <1>3 DEF InLists, ListsOf, Entries

\* A transaction that leaves the customers alone.
LEMMA UntouchedIndexed ==
  ASSUME StateOK, StateOK', NEW rw, NEW u, Applies(rw, u), Indexed, Untouched(rw)
  PROVE  Indexed'
<1>1. \A k \in CustomerKeys : state'[k] = state[k] /\ k \notin DOMAIN rw.writes
  BY DEF Applies, Untouched, Keys, CustomerKeys
<1>2. \A c \in Customers : state'[<<"customer", c>>] = state[<<"customer", c>>]
                           /\ <<"customer", c>> \notin DOMAIN rw.writes
  BY <1>1 DEF Customer, CustomerKeys
<1>3. ASSUME NEW c \in Customers PROVE InLists(c)'
  <2>1. InLists(c)
    BY DEF Indexed
  <2>2. \A m \in rw.adds \cup rw.removes : m[1][1] = "approval" \/ m[2] # c
    BY DEF Untouched
  <2>3. <<"customer", c>> \notin DOMAIN rw.writes
    BY <1>2
  <2> QED
    BY <2>1, <2>2, <2>3, SameLists
<1>4. \A c \in Customers : Customer(c) # Nil => state'[<<"no", Customer(c).no>>] = state[<<"no", Customer(c).no>>]
  <2>1. \A c \in Customers : Customer(c) # Nil => Customer(c).no \in Numbers
    BY KeyFacts DEF StateOK, IsValue, Customer, CustomerEntity
  <2> QED
    BY <1>1, <2>1 DEF CustomerKeys
<1>5. NumbersIndexed'
  <2>1. \A c \in Customers : Customer(c)' # Nil => state'[<<"no", Customer(c)'.no>>] = c
    <3> SUFFICES ASSUME NEW c \in Customers, Customer(c)' # Nil
                 PROVE  state'[<<"no", Customer(c)'.no>>] = c
      OBVIOUS
    <3>1. Customer(c)' = Customer(c)
      BY <1>2 DEF Customer
    <3>2. state[<<"no", Customer(c).no>>] = c
      BY <3>1 DEF Indexed, NumbersIndexed
    <3> QED
      BY <1>4, <3>1, <3>2
  <2> QED
    BY <2>1 DEF NumbersIndexed
<1>6. CertsIndexed'
  <2> SUFFICES ASSUME NEW c \in Certs, state'[<<"cert", c>>] # Nil
               PROVE  Customer(state[<<"cert", c>>])' # Nil /\ Customer(state[<<"cert", c>>])'.cert = c
    BY DEF CertsIndexed
  <2>1. state'[<<"cert", c>>] = state[<<"cert", c>>] /\ state[<<"cert", c>>] \in Customers
    <3>1. <<"cert", c>> \in CustomerKeys /\ <<"cert", c>> \in Keys
      BY KeyFacts DEF CustomerKeys
    <3>2. state'[<<"cert", c>>] = state[<<"cert", c>>]
      BY <1>1, <3>1
    <3>3. state[<<"cert", c>>] = Nil \/ state[<<"cert", c>>] \in Customers \cup {Nil}
      BY KeyFacts DEF StateOK, IsValue
    <3> QED
      BY <3>2, <3>3
  <2>2. state'[<<"customer", state[<<"cert", c>>]>>] = state[<<"customer", state[<<"cert", c>>]>>]
    BY <1>1, <2>1 DEF CustomerKeys
  <2> QED
    BY <2>1, <2>2 DEF Indexed, CertsIndexed, Customer
<1>7. IdsIndexed'
  <2>1. \A c \in Customers : state'[<<"id", c>>] = state[<<"id", c>>]
    BY <1>1 DEF CustomerKeys
  <2> QED
    BY <1>2, <2>1 DEF Indexed, IdsIndexed, Customer
<1> QED
  BY <1>3, <1>5, <1>6, <1>7 DEF Indexed

\* A transaction that registers a customer.
LEMMA RegistersIndexed ==
  ASSUME StateOK, StateOK', NEW rw, NEW u, Applies(rw, u), Indexed,
         NEW e \in Registration, Registers(rw, e)
  PROVE  Indexed'
<1> DEFINE new == Registered(e)
<1>1. /\ e.id \in Customers /\ e.no \in Numbers /\ e.cert \in Certs
      /\ new.no = e.no /\ new.cert = e.cert /\ new # Nil
  <2>1. e.id \in Customers /\ e.no \in Numbers /\ e.cert \in Certs /\ e.type \in Types
    BY DEF Registration
  <2>2. new \in CustomerEntity /\ new.no = e.no /\ new.cert = e.cert
    BY <2>1, SMT DEF Registered, CustomerEntity, Statuses
  <2> QED
    BY <2>1, <2>2, GovernanceAssumption
<1>2. /\ \A k \in DOMAIN rw.writes : k[1] \in {"approval", "cc"} \/ k \in RegisteredKeys(e)
      /\ state[<<"customer", e.id>>] = Nil /\ state[<<"no", e.no>>] = Nil
      /\ rw.writes[<<"customer", e.id>>] = new /\ rw.writes[<<"no", e.no>>] = e.id
      /\ rw.writes[<<"cert", e.cert>>] = e.id /\ rw.writes[<<"id", e.id>>] = e.id
      /\ \A k \in {<<"customer", e.id>>, <<"no", e.no>>, <<"cert", e.cert>>, <<"id", e.id>>} :
           k \in DOMAIN rw.writes
  BY DEF Registers, RegisteredKeys
<1> DEFINE N == {<<"all">>, <<"status", 1>>} \cup Entries(new)
<1>12. /\ \A m \in rw.adds : m[1][1] = "approval" \/ m \in {<<l, e.id>> : l \in N}
       /\ \A l \in N : <<l, e.id>> \in rw.adds
       /\ \A m \in rw.removes : m[1][1] = "approval"
  BY DEF Registers, RegisteredLists
<1> HIDE DEF new
<1>3. /\ state'[<<"customer", e.id>>] = new /\ state'[<<"no", e.no>>] = e.id
      /\ state'[<<"cert", e.cert>>] = e.id /\ state'[<<"id", e.id>>] = e.id
  BY <1>1, <1>2, KeyFacts DEF Applies
<1>4. /\ \A c \in Customers : c # e.id =>
           /\ state'[<<"customer", c>>] = state[<<"customer", c>>]
           /\ <<"customer", c>> \notin DOMAIN rw.writes
           /\ state'[<<"id", c>>] = state[<<"id", c>>]
      /\ \A c \in Numbers : c # e.no => state'[<<"no", c>>] = state[<<"no", c>>]
      /\ \A c \in Certs : c # e.cert => state'[<<"cert", c>>] = state[<<"cert", c>>]
  <2>1. \A c : c # e.id => /\ <<"customer", c>> \notin DOMAIN rw.writes
                           /\ <<"id", c>> \notin DOMAIN rw.writes
    BY <1>2, SMT DEF RegisteredKeys
  <2>2. \A c : c # e.no => <<"no", c>> \notin DOMAIN rw.writes
    BY <1>2, SMT DEF RegisteredKeys
  <2>3. \A c : c # e.cert => <<"cert", c>> \notin DOMAIN rw.writes
    BY <1>2, SMT DEF RegisteredKeys
  <2> QED
    BY <2>1, <2>2, <2>3, KeyFacts DEF Applies
<1>5. ASSUME NEW c \in Customers PROVE InLists(c)'
  <2>1. InLists(c)
    BY DEF Indexed
  <2>2. CASE c # e.id
    <3>1. \A m \in rw.adds \cup rw.removes : m[1][1] = "approval" \/ m[2] # c
      BY <1>12, <2>2, SMT
    <3>2. <<"customer", c>> \notin DOMAIN rw.writes
      BY <1>4, <2>2
    <3> QED
      BY <2>1, <3>1, <3>2, SameLists
  <2>3. CASE c = e.id
    <3>1. \A l : l \notin CustomerLists(c)
      BY <1>2, <2>1, <2>3 DEF InLists, Customer
    <3>2. Customer(c)' = new
      BY <1>3, <2>3 DEF Customer
    <3>3. \A l \in N : l[1] # "approval"
      BY SMT DEF Entries
    <3> HIDE DEF N
    <3>4. \A l : l[1] # "approval" => (<<l, c>> \in rw.adds <=> l \in N)
      <4> SUFFICES ASSUME NEW l, l[1] # "approval" PROVE <<l, c>> \in rw.adds <=> l \in N
        OBVIOUS
      <4> DEFINE m == <<l, c>>
      <4>1. m[1] = l /\ \A x : m = <<x, c>> => x = l
        OBVIOUS
      <4> HIDE DEF m
      <4>2. m \in rw.adds => m \in {<<x, c>> : x \in N}
        BY <1>12, <2>3, <4>1
      <4>3. m \in {<<x, c>> : x \in N} => l \in N
        BY <4>1
      <4>4. l \in N => <<l, c>> \in rw.adds
        BY <1>12, <2>3
      <4> QED
        BY <4>2, <4>3, <4>4 DEF m
    <3>5. \A l : l \in CustomerLists(c)' <=> l \in N
      <4> SUFFICES ASSUME NEW l PROVE l \in CustomerLists(c)' <=> l \in N
        OBVIOUS
      <4>1. l \in CustomerLists(c)' <=>
              /\ l[1] # "approval"
              /\ (l \in CustomerLists(c) /\ <<l, c>> \notin rw.removes) \/ <<l, c>> \in rw.adds
        BY ListsAfter
      <4> QED
        BY <3>1, <3>3, <3>4, <4>1
    <3>6. CustomerLists(c)' = N
      <4>1. PICK M : M = CustomerLists(c)'
        OBVIOUS
      <4>2. M = N
        BY <3>5, <4>1
      <4> QED
        BY <4>1, <4>2
    <3>7. N = {<<"all">>} \cup {<<"status", s>> : s \in {1}} \cup Entries(new)
      BY DEF N
    <3>8. {1} \in SUBSET Statuses /\ {1} # {}
      BY SMT DEF Statuses
    <3>9. Entries(Customer(c))' = Entries(new)
      BY <3>2 DEF Entries
    <3> QED
      BY <1>1, <3>2, <3>6, <3>7, <3>8, <3>9 DEF InLists, ListsOf
  <2> QED
    BY <2>2, <2>3
<1>6. ASSUME NEW c \in Customers, Customer(c)' # Nil PROVE state'[<<"no", Customer(c)'.no>>] = c
  <2>1. CASE c = e.id
    BY <1>1, <1>3, <2>1 DEF Customer
  <2>2. CASE c # e.id
    <3>1. Customer(c)' = Customer(c)
      BY <1>4, <2>2 DEF Customer
    <3>2. state[<<"no", Customer(c).no>>] = c
      BY <1>6, <3>1 DEF Indexed, NumbersIndexed
    <3>3. Customer(c).no \in Numbers
      BY <1>6, <3>1, KeyFacts DEF StateOK, IsValue, Customer, CustomerEntity
    <3>4. Customer(c).no # e.no
      BY <1>2, <3>2, GovernanceAssumption
    <3> QED
      BY <1>4, <3>1, <3>2, <3>3, <3>4
  <2> QED
    BY <2>1, <2>2
<1>7. ASSUME NEW c \in Certs, state'[<<"cert", c>>] # Nil
      PROVE  LET id == state'[<<"cert", c>>]
             IN  state'[<<"customer", id>>] # Nil /\ state'[<<"customer", id>>].cert = c
  <2>1. CASE c = e.cert
    BY <1>1, <1>3, <2>1
  <2>2. CASE c # e.cert
    <3>1. PICK id : id = state[<<"cert", c>>]
      OBVIOUS
    <3>2. state'[<<"cert", c>>] = id /\ id # Nil
      BY <1>4, <1>7, <2>2, <3>1
    <3>3. id \in Customers
      BY <3>1, <3>2, KeyFacts DEF StateOK, IsValue
    <3>4. state[<<"customer", id>>] # Nil /\ state[<<"customer", id>>].cert = c
      BY <3>1, <3>2 DEF Indexed, CertsIndexed, Customer
    <3>5. state'[<<"customer", id>>] = state[<<"customer", id>>]
      BY <1>2, <1>4, <3>3, <3>4
    <3> QED
      BY <3>2, <3>4, <3>5
  <2> QED
    BY <2>1, <2>2
<1>8. NumbersIndexed'
  BY <1>6 DEF NumbersIndexed
<1>9. CertsIndexed'
  BY <1>7 DEF CertsIndexed, Customer
<1>10. IdsIndexed'
  <2>1. ASSUME NEW c \in Customers
        PROVE  state'[<<"id", c>>] = IF state'[<<"customer", c>>] = Nil THEN Nil ELSE c
    <3>1. CASE c = e.id
      BY <1>1, <1>3, <3>1
    <3>2. CASE c # e.id
      BY <1>4, <3>2 DEF Indexed, IdsIndexed, Customer
    <3> QED
      BY <3>1, <3>2
  <2> QED
    BY <2>1 DEF IdsIndexed, Customer
<1> QED
  BY <1>5, <1>8, <1>9, <1>10 DEF Indexed

\* A transaction that edits a customer.
LEMMA EditsIndexed ==
  ASSUME StateOK, StateOK', NEW rw, NEW u, Applies(rw, u), Indexed, Typed(rw),
         NEW e \in Edit, Edits(rw, e)
  PROVE  Indexed'
<1>1. PICK old : old = state[<<"customer", e.id>>]
  OBVIOUS
<1> DEFINE new == Edited(old, e)
<1>2. e.id \in Customers /\ e.cert \in Certs \cup {Nil}
  BY DEF Edit
<1>3. old # Nil /\ EditsKeys(rw, e, old) /\ EditsLists(rw, e, old)
  BY <1>1 DEF Edits
<1>4. old \in CustomerEntity
  BY <1>1, <1>2, <1>3, KeyFacts DEF StateOK, IsValue
<1>5. /\ new \in CustomerEntity /\ new # Nil /\ new.no = old.no
      /\ e.cert = Nil => new.cert = old.cert
      /\ e.cert # Nil => new.cert = e.cert
  BY <1>4, EditedFacts, GovernanceAssumption
<1>6. old.no \in Numbers /\ old.cert \in Certs
  BY <1>4 DEF CustomerEntity
<1> HIDE DEF new
<1>7. state'[<<"customer", e.id>>] = new
  BY <1>2, <1>3, KeyFacts DEF Applies, EditsKeys, new
<1>8. /\ \A c \in Customers : c # e.id =>
           state'[<<"customer", c>>] = state[<<"customer", c>>] /\ <<"customer", c>> \notin DOMAIN rw.writes
      /\ \A c \in Numbers : state'[<<"no", c>>] = state[<<"no", c>>]
  <2>1. \A c \in Customers : c # e.id => <<"customer", c>> \notin DOMAIN rw.writes
    BY <1>3 DEF EditsKeys
  <2>2. \A c \in Numbers : <<"no", c>> \notin DOMAIN rw.writes
    BY <1>3 DEF EditsKeys
  <2> QED
    BY <2>1, <2>2, KeyFacts DEF Applies
<1>9. \A c \in Certs : state'[<<"cert", c>>] =
        IF e.cert = Nil THEN state[<<"cert", c>>]
        ELSE IF c = e.cert THEN e.id
        ELSE IF c = old.cert THEN Nil ELSE state[<<"cert", c>>]
  <2> SUFFICES ASSUME NEW c \in Certs
               PROVE  state'[<<"cert", c>>] =
                        IF e.cert = Nil THEN state[<<"cert", c>>]
                        ELSE IF c = e.cert THEN e.id
                        ELSE IF c = old.cert THEN Nil ELSE state[<<"cert", c>>]
    OBVIOUS
  <2>1. <<"cert", c>> \in Keys
    BY KeyFacts
  <2>2. state'[<<"cert", c>>] = IF <<"cert", c>> \in DOMAIN rw.writes THEN rw.writes[<<"cert", c>>]
                               ELSE state[<<"cert", c>>]
    BY <2>1 DEF Applies
  <2>3. <<"cert", c>> \in DOMAIN rw.writes => e.cert # Nil /\ c \in {e.cert, old.cert}
    BY <1>3 DEF EditsKeys
  <2>4. e.cert # Nil => /\ <<"cert", e.cert>> \in DOMAIN rw.writes /\ <<"cert", old.cert>> \in DOMAIN rw.writes
                        /\ rw.writes[<<"cert", e.cert>>] = e.id
                        /\ old.cert # e.cert => rw.writes[<<"cert", old.cert>>] = Nil
    BY <1>3 DEF EditsKeys
  <2>5. CASE <<"cert", c>> \notin DOMAIN rw.writes
    BY <2>2, <2>4, <2>5
  <2>6. CASE <<"cert", c>> \in DOMAIN rw.writes
    BY <2>2, <2>3, <2>4, <2>6
  <2> QED
    BY <2>5, <2>6
<1>10. ASSUME NEW c \in Customers PROVE InLists(c)'
  <2>1. InLists(c)
    BY DEF Indexed
  <2>2. CASE c # e.id
    <3>1. \A m \in rw.adds \cup rw.removes : m[1][1] = "approval" \/ m[2] # c
      BY <1>3, <2>2, SMT DEF EditsLists
    <3>2. <<"customer", c>> \notin DOMAIN rw.writes
      BY <1>8, <2>2
    <3> QED
      BY <2>1, <3>1, <3>2, SameLists
  <2>3. CASE c = e.id
    <3> DEFINE in == Moves(old, new).in
               out == Moves(old, new).out
    <3>1. \A l : l \in in \cup out => l[1] # "approval"
      BY MovesNoApproval
    <3>2. \A l : l[1] # "approval" => /\ <<l, c>> \in rw.adds <=> l \in in
                                      /\ <<l, c>> \in rw.removes <=> l \in out
      <4> SUFFICES ASSUME NEW l, l[1] # "approval"
                   PROVE  /\ <<l, c>> \in rw.adds <=> l \in in
                          /\ <<l, c>> \in rw.removes <=> l \in out
        OBVIOUS
      <4> DEFINE m == <<l, c>>
      <4>1. m[1] = l /\ \A x : m = <<x, c>> => x = l
        OBVIOUS
      <4> HIDE DEF m, in, out
      <4>2. /\ m \in rw.adds => m \in {<<x, c>> : x \in in}
            /\ m \in rw.removes => m \in {<<x, c>> : x \in out}
        BY <1>3, <2>3, <4>1 DEF EditsLists, in, out, new
      <4>3. \A x \in in : <<x, c>> \in rw.adds
        BY <1>3, <2>3 DEF EditsLists, in, new
      <4>4. \A x \in out : <<x, c>> \in rw.removes
        BY <1>3, <2>3 DEF EditsLists, out, new
      <4>5. /\ m \in {<<x, c>> : x \in in} => l \in in
            /\ m \in {<<x, c>> : x \in out} => l \in out
        BY <4>1
      <4> QED
        BY <4>2, <4>3, <4>4, <4>5 DEF m
    <3>3. PICK L : L = CustomerLists(c)
      OBVIOUS
    <3>4. PICK M : M = CustomerLists(c)'
      OBVIOUS
    <3>5. \A l \in L : l[1] # "approval"
      BY <3>3 DEF CustomerLists
    <3> HIDE DEF in, out
    <3>6. \A l : l \in M <=> (l \in L /\ l \notin out) \/ l \in in
      <4> SUFFICES ASSUME NEW l PROVE l \in M <=> (l \in L /\ l \notin out) \/ l \in in
        OBVIOUS
      <4>1. l \in M <=> /\ l[1] # "approval"
                        /\ (l \in L /\ <<l, c>> \notin rw.removes) \/ <<l, c>> \in rw.adds
        BY <3>3, <3>4, ListsAfter
      <4> QED
        BY <3>1, <3>2, <3>5, <4>1
    <3>7. Customer(c) = old /\ Customer(c)' = new
      BY <1>1, <1>7, <2>3 DEF Customer
    <3>8. ListsOf(old, L)
      BY <1>3, <2>1, <3>3, <3>7 DEF InLists
    <3>9. ListsOf(new, M)
      <4>1. Moved(old, new, L, M)
        BY <3>6 DEF Moved, in, out
      <4> QED
        BY <1>4, <1>5, <3>8, <4>1, MovesLists
    <3>10. ListsOf(Customer(c), CustomerLists(c))'
      BY <3>4, <3>7, <3>9 DEF ListsOf, Entries
    <3> QED
      BY <1>5, <3>7, <3>10 DEF InLists
  <2> QED
    BY <2>2, <2>3
<1>11. ASSUME NEW c \in Customers, Customer(c)' # Nil PROVE state'[<<"no", Customer(c)'.no>>] = c
  <2>1. Customer(c) # Nil /\ Customer(c)'.no = Customer(c).no
    BY <1>1, <1>3, <1>5, <1>7, <1>8, <1>11 DEF Customer
  <2>2. Customer(c).no \in Numbers
    BY <2>1, KeyFacts DEF StateOK, IsValue, Customer, CustomerEntity
  <2>3. state[<<"no", Customer(c).no>>] = c
    BY <2>1 DEF Indexed, NumbersIndexed
  <2> QED
    BY <1>8, <2>1, <2>2, <2>3
<1>12. ASSUME NEW c \in Certs, state'[<<"cert", c>>] # Nil
       PROVE  LET id == state'[<<"cert", c>>]
              IN  state'[<<"customer", id>>] # Nil /\ state'[<<"customer", id>>].cert = c
  <2>1. CASE e.cert # Nil /\ c = e.cert
    BY <1>5, <1>7, <1>9, <2>1
  <2>2. CASE ~(e.cert # Nil /\ c = e.cert)
    <3>1. PICK id : id = state[<<"cert", c>>]
      OBVIOUS
    <3>2. state'[<<"cert", c>>] = id /\ id # Nil /\ (e.cert # Nil => c # old.cert)
      BY <1>9, <1>12, <2>2, <3>1
    <3>3. id \in Customers
      BY <3>1, <3>2, KeyFacts DEF StateOK, IsValue
    <3>4. state[<<"customer", id>>] # Nil /\ state[<<"customer", id>>].cert = c
      BY <3>1, <3>2 DEF Indexed, CertsIndexed, Customer
    <3>5. state'[<<"customer", id>>] # Nil /\ state'[<<"customer", id>>].cert = c
      <4>1. CASE id = e.id
        BY <1>1, <1>5, <1>7, <3>2, <3>4, <4>1
      <4>2. CASE id # e.id
        BY <1>8, <3>3, <3>4, <4>2
      <4> QED
        BY <4>1, <4>2
    <3> QED
      BY <3>2, <3>5
  <2> QED
    BY <2>1, <2>2
<1>13. NumbersIndexed'
  BY <1>11 DEF NumbersIndexed
<1>14. CertsIndexed'
  BY <1>12 DEF CertsIndexed, Customer
<1>15. IdsIndexed'
  <2>1. \A c \in Customers : state'[<<"id", c>>] = state[<<"id", c>>]
    <3>1. \A c \in Customers : <<"id", c>> \notin DOMAIN rw.writes
      BY <1>3 DEF EditsKeys
    <3> QED
      BY <3>1, KeyFacts DEF Applies
  <2>2. \A c \in Customers : state'[<<"customer", c>>] = Nil <=> state[<<"customer", c>>] = Nil
    BY <1>1, <1>3, <1>5, <1>7, <1>8
  <2> QED
    BY <2>1, <2>2 DEF Indexed, IdsIndexed, Customer
<1> QED
  BY <1>10, <1>13, <1>14, <1>15 DEF Indexed

-----------------------------------------------------------------------------
(* The steps. *)

\* What a commit does: the transaction is applied if what it read is current.
LEMMA CommitIs ==
  ASSUME GovernanceInv, NEW u \in DOMAIN load.ops, Commit(u)
  PROVE  /\ load' = load /\ fs' = fs /\ tx[u] = "endorsed" /\ u # Nil
         /\ tx' = [tx EXCEPT ![u] = IF Fresh(u) THEN "valid" ELSE "invalid"]
         /\ sim' = [sim EXCEPT ![u] = Nil]
         /\ ~Fresh(u) => UNCHANGED ledgerVars
         /\ Fresh(u) => Applies(sim[u].rw, u) /\ Effect(sim[u].rw) /\ CountOK(sim[u])
<1>1. u # Nil
  BY WorkloadAssumption DEF GovernanceInv, VersionsOK
<1>2. Fresh(u) /\ tx[u] = "endorsed" => Effect(sim[u].rw) /\ CountOK(sim[u])
  BY DEF GovernanceInv, EndorsedOK
<1> QED
  BY <1>1, <1>2 DEF Commit, Fresh, Applies

\* A commit keeps the versions to those of valid transactions.
LEMMA CommitVersions ==
  ASSUME GovernanceInv, NEW u \in DOMAIN load.ops, Commit(u)
  PROVE  VersionsOK'
<1>1. VersionsOK
  BY DEF GovernanceInv
<1>2. /\ load' = load /\ tx[u] = "endorsed"
      /\ tx' = [tx EXCEPT ![u] = IF Fresh(u) THEN "valid" ELSE "invalid"]
      /\ sim' = [sim EXCEPT ![u] = Nil]
  BY CommitIs
<1>3. \A v \in DOMAIN load.ops : v # u => tx'[v] = tx[v] /\ sim'[v] = sim[v]
  BY <1>1, <1>2 DEF VersionsOK
<1>4. tx'[u] = IF Fresh(u) THEN "valid" ELSE "invalid"
  BY <1>1, <1>2 DEF VersionsOK
<1>5. ASSUME NEW v, IsVersion(v) PROVE IsVersion(v)'
  BY <1>2, <1>3, <1>5 DEF IsVersion
<1>6. tx' \in [DOMAIN load'.ops -> {"new", "endorsed", "valid", "invalid"}]
  BY <1>1, <1>2 DEF VersionsOK
<1>7. sim' = [t \in DOMAIN load'.ops |-> sim'[t]]
  BY <1>1, <1>2 DEF VersionsOK
<1>8. version' = [k \in Keys |-> version'[k]] /\ \A k \in Keys : version'[k] = version[k] \/ (Fresh(u) /\ version'[k] = u)
  <2>1. CASE Fresh(u)
    BY <2>1, CommitIs, SMT DEF Applies
  <2>2. CASE ~Fresh(u)
    BY <1>1, <2>2, CommitIs DEF ledgerVars, VersionsOK
  <2> QED
    BY <2>1, <2>2
<1>9. ASSUME NEW k \in Keys PROVE IsVersion(version[k])'
  <2>1. IsVersion(version[k])
    BY <1>1 DEF VersionsOK
  <2>2. PICK v : v = version'[k]
    OBVIOUS
  <2>3. IsVersion(v)'
    <3>1. CASE v = version[k]
      BY <1>5, <2>1, <3>1
    <3>2. CASE Fresh(u) /\ v = u
      BY <1>2, <1>4, <3>2 DEF IsVersion
    <3> QED
      BY <1>8, <2>2, <3>1, <3>2
  <2> QED
    BY <2>2, <2>3 DEF IsVersion
<1>10. ASSUME NEW t \in DOMAIN load'.ops, tx'[t] = "endorsed"
       PROVE  /\ sim'[t].rw.reads \subseteq Keys
              /\ \A k \in sim'[t].rw.reads : IsVersion(sim[t].at[k])'
  <2>1. t # u /\ t \in DOMAIN load.ops
    BY <1>2, <1>4, <1>10, SMT
  <2>2. PICK s : s = sim[t]
    OBVIOUS
  <2>3. sim'[t] = s /\ tx[t] = "endorsed"
    BY <1>3, <1>10, <2>1, <2>2
  <2>4. s.rw.reads \subseteq Keys /\ \A k \in s.rw.reads : IsVersion(s.at[k])
    BY <1>1, <2>1, <2>2, <2>3 DEF VersionsOK
  <2>5. \A k \in s.rw.reads : IsVersion(s.at[k])'
    BY <1>2, <1>3, <2>4 DEF IsVersion
  <2> QED
    BY <2>3, <2>4, <2>5 DEF IsVersion
<1>11. load' \in Workloads
  BY <1>1, <1>2 DEF VersionsOK
<1>12. \A t \in DOMAIN load'.ops : tx'[t] = "endorsed" =>
         /\ sim'[t].rw.reads \subseteq Keys
         /\ \A k \in sim'[t].rw.reads : IsVersion(sim[t].at[k])'
  BY <1>10
<1> QED
  BY <1>6, <1>7, <1>8, <1>9, <1>11, <1>12 DEF VersionsOK

\* A transaction that waits read nothing a valid one writes, if it is still fresh.
LEMMA FreshAfter ==
  ASSUME GovernanceInv, NEW u \in DOMAIN load.ops, Commit(u),
         NEW t \in DOMAIN load.ops, tx'[t] = "endorsed", Fresh(t)'
  PROVE  /\ t # u /\ sim'[t] = sim[t] /\ tx[t] = "endorsed" /\ Fresh(t)
         /\ Fresh(u) => \A k \in sim[t].rw.reads : k \in Keys /\ k \notin DOMAIN sim[u].rw.writes
<1>1. VersionsOK
  BY DEF GovernanceInv
<1>2. /\ tx[u] = "endorsed" /\ u # Nil
      /\ tx' = [tx EXCEPT ![u] = IF Fresh(u) THEN "valid" ELSE "invalid"]
      /\ sim' = [sim EXCEPT ![u] = Nil]
  BY CommitIs
<1>3. t # u
  BY <1>1, <1>2 DEF VersionsOK
<1>4. sim'[t] = sim[t] /\ tx[t] = "endorsed"
  BY <1>1, <1>2, <1>3 DEF VersionsOK
<1>5. /\ sim[t].rw.reads \subseteq Keys
      /\ \A k \in sim[t].rw.reads : sim[t].at[k] # u
  <2>1. /\ sim[t].rw.reads \subseteq Keys
        /\ \A k \in sim[t].rw.reads : IsVersion(sim[t].at[k])
    BY <1>1, <1>4 DEF VersionsOK
  <2> QED
    BY <1>2, <2>1 DEF IsVersion
<1>6. \A k \in sim[t].rw.reads : version'[k] = sim[t].at[k]
  BY <1>4 DEF Fresh
<1>7. CASE Fresh(u)
  <2>1. \A k \in Keys : version'[k] = IF k \in DOMAIN sim[u].rw.writes THEN u ELSE version[k]
    <3>1. Applies(sim[u].rw, u)
      BY <1>7, CommitIs
    <3> QED
      BY <3>1 DEF Applies
  <2>2. \A k \in sim[t].rw.reads : k \notin DOMAIN sim[u].rw.writes /\ version[k] = sim[t].at[k]
    BY <1>5, <1>6, <2>1
  <2> QED
    BY <1>3, <1>4, <1>5, <2>2 DEF Fresh
<1>8. CASE ~Fresh(u)
  BY <1>3, <1>4, <1>6, <1>8, CommitIs DEF ledgerVars, Fresh
<1> QED
  BY <1>7, <1>8

\* A commit leaves the read and write sets that are still fresh their effect and their count.
LEMMA CommitEndorsed ==
  ASSUME GovernanceInv, NEW u \in DOMAIN load.ops, Commit(u)
  PROVE  EndorsedOK'
<1>1. load' = load
  BY CommitIs
<1>2. ASSUME NEW t \in DOMAIN load.ops, tx'[t] = "endorsed", Fresh(t)'
      PROVE  \A s \in {sim'[t]} : Effect(s.rw)' /\ CountOK(s)'
  <2>1. PICK s : s = sim[t]
    OBVIOUS
  <2>2. /\ sim'[t] = s /\ tx[t] = "endorsed" /\ Fresh(t)
        /\ Fresh(u) => \A k \in s.rw.reads : k \in Keys /\ k \notin DOMAIN sim[u].rw.writes
    BY <1>2, <2>1, FreshAfter
  <2>3. Effect(s.rw) /\ CountOK(s)
    BY <2>1, <2>2 DEF GovernanceInv, EndorsedOK
  <2>4. Effect(s.rw)' /\ CountOK(s)'
    <3>1. CASE Fresh(u)
      <4>1. PICK rw : rw = sim[u].rw
        OBVIOUS
      <4>2. Applies(rw, u) /\ Effect(rw)
        BY <3>1, <4>1, CommitIs
      <4>3. \A k \in s.rw.reads : k \in Keys /\ k \notin DOMAIN rw.writes
        BY <2>2, <3>1, <4>1
      <4>4. \A k \in s.rw.reads : state'[k] = state[k]
        BY <4>2, <4>3 DEF Applies
      <4>5. Grows
        BY <4>2, HistoryGrows DEF GovernanceInv
      <4>6. Effect(s.rw)'
        <5>1. PICK r : r = s.rw
          OBVIOUS
        <5> QED
          BY <2>3, <4>4, <4>5, <5>1, EffectStable
      <4>7. \A c \in Counted(s.rw) : <<<<"type_status", 1, 1>>, c>> \in lists'
        <5> SUFFICES ASSUME NEW c \in Counted(s.rw)
                     PROVE  <<<<"type_status", 1, 1>>, c>> \in lists'
          OBVIOUS
        <5>1. /\ c \in Customers /\ <<"customer", c>> \in s.rw.reads
              /\ <<<<"type_status", 1, 1>>, c>> \in lists
          BY DEF Counted
        <5>2. <<"customer", c>> \notin DOMAIN rw.writes
          BY <4>3, <5>1
        <5> QED
          BY <4>2, <5>1, <5>2, LeavesWritten
      <4>8. CountOK(s)'
        BY <2>3, <4>7, CountStable
      <4> QED
        BY <4>6, <4>8
    <3>2. CASE ~Fresh(u)
      <4>1. state' = state /\ lists' = lists /\ history' = history
        BY <3>2, CommitIs DEF ledgerVars
      <4>2. Effect(s.rw)'
        BY <2>3, <4>1, EffectStable DEF Grows
      <4>3. CountOK(s)'
        BY <2>3, <4>1, CountStable DEF Counted
      <4> QED
        BY <4>2, <4>3
    <3> QED
      BY <3>1, <3>2
  <2> QED
    BY <2>2, <2>4
<1> QED
  BY <1>1, <1>2 DEF EndorsedOK

\* The registry and its indices depend on the state and the lists.
LEMMA SameIndexed ==
  ASSUME CustomersIndexed, NumbersIndexed, state' = state, lists' = lists
  PROVE  CustomersIndexed' /\ NumbersIndexed'
<1>1. NumbersIndexed'
  BY DEF NumbersIndexed, Customer
<1>2. CustomersIndexed'
  BY DEF CustomersIndexed, Customer, CustomerLists, Entries
<1> QED
  BY <1>1, <1>2

\* A commit keeps the invariant.
LEMMA CommitKeeps ==
  ASSUME GovernanceInv, NEW u \in DOMAIN load.ops, Commit(u)
  PROVE  GovernanceInv'
<1>1. StateOK /\ CustomersIndexed /\ NumbersIndexed /\ Indexed
  BY IndexedIs DEF GovernanceInv
<1>2. CASE Fresh(u)
  <2>1. PICK rw : rw = sim[u].rw
    OBVIOUS
  <2>2. Applies(rw, u) /\ Effect(rw) /\ fs' = fs
    BY <1>2, <2>1, CommitIs
  <2>3. StateOK'
    BY <1>1, <2>2, StateOKAfter
  <2>4. Indexed'
    <3>1. CASE Untouched(rw)
      BY <1>1, <2>2, <2>3, <3>1, UntouchedIndexed
    <3>2. ASSUME NEW e \in Registration, Registers(rw, e) PROVE Indexed'
      BY <1>1, <2>2, <2>3, <3>2, RegistersIndexed
    <3>3. ASSUME NEW e \in Edit, Edits(rw, e) PROVE Indexed'
      BY <1>1, <2>2, <2>3, <3>3, EditsIndexed DEF Effect
    <3> QED
      BY <2>2, <3>1, <3>2, <3>3 DEF Effect
  <2> QED
    BY <2>3, <2>4, IndexedIsNext, CommitVersions, CommitEndorsed DEF GovernanceInv
<1>3. CASE ~Fresh(u)
  <2>1. state' = state /\ lists' = lists /\ history' = history /\ fs' = fs
    BY <1>3, CommitIs DEF ledgerVars
  <2>2. StateOK'
    BY <1>1, <2>1 DEF StateOK, IsValue
  <2>3. CustomersIndexed' /\ NumbersIndexed'
    BY <1>1, <2>1, SameIndexed
  <2> QED
    BY <2>2, <2>3, CommitVersions, CommitEndorsed DEF GovernanceInv
<1> QED
  BY <1>2, <1>3

\* As long as the ledger does not change, what holds of it and of a transaction holds on.
LEMMA SameLedger ==
  ASSUME GovernanceInv, UNCHANGED ledgerVars
  PROVE  /\ CustomersIndexed' /\ NumbersIndexed'
         /\ \A s : Effect(s.rw) /\ CountOK(s) => Effect(s.rw)' /\ CountOK(s)'
<1>1. state' = state /\ lists' = lists /\ history' = history
  BY DEF ledgerVars
<1>2. CustomersIndexed' /\ NumbersIndexed'
  BY <1>1, SameIndexed DEF GovernanceInv
<1>3. ASSUME NEW s, Effect(s.rw), CountOK(s) PROVE Effect(s.rw)' /\ CountOK(s)'
  <2>1. Effect(s.rw)'
    BY <1>1, <1>3, EffectStable DEF Grows
  <2>2. CountOK(s)'
    BY <1>1, <1>3, CountStable DEF Counted
  <2> QED
    BY <2>1, <2>2
<1> QED
  BY <1>2, <1>3

\* An endorsement keeps the invariant.
LEMMA EndorseKeeps ==
  ASSUME GovernanceInv, NEW u \in DOMAIN load.ops, NEW p \in Peers, Endorse(u, p)
  PROVE  GovernanceInv'
<1>1. StateOK /\ VersionsOK /\ EndorsedOK
  BY DEF GovernanceInv
<1>2. PICK n \in Counts(load.ops[u]), page \in QueryAllPages :
        /\ Simulate(p, load.ops[u], n, page).end = "success"
        /\ sim' = [sim EXCEPT ![u] =
                     [rw |-> Simulate(p, load.ops[u], n, page), n |-> n,
                      at |-> [k \in Simulate(p, load.ops[u], n, page).reads |-> version[k]]]]
  BY DEF Endorse
<1>3. PICK rw : rw = Simulate(p, load.ops[u], n, page)
  OBVIOUS
<1>4. PICK s : s = [rw |-> rw, n |-> n, at |-> [k \in rw.reads |-> version[k]]]
  OBVIOUS
<1>5. /\ tx[u] = "new" /\ tx' = [tx EXCEPT ![u] = "endorsed"] /\ sim' = [sim EXCEPT ![u] = s]
      /\ load' = load /\ fs' = fs /\ UNCHANGED ledgerVars
      /\ state' = state /\ lists' = lists /\ history' = history /\ version' = version
  <2>1. sim' = [sim EXCEPT ![u] = s]
    BY <1>2, <1>3, <1>4
  <2>2. /\ tx[u] = "new" /\ tx' = [tx EXCEPT ![u] = "endorsed"] /\ load' = load /\ fs' = fs
        /\ state' = state /\ lists' = lists /\ history' = history /\ version' = version
    BY DEF Endorse
  <2> QED
    BY <2>1, <2>2 DEF ledgerVars
<1>6. load.ops[u] \in Operation
  BY <1>1, WorkloadAssumption DEF VersionsOK
<1>7. rw.reads \subseteq Keys /\ Effect(rw) /\ Number(n, Counted(rw))
  BY <1>1, <1>2, <1>3, <1>6, SimulateEffect
<1>8. s.rw = rw /\ s.n = n /\ s.at = [k \in rw.reads |-> version[k]]
  BY <1>4
<1>9. Effect(s.rw) /\ CountOK(s)
  BY <1>7, <1>8 DEF CountOK
<1>10. /\ sim'[u] = s /\ tx'[u] = "endorsed"
       /\ \A t \in DOMAIN load.ops : t # u => sim'[t] = sim[t] /\ tx'[t] = tx[t]
  BY <1>1, <1>5 DEF VersionsOK
<1>11. StateOK'
  BY <1>1, <1>5 DEF StateOK, IsValue
<1>12. VersionsOK'
  <2>1. \A v : IsVersion(v) => IsVersion(v)'
    BY <1>5, <1>10 DEF IsVersion
  <2>2. /\ load' \in Workloads
        /\ tx' \in [DOMAIN load'.ops -> {"new", "endorsed", "valid", "invalid"}]
        /\ sim' = [t \in DOMAIN load'.ops |-> sim'[t]]
        /\ version' = [k \in Keys |-> version'[k]]
    BY <1>1, <1>5 DEF VersionsOK
  <2>3. \A k \in Keys : IsVersion(version[k])'
    BY <1>1, <1>5, <1>10 DEF VersionsOK, IsVersion
  <2>4. ASSUME NEW t \in DOMAIN load'.ops, tx'[t] = "endorsed"
        PROVE  /\ sim'[t].rw.reads \subseteq Keys
               /\ \A k \in sim'[t].rw.reads : IsVersion(sim[t].at[k])'
    <3>1. PICK r : r = sim'[t]
      OBVIOUS
    <3>2. r.rw.reads \subseteq Keys /\ \A k \in r.rw.reads : IsVersion(r.at[k])
      <4>1. CASE t = u
        <5>1. r = s
          BY <1>10, <3>1, <4>1
        <5>2. \A k \in rw.reads : s.at[k] = version[k] /\ IsVersion(version[k])
          BY <1>1, <1>7, <1>8 DEF VersionsOK
        <5> QED
          BY <1>7, <1>8, <5>1, <5>2
      <4>2. CASE t # u
        BY <1>1, <1>5, <1>10, <2>4, <3>1, <4>2 DEF VersionsOK
      <4> QED
        BY <4>1, <4>2
    <3>3. \A k \in r.rw.reads : IsVersion(r.at[k])'
      BY <1>5, <1>10, <3>2 DEF IsVersion
    <3> QED
      BY <3>1, <3>2, <3>3 DEF IsVersion
  <2>5. \A t \in DOMAIN load'.ops : tx'[t] = "endorsed" =>
          /\ sim'[t].rw.reads \subseteq Keys
          /\ \A k \in sim'[t].rw.reads : IsVersion(sim[t].at[k])'
    BY <2>4
  <2> QED
    BY <2>2, <2>3, <2>5 DEF VersionsOK
<1>13. EndorsedOK'
  <2>1. ASSUME NEW t \in DOMAIN load.ops, tx'[t] = "endorsed", Fresh(t)'
        PROVE  \A r \in {sim'[t]} : Effect(r.rw)' /\ CountOK(r)'
    <3>1. PICK r : r = sim'[t]
      OBVIOUS
    <3>2. Effect(r.rw) /\ CountOK(r)
      <4>1. CASE t = u
        BY <1>9, <1>10, <3>1, <4>1
      <4>2. CASE t # u
        <5>1. sim[t] = r /\ tx[t] = "endorsed"
          BY <1>10, <2>1, <3>1, <4>2
        <5>2. Fresh(t)
          BY <1>5, <2>1, <3>1, <5>1 DEF Fresh
        <5> QED
          BY <1>1, <5>1, <5>2 DEF EndorsedOK
      <4> QED
        BY <4>1, <4>2
    <3>3. Effect(r.rw)' /\ CountOK(r)'
      BY <1>5, <3>2, SameLedger
    <3> QED
      BY <3>1, <3>3
  <2> QED
    BY <1>5, <2>1 DEF EndorsedOK
<1> QED
  BY <1>5, <1>11, <1>12, <1>13, SameLedger DEF GovernanceInv

\* What a peer does by itself touches neither the ledger nor the transactions.
LEMMA PeerKeeps ==
  ASSUME GovernanceInv, UNCHANGED <<state, lists, history, version, load, tx, sim>>,
         fs' \in [Peers -> [Names -> CCPackage \cup {Nil}]]
  PROVE  GovernanceInv'
<1>1. /\ state' = state /\ lists' = lists /\ history' = history /\ version' = version
      /\ load' = load /\ tx' = tx /\ sim' = sim /\ UNCHANGED ledgerVars
  BY DEF ledgerVars
<1>2. StateOK'
  BY <1>1 DEF GovernanceInv, StateOK, IsValue
<1>3. VersionsOK'
  <2>1. VersionsOK
    BY DEF GovernanceInv
  <2>2. /\ load' \in Workloads
        /\ tx' \in [DOMAIN load'.ops -> {"new", "endorsed", "valid", "invalid"}]
        /\ sim' = [t \in DOMAIN load'.ops |-> sim'[t]]
        /\ version' = [k \in Keys |-> version'[k]]
    BY <1>1, <2>1 DEF VersionsOK
  <2>3. \A k \in Keys : IsVersion(version[k])'
    BY <1>1, <2>1 DEF VersionsOK, IsVersion
  <2>4. \A t \in DOMAIN load'.ops : tx'[t] = "endorsed" =>
          /\ sim'[t].rw.reads \subseteq Keys
          /\ \A k \in sim'[t].rw.reads : IsVersion(sim[t].at[k])'
    <3>1. ASSUME NEW t \in DOMAIN load'.ops, tx'[t] = "endorsed"
          PROVE  /\ sim'[t].rw.reads \subseteq Keys
                 /\ \A k \in sim'[t].rw.reads : IsVersion(sim[t].at[k])'
      <4>1. PICK r : r = sim[t]
        OBVIOUS
      <4>2. r.rw.reads \subseteq Keys /\ \A k \in r.rw.reads : IsVersion(r.at[k])
        <5>1. t \in DOMAIN load.ops /\ tx[t] = "endorsed"
          BY <1>1, <3>1
        <5>2. sim[t].rw.reads \subseteq Keys /\ \A k \in sim[t].rw.reads : IsVersion(sim[t].at[k])
          BY <2>1, <5>1 DEF VersionsOK
        <5> QED
          BY <4>1, <5>2
      <4>3. \A k \in r.rw.reads : IsVersion(r.at[k])'
        BY <1>1, <4>2 DEF IsVersion
      <4> QED
        BY <1>1, <4>1, <4>2, <4>3 DEF IsVersion
    <3> QED
      BY <3>1
  <2> QED
    BY <2>2, <2>3, <2>4 DEF VersionsOK
<1>4. EndorsedOK'
  <2>1. ASSUME NEW t \in DOMAIN load.ops, tx'[t] = "endorsed", Fresh(t)'
        PROVE  \A r \in {sim'[t]} : Effect(r.rw)' /\ CountOK(r)'
    <3>1. PICK r : r = sim'[t]
      OBVIOUS
    <3>2. sim[t] = r /\ tx[t] = "endorsed" /\ Fresh(t)
      BY <1>1, <2>1, <3>1 DEF Fresh
    <3>3. Effect(r.rw) /\ CountOK(r)
      BY <3>2 DEF GovernanceInv, EndorsedOK
    <3>4. Effect(r.rw)' /\ CountOK(r)'
      BY <1>1, <3>3, SameLedger
    <3> QED
      BY <3>1, <3>4
  <2> QED
    BY <1>1, <2>1 DEF EndorsedOK
<1> QED
  BY <1>1, <1>2, <1>3, <1>4, SameLedger DEF GovernanceInv

\* The founders are in the lists and indices of their entities.
LEMMA InitIndexed ==
  ASSUME Init
  PROVE  StateOK /\ CustomersIndexed /\ NumbersIndexed
<1> DEFINE F == DOMAIN load.founders
<1>1. /\ \A c \in F : c \in Customers /\ Founder(c) \in CustomerEntity
      /\ \A c, d \in F : Founder(c).no = Founder(d).no => c = d
  BY WorkloadAssumption DEF Init, Founder
<1>2. state = [k \in Keys |->
        IF k[1] = "customer" /\ k[2] \in F THEN Founder(k[2])
        ELSE IF k[1] = "id" /\ k[2] \in F THEN k[2]
        ELSE IF k[1] = "no" /\ (\E c \in F : Founder(c).no = k[2])
        THEN CHOOSE c \in F : Founder(c).no = k[2]
        ELSE IF k[1] = "cert" /\ (\E c \in F : Founder(c).cert = k[2])
        THEN CHOOSE c \in F : Founder(c).cert = k[2]
        ELSE Nil]
  BY DEF Init
<1>3. /\ lists = {<<<<"all">>, c>> : c \in F}
                   \cup {<<<<"status", Founder(c).status>>, c>> : c \in F}
                   \cup UNION {{<<l, c>> : l \in Entries(Founder(c))} : c \in F}
      /\ history = [c \in Chaincodes |-> << >>] /\ fs = [p \in Peers |-> [n \in Names |-> Nil]]
  BY DEF Init
<1> HIDE DEF F
<1>4. \A c \in Customers : state[<<"customer", c>>] = IF c \in F THEN Founder(c) ELSE Nil
  <2> SUFFICES ASSUME NEW c \in Customers
               PROVE  state[<<"customer", c>>] = IF c \in F THEN Founder(c) ELSE Nil
    OBVIOUS
  <2> DEFINE k == <<"customer", c>>
  <2>1. k \in Keys /\ k[1] = "customer" /\ k[2] = c
    BY KeyFacts
  <2> HIDE DEF k
  <2>2. state[k] = IF c \in F THEN Founder(c) ELSE Nil
    BY <1>2, <2>1
  <2> QED
    BY <2>2 DEF k
<1>5. \A n \in Numbers : \/ state[<<"no", n>>] = Nil /\ ~\E c \in F : Founder(c).no = n
                         \/ state[<<"no", n>>] \in F /\ Founder(state[<<"no", n>>]).no = n
  <2> SUFFICES ASSUME NEW n \in Numbers
               PROVE  \/ state[<<"no", n>>] = Nil /\ ~\E c \in F : Founder(c).no = n
                      \/ state[<<"no", n>>] \in F /\ Founder(state[<<"no", n>>]).no = n
    OBVIOUS
  <2> DEFINE k == <<"no", n>>
             f == CHOOSE c \in F : Founder(c).no = k[2]
  <2>1. k \in Keys /\ k[1] = "no" /\ k[2] = n
    BY KeyFacts
  <2> HIDE DEF k
  <2>2. state[k] = IF \E c \in F : Founder(c).no = k[2] THEN f ELSE Nil
    BY <1>2, <2>1
  <2>3. (\E c \in F : Founder(c).no = k[2]) => f \in F /\ Founder(f).no = k[2]
    OBVIOUS
  <2> HIDE DEF f
  <2>4. CASE \E c \in F : Founder(c).no = n
    <3>1. state[k] = f
      BY <2>1, <2>2, <2>4
    <3>2. f \in F /\ Founder(f).no = n
      BY <2>1, <2>3, <2>4
    <3> QED
      BY <3>1, <3>2 DEF k
  <2>5. CASE ~\E c \in F : Founder(c).no = n
    <3>1. state[k] = Nil
      BY <2>1, <2>2, <2>5
    <3> QED
      BY <2>5, <3>1 DEF k
  <2> QED
    BY <2>4, <2>5
<1>6. \A n \in Certs : \/ state[<<"cert", n>>] = Nil
                       \/ state[<<"cert", n>>] \in F /\ Founder(state[<<"cert", n>>]).cert = n
  <2> SUFFICES ASSUME NEW n \in Certs
               PROVE  \/ state[<<"cert", n>>] = Nil
                      \/ state[<<"cert", n>>] \in F /\ Founder(state[<<"cert", n>>]).cert = n
    OBVIOUS
  <2> DEFINE k == <<"cert", n>>
             f == CHOOSE c \in F : Founder(c).cert = k[2]
  <2>1. k \in Keys /\ k[1] = "cert" /\ k[2] = n
    BY KeyFacts
  <2> HIDE DEF k
  <2>2. state[k] = IF \E c \in F : Founder(c).cert = k[2] THEN f ELSE Nil
    BY <1>2, <2>1
  <2>3. (\E c \in F : Founder(c).cert = k[2]) => f \in F /\ Founder(f).cert = k[2]
    OBVIOUS
  <2> HIDE DEF f
  <2>4. CASE \E c \in F : Founder(c).cert = n
    <3>1. state[k] = f
      BY <2>1, <2>2, <2>4
    <3>2. f \in F /\ Founder(f).cert = n
      BY <2>1, <2>3, <2>4
    <3> QED
      BY <3>1, <3>2 DEF k
  <2>5. CASE ~\E c \in F : Founder(c).cert = n
    <3>1. state[k] = Nil
      BY <2>1, <2>2, <2>5
    <3> QED
      BY <2>5, <3>1 DEF k
  <2> QED
    BY <2>4, <2>5
<1>7. /\ \A n \in Approvals : state[<<"approval", n>>] = Nil
      /\ \A n \in Chaincodes : state[<<"cc", n>>] = Nil
  BY <1>2, KeyFacts
<1>15. \A c \in Customers : state[<<"id", c>>] = IF c \in F THEN c ELSE Nil
  <2> SUFFICES ASSUME NEW c \in Customers
               PROVE  state[<<"id", c>>] = IF c \in F THEN c ELSE Nil
    OBVIOUS
  <2> DEFINE k == <<"id", c>>
  <2>1. k \in Keys /\ k[1] = "id" /\ k[2] = c
    BY KeyFacts
  <2> HIDE DEF k
  <2>2. state[k] = IF c \in F THEN c ELSE Nil
    BY <1>2, <2>1
  <2> QED
    BY <2>2 DEF k
<1>8. StateOK
  <2>1. \A k \in Keys : state[k] = Nil \/ IsValue(k, state[k])
    <3> SUFFICES ASSUME NEW k \in Keys PROVE state[k] = Nil \/ IsValue(k, state[k])
      OBVIOUS
    <3>1. CASE k \in {"customer"} \X Customers
      BY <1>1, <1>4, <3>1, SMT DEF IsValue
    <3>2. CASE k \in {"no"} \X Numbers
      BY <1>1, <1>5, <3>2, SMT DEF IsValue
    <3>3. CASE k \in {"cert"} \X Certs
      BY <1>1, <1>6, <3>3, SMT DEF IsValue
    <3>4. CASE k \in ChaincodeKeys \cup ApprovalKeys
      BY <1>7, <3>4, SMT DEF ChaincodeKeys, ApprovalKeys
    <3>5. CASE k \in {"id"} \X Customers
      BY <1>15, <3>5, SMT DEF IsValue
    <3> QED
      BY <3>1, <3>2, <3>3, <3>4, <3>5 DEF Keys, CustomerKeys
  <2>2. \A m \in lists : m = <<m[1], m[2]>>
    BY <1>3, SMT
  <2>3. history \in [Chaincodes -> Histories]
    BY <1>3, SMT DEF Histories
  <2>4. fs \in [Peers -> [Names -> CCPackage \cup {Nil}]]
    BY <1>3
  <2>5. state = [k \in Keys |-> state[k]]
    BY <1>2
  <2> QED
    BY <2>1, <2>2, <2>3, <2>4, <2>5 DEF StateOK
<1>9. \A c \in Customers : Customer(c) # Nil <=> c \in F
  <2> SUFFICES ASSUME NEW c \in Customers PROVE Customer(c) # Nil <=> c \in F
    OBVIOUS
  <2>1. Customer(c) = IF c \in F THEN Founder(c) ELSE Nil
    BY <1>4 DEF Customer
  <2>2. c \in F => Founder(c) # Nil
    BY <1>1, GovernanceAssumption
  <2> QED
    BY <2>1, <2>2
<1>10. \A c \in F : Customer(c) = Founder(c) /\ Customer(c).no \in Numbers
  <2> SUFFICES ASSUME NEW c \in F PROVE Customer(c) = Founder(c) /\ Customer(c).no \in Numbers
    OBVIOUS
  <2>1. c \in Customers /\ Founder(c).no \in Numbers
    BY <1>1 DEF CustomerEntity
  <2>2. Customer(c) = IF c \in F THEN Founder(c) ELSE Nil
    BY <1>4, <2>1 DEF Customer
  <2> QED
    BY <2>1, <2>2
<1>11. NumbersIndexed
  <2> SUFFICES ASSUME NEW c \in Customers, Customer(c) # Nil
               PROVE  state[<<"no", Customer(c).no>>] = c
    BY DEF NumbersIndexed
  <2>1. c \in F /\ Customer(c) = Founder(c) /\ Founder(c).no \in Numbers
    BY <1>9, <1>10
  <2> QED
    BY <1>1, <1>5, <2>1
<1>12. CertsIndexed
  <2> SUFFICES ASSUME NEW c \in Certs, state[<<"cert", c>>] # Nil
               PROVE  Customer(state[<<"cert", c>>]) # Nil /\ Customer(state[<<"cert", c>>]).cert = c
    BY DEF CertsIndexed
  <2> QED
    BY <1>1, <1>6, <1>9, <1>10
<1>13. ASSUME NEW c \in Customers PROVE InLists(c)
  <2>1. \A l : l \in CustomerLists(c) <=> l[1] # "approval" /\ <<l, c>> \in lists
    BY <1>8, Firsts DEF StateOK, CustomerLists
  <2>2. CASE c \notin F
    <3>1. \A l : <<l, c>> \notin lists
      BY <1>3, <2>2, SMT
    <3>2. CustomerLists(c) = {}
      BY <2>1, <3>1
    <3> QED
      BY <1>9, <2>2, <3>2 DEF InLists
  <2>3. CASE c \in F
    <3> DEFINE N == {<<"all">>} \cup {<<"status", s>> : s \in {Founder(c).status}} \cup Entries(Founder(c))
    <3>1. \A l : <<l, c>> \in lists <=> l \in N
      <4> SUFFICES ASSUME NEW l PROVE <<l, c>> \in lists <=> l \in N
        OBVIOUS
      <4>1. <<l, c>> \in {<<<<"all">>, d>> : d \in F} <=> l = <<"all">>
        BY <2>3
      <4>2. <<l, c>> \in {<<<<"status", Founder(d).status>>, d>> : d \in F} <=> l = <<"status", Founder(c).status>>
        BY <2>3
      <4>3. <<l, c>> \in UNION {{<<x, d>> : x \in Entries(Founder(d))} : d \in F} <=> l \in Entries(Founder(c))
        BY <2>3, SMT
      <4> QED
        BY <1>3, <4>1, <4>2, <4>3
    <3>2. \A l \in N : l[1] # "approval"
      BY SMT DEF Entries
    <3> HIDE DEF N
    <3>3. \A l : l \in CustomerLists(c) <=> l \in N
      BY <2>1, <3>1, <3>2
    <3>4. CustomerLists(c) = N
      <4>1. PICK L : L = CustomerLists(c)
        OBVIOUS
      <4>2. L = N
        BY <3>3, <4>1
      <4> QED
        BY <4>1, <4>2
    <3>5. {Founder(c).status} \in SUBSET Statuses /\ {Founder(c).status} # {}
      BY <1>1, <2>3 DEF CustomerEntity
    <3>6. ListsOf(Founder(c), N)
      <4> DEFINE S == {Founder(c).status}
      <4>1. S \in SUBSET Statuses /\ S # {}
        BY <3>5
      <4>2. N = {<<"all">>} \cup {<<"status", s>> : s \in S} \cup Entries(Founder(c))
        BY DEF N
      <4> HIDE DEF S
      <4> QED
        BY <4>1, <4>2 DEF ListsOf
    <3> QED
      BY <1>9, <1>10, <2>3, <3>4, <3>6 DEF InLists
  <2> QED
    BY <2>2, <2>3
<1>16. IdsIndexed
  BY <1>9, <1>15 DEF IdsIndexed
<1>14. CustomersIndexed
  BY <1>11, <1>12, <1>13, <1>16, IndexedIs DEF Indexed
<1> QED
  BY <1>8, <1>11, <1>14

\* The invariant holds initially.
LEMMA InitInv == Init => GovernanceInv
<1> SUFFICES ASSUME Init PROVE GovernanceInv
  OBVIOUS
<1>1. VersionsOK
  BY DEF Init, VersionsOK, IsVersion
<1>2. EndorsedOK
  BY DEF Init, EndorsedOK
<1> QED
  BY <1>1, <1>2, InitIndexed DEF GovernanceInv

\* Every step keeps the invariant.
LEMMA StepInv == GovernanceInv /\ [Next]_vars => GovernanceInv'
<1> SUFFICES ASSUME GovernanceInv, [Next]_vars PROVE GovernanceInv'
  OBVIOUS
<1>1. fs \in [Peers -> [Names -> CCPackage \cup {Nil}]]
  BY DEF GovernanceInv, StateOK
<1>2. ASSUME NEW t \in DOMAIN load.ops, NEW p \in Peers, Endorse(t, p) PROVE GovernanceInv'
  BY <1>2, EndorseKeeps
<1>3. ASSUME NEW t \in DOMAIN load.ops, Commit(t) PROVE GovernanceInv'
  BY <1>3, CommitKeeps
<1>4. ASSUME NEW p \in Peers, NEW n \in Names, NEW pack \in CCPackage, Install(p, n, pack)
      PROVE  GovernanceInv'
  <2>1. fs' = [fs EXCEPT ![p][n] = pack]
    BY <1>4 DEF Install, executeInstall, PutChaincodeToFS
  <2>2. fs' \in [Peers -> [Names -> CCPackage \cup {Nil}]]
    BY <1>1, <2>1
  <2> QED
    BY <1>4, <2>2, PeerKeeps DEF Install
<1>5. CASE UNCHANGED vars
  BY <1>1, <1>5, PeerKeeps DEF vars
<1> QED
  BY <1>2, <1>3, <1>4, <1>5 DEF Next

-----------------------------------------------------------------------------
(* The theorems. *)

\* The invariant, from which the properties follow.
THEOREM GovernanceInvariant == Spec => []GovernanceInv
BY InitInv, StepInv, PTL DEF Spec

\* register and modifyInfo keep the lists, the numbers and the index of certificates true to
\* the customers, whatever transactions are simulated and committed side by side.
THEOREM RegistryIndexed == Spec => []CustomersIndexed
<1>1. GovernanceInv => CustomersIndexed
  BY DEF GovernanceInv
<1> QED
  BY <1>1, GovernanceInvariant, PTL

\* A step other than the commit of a fresh transaction leaves the ledger and validates nothing.
LEMMA QuietStep ==
  ASSUME GovernanceInv, [Next]_vars,
         \A u \in DOMAIN load.ops : Commit(u) => ~Fresh(u)
  PROVE  /\ UNCHANGED ledgerVars
         /\ \A t \in DOMAIN load.ops : tx[t] = "endorsed" => tx'[t] # "valid"
<1>1. tx \in [DOMAIN load.ops -> {"new", "endorsed", "valid", "invalid"}]
  BY DEF GovernanceInv, VersionsOK
<1>2. ASSUME NEW t \in DOMAIN load.ops, NEW p \in Peers, Endorse(t, p)
      PROVE  UNCHANGED ledgerVars /\ tx' = [tx EXCEPT ![t] = "endorsed"]
  BY <1>2 DEF Endorse, ledgerVars
<1>3. ASSUME NEW u \in DOMAIN load.ops, Commit(u)
      PROVE  UNCHANGED ledgerVars /\ tx' = [tx EXCEPT ![u] = "invalid"]
  BY <1>3, CommitIs
<1>4. ASSUME NEW p \in Peers, NEW n \in Names, NEW pack \in CCPackage, Install(p, n, pack)
      PROVE  UNCHANGED ledgerVars /\ tx' = tx
  BY <1>4 DEF Install, ledgerVars
<1>5. ASSUME UNCHANGED vars PROVE UNCHANGED ledgerVars /\ tx' = tx
  BY <1>5 DEF vars, ledgerVars
<1>6. /\ UNCHANGED ledgerVars
      /\ tx' = tx \/ \E t \in DOMAIN load.ops : \E s \in {"endorsed", "invalid"} :
                       tx' = [tx EXCEPT ![t] = s]
  BY <1>2, <1>3, <1>4, <1>5 DEF Next
<1> QED
  BY <1>1, <1>6

\* An approval that passed or was rejected is never written again: a transaction that signs
\* it read it while it was pending, and is invalid once the verdict has committed.
THEOREM VerdictIsFinal == Spec => VerdictFinal
<1> DEFINE A == \A a \in Approvals :
                  Entity(a) # Nil /\ Entity(a).status # 1 =>
                    Entity(a)' = Entity(a) /\ version'[<<"approval", a>>] = version[<<"approval", a>>]
<1>1. ASSUME GovernanceInv, [Next]_vars PROVE A
  <2>1. CASE \A u \in DOMAIN load.ops : Commit(u) => ~Fresh(u)
    BY <1>1, <2>1, QuietStep DEF ledgerVars, Entity
  <2>2. ASSUME NEW u \in DOMAIN load.ops, Commit(u), Fresh(u),
               NEW a \in Approvals, Entity(a) # Nil, Entity(a).status # 1
        PROVE  Entity(a)' = Entity(a) /\ version'[<<"approval", a>>] = version[<<"approval", a>>]
    <3>1. Applies(sim[u].rw, u) /\ Decides(sim[u].rw)
      BY <1>1, <2>2, CommitIs DEF Effect
    <3>2. <<"approval", a>> \notin DOMAIN sim[u].rw.writes
      BY <2>2, <3>1 DEF Decides, Entity
    <3> QED
      BY <3>1, <3>2, KeyFacts DEF Applies, Entity
  <2> QED
    BY <2>1, <2>2
<1>2. GovernanceInv /\ [Next]_vars => [A]_vars
  BY <1>1
<1> HIDE DEF A
<1>3. Spec => [][A]_vars
  BY <1>2, GovernanceInvariant, PTL DEF Spec
<1> QED
  BY <1>3 DEF VerdictFinal, A

\* A customer becomes what the edit of the approval that passes in the same step makes of it,
\* and a chaincode what the payload of the call or an entry of the history says.
THEOREM ApprovedEffects == Spec => EffectsAsApproved
<1> DEFINE A ==
      /\ \A c \in Customers :
           Customer(c) # Nil /\ Customer(c)' # Customer(c) =>
             \E a \in Approvals :
               /\ Entity(a)' # Entity(a) /\ Entity(a)'.status = 2
               /\ Entity(a)'.call.kind = "modify" /\ Entity(a)'.call.edit.id = c
               /\ Customer(c)' = Edited(Customer(c), Entity(a)'.call.edit)
      /\ \A a \in Approvals :
           Entity(a)' # Entity(a) /\ Entity(a)'.status = 2 /\ IsUpdate(Entity(a)'.call) =>
             LET call == Entity(a)'.call
                 old  == state[<<"cc", call.cc>>]
                 cd   == state'[<<"cc", call.cc>>]
             IN  IF call.payload # Nil THEN cd = IF call.payload.scc THEN call.payload ELSE old
                 ELSE \/ cd = old
                      \/ \E i \in DOMAIN history[call.cc] :
                           history[call.cc][i] = cd /\ cd.version = call.v
<1>1. ASSUME GovernanceInv, [Next]_vars PROVE A
  <2>1. CASE \A u \in DOMAIN load.ops : Commit(u) => ~Fresh(u)
    <3>1. state' = state
      BY <1>1, <2>1, QuietStep DEF ledgerVars
    <3> QED
      BY <3>1 DEF Customer, Entity
  <2>2. ASSUME NEW u \in DOMAIN load.ops, Commit(u), Fresh(u) PROVE A
    <3>1. PICK rw : rw = sim[u].rw
      OBVIOUS
    <3>2. Applies(rw, u) /\ Effect(rw)
      BY <1>1, <2>2, <3>1, CommitIs
    <3>3. \A k \in Keys : state'[k] = IF k \in DOMAIN rw.writes THEN rw.writes[k] ELSE state[k]
      BY <3>2 DEF Applies
    <3>4. ASSUME NEW a \in Approvals, <<"approval", a>> \in DOMAIN rw.writes
          PROVE  IsApproval(rw.writes[<<"approval", a>>]) /\ rw.writes[<<"approval", a>>] # Nil
      <4>1. IsApproval(rw.writes[<<"approval", a>>])
        BY <3>2, <3>4 DEF Effect, Typed, IsValue
      <4> QED
        BY <4>1, GovernanceAssumption DEF IsApproval
    <3>5. ASSUME NEW c \in Customers, Customer(c) # Nil, Customer(c)' # Customer(c)
          PROVE  \E a \in Approvals :
                   /\ Entity(a)' # Entity(a) /\ Entity(a)'.status = 2
                   /\ Entity(a)'.call.kind = "modify" /\ Entity(a)'.call.edit.id = c
                   /\ Customer(c)' = Edited(Customer(c), Entity(a)'.call.edit)
      <4> DEFINE K == <<"customer", c>>
      <4>1. K \in DOMAIN rw.writes /\ rw.writes[K] # state[K] /\ state[K] # Nil
        BY <3>3, <3>5, KeyFacts DEF Customer
      <4>2. PICK e \in Edit : Edits(rw, e)
        <5>1. ~Untouched(rw)
          BY <4>1 DEF Untouched
        <5>2. \A e \in Registration : ~Registers(rw, e)
          BY <4>1, SMT DEF Registers, RegisteredKeys
        <5> QED
          BY <3>2, <5>1, <5>2 DEF Effect
      <4>3. PICK old : old = state[<<"customer", e.id>>]
        OBVIOUS
      <4>4. EditsKeys(rw, e, old) /\ (Edited(old, e) # old => Passes(rw, e))
        BY <4>2, <4>3 DEF Edits
      <4>5. c = e.id
        BY <4>1, <4>4 DEF EditsKeys
      <4>6. Passes(rw, e)
        BY <4>1, <4>3, <4>4, <4>5 DEF EditsKeys
      <4>7. PICK a \in Approvals :
              /\ <<"approval", a>> \in DOMAIN rw.writes
              /\ rw.writes[<<"approval", a>>].status = 2
              /\ rw.writes[<<"approval", a>>].call.kind = "modify"
              /\ rw.writes[<<"approval", a>>].call.edit = e
        BY <4>6 DEF Passes
      <4>8. Entity(a)' = rw.writes[<<"approval", a>>]
        BY <3>3, <4>7, KeyFacts DEF Entity
      <4>9. Entity(a)' # Entity(a)
        <5>1. Entity(a) = Nil \/ Entity(a).status = 1
          BY <3>2, <4>7 DEF Effect, Decides, Entity
        <5> QED
          BY <3>4, <4>7, <4>8, <5>1, SMT
      <4>10. Customer(c) = old /\ Customer(c)' = Edited(old, e)
        BY <3>3, <4>1, <4>3, <4>4, <4>5, KeyFacts DEF EditsKeys, Customer
      <4> QED
        BY <4>5, <4>7, <4>8, <4>9, <4>10
    <3>6. ASSUME NEW a \in Approvals, Entity(a)' # Entity(a), Entity(a)'.status = 2,
                 IsUpdate(Entity(a)'.call)
          PROVE  LET call == Entity(a)'.call
                     old  == state[<<"cc", call.cc>>]
                     cd   == state'[<<"cc", call.cc>>]
                 IN  IF call.payload # Nil THEN cd = IF call.payload.scc THEN call.payload ELSE old
                     ELSE \/ cd = old
                          \/ \E i \in DOMAIN history[call.cc] :
                               history[call.cc][i] = cd /\ cd.version = call.v
      <4>1. <<"approval", a>> \in DOMAIN rw.writes /\ Entity(a)' = rw.writes[<<"approval", a>>]
        BY <3>3, <3>6, KeyFacts DEF Entity
      <4>2. PICK new : new = rw.writes[<<"approval", a>>]
        OBVIOUS
      <4>3. PICK call : call = new.call
        OBVIOUS
      <4> DEFINE key == <<"cc", call.cc>>
      <4>4. new.status = 2 /\ IsUpdate(call) /\ call.cc \in Chaincodes
        <5>1. new.status = 2 /\ IsUpdate(call)
          BY <3>6, <4>1, <4>2, <4>3
        <5> QED
          BY <3>4, <4>1, <4>2, <4>3, <5>1 DEF IsApproval, IsCall
      <4>5. Updates(rw, call)
        BY <3>2, <4>1, <4>2, <4>3, <4>4 DEF Effect, Decides
      <4>6. state'[key] = IF key \in DOMAIN rw.writes THEN rw.writes[key] ELSE state[key]
        BY <3>3, <4>4, KeyFacts
      <4>7. IF call.payload # Nil
            THEN state'[key] = IF call.payload.scc THEN call.payload ELSE state[key]
            ELSE \/ state'[key] = state[key]
                 \/ \E i \in DOMAIN history[call.cc] :
                      history[call.cc][i] = state'[key] /\ state'[key].version = call.v
        BY <4>5, <4>6 DEF Updates
      <4> HIDE DEF key
      <4> QED
        BY <4>1, <4>2, <4>3, <4>7 DEF key
    <3> QED
      BY <3>5, <3>6
  <2> QED
    BY <2>1, <2>2
<1>2. GovernanceInv /\ [Next]_vars => [A]_vars
  BY <1>1
<1> HIDE DEF A
<1>3. Spec => [][A]_vars
  BY <1>2, GovernanceInvariant, PTL DEF Spec
<1> QED
  BY <1>3 DEF EffectsAsApproved, A

-----------------------------------------------------------------------------
(* Counting, which takes the facts on cardinalities. *)

INSTANCE FiniteSetTheorems

\* The number of super users a verdict was reckoned with, as far as it is within the page of
\* queryAll, is at most the number there is when the verdict commits: queryAll reads each of
\* the page, so that none of them has left.
THEOREM CountIsNotTooHigh == Spec => CountNotTooHigh
<1> DEFINE A == \A t \in DOMAIN load.ops :
                  tx[t] = "endorsed" /\ tx'[t] = "valid" => Paged(sim[t].n) <= queryAll
<1>1. ASSUME GovernanceInv, [Next]_vars PROVE A
  <2>1. CASE \A u \in DOMAIN load.ops : Commit(u) => ~Fresh(u)
    BY <1>1, <2>1, QuietStep
  <2>2. ASSUME NEW u \in DOMAIN load.ops, Commit(u), Fresh(u),
               NEW t \in DOMAIN load.ops, tx[t] = "endorsed", tx'[t] = "valid"
        PROVE  Paged(sim[t].n) <= queryAll
    <3>1. t = u
      <4>1. tx' = [tx EXCEPT ![u] = IF Fresh(u) THEN "valid" ELSE "invalid"]
        BY <1>1, <2>2, CommitIs
      <4>2. tx \in [DOMAIN load.ops -> {"new", "endorsed", "valid", "invalid"}]
        BY <1>1 DEF GovernanceInv, VersionsOK
      <4> QED
        BY <2>2, <4>1, <4>2
    <3>2. Number(sim[u].n, Counted(sim[u].rw))
      BY <1>1, <2>2, CommitIs DEF CountOK
    <3> DEFINE S == {i \in Customers : <<<<"type_status", 1, 1>>, i>> \in lists}
    <3>3. Counted(sim[u].rw) \subseteq S /\ IsFiniteSet(S) /\ queryAll = Cardinality(S)
      BY FS_Subset, GovernanceAssumption DEF Counted, queryAll, Size
    <3> HIDE DEF S
    <3>4. Cardinality(S) \in Nat
      BY <3>3, FS_CardinalityType
    <3>5. CASE sim[u].n \in {-1, 0}
      BY <3>1, <3>3, <3>4, <3>5, GovernanceAssumption, SMTT(30) DEF Paged
    <3>6. ASSUME NEW R \in SUBSET Counted(sim[u].rw), Paged(sim[u].n) = Cardinality(R)
          PROVE  Paged(sim[t].n) <= queryAll
      <4>1. R \subseteq S
        BY <3>3, <3>6
      <4>2. Cardinality(R) <= Cardinality(S)
        BY <3>3, <4>1, FS_Subset
      <4> QED
        BY <3>1, <3>3, <3>6, <4>2
    <3> QED
      BY <3>2, <3>5, <3>6 DEF Number
  <2> QED
    BY <2>1, <2>2
<1>2. GovernanceInv /\ [Next]_vars => [A]_vars
  BY <1>1
<1> HIDE DEF A
<1>3. Spec => [][A]_vars
  BY <1>2, GovernanceInvariant, PTL DEF Spec
<1> QED
  BY <1>3 DEF CountNotTooHigh, A

=============================================================================
