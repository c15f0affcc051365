----------------------------- MODULE RBCCustomer -----------------------------
(***************************************************************************)
(* The customer registry, the system chaincode rbccustomer: who takes part *)
(* in the network, of which type (type 1 is a super user), in which status *)
(* and with which certificate.                                             *)
(*                                                                         *)
(* A chaincode is modelled by the read and write set its simulation        *)
(* leaves: an operator on the committed state that returns what was read,  *)
(* what is written (Nil is a deletion), and the list entries added and     *)
(* removed.  A call may also end with an error, or with a panic of the     *)
(* chaincode; a proposal that ends so leaves no transaction.  Reads of a   *)
(* list (its size, its members) are not recorded in a read set: see        *)
(* getState of the query helper of lockbased_txmgr.                        *)
(*                                                                         *)
(* Identifiers, numbers and certificate hashes share the key space         *)
(* "__IDX_"; they are assumed to be distinct strings.                      *)
(***************************************************************************)
EXTENDS Naturals, FiniteSets

CONSTANTS Customers, Numbers, Certs, Nil,
          PageSize  \* how many customers queryAll reads: 20

VARIABLES state, lists

CustomerKeys == ({"customer", "id"} \X Customers) \cup ({"no"} \X Numbers)
                  \cup ({"cert"} \X Certs)

Types == 1..4
Statuses == 1..3

CustomerEntity == [no : Numbers, type : Types, status : Statuses, cert : Certs]

(* The writes so far, and one more.                                        *)
NoWrites == [k \in {} |-> Nil]
Put(writes, key, value) ==
  [k \in DOMAIN writes \cup {key} |-> IF k = key THEN value ELSE writes[k]]

RWSet(reads, writes, adds, removes) ==
  [end |-> "success", reads |-> reads, writes |-> writes, adds |-> adds, removes |-> removes]

Error(reads) ==
  [end |-> "error", reads |-> reads, writes |-> NoWrites, adds |-> {}, removes |-> {}]

Panic == [Error({}) EXCEPT !.end = "panic"]

-----------------------------------------------------------------------------
Size(list) == Cardinality({i \in Customers : <<list, i>> \in lists})

(* The customer behind a certificate, by the index of certificates.        *)
queryOne(cert) ==
  LET id == state[<<"cert", cert>>]
  IN  IF id = Nil THEN Nil ELSE state[<<"customer", id>>]

QueryOneReads(cert) ==
  LET id == state[<<"cert", cert>>]
  IN  {<<"cert", cert>>} \cup (IF id = Nil THEN {} ELSE {<<"customer", id>>})

(* The customer that submits the transaction: its certificate is the       *)
(* creator of the proposal.                                                *)
getTxCustomerEntity(cert) == queryOne(cert)

(* The number of active super users: the size of the list customer_1_1.    *)
(* The entities of its first page are read (and recorded), the list is     *)
(* not, nor what is beyond the page.  The order of a list is left out: the *)
(* page is as many of its members as fit.                                  *)
queryAll == Size(<<"type_status", 1, 1>>)

Paged(n) == IF n > PageSize THEN PageSize ELSE n

QueryAllPages ==
  {page \in SUBSET {i \in Customers : <<<<"type_status", 1, 1>>, i>> \in lists} :
     Cardinality(page) = Paged(queryAll)}

QueryAllReadsNothing(page) == {}

QueryAllReads(page) == {<<"customer", i>> : i \in page}

Entries(e) == {<<"type", e.type>>, <<"type_status", e.type, e.status>>}

RegistrantAllowed(tx, e) ==
  tx # Nil /\ tx.type \in 1..3 /\ (e.type < 4 => tx.type = 1)

(* The keys that must not exist when a customer is registered.             *)
FreeKeys(e) == {<<"customer", e.id>>, <<"no", e.no>>}

(* A customer is registered by a customer of type 1, 2 or 3, one of type   *)
(* 1, 2 or 3 only by a super user; the very first by anyone.               *)
register(by, e) ==
  IF /\ Size(<<"all">>) > 0 => RegistrantAllowed(getTxCustomerEntity(by), e)
     /\ \A k \in FreeKeys(e) : state[k] = Nil
  THEN LET new == [no |-> e.no, type |-> e.type, status |-> 1, cert |-> e.cert]
       IN  RWSet(FreeKeys(e) \cup (IF Size(<<"all">>) > 0 THEN QueryOneReads(by) ELSE {}),
                 Put(Put(Put(Put(NoWrites, <<"id", e.id>>, e.id), <<"no", e.no>>, e.id),
                         <<"cert", e.cert>>, e.id), <<"customer", e.id>>, new),
                 {<<l, e.id>> : l \in {<<"all">>, <<"status", 1>>} \cup Entries(new)},
                 {})
  ELSE Error({})

-----------------------------------------------------------------------------
MovesTypeOnly(old, new) == [out |-> {<<"type", old.type>>}, in |-> {<<"type", new.type>>}]

(* The list entries a change of type or status moves.  A change of type    *)
(* leaves the list of the status alone, even when the status changes too.  *)
Moves(old, new) ==
  IF old.type # new.type
  THEN [out |-> Entries(old), in |-> Entries(new)]
  ELSE IF old.status # new.status
  THEN [out |-> {<<"type_status", old.type, old.status>>, <<"status", old.status>>},
        in |-> {<<"type_status", new.type, new.status>>, <<"status", new.status>>}]
  ELSE [out |-> {}, in |-> {}]

(* What an edit (0 and Nil for "leave it") makes of an entity.             *)
Edited(old, e) ==
  [no |-> old.no,
   type |-> IF e.type = 0 THEN old.type ELSE e.type,
   status |-> IF e.status = 0 THEN old.status ELSE e.status,
   cert |-> IF e.cert = Nil THEN old.cert ELSE e.cert]

(* A new certificate replaces the entry of the old one in the index.       *)
IndexWrites(old, e) ==
  IF e.cert = Nil THEN NoWrites
  ELSE Put(Put(NoWrites, <<"cert", old.cert>>, Nil), <<"cert", e.cert>>, e.id)

(* The attributes (not the dictionary) change only on behalf of a super    *)
(* user and through the approval chaincode; `via' is the chaincode the     *)
(* proposal addresses.                                                     *)
MayModify(by, via, e) ==
  e.type # 0 \/ e.status # 0 \/ e.cert # Nil => by.type = 1 /\ via = "rbcapproval"

(* An edit of a customer that does not exist dereferences nil.             *)
modifyInfo(by, via, e) ==
  LET old   == state[<<"customer", e.id>>]
      tx    == getTxCustomerEntity(by)
      new   == Edited(old, e)
      reads == QueryOneReads(by) \cup {<<"customer", e.id>>}
  IN  CASE tx = Nil -> Error(reads)
        [] tx # Nil /\ old = Nil -> Panic
        [] tx # Nil /\ old # Nil ->
             IF MayModify(tx, via, e)
             THEN RWSet(reads, Put(IndexWrites(old, e), <<"customer", e.id>>, new),
                        {<<l, e.id>> : l \in Moves(old, new).in},
                        {<<l, e.id>> : l \in Moves(old, new).out})
             ELSE Error(reads)

(* modifyDict clears the attributes of the edit first.                     *)
modifyDict(by, e) ==
  IF state[<<"customer", e.id>>] = Nil THEN Panic
  ELSE modifyInfo(by, "rbccustomer", [e EXCEPT !.type = 0, !.status = 0, !.cert = Nil])
=============================================================================
