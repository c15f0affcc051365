-------------------------- MODULE TxPipelineProofs --------------------------
(***************************************************************************)
(* Machine-checked proofs about TxPipeline, for any set of organisations   *)
(* and chaincodes, any requests, any number of blocks, crashes and faults. *)
(***************************************************************************)
EXTENDS TxPipeline, FiniteSetTheorems, SequenceTheorems, TLAPS

\* A leaf is proved by Zenon, unless it names another prover.
USE Zenon

-----------------------------------------------------------------------------
(* The ledger as a block is applied. *)

\* Induction up to a bound, with the induction hypothesis as a set.
LEMMA BoundedInduction ==
  ASSUME NEW n \in Nat, NEW S, 0 \in S,
         \A i \in 0..n : i < n /\ i \in S => i + 1 \in S
  PROVE  \A i \in 0..n : i \in S
<1> DEFINE T == {i \in 0..n : i \notin S}
<1>1. SUFFICES ASSUME T # {} PROVE FALSE
  OBVIOUS
<1>2. T \subseteq Nat
  BY SMT
<1>3. PICK x \in T : \A y \in T : ~(y < x)
  <2>1. PICK x \in T : \A y \in T : ~(<<y, x>> \in OpToRel(<, Nat))
    BY <1>1, <1>2, WFMin, NatLessThanWellFounded
  <2>2. \A y \in T : ~(y < x)
    BY <1>2, <2>1 DEF OpToRel
  <2> QED
    BY <2>2
<1>4. x # 0 /\ x - 1 \in 0..n /\ x - 1 < n /\ x - 1 < x
  BY SMT
<1>5. x - 1 \in S
  BY <1>3, <1>4
<1>6. x \in S
  BY <1>4, <1>5, SMT
<1>7. QED
  BY <1>6

\* One transaction of a block: its writes, if it is valid.
Step(l, block, i) ==
  IF IsValid(l, block[i], flags[i]) THEN Apply(l, block[i], i) ELSE l

\* The stages of a block satisfy the recursion that defines them.
LEMMA StagesDef ==
  ASSUME NEW block, Len(block) \in Nat
  PROVE  Stages(block) = [i \in 0..Len(block) |->
           IF i = 0 THEN ledger ELSE Step(Stages(block)[i - 1], block, i)]
<1> DEFINE n == Len(block)
           Run(f, m) == f = [i \in 0..m |->
                               IF i = 0 THEN ledger ELSE Step(f[i - 1], block, i)]
           S == {m \in 0..n : \E f : Run(f, m)}
<1>1. 0 \in S
  <2>1. Run([i \in 0..0 |-> ledger], 0)
    BY SMT
  <2> HIDE DEF Run
  <2> QED
    BY <2>1, SMT
<1>2. ASSUME NEW m \in 0..n, m < n, m \in S PROVE m + 1 \in S
  <2>1. PICK f : Run(f, m)
    BY <1>2
  <2> DEFINE g == [i \in 0..(m + 1) |-> IF i <= m THEN f[i] ELSE Step(f[m], block, m + 1)]
  <2>2. \A i \in 0..(m + 1) : g[i] = IF i = 0 THEN ledger ELSE Step(g[i - 1], block, i)
    <3>1. TAKE i \in 0..(m + 1)
    <3>2. CASE i = 0
      BY <2>1, <3>2, SMT
    <3>3. CASE i # 0 /\ i <= m
      <4>1. g[i] = f[i] /\ g[i - 1] = f[i - 1]
        BY <3>3, SMT
      <4>2. f[i] = Step(f[i - 1], block, i)
        BY <2>1, <3>3, SMT
      <4> QED
        BY <3>3, <4>1, <4>2
    <3>4. CASE i = m + 1
      <4>1. g[i] = Step(f[m], block, m + 1) /\ g[i - 1] = f[m]
        BY <3>4, SMT
      <4> QED
        BY <3>4, <4>1, SMT
    <3> QED
      BY <3>2, <3>3, <3>4, SMT
  <2>3. Run(g, m + 1)
    BY <2>2
  <2>4. m + 1 \in 0..n
    BY <1>2, SMT
  <2> HIDE DEF Run
  <2> QED
    BY <2>3, <2>4
<1>3. n \in S
  <2>1. \A m \in 0..n : m < n /\ m \in S => m + 1 \in S
    BY <1>2
  <2> HIDE DEF S
  <2>2. \A m \in 0..n : m \in S
    BY <1>1, <2>1, BoundedInduction
  <2> QED
    BY <2>2, SMT
<1>4. Stages(block) = CHOOSE f : Run(f, n)
  BY DEF Stages, Step
<1>5. QED
  BY <1>3, <1>4

-----------------------------------------------------------------------------
(* The invariant. *)

\* The ledger has its fields, and no version is of a block still to come.
IsLedger(l) ==
  /\ l = [lscc |-> l.lscc, ver |-> l.ver, txs |-> l.txs, members |-> l.members,
          height |-> l.height]
  /\ l.height \in Nat
  /\ \A k \in Keys : l.ver[k] \in Nat \X Nat
  /\ \A c \in Chaincodes : IsEntry(l.lscc[c])

LedgerOK ==
  IsLedger(ledger) /\ \A k \in Keys : ledger.ver[k][1] <= ledger.height

\* What a simulation read is of the height at which it ran or of an earlier
\* one.  An invocation read lscc's entry of every chaincode that ran, and as
\* long as that entry has not been written since it names the version that
\* ran; a deploy or an upgrade read the entry it replaces.
Faithful(l, req, rw, ran) ==
  /\ IsEntry(rw.data)
  /\ \A k \in DOMAIN rw.reads : /\ k \in Keys /\ rw.reads[k] \in Nat \X Nat
                                /\ rw.reads[k][1] <= l.height
  /\ req.fn = "invoke" =>
       /\ DOMAIN ran = Runs(req)
       /\ \A c \in Runs(req) :
            /\ <<"lscc", c>> \in DOMAIN rw.reads /\ <<c, "k">> \in rw.writes
            /\ l.ver[<<"lscc", c>>] = rw.reads[<<"lscc", c>>] =>
                 l.lscc[c] # Nil /\ l.lscc[c].version = ran[c]
  /\ req.fn \in {"deploy", "upgrade"} => <<"lscc", req.cc>> \in DOMAIN rw.reads

\* An envelope holds a request and, unless it is a configuration, a faithful
\* result of it.
Genuine(l, w, env) ==
  /\ \E t \in DOMAIN w.reqs : env.req = w.reqs[t]
  /\ env.req.fn # "config" =>
       /\ env.name = Target(env.req)
       /\ Faithful(l, env.req, env.rw, env.ran)
       /\ \E n \in Nat : env.endorsements \in [1..n -> Orgs]

ClientOK ==
  /\ load \in Workloads
  /\ \A p \in admitted : p[1] \in Txs /\ Req(p[1]).fn # "config"
  /\ responses = [t \in Txs |-> responses[t]]
  /\ \A t \in Txs : \A r \in responses[t] :
       Req(t).fn # "config" /\ r.org \in Orgs /\ Faithful(ledger, Req(t), r.rw, r.ran)
  /\ envelope = [t \in Txs |-> envelope[t]]
  /\ \A t \in Txs : envelope[t] # Nil =>
       envelope[t].req = Req(t) /\ Genuine(ledger, load, envelope[t])

\* A block with a configuration holds nothing else.
IsBlock(l, w, block) ==
  /\ Len(block) \in 1..MaxTxs /\ DOMAIN block = 1..Len(block)
  /\ \A i \in 1..Len(block) :
       Genuine(l, w, block[i]) /\ (block[i].req.fn = "config" => Len(block) = 1)

ChainOK ==
  /\ \E S : chain \in Seq(S)
  /\ \A n \in 1..Len(chain) : IsBlock(ledger, load, chain[n])

Block == chain[ledger.height + 1]

\* The flags are those of the next block, validated against the ledger as it
\* is; the configuration in force is the ledger's, or the one of that block.
CommitOK ==
  IF flags = Nil THEN members = ledger.members
  ELSE /\ ledger.height < Len(chain)
       /\ \E failing : flags = Validate(ledger, ledger.members, Block, failing)
       /\ members = IF Block[1].req.fn = "config" /\ flags[1] = "VALID"
                    THEN Block[1].req.members ELSE ledger.members

PipelineInv == LedgerOK /\ ClientOK /\ ChainOK /\ CommitOK

\* The ledger moved on: what was written since has a version of a later block.
Grows(l, m) ==
  /\ m.height \in Nat /\ l.height <= m.height
  /\ \A k \in Keys : m.ver[k] = l.ver[k] \/ l.height < m.ver[k][1]
  /\ \A c \in Chaincodes : m.lscc[c] = l.lscc[c] \/ l.height < m.ver[<<"lscc", c>>][1]

-----------------------------------------------------------------------------
(* What the stages of a block keep. *)

\* A stage of a block: what it has not written is as before the block, and
\* what it has written carries the block's number.
IsStage(l) ==
  /\ IsLedger(l) /\ l.height = ledger.height /\ l.txs = ledger.txs
  /\ \A k \in Keys : l.ver[k] = ledger.ver[k] \/ l.ver[k][1] = ledger.height + 1
  /\ \A c \in Chaincodes :
       l.lscc[c] = ledger.lscc[c] \/ l.ver[<<"lscc", c>>][1] = ledger.height + 1

\* Applying a transaction leads from stage to stage, and only a configuration
\* changes the members.
LEMMA StepIsStage ==
  ASSUME NEW l, IsStage(l), NEW block, NEW i \in Nat, Genuine(ledger, load, block[i])
  PROVE  /\ IsStage(Step(l, block, i))
         /\ block[i].req.fn # "config" => Step(l, block, i).members = l.members
<1> DEFINE env == block[i]
           m == Apply(l, env, i)
<1>1. l.height \in Nat /\ l.height = ledger.height
  BY DEF IsStage, IsLedger
<1>2. CASE env.req.fn = "config"
  <2>1. m = [lscc |-> l.lscc, ver |-> l.ver, txs |-> l.txs, members |-> env.req.members,
             height |-> l.height]
    BY <1>2 DEF Apply, IsStage, IsLedger
  <2>2. IsStage(m)
    BY <2>1, SMT DEF IsStage, IsLedger
  <2> QED
    BY <1>2, <2>2 DEF Step
<1>3. CASE env.req.fn # "config"
  <2> DEFINE v == [k \in Keys |-> IF k \in env.rw.writes THEN Version(l, i) ELSE l.ver[k]]
             d == [c \in Chaincodes |->
                     IF <<"lscc", c>> \in env.rw.writes THEN env.rw.data ELSE l.lscc[c]]
  <2>1. m = [lscc |-> d, ver |-> v, txs |-> l.txs, members |-> l.members,
             height |-> l.height]
    BY <1>3 DEF Apply, IsStage, IsLedger
  <2>2. Version(l, i) \in Nat \X Nat /\ Version(l, i)[1] = ledger.height + 1
    BY <1>1, SMT DEF Version
  <2>3. \A k \in Keys : /\ v[k] \in Nat \X Nat
                        /\ v[k] = ledger.ver[k] \/ v[k][1] = ledger.height + 1
    BY <2>2 DEF IsStage, IsLedger
  <2>4. \A c \in Chaincodes : d[c] = ledger.lscc[c] \/ v[<<"lscc", c>>][1] = ledger.height + 1
    <3>1. \A c \in Chaincodes : <<"lscc", c>> \in Keys
      BY DEF Keys
    <3> QED
      BY <2>2, <3>1 DEF IsStage
  <2>5. \A c \in Chaincodes : IsEntry(d[c])
    BY <1>3 DEF IsStage, IsLedger, Genuine, Faithful
  <2> HIDE DEF v, d
  <2>6. IsStage(m) /\ m.members = l.members
    BY <1>1, <2>1, <2>3, <2>4, <2>5, SMT DEF IsStage, IsLedger
  <2> QED
    BY <1>3, <2>6 DEF Step
<1>4. QED
  BY <1>2, <1>3

\* Every stage of a block is one, and the members change at the end only.
LEMMA StagesAreStages ==
  ASSUME LedgerOK, NEW block, IsBlock(ledger, load, block)
  PROVE  \A i \in 0..Len(block) :
           /\ IsStage(Stages(block)[i])
           /\ block[1].req.fn # "config" => Stages(block)[i].members = ledger.members
<1> DEFINE n == Len(block)
           A == Stages(block)
           S == {i \in 0..n : /\ IsStage(A[i])
                              /\ block[1].req.fn # "config" => A[i].members = ledger.members}
<1>1. n \in Nat
  BY PipelineAssumption, SMT DEF IsBlock
<1>2. A[0] = ledger /\ \A i \in 1..n : A[i] = Step(A[i - 1], block, i)
  BY <1>1, StagesDef, SMT
<1>3. 0 \in S
  BY <1>1, <1>2, SMT DEF IsStage, LedgerOK
<1>4. ASSUME NEW i \in 0..n, i < n, i \in S PROVE i + 1 \in S
  <2>1. A[i + 1] = Step(A[i], block, i + 1)
    BY <1>1, <1>2, <1>4, SMT
  <2>2. IsStage(A[i]) /\ (block[1].req.fn # "config" => A[i].members = ledger.members)
    BY <1>4
  <2>3. block[1].req.fn # "config" => block[i + 1].req.fn # "config"
    BY <1>1, <1>4, SMT DEF IsBlock
  <2> HIDE DEF A
  <2>4. i + 1 \in Nat /\ i + 1 \in 0..n /\ Genuine(ledger, load, block[i + 1])
    BY <1>1, <1>4, SMT DEF IsBlock
  <2> QED
    BY <2>1, <2>2, <2>3, <2>4, StepIsStage, SMTT(30)
<1>5. \A i \in 0..n : i \in S
  <2> HIDE DEF S
  <2> QED
    BY <1>1, <1>3, <1>4, BoundedInduction
<1>6. QED
  BY <1>5

\* The ledger after a block: it has moved on, by one.
LEMMA CommitGrows ==
  ASSUME PipelineInv, IsBlock(ledger, load, Block), LedgerCommit(Block)
  PROVE  /\ LedgerOK' /\ Grows(ledger, ledger')
         /\ ledger'.height = ledger.height + 1
         /\ ledger'.members = Stages(Block)[Len(Block)].members
<1> DEFINE l == Stages(Block)[Len(Block)]
<1>1. Len(Block) \in Nat
  BY PipelineAssumption, SMT DEF IsBlock
<1>2. IsStage(l)
  BY <1>1, StagesAreStages, SMT DEF PipelineInv
<1>3. ledger' = [l EXCEPT !.height = @ + 1, !.txs = @ \cup {Block[i].tx : i \in DOMAIN Block}]
  BY DEF LedgerCommit
<1> HIDE DEF l
<1>4. ledger' = [lscc |-> l.lscc, ver |-> l.ver, members |-> l.members, height |-> l.height + 1,
                 txs |-> l.txs \cup {Block[i].tx : i \in DOMAIN Block}]
  BY <1>2, <1>3 DEF IsStage, IsLedger
<1>5. LedgerOK'
  BY <1>2, <1>4, SMT DEF PipelineInv, LedgerOK, IsStage, IsLedger
<1>6. Grows(ledger, ledger')
  BY <1>2, <1>4, SMT DEF Grows, IsStage, IsLedger
<1>7. QED
  BY <1>2, <1>4, <1>5, <1>6 DEF IsStage, l

\* A result stays faithful as the ledger moves on.
LEMMA FaithfulKept ==
  ASSUME NEW l, NEW m, NEW req, NEW rw, NEW ran, l.height \in Nat,
         Faithful(l, req, rw, ran), Grows(l, m),
         req.fn = "invoke" => Runs(req) \subseteq Chaincodes
  PROVE  Faithful(m, req, rw, ran)
<1>1. ASSUME NEW k \in DOMAIN rw.reads PROVE rw.reads[k][1] <= m.height
  BY <1>1, SMT DEF Faithful, Grows
<1>2. ASSUME NEW c \in Runs(req), req.fn = "invoke",
             m.ver[<<"lscc", c>>] = rw.reads[<<"lscc", c>>]
      PROVE  m.lscc[c] # Nil /\ m.lscc[c].version = ran[c]
  <2>1. /\ <<"lscc", c>> \in DOMAIN rw.reads /\ rw.reads[<<"lscc", c>>] \in Nat \X Nat
        /\ rw.reads[<<"lscc", c>>][1] <= l.height /\ <<"lscc", c>> \in Keys
    BY <1>2 DEF Faithful
  <2>2. ~(l.height < m.ver[<<"lscc", c>>][1])
    BY <1>2, <2>1, SMT
  <2>3. m.ver[<<"lscc", c>>] = l.ver[<<"lscc", c>>] /\ m.lscc[c] = l.lscc[c]
    BY <1>2, <2>1, <2>2 DEF Grows
  <2> QED
    BY <1>2, <2>3 DEF Faithful
<1>3. QED
  BY <1>1, <1>2 DEF Faithful

\* What a request of the workload names.
LEMMA RequestFacts ==
  ASSUME NEW w \in Workloads, NEW t \in DOMAIN w.reqs, NEW req, req = w.reqs[t]
  PROVE  /\ req.fn \in {"invoke", "deploy", "upgrade", "approve", "query", "config"}
         /\ req.fn \in {"invoke", "deploy", "upgrade", "approve"} => req.cc \in Chaincodes
         /\ req.fn = "invoke" => Runs(req) \subseteq Chaincodes /\ req.cc \in Runs(req)
         /\ req.fn = "config" => req.to = {}
         /\ req.fn \in {"invoke", "deploy", "upgrade", "approve"} => IsEntry(req.data)
BY WorkloadAssumption, PipelineAssumption DEF Runs

\* An envelope stays genuine as the ledger grows.
LEMMA GenuineKept ==
  ASSUME NEW l, NEW m, NEW w \in Workloads, NEW env, l.height \in Nat,
         Genuine(l, w, env), Grows(l, m)
  PROVE  Genuine(m, w, env)
<1>1. env.req.fn = "invoke" => Runs(env.req) \subseteq Chaincodes
  BY RequestFacts, SMT DEF Genuine
<1>2. env.req.fn # "config" => Faithful(m, env.req, env.rw, env.ran)
  BY <1>1, FaithfulKept DEF Genuine
<1>3. QED
  BY <1>2 DEF Genuine

\* A simulation gives a faithful result.
LEMMA SimulationFaithful ==
  ASSUME LedgerOK, load \in Workloads, NEW t \in Txs, Req(t).fn # "config",
         simulateProposal(Req(t)) # Nil
  PROVE  Faithful(ledger, Req(t), simulateProposal(Req(t)),
                  [c \in Runs(Req(t)) |->
                     IF ledger.lscc[c] = Nil THEN Nil ELSE ledger.lscc[c].version])
<1> DEFINE req == Req(t)
           rw  == simulateProposal(req)
           ran == [c \in Runs(req) |->
                     IF ledger.lscc[c] = Nil THEN Nil ELSE ledger.lscc[c].version]
<1> SUFFICES Faithful(ledger, req, rw, ran)
  OBVIOUS
<1>1. /\ req.fn \in {"invoke", "deploy", "upgrade", "approve", "query"}
      /\ req.fn # "query" => req.cc \in Chaincodes
      /\ req.fn = "invoke" => Runs(req) \subseteq Chaincodes
      /\ req.fn # "query" => IsEntry(req.data)
  BY RequestFacts DEF Txs, Req
<1>2. \A c \in Chaincodes : <<"lscc", c>> \in Keys /\ <<c, "k">> \in Keys
  BY DEF Keys
<1>3. <<"rbcapproval", "k">> \in Keys
  BY DEF Keys
<1>4. ASSUME NEW R, NEW W, NEW D, R \subseteq Keys
      PROVE  /\ \A k \in DOMAIN RW(R, W, D).reads :
                  /\ k \in Keys /\ RW(R, W, D).reads[k] \in Nat \X Nat
                  /\ RW(R, W, D).reads[k][1] <= ledger.height
             /\ RW(R, W, D).data = D
  BY <1>4 DEF RW, LedgerOK, IsLedger
<1> IsEntry(Nil)
  BY DEF IsEntry
<1>5. CASE req.fn = "invoke"
  <2> DEFINE own == {<<c, "k">> : c \in Runs(req)}
             R == getCDSFromLSCC(Runs(req)) \cup (IF req.blind THEN {} ELSE own)
             W == own \cup (IF "lscc" \in req.calls THEN {<<"lscc", req.new>>} ELSE {})
             D == IF "lscc" \in req.calls THEN req.data ELSE Nil
  <2>1. rw = RW(R, W, D) /\ \A c \in Runs(req) : ledger.lscc[c] # Nil
    BY <1>5 DEF simulateProposal, callChaincode
  <2>2. R \subseteq Keys
    BY <1>1, <1>2, <1>5 DEF getCDSFromLSCC
  <2>3. \A c \in Runs(req) : <<"lscc", c>> \in R /\ <<c, "k">> \in W
    BY DEF getCDSFromLSCC
  <2>4. rw.reads = [k \in R |-> ledger.ver[k]] /\ rw.writes = W /\ IsEntry(rw.data)
    BY <1>1, <1>5, <2>1, SMTT(30) DEF RW
  <2>5. \A k \in DOMAIN rw.reads : /\ k \in Keys /\ rw.reads[k] \in Nat \X Nat
                                   /\ rw.reads[k][1] <= ledger.height
    <3> HIDE DEF R, W, D
    <3> QED
      BY <1>4, <2>1, <2>2, SMTT(30)
  <2> HIDE DEF rw, R, W, D, req
  <2> QED
    BY <1>5, <2>1, <2>3, <2>4, <2>5 DEF Faithful
<1>6. CASE req.fn \in {"deploy", "upgrade"}
  <2>1. rw = RW(getCCInstance(req.cc), {<<"lscc", req.cc>>, <<req.cc, "k">>}, req.data)
    BY <1>6 DEF simulateProposal, callChaincode
  <2>2. getCCInstance(req.cc) \subseteq Keys
    BY <1>1, <1>2, <1>6 DEF getCCInstance
  <2>3. <<"lscc", req.cc>> \in DOMAIN rw.reads
    BY <2>1, SMTT(30) DEF RW, getCCInstance
  <2> HIDE DEF rw, req
  <2> QED
    BY <1>1, <1>4, <1>6, <2>1, <2>2, <2>3, SMTT(30) DEF Faithful
<1>7. CASE req.fn = "approve"
  <2> DEFINE R == {<<"rbcapproval", "k">>} \cup (IF req.blind THEN {} ELSE getCCInstance(req.cc))
  <2>1. rw = RW(R, {<<"rbcapproval", "k">>, <<"lscc", req.cc>>}, req.data)
    BY <1>7 DEF simulateProposal, callChaincode
  <2>2. R \subseteq Keys
    BY <1>1, <1>2, <1>3, <1>7 DEF getCCInstance
  <2> HIDE DEF rw, req, R
  <2> QED
    BY <1>1, <1>4, <1>7, <2>1, <2>2, SMTT(30) DEF Faithful
<1>8. CASE req.fn = "query"
  <2>1. rw = RW({}, {}, Nil)
    BY <1>8 DEF simulateProposal, callChaincode
  <2> HIDE DEF rw, req
  <2> QED
    BY <1>4, <1>8, <2>1, SMTT(30) DEF Faithful
<1>9. QED
  BY <1>1, <1>5, <1>6, <1>7, <1>8

-----------------------------------------------------------------------------
(* The client's and the endorsers' steps. *)

\* What the client attaches are endorsements by organisations.
LEMMA EndorsementsType ==
  ASSUME NEW orgs \in SUBSET Orgs, NEW e \in Endorsements(orgs)
  PROVE  \E n \in Nat : e \in [1..n -> Orgs]
<1> DEFINE n == Cardinality(orgs)
           Onto(f) == \A o \in orgs : \E i \in 1..n : f[i] = o
<1>1. IsFiniteSet(orgs)
  BY FS_Subset, PipelineAssumption
<1>2. n \in Nat /\ ExistsBijection(1..n, orgs)
  BY <1>1, FS_CardinalityType
<1>3. \E f \in [1..n -> orgs] : Onto(f)
  BY <1>2 DEF ExistsBijection, Bijection, Injection, Surjection
<1>4. CASE e = CHOOSE f \in [1..n -> orgs] : Onto(f)
  <2> HIDE DEF Onto, n
  <2>1. e \in [1..n -> orgs]
    BY <1>3, <1>4
  <2>2. e \in [1..n -> Orgs]
    BY <2>1
  <2> QED
    BY <1>2, <2>2
<1>5. CASE \E o \in orgs : e = <<o, o>>
  <2>1. PICK o \in orgs : e = <<o, o>>
    BY <1>5
  <2>2. e \in [1..2 -> Orgs]
    BY <2>1, SMT
  <2> QED
    BY <2>2
<1>6. QED
  BY <1>4, <1>5 DEF Endorsements

\* A step that leaves ledger, chain and the state of the committer alone.
LEMMA Elsewhere ==
  ASSUME PipelineInv, UNCHANGED <<load, ledger, members, chain, flags>>
  PROVE  LedgerOK' /\ ChainOK' /\ CommitOK'
<1>1. LedgerOK'
  BY DEF PipelineInv, LedgerOK, IsLedger
<1>2. ChainOK'
  <2>1. \E S : chain' \in Seq(S)
    BY DEF PipelineInv, ChainOK
  <2>2. \A n \in 1..Len(chain') : IsBlock(ledger', load', chain'[n])
    BY DEF PipelineInv, ChainOK
  <2> QED
    BY <2>1, <2>2 DEF ChainOK
<1>3. CommitOK'
  BY DEF PipelineInv, CommitOK, Block
<1>4. QED
  BY <1>1, <1>2, <1>3

\* ProcessProposal admits a proposal that is not a config update.
LEMMA ProposalStep ==
  ASSUME PipelineInv, NEW t \in Txs, NEW o \in Orgs, ProcessProposal(t, o)
  PROVE  PipelineInv'
<1>1. LedgerOK' /\ ChainOK' /\ CommitOK'
  BY Elsewhere DEF ProcessProposal
<1>2. Req(t).fn # "config"
  BY RequestFacts DEF PipelineInv, ClientOK, ProcessProposal, Txs, Req
<1>3. /\ UNCHANGED <<load, ledger, responses, envelope>>
      /\ admitted' = admitted \cup {<<t, o>>}
  BY DEF ProcessProposal
<1>4. \A p \in admitted' : p[1] \in Txs /\ Req(p[1]).fn # "config"
  BY <1>2, <1>3, SMT DEF PipelineInv, ClientOK
<1>5. ClientOK'
  BY <1>3, <1>4 DEF PipelineInv, ClientOK, Txs, Req
<1>6. QED
  BY <1>1, <1>5 DEF PipelineInv

\* An endorser signs what simulateProposal reads and writes in the ledger's state.
LEMMA EndorseStep ==
  ASSUME PipelineInv, NEW t \in Txs, NEW o \in Orgs, endorseProposal(t, o)
  PROVE  PipelineInv'
<1> DEFINE rw  == simulateProposal(Req(t))
           ran == [c \in Runs(Req(t)) |->
                     IF ledger.lscc[c] = Nil THEN Nil ELSE ledger.lscc[c].version]
           r   == [org |-> o, rw |-> rw, ran |-> ran]
<1>1. LedgerOK' /\ ChainOK' /\ CommitOK'
  BY Elsewhere, SMT DEF endorseProposal
<1>2. Req(t).fn # "config" /\ UNCHANGED <<load, ledger, envelope>>
  BY SMT DEF PipelineInv, ClientOK, endorseProposal
<1>3. admitted' \subseteq admitted
  BY SMT DEF endorseProposal
<1>4. \/ responses' = responses
      \/ rw # Nil /\ responses' = [responses EXCEPT ![t] = @ \cup {r}]
  BY SMT DEF endorseProposal
<1>5. rw # Nil => Faithful(ledger, Req(t), rw, ran)
  BY <1>2, SimulationFaithful DEF PipelineInv, ClientOK
<1> HIDE DEF rw, ran
<1>6. /\ responses' = [u \in Txs |-> responses'[u]]
      /\ \A u \in Txs : \A q \in responses'[u] :
           Req(u).fn # "config" /\ q.org \in Orgs /\ Faithful(ledger, Req(u), q.rw, q.ran)
  BY <1>2, <1>4, <1>5, SMT DEF PipelineInv, ClientOK
<1>7. ClientOK'
  BY <1>2, <1>3, <1>6 DEF PipelineInv, ClientOK, Txs, Req
<1>8. QED
  BY <1>1, <1>7 DEF PipelineInv

\* The envelope of a client carries a response and the endorsements collected for it.
LEMMA SubmitStep ==
  ASSUME PipelineInv, NEW t \in Txs, Submit(t)
  PROVE  PipelineInv'
<1>1. LedgerOK' /\ ChainOK' /\ CommitOK'
  BY Elsewhere DEF Submit
<1>2. UNCHANGED <<load, ledger, admitted>> /\ responses' = [responses EXCEPT ![t] = {}]
  BY DEF Submit
<1>3. PICK env : envelope' = [envelope EXCEPT ![t] = env] /\ env.req = Req(t) /\ Genuine(ledger, load, env)
  <2>1. PICK defect :
          IF Req(t).fn = "config"
          THEN envelope' = [envelope EXCEPT ![t] =
                 [tx |-> t, name |-> Nil, req |-> Req(t), defect |-> defect]]
          ELSE \E r \in responses[t] :
                 LET same == {s.org : s \in {s \in responses[t] : s.rw = r.rw /\ s.ran = r.ran}}
                 IN  \E orgs \in SUBSET same \ {{}} : \E e \in Endorsements(orgs) :
                       envelope' = [envelope EXCEPT ![t] =
                         [tx |-> t, name |-> Target(Req(t)), req |-> Req(t), rw |-> r.rw,
                          ran |-> r.ran, endorsements |-> e, defect |-> defect]]
    BY DEF Submit
  <2>2. CASE Req(t).fn = "config"
    <3> DEFINE env == [tx |-> t, name |-> Nil, req |-> Req(t), defect |-> defect]
    <3>1. envelope' = [envelope EXCEPT ![t] = env]
      BY <2>1, <2>2
    <3>2. Genuine(ledger, load, env)
      BY <2>2 DEF Genuine, Txs, Req
    <3> QED
      BY <3>1, <3>2
  <2>3. CASE Req(t).fn # "config"
    <3>1. PICK r \in responses[t] :
            LET same == {s.org : s \in {s \in responses[t] : s.rw = r.rw /\ s.ran = r.ran}}
            IN  \E orgs \in SUBSET same \ {{}} : \E e \in Endorsements(orgs) :
                  envelope' = [envelope EXCEPT ![t] =
                    [tx |-> t, name |-> Target(Req(t)), req |-> Req(t), rw |-> r.rw,
                     ran |-> r.ran, endorsements |-> e, defect |-> defect]]
      BY <2>1, <2>3
    <3> DEFINE same == {s.org : s \in {s \in responses[t] : s.rw = r.rw /\ s.ran = r.ran}}
               E(e) == [tx |-> t, name |-> Target(Req(t)), req |-> Req(t), rw |-> r.rw,
                        ran |-> r.ran, endorsements |-> e, defect |-> defect]
    <3>2. PICK orgs \in SUBSET same \ {{}} : \E e \in Endorsements(orgs) :
            envelope' = [envelope EXCEPT ![t] = E(e)]
      BY <3>1
    <3>3. PICK e \in Endorsements(orgs) : envelope' = [envelope EXCEPT ![t] = E(e)]
      BY <3>2
    <3>4. same \subseteq Orgs
      BY DEF PipelineInv, ClientOK
    <3>5. \E n \in Nat : e \in [1..n -> Orgs]
      BY <3>2, <3>3, <3>4, EndorsementsType
    <3>6. Faithful(ledger, Req(t), r.rw, r.ran)
      BY <3>1 DEF PipelineInv, ClientOK
    <3>7. Genuine(ledger, load, E(e))
      BY <3>5, <3>6 DEF Genuine, Txs, Req
    <3> QED
      BY <3>3, <3>7
  <2> QED
    BY <2>2, <2>3
<1>4. ClientOK'
  BY <1>2, <1>3 DEF PipelineInv, ClientOK, Txs, Req
<1>5. QED
  BY <1>1, <1>4 DEF PipelineInv

-----------------------------------------------------------------------------
(* The orderer's and the committer's steps. *)

\* A block holds envelopes that were submitted.
LEMMA OrderStep ==
  ASSUME PipelineInv, NEW ts \in Blocks, Order(ts)
  PROVE  PipelineInv'
<1> DEFINE b == [i \in DOMAIN ts |-> envelope[ts[i]]]
<1>1. chain' = Append(chain, b) /\ UNCHANGED <<load, ledger, members, flags>>
  BY DEF Order
<1>2. PICK n \in 1..MaxTxs : ts \in [1..n -> Txs]
  BY DEF Blocks
<1>3. Len(b) = n /\ DOMAIN b = 1..n /\ Len(ts) = n
  BY <1>2, PipelineAssumption, SMT
<1>4. IsBlock(ledger, load, b)
  <2>1. \A i \in 1..n : Genuine(ledger, load, b[i]) /\ b[i].req = Req(ts[i])
    BY <1>2 DEF Order, PipelineInv, ClientOK
  <2>2. \A i \in 1..n : b[i].req.fn = "config" => n = 1
    BY <1>2, <1>3, <2>1 DEF Order
  <2> HIDE DEF b
  <2> QED
    BY <1>3, <2>1, <2>2 DEF IsBlock
<1> HIDE DEF b
<1>5. PICK S : chain \in Seq(S)
  BY DEF PipelineInv, ChainOK
<1>6. chain \in Seq(S \cup {b}) /\ Len(chain) \in Nat
  <2>1. S \subseteq S \cup {b}
    OBVIOUS
  <2> QED
    BY <1>5, <2>1, SeqDef, SMT
<1>7. /\ chain' \in Seq(S \cup {b}) /\ Len(chain') = Len(chain) + 1
      /\ \A m \in 1..Len(chain) : chain'[m] = chain[m]
      /\ chain'[Len(chain) + 1] = b
  BY <1>1, <1>6, AppendProperties, SMT
<1>8. ChainOK'
  <2>1. \A m \in 1..Len(chain') : IsBlock(ledger, load, chain'[m])
    BY <1>4, <1>6, <1>7, SMTT(30) DEF PipelineInv, ChainOK
  <2> QED
    BY <1>1, <1>7, <2>1 DEF ChainOK
<1>9. CommitOK'
  <2>1. flags # Nil => Block' = Block
    BY <1>1, <1>6, <1>7, SMTT(30) DEF PipelineInv, LedgerOK, IsLedger, CommitOK, Block
  <2> QED
    BY <1>1, <1>6, <1>7, <2>1, SMTT(30) DEF PipelineInv, LedgerOK, IsLedger, CommitOK
<1>10. LedgerOK' /\ ClientOK'
  BY DEF Order, PipelineInv, LedgerOK, IsLedger, ClientOK, Txs, Req
<1>11. QED
  BY <1>8, <1>9, <1>10 DEF PipelineInv

\* A restart reads the members of the channel from the ledger and forgets the validation.
LEMMA CrashStep ==
  ASSUME PipelineInv, Crash
  PROVE  PipelineInv'
<1>1. /\ members' = ledger.members /\ flags' = Nil /\ admitted' = {}
      /\ UNCHANGED <<load, ledger, responses, envelope, chain>>
  BY DEF Crash, Restart
<1>2. LedgerOK' /\ ClientOK' /\ CommitOK'
  BY <1>1 DEF PipelineInv, LedgerOK, IsLedger, ClientOK, CommitOK, Txs, Req
<1>3. ChainOK'
  BY <1>1 DEF PipelineInv, ChainOK
<1>4. QED
  BY <1>2, <1>3 DEF PipelineInv

\* The code of a transaction before the rule for upgrades.
Flag(l, m, block, failing, i) ==
  IF ValidateTransaction(block[i], m) # "VALID" THEN ValidateTransaction(block[i], m)
  ELSE IF block[i].req.fn = "config" THEN "VALID"
  ELSE IF Duplicate(l, block[i]) THEN "DUPLICATE_TXID"
  ELSE VSCCValidateTx(l, m, block[i], i \in failing)

FlagsOf(l, m, block, failing) == [i \in DOMAIN block |-> Flag(l, m, block, failing, i)]

\* Validation is these codes with the rule for upgrades.
LEMMA ValidateFlags ==
  ASSUME NEW l, NEW m, NEW block, NEW failing
  PROVE  Validate(l, m, block, failing) =
           invalidTXsForUpgradeCC(block, FlagsOf(l, m, block, failing))
BY DEF Validate, FlagsOf, Flag

\* The flags of a block are codes.
LEMMA ValidateType ==
  ASSUME NEW l, NEW m, NEW block, NEW failing
  PROVE  Validate(l, m, block, failing) \in [DOMAIN block -> Codes]
<1>1. \A i \in DOMAIN block : ValidateTransaction(block[i], m) \in Codes
  BY DEF ValidateTransaction, Codes
<1>2. \A i \in DOMAIN block : VSCCValidateTx(l, m, block[i], i \in failing) \in Codes
  BY DEF VSCCValidateTx, Codes
<1>3. \A i \in DOMAIN block : Flag(l, m, block, failing, i) \in Codes
  BY <1>1, <1>2 DEF Flag, Codes
<1>4. QED
  BY <1>3, ValidateFlags DEF FlagsOf, invalidTXsForUpgradeCC, Codes

\* The block that is committed next.
LEMMA NextBlock ==
  ASSUME PipelineInv, ledger.height < Len(chain)
  PROVE  IsBlock(ledger, load, Block) /\ Len(Block) \in 1..MaxTxs /\ DOMAIN Block = 1..Len(Block)
<1>1. ledger.height + 1 \in 1..Len(chain)
  <2>1. Len(chain) \in Nat
    BY LenProperties DEF PipelineInv, ChainOK
  <2> QED
    BY <2>1, SMT DEF PipelineInv, LedgerOK, IsLedger
<1>2. IsBlock(ledger, load, Block)
  BY <1>1 DEF PipelineInv, ChainOK, Block
<1>3. QED
  BY <1>2 DEF IsBlock

\* The flags of the block are the validator's codes for the state it is committed on.
LEMMA ValidateStep ==
  ASSUME PipelineInv, ledger.height < Len(chain), flags = Nil, ValidateBlock(Block)
  PROVE  PipelineInv'
<1>1. PICK failing :
        IF ConfigError(members, Block, failing) THEN UNCHANGED <<flags, members>>
        ELSE /\ flags' = Validate(ledger, members, Block, failing)
             /\ members' = IF Block[1].req.fn = "config" /\ flags'[1] = "VALID"
                           THEN Block[1].req.members ELSE members
  BY DEF ValidateBlock
<1>2. UNCHANGED <<load, ledger, admitted, responses, envelope, chain>> /\ Block' = Block
  BY DEF ValidateBlock, Block
<1>3. members = ledger.members
  BY DEF PipelineInv, CommitOK
<1>4. ASSUME ~ConfigError(members, Block, failing) PROVE flags' # Nil
  <2>1. flags' \in [1..Len(Block) -> Codes]
    <3>1. flags' = Validate(ledger, members, Block, failing)
      BY <1>1, <1>4
    <3> QED
      BY <3>1, NextBlock, ValidateType
  <2> QED
    BY <2>1, NextBlock, PipelineAssumption
<1>5. CommitOK'
  <2>1. CASE ConfigError(members, Block, failing)
    BY <1>1, <1>2, <1>3, <2>1 DEF CommitOK
  <2>2. CASE ~ConfigError(members, Block, failing)
    BY <1>1, <1>2, <1>3, <1>4, <2>2 DEF CommitOK
  <2> QED
    BY <2>1, <2>2
<1>6. LedgerOK' /\ ClientOK'
  BY <1>2 DEF PipelineInv, LedgerOK, IsLedger, ClientOK, Txs, Req
<1>7. ChainOK'
  BY <1>2 DEF PipelineInv, ChainOK
<1>8. QED
  BY <1>5, <1>6, <1>7 DEF PipelineInv

\* The commit applies the valid transactions of the block, in order.
LEMMA CommitStep ==
  ASSUME PipelineInv, ledger.height < Len(chain), flags # Nil, LedgerCommit(Block)
  PROVE  PipelineInv'
<1> DEFINE n == Len(Block)
           A == Stages(Block)
<1>1. UNCHANGED <<load, members, admitted, responses, envelope, chain>> /\ flags' = Nil
  BY DEF LedgerCommit
<1>2. IsBlock(ledger, load, Block) /\ n \in 1..MaxTxs /\ n \in Nat
  BY NextBlock, PipelineAssumption, SMTT(30)
<1>3. /\ LedgerOK' /\ Grows(ledger, ledger')
      /\ ledger'.members = A[n].members
  BY <1>2, CommitGrows
<1>4. ledger.height \in Nat /\ load \in Workloads
  BY DEF PipelineInv, LedgerOK, IsLedger, ClientOK
<1>5. members = A[n].members
  <2>1. A[0] = ledger /\ \A i \in 1..n : A[i] = Step(A[i - 1], Block, i)
    BY <1>2, StagesDef, SMTT(30)
  <2>2. CASE Block[1].req.fn # "config"
    <3>1. A[n].members = ledger.members
      BY <1>2, <2>2, StagesAreStages, SMT DEF PipelineInv
    <3> QED
      BY <2>2, <3>1 DEF PipelineInv, CommitOK
  <2>3. CASE Block[1].req.fn = "config"
    <3>1. n = 1
      BY <1>2, <2>3, SMTT(30) DEF IsBlock
    <3>2. A[1] = Step(ledger, Block, 1)
      BY <2>1, <3>1, SMT
    <3>3. A[1].members = IF flags[1] = "VALID" THEN Block[1].req.members ELSE ledger.members
      BY <2>3, <3>2 DEF Step, IsValid, Apply, PipelineInv, LedgerOK, IsLedger
    <3> QED
      BY <2>3, <3>1, <3>3 DEF PipelineInv, CommitOK
  <2> QED
    BY <2>2, <2>3
<1>6. CommitOK'
  BY <1>1, <1>3, <1>5 DEF CommitOK
<1>7. ClientOK'
  <2>1. \A t \in Txs : \A r \in responses[t] : Faithful(ledger', Req(t), r.rw, r.ran)
    BY <1>3, <1>4, FaithfulKept, RequestFacts DEF PipelineInv, ClientOK, Txs, Req
  <2>2. \A t \in Txs : envelope[t] # Nil => Genuine(ledger', load, envelope[t])
    BY <1>3, <1>4, GenuineKept DEF PipelineInv, ClientOK
  <2> QED
    BY <1>1, <2>1, <2>2 DEF PipelineInv, ClientOK, Txs, Req
<1>8. ChainOK'
  <2>1. \A m \in 1..Len(chain) : IsBlock(ledger', load, chain[m])
    BY <1>3, <1>4, GenuineKept DEF PipelineInv, ChainOK, IsBlock
  <2> QED
    BY <1>1, <2>1 DEF PipelineInv, ChainOK
<1>9. QED
  BY <1>3, <1>6, <1>7, <1>8 DEF PipelineInv

\* The invariant holds for every number of blocks, faults and crashes.
LEMMA PipelineInvariant == Spec => []PipelineInv
<1>1. Init => PipelineInv
  <2>1. SUFFICES ASSUME Init PROVE PipelineInv
    OBVIOUS
  <2>2. LedgerOK
    BY <2>1, WorkloadAssumption, SMT DEF Init, LedgerOK, IsLedger
  <2>3. ClientOK /\ CommitOK
    BY <2>1 DEF Init, ClientOK, CommitOK
  <2>4. ChainOK
    <3>1. chain \in Seq({})
      BY <2>1, SMT DEF Init
    <3>2. Len(chain) = 0
      BY <2>1 DEF Init
    <3> QED
      BY <3>1, <3>2, SMT DEF ChainOK
  <2> QED
    BY <2>2, <2>3, <2>4 DEF PipelineInv
<1>2. PipelineInv /\ [Next]_vars => PipelineInv'
  <2>1. SUFFICES ASSUME PipelineInv, [Next]_vars PROVE PipelineInv'
    OBVIOUS
  <2>2. CASE UNCHANGED vars
    <3>1. LedgerOK' /\ ChainOK' /\ CommitOK'
      BY <2>1, <2>2, Elsewhere DEF vars
    <3>2. ClientOK'
      BY <2>1, <2>2 DEF vars, PipelineInv, ClientOK, Txs, Req
    <3> QED
      BY <3>1, <3>2 DEF PipelineInv
  <2>3. CASE Commit
    BY <2>1, <2>3, ValidateStep, CommitStep DEF Commit, Block
  <2> QED
    BY <2>1, <2>2, <2>3, ProposalStep, EndorseStep, SubmitStep, OrderStep, CrashStep DEF Next
<1>3. QED
  BY <1>1, <1>2, PTL DEF Spec

-----------------------------------------------------------------------------
(* What is true of a block when it is committed. *)

\* A block's transactions as `last' shows them.
LEMMA Applied ==
  ASSUME PipelineInv, ledger.height < Len(chain), LedgerCommit(Block), NEW i \in DOMAIN last'
  PROVE  /\ i \in 1..Len(Block) /\ Len(Block) \in Nat /\ Genuine(ledger, load, Block[i])
         /\ last'[i].env = Block[i] /\ last'[i].before = Stages(Block)[i - 1]
         /\ last'[i].valid = IsValid(Stages(Block)[i - 1], Block[i], flags[i])
         /\ IsStage(last'[i].before)
         /\ Block[i].req.fn # "config" => last'[i].before.members = ledger.members
<1>1. /\ IsBlock(ledger, load, Block) /\ Len(Block) \in Nat
      /\ DOMAIN Block = 1..Len(Block)
  BY NextBlock, PipelineAssumption, SMT
<1>2. i \in 1..Len(Block) /\ i - 1 \in 0..Len(Block)
  BY <1>1, SMT DEF LedgerCommit
<1>3. Block[i].req.fn # "config" => Block[1].req.fn # "config"
  BY <1>1, <1>2, SMT DEF IsBlock
<1>4. /\ last'[i].env = Block[i] /\ last'[i].before = Stages(Block)[i - 1]
      /\ last'[i].valid = IsValid(Stages(Block)[i - 1], Block[i], flags[i])
  BY <1>1, <1>2 DEF LedgerCommit
<1>5. Genuine(ledger, load, Block[i])
  BY <1>1, <1>2 DEF IsBlock
<1>6. QED
  BY <1>1, <1>2, <1>3, <1>4, <1>5, StagesAreStages DEF PipelineInv

\* A flag that says valid: every check of the transaction passed, and the
\* block upgrades neither what it calls nor, later, what it upgrades.
LEMMA FlaggedValid ==
  ASSUME NEW l, NEW m, NEW block, NEW failing, NEW i \in DOMAIN block,
         Validate(l, m, block, failing)[i] = "VALID"
  PROVE  LET codes == FlagsOf(l, m, block, failing)
         IN  /\ codes[i] = "VALID" /\ ValidateTransaction(block[i], m) = "VALID"
             /\ block[i].req.fn # "config" =>
                  VSCCValidateTx(l, m, block[i], i \in failing) = "VALID"
             /\ ~Superseded(block, codes, i) /\ ~CallsUpgraded(block, codes, i)
<1> DEFINE codes == FlagsOf(l, m, block, failing)
<1>1. Validate(l, m, block, failing)[i] =
        IF codes[i] = "VALID" /\ (Superseded(block, codes, i) \/ CallsUpgraded(block, codes, i))
        THEN "CHAINCODE_VERSION_CONFLICT" ELSE codes[i]
  BY ValidateFlags DEF invalidTXsForUpgradeCC
<1> HIDE DEF codes
<1>2. codes[i] = "VALID" /\ ~Superseded(block, codes, i) /\ ~CallsUpgraded(block, codes, i)
  BY <1>1
<1>3. codes[i] = Flag(l, m, block, failing, i)
  BY DEF codes, FlagsOf
<1>4. /\ ValidateTransaction(block[i], m) = "VALID"
      /\ block[i].req.fn # "config" => VSCCValidateTx(l, m, block[i], i \in failing) = "VALID"
  BY <1>2, <1>3 DEF Flag
<1>5. QED
  BY <1>2, <1>4 DEF codes

\* An entry of lscc that a valid transaction read is, where the transaction is
\* applied, the one on the ledger before the block.
LEMMA EntryUnchanged ==
  ASSUME PipelineInv, NEW l, IsStage(l), NEW env, env.req.fn # "config",
         Genuine(ledger, load, env), Current(l, env),
         NEW c \in Chaincodes, <<"lscc", c>> \in DOMAIN env.rw.reads
  PROVE  /\ l.lscc[c] = ledger.lscc[c]
         /\ ledger.ver[<<"lscc", c>>] = env.rw.reads[<<"lscc", c>>]
<1> DEFINE k == <<"lscc", c>>
<1>1. k \in Keys /\ env.rw.reads[k] \in Nat \X Nat /\ env.rw.reads[k][1] <= ledger.height
  BY DEF Genuine, Faithful
<1>2. l.ver[k] = env.rw.reads[k]
  BY DEF Current
<1>3. l.ver[k][1] # ledger.height + 1
  BY <1>1, <1>2, SMTT(30) DEF PipelineInv, LedgerOK, IsLedger
<1>4. QED
  BY <1>1, <1>2, <1>3 DEF IsStage

\* Counting the first endorsement of each identity counts identities.
LEMMA CountsIdentities ==
  ASSUME NEW n \in Nat, NEW e \in [1..n -> Orgs], NEW M
  PROVE  LET I == {i \in deduplicateIdentity(e) : e[i] \in M}
             T == {e[i] : i \in DOMAIN e} \cap M
         IN  Cardinality(I) \in Nat /\ Cardinality(T) \in Nat /\ Cardinality(I) <= Cardinality(T)
<1> DEFINE I == {i \in deduplicateIdentity(e) : e[i] \in M}
           T == {e[i] : i \in DOMAIN e} \cap M
           f == [i \in I |-> e[i]]
<1>1. IsFiniteSet(T)
  <2>1. T \subseteq Orgs
    OBVIOUS
  <2> QED
    BY <2>1, FS_Subset, PipelineAssumption
<1>2. I \subseteq 1..n
  BY DEF deduplicateIdentity
<1>3. f \in [I -> T]
  BY <1>2
<1>4. ASSUME NEW i \in I, NEW j \in I, e[i] = e[j] PROVE i = j
  <2>1. i \in 1..n /\ j \in 1..n
    BY <1>2
  <2>2. ~(i < j) /\ ~(j < i)
    BY <1>4, <2>1, SMT DEF deduplicateIdentity
  <2> QED
    BY <2>1, <2>2, SMT
<1>5. f \in Injection(I, T)
  <2>1. \A i, j \in I : f[i] = f[j] => i = j
    BY <1>4
  <2> HIDE DEF f, I, T
  <2> QED
    BY <1>3, <2>1 DEF Injection, IsInjective
<1> HIDE DEF I, T, f
<1>6. IsFiniteSet(I) /\ Cardinality(I) <= Cardinality(T)
  BY <1>1, <1>5, FS_Injection
<1>7. Cardinality(I) \in Nat /\ Cardinality(T) \in Nat
  BY <1>1, <1>6, FS_CardinalityType
<1>8. QED
  BY <1>6, <1>7 DEF I, T

-----------------------------------------------------------------------------
(* The theorems. *)

\* What the committer has established of a valid transaction it applies.
LEMMA ValidTransaction ==
  ASSUME PipelineInv, ledger.height < Len(chain), flags # Nil, LedgerCommit(Block),
         NEW i \in DOMAIN last', last'[i].valid, last'[i].env.req.fn # "config"
  PROVE  /\ Genuine(ledger, load, Block[i]) /\ last'[i].env = Block[i]
         /\ IsStage(last'[i].before) /\ Current(last'[i].before, Block[i])
         /\ last'[i].before.members = ledger.members
         /\ ValidateTransaction(Block[i], ledger.members) = "VALID"
         /\ \E fails : VSCCValidateTx(ledger, ledger.members, Block[i], fails) = "VALID"
<1>1. PICK failing : flags = Validate(ledger, ledger.members, Block, failing)
  BY DEF PipelineInv, CommitOK
<1>2. i \in 1..Len(Block) /\ DOMAIN Block = 1..Len(Block)
  BY Applied, NextBlock
<1>3. flags[i] = "VALID" /\ Current(last'[i].before, Block[i])
  BY Applied DEF IsValid
<1>4. /\ ValidateTransaction(Block[i], ledger.members) = "VALID"
      /\ VSCCValidateTx(ledger, ledger.members, Block[i], i \in failing) = "VALID"
  <2>1. Block[i].req.fn # "config"
    BY Applied
  <2> QED
    BY <1>1, <1>2, <1>3, <2>1, FlaggedValid
<1>5. QED
  BY <1>3, <1>4, Applied

\* A valid call of a chaincode of a user passed the policy of every namespace
\* it writes.
LEMMA VSCCChecked ==
  ASSUME NEW l, NEW m, NEW env, NEW fails, VSCCValidateTx(l, m, env, fails) = "VALID",
         NEW ns \in Checked(env)
  PROVE  /\ GetInfoForValidate(l, ns) # Nil
         /\ Evaluate(GetInfoForValidate(l, ns).policy, env, m)
         /\ env.name = "lscc" => ValidateLSCCInvocation(l, env)
BY DEF VSCCValidateTx, VSCCValidateTxForCC

\* The step that commits a block establishes the two properties of the
\* invocations in it.
LEMMA CommitInvocations ==
  ASSUME PipelineInv, ledger.height < Len(chain), flags # Nil, LedgerCommit(Block)
  PROVE  RanCurrentVersion' /\ PolicyHeldAtCommit'
<1>1. SUFFICES ASSUME NEW i \in DOMAIN last', last'[i].valid, last'[i].env.req.fn = "invoke",
                      NEW c \in DOMAIN last'[i].env.ran
               PROVE  /\ last'[i].before.lscc[c] # Nil
                      /\ last'[i].env.ran[c] = last'[i].before.lscc[c].version
                      /\ Cardinality({last'[i].env.endorsements[j] :
                                        j \in DOMAIN last'[i].env.endorsements}
                                       \cap last'[i].before.members)
                           >= last'[i].before.lscc[c].policy
  BY DEF RanCurrentVersion, PolicyHeldAtCommit, Invocation, Endorsers
<1> DEFINE env == Block[i]
           l   == last'[i].before
<1>2. /\ Genuine(ledger, load, env) /\ last'[i].env = env
      /\ IsStage(l) /\ Current(l, env) /\ l.members = ledger.members
  BY <1>1, ValidTransaction
<1>3. PICK fails : VSCCValidateTx(ledger, ledger.members, env, fails) = "VALID"
  BY <1>1, ValidTransaction
<1>4. load \in Workloads
  BY DEF PipelineInv, ClientOK
<1> HIDE DEF env, l
<1>5. env.req.fn = "invoke"
  BY <1>1, <1>2
<1>6. /\ env.req.cc \in Chaincodes /\ env.req.cc \in Runs(env.req)
      /\ c \in Runs(env.req) /\ c \in Chaincodes
  BY <1>1, <1>2, <1>4, <1>5, RequestFacts, SMTT(30) DEF Genuine, Faithful
<1>7. <<"lscc", c>> \in DOMAIN env.rw.reads /\ <<c, "k">> \in env.rw.writes
  BY <1>2, <1>5, <1>6 DEF Genuine, Faithful
<1>8. /\ l.lscc[c] = ledger.lscc[c]
      /\ ledger.ver[<<"lscc", c>>] = env.rw.reads[<<"lscc", c>>]
  BY <1>2, <1>5, <1>6, <1>7, EntryUnchanged, SMTT(30)
<1>9. l.lscc[c] # Nil /\ env.ran[c] = l.lscc[c].version
  BY <1>2, <1>5, <1>6, <1>8 DEF Genuine, Faithful
<1>10. c \notin SysCC /\ env.name \notin SysCC
  BY <1>2, <1>5, <1>6, PipelineAssumption DEF Genuine, Target
<1>11. c \in Checked(env)
  BY <1>7, <1>10, SMT DEF Checked, Namespaces
<1>12. GetInfoForValidate(ledger, c).policy = l.lscc[c].policy
  BY <1>8, <1>9, <1>10 DEF GetInfoForValidate, SysCC
<1>13. Evaluate(l.lscc[c].policy, env, ledger.members)
  BY <1>3, <1>11, <1>12, VSCCChecked
<1>14. Cardinality({j \in deduplicateIdentity(env.endorsements) :
                      env.endorsements[j] \in l.members}) >= l.lscc[c].policy
  BY <1>2, <1>13 DEF Evaluate
<1>15. PICK n \in Nat : env.endorsements \in [1..n -> Orgs]
  BY <1>2, <1>5 DEF Genuine
<1> DEFINE I == {j \in deduplicateIdentity(env.endorsements) : env.endorsements[j] \in l.members}
           T == {env.endorsements[j] : j \in DOMAIN env.endorsements} \cap l.members
<1>16. Cardinality(I) \in Nat /\ Cardinality(T) \in Nat /\ Cardinality(I) <= Cardinality(T)
  BY <1>15, CountsIdentities
<1>17. Cardinality(T) >= l.lscc[c].policy
  <2>1. l.lscc[c].policy \in Nat
    BY <1>2, <1>6, <1>9 DEF IsStage, IsLedger, IsEntry
  <2>2. Cardinality(I) >= l.lscc[c].policy
    BY <1>14
  <2> HIDE DEF I, T
  <2> QED
    BY <1>16, <2>1, <2>2, SMTT(30)
<1>18. QED
  BY <1>2, <1>9, <1>17 DEF l

\* So it does for deployments, upgrades and creators.
LEMMA CommitLifecycle ==
  ASSUME PipelineInv, ledger.height < Len(chain), flags # Nil, LedgerCommit(Block)
  PROVE  LifecycleCurrent' /\ CreatorIsMember'
<1>1. ASSUME NEW i \in DOMAIN last', last'[i].valid, last'[i].env.req.fn # "config"
      PROVE  last'[i].env.req.creator \in last'[i].before.members
  <2>1. /\ last'[i].env = Block[i] /\ last'[i].before.members = ledger.members
        /\ ValidateTransaction(Block[i], ledger.members) = "VALID"
    BY <1>1, ValidTransaction
  <2>2. checkSignatureFromCreator(Block[i], ledger.members)
    BY <2>1 DEF ValidateTransaction
  <2> QED
    BY <1>1, <2>1, <2>2 DEF checkSignatureFromCreator
<1>2. ASSUME NEW i \in DOMAIN last', last'[i].valid,
             last'[i].env.req.fn \in {"deploy", "upgrade"}
      PROVE  LET req == last'[i].env.req
                 cd  == last'[i].before.lscc[req.cc]
             IN  /\ req.fn = "deploy" => cd = Nil
                 /\ req.fn = "upgrade" =>
                      /\ cd # Nil /\ cd.version # req.data.version
                      /\ cd.inst # Nil /\ req.creator \in cd.inst
  <2> DEFINE env == Block[i]
             l   == last'[i].before
  <2>1. /\ Genuine(ledger, load, env) /\ last'[i].env = env
        /\ IsStage(l) /\ Current(l, env)
    BY <1>2, ValidTransaction
  <2>2. PICK fails : VSCCValidateTx(ledger, ledger.members, env, fails) = "VALID"
    BY <1>2, ValidTransaction
  <2>3. load \in Workloads
    BY DEF PipelineInv, ClientOK
  <2> HIDE DEF env, l
  <2>4. env.req.fn \in {"deploy", "upgrade"}
    BY <1>2, <2>1
  <2>5. /\ env.req.cc \in Chaincodes /\ <<"lscc", env.req.cc>> \in DOMAIN env.rw.reads
        /\ env.name = "lscc"
    BY <2>1, <2>3, <2>4, RequestFacts, SMTT(30) DEF Genuine, Faithful, Target
  <2>6. l.lscc[env.req.cc] = ledger.lscc[env.req.cc]
    BY <2>1, <2>4, <2>5, EntryUnchanged
  <2>7. ValidateLSCCInvocation(ledger, env)
    BY <2>2, <2>5, VSCCChecked DEF Checked, SysCC
  <2>8. LET cd == l.lscc[env.req.cc]
        IN  /\ env.req.fn = "deploy" => cd = Nil
            /\ env.req.fn = "upgrade" =>
                 /\ cd # Nil /\ cd.version # env.req.data.version
                 /\ cd.inst # Nil /\ env.req.creator \in cd.inst
    BY <2>6, <2>7 DEF ValidateLSCCInvocation, getInstantiatedCC, checkInstantiationPolicy
  <2> QED
    BY <2>1, <2>8 DEF l
<1>3. LifecycleCurrent'
  BY <1>2 DEF LifecycleCurrent
<1>4. CreatorIsMember'
  BY <1>1 DEF CreatorIsMember
<1>5. QED
  BY <1>3, <1>4

\* And for the transactions of a block that meet an upgrade.
LEMMA CommitUpgrades ==
  ASSUME PipelineInv, ledger.height < Len(chain), flags # Nil, LedgerCommit(Block)
  PROVE  UpgradeExcludesInvocations'
<1>1. SUFFICES ASSUME NEW i \in DOMAIN last', NEW j \in DOMAIN last', i # j,
                      last'[i].valid, last'[j].valid, last'[i].env.req.fn = "upgrade",
                      last'[j].env.req.fn \in {"invoke", "upgrade"},
                      last'[j].env.req.cc = last'[i].env.req.cc
               PROVE  FALSE
  BY DEF UpgradeExcludesInvocations, Invocation
<1>2. PICK failing : flags = Validate(ledger, ledger.members, Block, failing)
  BY DEF PipelineInv, CommitOK
<1> DEFINE codes == FlagsOf(ledger, ledger.members, Block, failing)
<1>3. DOMAIN Block = 1..Len(Block) /\ i \in 1..Len(Block) /\ j \in 1..Len(Block)
  BY NextBlock, Applied
<1>4. flags[i] = "VALID" /\ flags[j] = "VALID"
  BY <1>1, Applied DEF IsValid
<1>5. /\ codes[i] = "VALID" /\ ~Superseded(Block, codes, i)
      /\ codes[j] = "VALID" /\ ~Superseded(Block, codes, j) /\ ~CallsUpgraded(Block, codes, j)
  <2>1. ASSUME NEW k \in DOMAIN Block, flags[k] = "VALID"
        PROVE  /\ codes[k] = "VALID" /\ ~Superseded(Block, codes, k)
               /\ ~CallsUpgraded(Block, codes, k)
    BY <1>2, <2>1, FlaggedValid
  <2> HIDE DEF codes
  <2> QED
    BY <1>3, <1>4, <2>1
<1> HIDE DEF codes
<1>6. /\ Block[i].req.fn = "upgrade" /\ Block[j].req.fn \in {"invoke", "upgrade"}
      /\ Block[j].req.cc = Block[i].req.cc
      /\ Genuine(ledger, load, Block[i]) /\ Genuine(ledger, load, Block[j])
  BY <1>1, Applied
<1>7. i \in Upgrades(Block, codes, Block[i].req.cc)
  BY <1>3, <1>5, <1>6 DEF Upgrades, getTxCCInstance, Genuine, Target
<1>8. CASE Block[j].req.fn = "invoke"
  <2>1. Block[j].name = Block[i].req.cc
    BY <1>6, <1>8 DEF Genuine, Target
  <2> QED
    BY <1>5, <1>7, <2>1 DEF CallsUpgraded
<1>9. CASE Block[j].req.fn = "upgrade"
  <2>1. j \in Upgrades(Block, codes, Block[i].req.cc)
    BY <1>3, <1>5, <1>6, <1>9 DEF Upgrades, getTxCCInstance, Genuine, Target
  <2>2. i < j \/ j < i
    BY <1>1, <1>3, SMT
  <2> QED
    BY <1>5, <1>6, <1>7, <2>1, <2>2 DEF Superseded
<1>10. QED
  BY <1>6, <1>8, <1>9

\* The properties of committed blocks, together.
BlocksOK ==
  /\ RanCurrentVersion /\ PolicyHeldAtCommit /\ LifecycleCurrent
  /\ CreatorIsMember /\ UpgradeExcludesInvocations

\* Only the commit of a block changes what they speak of.
LEMMA BlocksAlwaysOK == Spec => []BlocksOK
<1>1. Init => BlocksOK
  BY SMT DEF Init, BlocksOK, RanCurrentVersion, PolicyHeldAtCommit, LifecycleCurrent,
         CreatorIsMember, UpgradeExcludesInvocations
<1>2. PipelineInv /\ BlocksOK /\ [Next]_vars => BlocksOK'
  <2>1. SUFFICES ASSUME PipelineInv, BlocksOK, [Next]_vars PROVE BlocksOK'
    OBVIOUS
  <2>2. CASE last' = last
    <3>1. RanCurrentVersion' /\ LifecycleCurrent' /\ CreatorIsMember'
      BY <2>1, <2>2 DEF BlocksOK, RanCurrentVersion, LifecycleCurrent, CreatorIsMember,
           Invocation
    <3>2. PolicyHeldAtCommit'
      BY <2>1, <2>2, SMT DEF BlocksOK, PolicyHeldAtCommit, Invocation, Endorsers
    <3>3. UpgradeExcludesInvocations'
      BY <2>1, <2>2, ZenonT(40) DEF BlocksOK, UpgradeExcludesInvocations, Invocation
    <3> QED
      BY <3>1, <3>2, <3>3 DEF BlocksOK
  <2>3. CASE ledger.height < Len(chain) /\ flags # Nil /\ LedgerCommit(Block)
    BY <2>1, <2>3, CommitInvocations, CommitLifecycle, CommitUpgrades DEF BlocksOK
  <2>4. last' = last \/ (ledger.height < Len(chain) /\ flags # Nil /\ LedgerCommit(Block))
    BY <2>1, ZenonT(30) DEF Next, vars, Submit, ProcessProposal, endorseProposal, Order, Commit,
         Crash, ValidateBlock, Block
  <2> QED
    BY <2>2, <2>3, <2>4
<1>3. QED
  BY <1>1, <1>2, PipelineInvariant, PTL DEF Spec

\* A valid invocation ran, in every chaincode it called, the version that is on
\* the ledger where it is applied, whatever upgrades and approvals were ordered
\* before it, in its block or between endorsement and commit (getCDSFromLSCC).
THEOREM AlwaysRanCurrentVersion == Spec => []RanCurrentVersion
<1>1. BlocksOK => RanCurrentVersion
  BY DEF BlocksOK
<1>2. QED
  BY <1>1, BlocksAlwaysOK, PTL

\* A valid invocation has the endorsers that the policies in force where it is
\* applied ask for, counted without duplicates (VSCCValidateTx).
THEOREM PolicyAlwaysHeld == Spec => []PolicyHeldAtCommit
<1>1. BlocksOK => PolicyHeldAtCommit
  BY DEF BlocksOK
<1>2. QED
  BY <1>1, BlocksAlwaysOK, PTL

\* Deployments and upgrades are decided against the ledger before the block and
\* still right where they are applied (ValidateLSCCInvocation).
THEOREM LifecycleAlwaysCurrent == Spec => []LifecycleCurrent
<1>1. BlocksOK => LifecycleCurrent
  BY DEF BlocksOK
<1>2. QED
  BY <1>1, BlocksAlwaysOK, PTL

\* The creator of a valid transaction is a member under the configuration on the
\* ledger, although a new configuration is in force before its block is committed
\* and a crash may come between (checkSignatureFromCreator, Commit).
THEOREM CreatorAlwaysMember == Spec => []CreatorIsMember
<1>1. BlocksOK => CreatorIsMember
  BY DEF BlocksOK
<1>2. QED
  BY <1>1, BlocksAlwaysOK, PTL

\* A block with a valid upgrade of a chaincode has no valid invocation and no
\* other valid upgrade of it, for blocks of any size (invalidTXsForUpgradeCC).
THEOREM UpgradesExcludeInvocations == Spec => []UpgradeExcludesInvocations
<1>1. BlocksOK => UpgradeExcludesInvocations
  BY DEF BlocksOK
<1>2. QED
  BY <1>1, BlocksAlwaysOK, PTL
=============================================================================
