---------------------------- MODULE MCTxPipeline ----------------------------
(***************************************************************************)
(* Instances of TxPipeline: two organisations, and workloads of two or     *)
(* three requests that meet in one block or in successive ones.            *)
(***************************************************************************)
EXTENDS TxPipeline

CONSTANTS a, b, o1, o2, v1, v2, v3

Data(v, policy, inst) == [version |-> v, policy |-> policy, inst |-> inst]
Request(fn, cc, by, to, data) ==
  [fn |-> fn, cc |-> cc, calls |-> {}, blind |-> FALSE, creator |-> by, to |-> to, data |-> data]
Invoke(cc, calls, blind, to) ==
  [fn |-> "invoke", cc |-> cc, calls |-> calls, blind |-> blind, creator |-> o1, to |-> to,
   new |-> b, data |-> Data(v1, 1, {o1})]
By(req, org) == [req EXCEPT !.creator = org]
Blind(req) == [req EXCEPT !.blind = TRUE]
Config(orgs) == [fn |-> "config", cc |-> a, calls |-> {}, to |-> {}, members |-> orgs]

Load(reqs, la, lb, defects, bound) ==
  [reqs |-> reqs, lscc |-> [c \in {a, b} |-> IF c = a THEN la ELSE lb],
   defects |-> defects, faults |-> bound]

Open == Data(v1, 1, {o1, o2})
Strict == Data(v1, 2, {o1})

MCWorkloads == {
  \* an invocation meets an upgrade and an approved change of version
  Load(<<Invoke(a, {}, FALSE, {o1}), Request("upgrade", a, o1, {o2}, Data(v2, 2, {o1, o2})),
         Blind(Request("approve", a, o1, {o1}, Data(v3, 1, {o1})))>>, Open, Nil, {}, 0),
  \* two upgrades, the creator of each not in the policy the other sets, and a change back
  Load(<<Request("upgrade", a, o1, {o1}, Data(v2, 1, {o1})),
         Request("upgrade", a, o2, {o2}, Data(v3, 1, {o2})),
         Request("approve", a, o1, {o1}, Data(v3, 1, Nil))>>, Open, Nil, {}, 0),
  \* two deployments of one chaincode, and a call that depends on them
  Load(<<Request("deploy", b, o1, {o1}, Data(v1, 1, {o1})),
         Request("deploy", b, o2, {o1}, Data(v2, 2, {o2})),
         Invoke(a, {b}, FALSE, {o1})>>, Open, Nil, {}, 0),
  \* a call through a chaincode to one with a stricter policy, which an approval changes
  Load(<<Invoke(a, {b}, TRUE, {o1, o2}), Blind(Request("approve", b, o1, {o1}, Data(v2, 1, {o1})))>>,
       Open, Strict, {}, 1),
  \* a call of lscc from a chaincode, a query, malformed envelopes
  Load(<<Invoke(a, {"lscc"}, TRUE, {o1}), Request("query", a, o1, {o1}, Nil)>>, Open, Nil, Defects, 1),
  \* a change of the members of the channel
  Load(<<Config({o1}), Invoke(a, {}, TRUE, {o1, o2})>>, Strict, Nil, {"epoch"}, 1),
  Load(<<Config({o1}), By(Invoke(a, {}, TRUE, {o1}), o2)>>, Open, Nil, {}, 1)}
=============================================================================
