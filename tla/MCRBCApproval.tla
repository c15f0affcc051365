--------------------------- MODULE MCRBCApproval ---------------------------
(***************************************************************************)
(* Instances of RBCApproval.  Each workload is a registry of founders (a   *)
(* state that registrations one after the other reach) and a handful of    *)
(* proposals that are simulated and committed in any order.                *)
(***************************************************************************)
EXTENDS RBCApproval, TLC

CONSTANTS s1, s2, s3, c4, n1, n2, n3, n4, k1, k2, k3, k4, a1, a2, p1, p2, cc, v1, v2, x, y

Super(no, cert) == [no |-> no, type |-> 1, status |-> 1, cert |-> cert]
Register(by, id, no, type, cert) ==
  [fn |-> "register", by |-> by, entity |-> [id |-> id, no |-> no, type |-> type, cert |-> cert]]
EditOf(id, type, status, cert) == [id |-> id, type |-> type, status |-> status, cert |-> cert]
Ask(by, id, veto, call) ==
  [fn |-> "newApproval", by |-> by, approval |-> [id |-> id, veto |-> veto, call |-> call]]
Sign(by, id, vote) == [fn |-> "approval", by |-> by, id |-> id, vote |-> vote]
Modify(edit) == [kind |-> "modify", edit |-> edit]
Deploy(v, scc) == [kind |-> "deploy", cc |-> cc, v |-> v, scc |-> scc, payload |-> Nil]
Update(v, payload) == [kind |-> "update", cc |-> cc, v |-> v, payload |-> payload]
Lifecycle(fn, v, scc) ==
  [fn |-> fn, by |-> k1, name |-> <<cc, v>>, admin |-> TRUE, scc |-> scc]

(* Registrations that share a number, and edits asked for directly.        *)
Registrations ==
  [founders |-> << >>, installs |-> {},
   ops |-> <<Register(k1, s1, n1, 1, k1), Register(k1, s2, n2, 1, k2), Register(k2, s3, n2, 2, k3),
             Register(k2, c4, n4, 4, k1),
             [fn |-> "modify", by |-> k1, edit |-> EditOf(s2, 4, 0, Nil)],
             [fn |-> "modifyDict", by |-> k2, edit |-> EditOf(s1, 2, 2, k4)]>>]

(* A veto on a change of a super user, while another one is registered     *)
(* and another approval is asked for.                                      *)
Veto ==
  [founders |-> s1 :> Super(n1, k1) @@ s2 :> Super(n2, k2), installs |-> {},
   ops |-> <<Ask(k1, a1, 1, Modify(EditOf(s2, 4, 2, Nil))), Sign(k2, a1, 1), Sign(k2, a1, 2),
             Register(k1, s3, n3, 1, k3), Sign(k3, a1, 1), Ask(k1, a2, 1, [kind |-> "other"])>>]

(* Type and status change together, then the status alone.                 *)
Edits ==
  [founders |-> s1 :> Super(n1, k1) @@ s2 :> [Super(n2, k2) EXCEPT !.type = 4], installs |-> {},
   ops |-> <<Ask(k1, a1, 3, Modify(EditOf(s2, 2, 2, Nil))),
             Ask(k1, a2, 3, Modify(EditOf(s2, 0, 3, k4)))>>]

(* Two approvals about the same customers, decided by two thirds and half. *)
Majority ==
  [founders |-> s1 :> Super(n1, k1) @@ s2 :> Super(n2, k2) @@ s3 :> Super(n3, k3),
   installs |-> {},
   ops |-> <<Ask(k1, a1, 3, Modify(EditOf(s3, 0, 3, k4))),
             Ask(k2, a2, 2, Modify(EditOf(s3, 2, 0, k1))),
             Sign(k2, a1, 1), Sign(k3, a1, 2), Sign(k1, a2, 2), Sign(k3, a2, 2)>>]

(* A chaincode deployed, upgraded and taken back to an earlier version.    *)
Raw(code) == [code |-> code, policy |-> Nil]
Versioned ==
  [founders |-> s1 :> Super(n1, k1) @@ s2 :> Super(n2, k2),
   installs |-> {<<p1, <<cc, v1>>, Raw(x)>>, <<p1, <<cc, v1>>, Raw(y)>>,
                 <<p2, <<cc, v1>>, [code |-> y, policy |-> "any"]>>, <<p1, <<cc, v2>>, Raw(x)>>},
   ops |-> <<Ask(k1, a1, 1, Deploy(v1, TRUE)), Sign(k2, a1, 1),
             Lifecycle("deploy", v1, TRUE), Lifecycle("upgrade", v2, TRUE),
             Ask(k1, a2, 2, Update(v1, Nil))>>]

(* Data that putChaincodeData refuses, and data of the client's own.       *)
Refused ==
  [founders |-> s1 :> Super(n1, k1), installs |-> {<<p1, <<cc, v1>>, Raw(x)>>},
   ops |-> <<Ask(k1, a1, 3, Deploy(v1, FALSE)),
             Ask(k1, a2, 3, Update(v2, [version |-> v2, code |-> y, policy |-> Nil, scc |-> TRUE])),
             Lifecycle("deploy", v1, TRUE), Lifecycle("upgrade", v1, FALSE)>>]

(* An approved registration against a direct one, and another call.        *)
Calls ==
  [founders |-> s1 :> Super(n1, k1) @@ s2 :> Super(n2, k2), installs |-> {},
   ops |-> <<Ask(k1, a1, 3, [kind |-> "register", entity |->
                               [id |-> c4, no |-> n4, type |-> 2, cert |-> k4]]),
             Sign(k2, a1, 1), Register(k2, c4, n3, 4, k3),
             Ask(k2, a2, 1, [kind |-> "other"]), Sign(k1, a2, 1)>>]

MCWorkloads == {Registrations, Veto, Edits, Majority, Versioned, Refused, Calls}
=============================================================================
