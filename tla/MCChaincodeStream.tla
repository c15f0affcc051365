------------------------- MODULE MCChaincodeStream -------------------------
EXTENDS ChaincodeStream
CONSTANTS r1, r2, r3, t1, t2

Two == {r1, r2}
Each(a, b, c) == [r \in Runs |-> CASE r = r1 -> a [] r = r2 -> b [] OTHER -> c]

\* One transaction executed twice.
Again == [runs  |-> Two,
          tx    |-> [r \in Runs |-> t1],
          init  |-> {},
          calls |-> Each({"GET_STATE", "PUT_STATE"}, {"PUT_STATE"}, {}),
          max   |-> [r \in Runs |-> 1],
          ends  |-> Each({"COMPLETED"}, {"COMPLETED"}, {})]

\* The same, where a goroutine of the shim may end with an error.
AgainFails == [Again EXCEPT !.calls = Each({}, {"PUT_STATE"}, {}),
                            !.ends = Each({"COMPLETED", "ERROR"}, {"COMPLETED"}, {})]

\* One transaction executed twice, with a query and a call to another chaincode.
AgainQuery == [Again EXCEPT !.calls = Each({"HISTORY"}, {"INVOKE"}, {})]

\* One Init executed twice, the first of which fails, and a run of another transaction,
\* from which the chaincode does not return.
AgainInit == [Again EXCEPT !.runs = Runs, !.init = Two,
                           !.tx = Each(t1, t1, t2),
                           !.calls = Each({}, {"GET_STATE"}, {"GET_STATE"}),
                           !.ends = Each({"ERROR"}, {"COMPLETED"}, {})]

\* A query in pages and, at the same time, an Init.
Query == [Again EXCEPT !.tx = Each(t1, t2, t2),
                       !.init = {r2, r3},
                       !.calls = Each({"RANGE", "NEXT", "CLOSE"}, {}, {}),
                       !.max = Each(2, 1, 1),
                       !.ends = Each({"COMPLETED"}, {"COMPLETED", "ERROR"}, {})]

\* A rich query and a delete, one run at a time in its transaction.
Rich == [Query EXCEPT !.init = {}, !.calls = Each({"QUERY", "NEXT"}, {"DEL_STATE"}, {}),
                      !.ends = Again.ends]
MCWorkloads == {Again, AgainFails, AgainQuery, AgainInit, Query, Rich}
=============================================================================
