--------------------------- MODULE MCBlockDelivery ---------------------------
(* Instances of BlockDelivery for TLC. *)
EXTENDS BlockDelivery

Load(starts, sends, bound) == [starts |-> starts, sends |-> sends, failures |-> bound]

\* Two deliveries of a channel with failures, and deliveries beside senders.
MCWorkloads == {Load(2, 0, 2), Load(1, 2, 1)}
==============================================================================
