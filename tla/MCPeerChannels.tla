--------------------------- MODULE MCPeerChannels ---------------------------
(* Small instances of PeerChannels for TLC. *)
EXTENDS PeerChannels

CONSTANTS c1, c2

MCAuthorities == [subject : {"org1", "org2"}, serial : 0..MaxHeight, parses : BOOLEAN]

MCStaticCAs == {[subject |-> "org2", serial |-> 0, parses |-> TRUE]}

\* The two channels share one organisation; its authority is renewed by each
\* configuration of c1, the second of which has one that does not parse, and c2
\* adds an organisation of its own.
MCCerts(id, n) ==
    IF id = c1 THEN {[subject |-> "org1", serial |-> n, parses |-> n # 2]}
    ELSE {[subject |-> "org1", serial |-> 1, parses |-> TRUE],
          [subject |-> "org2", serial |-> n, parses |-> TRUE]}

\* The bounded instance may stop once every channel is joined.
Finished == proc = "up" /\ create = Nil /\ ids = Ledgers /\ UNCHANGED allVars

MCSpec == ChannelsInit /\ [][ChannelsNext \/ Finished]_allVars
MCFairSpec == MCSpec /\ ChannelsFairness
=============================================================================
