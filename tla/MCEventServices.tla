---------------------------- MODULE MCEventServices ----------------------------
(***************************************************************************)
(* An instance of EventServices for TLC: events that follow each other in  *)
(* a chain, of three for the recorder and of four for the triggers, or two *)
(* that follow the first.                                                  *)
(***************************************************************************)
EXTENDS EventServices

CONSTANTS c1, c2

Chain == <<None, 1, 2>>
LongChain == <<None, 1, 2, 3>>
MCInstances ==
  [service : {"recorder"}, follows : {Chain}, clock : {<<1, 1, 3, 4>>, <<1, 2, 2, 4>>},
   troubles : {2}]
  \cup [service : {"triggers"}, follows : {LongChain, <<None, 1, 1>>}, clock : {<<1, 2, 3, 4>>},
        troubles : {0}]
  \cup [service : {"triggers"}, follows : {<<None, 1>>}, clock : {<<1, 2, 3, 4>>},
        troubles : {1}]

=============================================================================
