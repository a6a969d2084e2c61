------------------------------- MODULE MCTaskQueue -------------------------------
(***************************************************************************)
(* An instance of TaskQueue for TLC: two keys, one worker for both and one *)
(* for the second.                                                         *)
(***************************************************************************)
EXTENDS TaskQueue, TLC

CONSTANTS k1, k2, r1, r2, r3, w1, w2

MCKeyOf == r1 :> k1 @@ r2 :> k2 @@ r3 :> k2
MCLimit == w1 :> 2 @@ w2 :> 1
MCSubscribed == w1 :> <<k1, k2>> @@ w2 :> <<k2>>

=============================================================================
