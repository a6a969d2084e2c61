-------------------------- MODULE MCGlobalConcurrency --------------------------
(***************************************************************************)
(* An instance of GlobalConcurrency for TLC.                               *)
(***************************************************************************)
EXTENDS GlobalConcurrency, TLC

CONSTANTS la, lb, ld, a1, a2, b1, ab1, d1, d2, sa, sb, sab, sd1, sd2

\* Limits la of two slots and lb of one do not decay, ld of two does. Two calls of one
\* process ask for la, others for lb, for both, and two of different processes for ld.
MCServiceOf ==
  a1 :> sa @@ a2 :> sa @@ b1 :> sb @@ ab1 :> sab @@ d1 :> sd1 @@ d2 :> sd2
MCNamesOf == sa :> {la} @@ sb :> {lb} @@ sab :> {la, lb} @@ sd1 :> {ld} @@ sd2 :> {ld}
MCOccupy == [c \in Calls |-> IF c = a2 THEN 2 ELSE 1]
MCLimits == la :> 2 @@ lb :> 1 @@ ld :> 2
MCTimeout == [c \in Calls |-> IF c \in {a2, d2} THEN 1 ELSE None]
MCRetries == [c \in Calls |-> None]
MCDecay == [l \in Limits |-> IF l = ld THEN 2 ELSE 0]

Made(ls) == [l \in Limits |-> IF l \in ls THEN "active" ELSE "absent"]

\* Two calls of one process and one that wants both limits; all failures but a release
\* that is sent twice.
Failing ==
  [calls |-> {a1, a2, ab1}, status |-> Made({la, lb}),
   troubles |-> {"resend increment", "crash", "cancel"}]

\* Calls for one limit, for the other and for both.
Quiet == [calls |-> {a1, b1, ab1}, status |-> Made({la, lb}), troubles |-> {}]

\* A limit that decays: all failures, or users that change it.
Decaying ==
  [calls |-> {d1, d2}, status |-> Made({ld}),
   troubles |-> {"resend increment", "resend decrement", "crash", "cancel",
                 "release fails"}]
Changed ==
  [calls |-> {d1, d2}, status |-> Made({ld}), troubles |-> {"limit"}]
Replaced ==
  [calls |-> {d1}, status |-> Made({}), troubles |-> {"status", "reset"}]

MCWorlds == {Failing, Quiet, Decaying, Changed, Replaced}
=============================================================================
