------------------------ MODULE GlobalConcurrencyProofs ------------------------
(***************************************************************************)
(* A limit that decays admits no more than a bucket that leaks             *)
(* continuously, whatever happens to requests, clients and rows.  The      *)
(* slots of one that does not decay are those of the blocks that run under *)
(* it, and of those that are lost.                                         *)
(***************************************************************************)
EXTENDS GlobalConcurrency, FiniteSetTheorems, TLAPS

\* The numbers of a row and the contents of its bucket.
Numbers ==
  /\ limit \in [Limits -> Nat] /\ slots \in [Limits -> Nat]
  /\ age \in [Limits -> Nat] /\ debt \in [Limits -> Nat]

\* What is in the bucket is covered by active_slots less what the age of the row takes
\* from them, before it is rounded.
DebtCovered == \A l \in Limits : debt[l] <= Less(DecayTicks[l] * slots[l], age[l])

Inv == Numbers /\ DebtCovered

\* Subtraction that stops at zero.
LEMMA LessIsNat == \A a, b \in Nat : Less(a, b) \in Nat /\ Less(a, b) <= a
BY DEF Less

\* So many whole slots have decayed after t ticks that they weigh no more than t.
LEMMA FloorIsBelow ==
  ASSUME NEW d \in Nat \ {0}, NEW t \in Nat
  PROVE  (t \div d) \in Nat /\ d * (t \div d) <= t
BY SMTT(30)

\* Products of naturals.
LEMMA Products ==
  ASSUME NEW d \in Nat, NEW x \in Nat, NEW y \in Nat
  PROVE  /\ d * x \in Nat
         /\ d * (x + y) = d * x + y * d
         /\ x <= y => d * x <= d * y
         /\ d * (x - y) = d * x - d * y
BY SMTT(30)

\* Rounding leaves at least what has not leaked out.
LEMMA DecayIsSlower ==
  ASSUME NEW d \in Nat, NEW n \in Nat, NEW t \in Nat
  PROVE  After(n, t, d) \in Nat /\ Less(d * n, t) <= d * After(n, t, d)
<1>1. CASE d = 0
  BY <1>1 DEF After, Less
<1>2. CASE d # 0
  <2> DEFINE q == t \div d
  <2>1. q \in Nat /\ d * q <= t
    BY <1>2, FloorIsBelow
  <2> HIDE DEF q
  <2>2. After(n, t, d) = Less(n, q)
    BY <1>2 DEF After, q
  <2>3. d * n \in Nat /\ d * q \in Nat /\ d * (n - q) = d * n - d * q
    BY <2>1, Products
  <2>4. CASE n < q
    <3>1. d * n <= d * q
      BY <2>1, <2>4, Products
    <3>2. Less(d * n, t) = 0
      BY <2>1, <2>3, <3>1 DEF Less
    <3>3. After(n, t, d) = 0
      BY <2>2, <2>4 DEF Less
    <3>4. d * 0 = 0
      OBVIOUS
    <3> QED BY <3>2, <3>3, <3>4
  <2>5. CASE ~(n < q)
    <3>1. After(n, t, d) = n - q /\ n - q \in Nat
      BY <2>1, <2>2, <2>5 DEF Less
    <3>2. d * (n - q) \in Nat
      BY <3>1, Products
    <3>3. Less(d * n, t) <= d * n - d * q
      BY <2>1, <2>3, <3>2 DEF Less
    <3> QED BY <2>3, <3>1, <3>3
  <2> QED BY <2>4, <2>5
<1> QED BY <1>1, <1>2
--------------------------------------------------------------------------------
\* What the column active_slots is set to.
LEMMA ActiveIsNat ==
  ASSUME Numbers, NEW l \in Limits
  PROVE  /\ ActiveSlotsAfterDecay(l) \in Nat
         /\ Less(DecayTicks[l] * slots[l], age[l])
              <= DecayTicks[l] * ActiveSlotsAfterDecay(l)
         /\ DecayTicks[l] * slots[l] \in Nat
<1>1. DecayTicks[l] \in Nat /\ slots[l] \in Nat /\ age[l] \in Nat
  BY GlobalConcurrencyAssumption DEF Numbers
<1> QED BY <1>1, DecayIsSlower, Products DEF ActiveSlotsAfterDecay

\* A row whose slots did not change is covered whatever its age is set to, if its bucket
\* did not fill, as long as it does not get older.
LEMMA StaysCovered ==
  ASSUME Inv, NEW l \in Limits, slots'[l] = slots[l],
         age'[l] \in Nat, debt'[l] \in Nat,
         debt'[l] <= debt[l], age'[l] <= age[l]
  PROVE  debt'[l] <= Less(DecayTicks[l] * slots'[l], age'[l])
<1>1. /\ DecayTicks[l] * slots[l] \in Nat /\ debt[l] \in Nat /\ age[l] \in Nat
      /\ debt[l] <= Less(DecayTicks[l] * slots[l], age[l])
  BY ActiveIsNat DEF Inv, Numbers, DebtCovered
<1> QED BY <1>1 DEF Less

\* It holds in the beginning.
LEMMA InitInv == Init => Inv
<1> SUFFICES ASSUME Init PROVE Inv
  OBVIOUS
<1>1. Numbers
  BY GlobalConcurrencyAssumption DEF Init, Numbers
<1>2. ASSUME NEW l \in Limits
      PROVE  debt[l] <= Less(DecayTicks[l] * slots[l], age[l])
  <2>1. debt[l] = 0 /\ slots[l] = 0 /\ age[l] = 0 /\ DecayTicks[l] * 0 = 0
    BY GlobalConcurrencyAssumption DEF Init
  <2> QED BY <2>1 DEF Less
<1> QED BY <1>1, <1>2 DEF Inv, DebtCovered

\* A request that is granted fills the bucket by the weight of its slots.
LEMMA GrantInv ==
  ASSUME Inv, NEW c \in Calls, Grant(c)
  PROVE  /\ Inv'
         /\ \A l \in Limits : debt'[l] > debt[l] => debt'[l] <= DecayTicks[l] * limit[l]
<1>1. Occupy[c] \in Nat
  BY GlobalConcurrencyAssumption
<1>2. ASSUME NEW l \in Limits, l \in Active(c)
      PROVE  /\ slots'[l] \in Nat /\ age'[l] = 0 /\ debt'[l] \in Nat
             /\ debt'[l] <= DecayTicks[l] * slots'[l]
             /\ slots'[l] <= limit[l]
  <2> DEFINE d == DecayTicks[l]
             n == ActiveSlotsAfterDecay(l)
  <2>1. d \in Nat /\ debt[l] \in Nat
    BY GlobalConcurrencyAssumption DEF Inv, Numbers
  <2>2. n \in Nat /\ debt[l] <= d * n
    <3>1. /\ n \in Nat /\ Less(d * slots[l], age[l]) <= d * n
          /\ d * slots[l] \in Nat
      BY ActiveIsNat DEF Inv
    <3>2. debt[l] <= Less(d * slots[l], age[l]) /\ age[l] \in Nat
      BY DEF Inv, DebtCovered, Numbers
    <3>3. Less(d * slots[l], age[l]) \in Nat /\ d * n \in Nat
      BY <2>1, <3>1, <3>2, LessIsNat, Products
    <3> QED BY <2>1, <3>1, <3>2, <3>3
  <2>3. slots'[l] = n + Occupy[c] /\ age'[l] = 0 /\ debt'[l] = debt[l] + Occupy[c] * d
    BY <1>2 DEF Grant
  <2>4. n + Occupy[c] <= limit[l]
    BY <1>2 DEF Grant, CanAcquire
  <2>5. d * (n + Occupy[c]) = d * n + Occupy[c] * d /\ d * n \in Nat
    BY <1>1, <2>1, <2>2, Products
  <2>6. Occupy[c] * d \in Nat
    BY <1>1, <2>1, Products
  <2> HIDE DEF d, n
  <2>7. debt'[l] <= d * slots'[l] /\ slots'[l] \in Nat /\ debt'[l] \in Nat
    BY <1>1, <2>1, <2>2, <2>3, <2>5, <2>6
  <2> QED BY <2>3, <2>4, <2>7 DEF d
<1>3. ASSUME NEW l \in Limits, l \notin Active(c)
      PROVE  slots'[l] = slots[l] /\ age'[l] = age[l] /\ debt'[l] = debt[l]
  BY <1>3 DEF Grant
<1>4. Numbers'
  <2>1. limit' = limit
    BY DEF Grant, row
  <2>2. \A l \in Limits : slots'[l] \in Nat /\ age'[l] \in Nat /\ debt'[l] \in Nat
    BY <1>2, <1>3 DEF Inv, Numbers
  <2>3. /\ slots' = [l \in Limits |-> slots'[l]] /\ age' = [l \in Limits |-> age'[l]]
        /\ debt' = [l \in Limits |-> debt'[l]]
    BY DEF Grant
  <2> QED BY <2>1, <2>2, <2>3 DEF Inv, Numbers
<1>5. DebtCovered'
  <2>1. ASSUME NEW l \in Limits
        PROVE  debt'[l] <= Less(DecayTicks[l] * slots'[l], age'[l])
    <3>1. CASE l \in Active(c)
      <4>1. DecayTicks[l] * slots'[l] \in Nat
        BY <1>2, <3>1, Products, GlobalConcurrencyAssumption
      <4> QED BY <1>2, <3>1, <4>1 DEF Less
    <3>2. CASE l \notin Active(c)
      BY <1>3, <3>2 DEF Inv, DebtCovered
    <3> QED BY <3>1, <3>2
  <2> QED BY <2>1 DEF DebtCovered
<1>6. ASSUME NEW l \in Limits, debt'[l] > debt[l]
      PROVE  debt'[l] <= DecayTicks[l] * limit[l]
  <2>1. l \in Active(c)
    BY <1>3, <1>6 DEF Inv, Numbers
  <2>2. DecayTicks[l] * slots'[l] <= DecayTicks[l] * limit[l]
    BY <1>2, <2>1, Products, GlobalConcurrencyAssumption DEF Inv, Numbers
  <2>3. DecayTicks[l] * slots'[l] \in Nat /\ DecayTicks[l] * limit[l] \in Nat
    BY <1>2, <2>1, Products, GlobalConcurrencyAssumption DEF Inv, Numbers
  <2> QED BY <1>2, <2>1, <2>2, <2>3
<1> QED BY <1>4, <1>5, <1>6 DEF Inv

\* A release empties the bucket by the weight of its slots, or altogether.
LEMMA DecrementInv ==
  ASSUME Inv, NEW c \in Calls, Decrement(c)
  PROVE  Inv' /\ \A l \in Limits : debt'[l] <= debt[l]
<1>1. Occupy[c] \in Nat
  BY GlobalConcurrencyAssumption
<1>2. ASSUME NEW l \in Limits, l \in Active(c)
      PROVE  /\ slots'[l] \in Nat /\ age'[l] = 0 /\ debt'[l] \in Nat
             /\ debt'[l] <= DecayTicks[l] * slots'[l] /\ debt'[l] <= debt[l]
  <2> DEFINE d == DecayTicks[l]
             n == ActiveSlotsAfterDecay(l)
             k == Occupy[c]
  <2>1. d \in Nat /\ debt[l] \in Nat
    BY GlobalConcurrencyAssumption DEF Inv, Numbers
  <2>2. n \in Nat /\ debt[l] <= d * n
    <3>1. /\ n \in Nat /\ Less(d * slots[l], age[l]) <= d * n
          /\ d * slots[l] \in Nat
      BY ActiveIsNat DEF Inv
    <3>2. debt[l] <= Less(d * slots[l], age[l]) /\ age[l] \in Nat
      BY DEF Inv, DebtCovered, Numbers
    <3>3. Less(d * slots[l], age[l]) \in Nat /\ d * n \in Nat
      BY <2>1, <3>1, <3>2, LessIsNat, Products
    <3> QED BY <2>1, <3>1, <3>2, <3>3
  <2>3. slots'[l] = Less(n, k) /\ age'[l] = 0 /\ debt'[l] = Less(debt[l], k * d)
    BY <1>2 DEF Decrement
  <2>4. d * n \in Nat /\ k * d \in Nat /\ d * (n - k) = d * n - d * k /\ d * k = k * d
    BY <1>1, <2>1, <2>2, Products, d * k = k * d
  <2>5. n < k => d * n <= d * k
    BY <1>1, <2>1, <2>2, Products
  <2> HIDE DEF d, n, k
  <2>6. k \in Nat
    BY <1>1 DEF k
  <2>7. slots'[l] \in Nat /\ debt'[l] \in Nat /\ debt'[l] <= debt[l]
    BY <2>1, <2>2, <2>3, <2>4, <2>6, LessIsNat
  <2>8. debt'[l] <= d * slots'[l]
    <3>1. CASE n < k
      <4>1. slots'[l] = 0 /\ d * 0 = 0
        BY <2>1, <2>3, <3>1 DEF Less
      <4>2. debt[l] <= k * d
        BY <2>1, <2>2, <2>4, <2>5, <3>1
      <4>3. debt'[l] = 0
        BY <2>1, <2>3, <2>4, <4>2 DEF Less
      <4> QED BY <4>1, <4>3
    <3>2. CASE ~(n < k)
      <4>1. slots'[l] = n - k
        BY <2>3, <3>2 DEF Less
      <4>2. d * (n - k) \in Nat
        BY <2>1, <2>2, <2>6, <3>2, Products
      <4> QED BY <2>1, <2>2, <2>3, <2>4, <4>1, <4>2 DEF Less
    <3> QED BY <3>1, <3>2
  <2> QED BY <2>3, <2>7, <2>8 DEF d
<1>3. ASSUME NEW l \in Limits, l \notin Active(c)
      PROVE  /\ slots'[l] = slots[l] /\ debt'[l] = debt[l]
             /\ age'[l] \in Nat /\ age'[l] <= age[l]
  BY <1>3 DEF Decrement, Inv, Numbers
<1>4. Numbers'
  <2>1. limit' \in [Limits -> Nat]
    BY DEF Decrement, Inv, Numbers
  <2>2. \A l \in Limits : slots'[l] \in Nat /\ age'[l] \in Nat /\ debt'[l] \in Nat
    BY <1>2, <1>3 DEF Inv, Numbers
  <2>3. /\ slots' = [l \in Limits |-> slots'[l]] /\ age' = [l \in Limits |-> age'[l]]
        /\ debt' = [l \in Limits |-> debt'[l]]
    BY DEF Decrement
  <2> QED BY <2>1, <2>2, <2>3 DEF Numbers
<1>5. DebtCovered'
  <2>1. ASSUME NEW l \in Limits
        PROVE  debt'[l] <= Less(DecayTicks[l] * slots'[l], age'[l])
    <3>1. CASE l \in Active(c)
      <4>1. DecayTicks[l] * slots'[l] \in Nat
        BY <1>2, <3>1, Products, GlobalConcurrencyAssumption
      <4> QED BY <1>2, <3>1, <4>1 DEF Less
    <3>2. CASE l \notin Active(c)
      <4>1. debt'[l] \in Nat /\ debt'[l] <= debt[l]
        BY <1>3, <3>2 DEF Inv, Numbers
      <4> QED BY <1>3, <3>2, <4>1, StaysCovered
    <3> QED BY <3>1, <3>2
  <2> QED BY <2>1 DEF DebtCovered
<1>6. \A l \in Limits : debt'[l] <= debt[l]
  BY <1>2, <1>3 DEF Inv, Numbers
<1> QED BY <1>4, <1>5, <1>6 DEF Inv

\* A tick takes no more from the bucket than it lets pass for the row.
LEMMA TickInv ==
  ASSUME Inv, Tick
  PROVE  Inv' /\ \A l \in Limits : debt'[l] <= debt[l]
<1>1. Numbers'
  <2>1. limit' = limit /\ slots' = slots
    BY DEF Tick
  <2>2. \A l \in Limits : Less(debt[l], 1) \in Nat
    BY LessIsNat DEF Inv, Numbers
  <2> QED BY <2>1, <2>2 DEF Inv, Numbers, Tick
<1>2. ASSUME NEW l \in Limits
      PROVE  /\ debt'[l] <= debt[l]
             /\ debt'[l] <= Less(DecayTicks[l] * slots'[l], age'[l])
  <2>1. /\ debt[l] \in Nat /\ age[l] \in Nat /\ DecayTicks[l] * slots[l] \in Nat
        /\ debt[l] <= Less(DecayTicks[l] * slots[l], age[l])
    BY ActiveIsNat DEF Inv, Numbers, DebtCovered
  <2>2. /\ slots' = slots /\ debt'[l] = Less(debt[l], 1)
        /\ age'[l] = age[l] \/ age'[l] = age[l] + 1
    BY DEF Tick
  <2> QED BY <2>1, <2>2 DEF Less
<1> QED BY <1>1, <1>2 DEF Inv, DebtCovered

\* The other steps leave active_slots or set them to 0, and never fill a bucket.
Quiet ==
  /\ limit' \in [Limits -> Nat] /\ slots' \in [Limits -> Nat]
  /\ age' \in [Limits -> Nat] /\ debt' \in [Limits -> Nat]
  /\ \A l \in Limits :
       \/ debt'[l] = 0
       \/ slots'[l] = slots[l] /\ debt'[l] = debt[l] /\ age'[l] <= age[l]

LEMMA QuietInv ==
  ASSUME Inv, Quiet
  PROVE  Inv' /\ \A l \in Limits : debt'[l] <= debt[l]
<1>1. ASSUME NEW l \in Limits
      PROVE  /\ debt'[l] <= debt[l]
             /\ debt'[l] <= Less(DecayTicks[l] * slots'[l], age'[l])
  <2>1. debt[l] \in Nat /\ debt'[l] \in Nat /\ age'[l] \in Nat /\ slots'[l] \in Nat
    BY DEF Inv, Numbers, Quiet
  <2>2. CASE debt'[l] = 0
    <3>1. DecayTicks[l] * slots'[l] \in Nat
      BY <2>1, Products, GlobalConcurrencyAssumption
    <3> QED BY <2>1, <2>2, <3>1 DEF Less
  <2>3. CASE slots'[l] = slots[l] /\ debt'[l] = debt[l] /\ age'[l] <= age[l]
    BY <2>1, <2>3, StaysCovered
  <2> QED BY <2>2, <2>3 DEF Quiet
<1>2. Numbers'
  BY DEF Quiet, Numbers
<1> QED BY <1>1, <1>2 DEF Inv, DebtCovered

\* Of the requests and clients, only CountDenial touches a row at all: its age.
LEMMA CallQuiet ==
  ASSUME Inv, NEW c \in Calls,
         Call(c) \/ Leave(c) \/ Client(c) \/ Fault(c) \/ Refuse(c) \/ Deny(c)
  PROVE  Quiet
<1>1. UNCHANGED <<limit, slots, age, debt>>
  BY DEF Call, Leave, Client, Handle, Retry, Receive, TimeOut, Return, Fault,
         ResendIncrement, ResendDecrement, ReleaseFails, CancelCaller, Refuse, Deny, row
<1> QED BY <1>1 DEF Inv, Numbers, Quiet

LEMMA CountDenialQuiet ==
  ASSUME Inv, NEW c \in Calls, CountDenial(c)
  PROVE  Quiet
<1>1. UNCHANGED <<limit, slots, debt>> /\ age' = [l \in Limits |-> AgeAfterDenial(c, l)]
  BY DEF CountDenial
<1>2. \A l \in Limits : AgeAfterDenial(c, l) \in Nat /\ AgeAfterDenial(c, l) <= age[l]
  BY DEF AgeAfterDenial, Inv, Numbers
<1> QED BY <1>1, <1>2 DEF Inv, Numbers, Quiet

\* Users change what they like, and a row is stamped when they do.
LEMMA UserQuiet ==
  ASSUME Inv, NEW k \in Limits, User(k)
  PROVE  Quiet
<1>1. CASE CreateLimit(k)
  <2>1. InitialLimit[k] \in Nat
    BY GlobalConcurrencyAssumption
  <2> QED BY <1>1, <2>1 DEF CreateLimit, Inv, Numbers, Quiet
<1>2. CASE DeleteLimit(k)
  BY <1>2 DEF DeleteLimit, Inv, Numbers, Quiet
<1>3. CASE ToggleLimit(k)
  BY <1>3 DEF ToggleLimit, Inv, Numbers, Quiet
<1>4. CASE SetLimit(k)
  <2>1. InitialLimit[k] \in Nat
    BY GlobalConcurrencyAssumption
  <2> QED BY <1>4, <2>1 DEF SetLimit, Inv, Numbers, Quiet
<1>5. CASE ResetSlots(k)
  BY <1>5 DEF ResetSlots, Inv, Numbers, Quiet
<1> QED BY <1>1, <1>2, <1>3, <1>4, <1>5 DEF User

\* What every step keeps and what it may do to a bucket.
Bounded ==
  /\ Inv'
  /\ \A l \in Limits : debt'[l] > debt[l] => debt'[l] <= DecayTicks[l] * limit[l]

LEMMA NextInv ==
  ASSUME Inv, [Next]_vars
  PROVE  Bounded
<1>1. ASSUME Inv', \A l \in Limits : debt'[l] <= debt[l]
      PROVE  Bounded
  BY <1>1 DEF Inv, Numbers, Bounded
<1>2. ASSUME NEW c \in Calls, Call(c) \/ Leave(c) \/ Server(c) \/ Client(c) \/ Fault(c)
      PROVE  Bounded
  <2>1. CASE Grant(c)
    BY <2>1, GrantInv DEF Bounded
  <2>2. CASE Decrement(c)
    BY <2>2, <1>1, DecrementInv
  <2>3. CASE CountDenial(c)
    BY <2>3, <1>1, CountDenialQuiet, QuietInv
  <2>4. CASE Call(c) \/ Leave(c) \/ Client(c) \/ Fault(c) \/ Refuse(c) \/ Deny(c)
    BY <2>4, <1>1, CallQuiet, QuietInv
  <2> QED BY <1>2, <2>1, <2>2, <2>3, <2>4 DEF Server
<1>3. ASSUME NEW s \in Services, Crash(s)
      PROVE  Bounded
  <2>1. Quiet
    BY <1>3 DEF Crash, row, Inv, Numbers, Quiet
  <2> QED BY <1>1, <2>1, QuietInv
<1>4. ASSUME NEW l \in Limits, User(l)
      PROVE  Bounded
  BY <1>1, <1>4, UserQuiet, QuietInv
<1>5. CASE Tick
  BY <1>1, <1>5, TickInv
<1>6. CASE UNCHANGED vars
  <2>1. Quiet
    BY <1>6 DEF vars, Inv, Numbers, Quiet
  <2> QED BY <1>1, <2>1, QuietInv
<1> QED BY <1>2, <1>3, <1>4, <1>5, <1>6 DEF Next

\* What a limit admits never exceeds what a bucket of its size admits that leaks
\* continuously, at one slot per DecayTicks.
THEOREM RateIsBounded == Spec => RateBounded
<1>1. Inv /\ [Next]_vars => Inv'
  BY NextInv DEF Bounded
<1>2. Inv /\ [Next]_vars =>
        [\A l \in Limits : debt'[l] > debt[l] => debt'[l] <= DecayTicks[l] * limit[l]]_vars
  BY NextInv DEF Bounded
<1> QED BY InitInv, <1>1, <1>2, PTL DEF Spec, RateBounded
--------------------------------------------------------------------------------
(* Limits that do not decay.                                              *)

\* The slots of calls are those of one, and those of the others.
LEMMA TakenOne ==
  ASSUME NEW S, S \subseteq Calls, NEW c \in Calls, c \notin S, IsFiniteSet(Taken(S))
  PROVE  /\ IsFiniteSet(Taken(S \cup {c}))
         /\ Occupied(S \cup {c}) = Occupied(S) + Occupy[c]
         /\ Occupied(S) \in Nat
<1> DEFINE I == 1 .. Occupy[c]
           T == {c} \X I
<1>1. Occupy[c] \in Nat
  BY GlobalConcurrencyAssumption
<1>2. IsFiniteSet(I) /\ Cardinality(I) = Occupy[c]
  BY <1>1, FS_Interval
<1>3. IsFiniteSet({c}) /\ Cardinality({c}) = 1
  BY FS_Singleton
<1>4. Taken(S \cup {c}) = Taken(S) \cup T
  BY DEF Taken
<1>5. Taken(S) \cap T = {}
  BY DEF Taken
<1>6. IsFiniteSet(T) /\ Cardinality(T) = Occupy[c]
  <2> HIDE DEF I
  <2>1. IsFiniteSet(T) /\ Cardinality(T) = Cardinality({c}) * Cardinality(I)
    BY <1>2, <1>3, FS_Product
  <2> QED BY <1>1, <1>2, <1>3, <2>1
<1>7. Cardinality(Taken(S) \cap T) = 0
  BY <1>5, FS_EmptySet
<1>8. Cardinality(Taken(S)) \in Nat
  BY FS_CardinalityType
<1> HIDE DEF T, I
<1>9. /\ IsFiniteSet(Taken(S) \cup T)
      /\ Cardinality(Taken(S) \cup T)
           = Cardinality(Taken(S)) + Cardinality(T) - Cardinality(Taken(S) \cap T)
  BY <1>6, FS_Union
<1>10. IsFiniteSet(Taken(S) \cup T)
  BY <1>9
<1>11. Cardinality(Taken(S) \cup T) = Cardinality(Taken(S)) + Occupy[c]
  BY <1>1, <1>6, <1>7, <1>8, <1>9
<1> QED BY <1>4, <1>8, <1>10, <1>11, Zenon DEF Occupied

\* Fewer calls take no more slots.
LEMMA TakenFewer ==
  ASSUME NEW S, NEW R, R \subseteq S, IsFiniteSet(Taken(S))
  PROVE  /\ IsFiniteSet(Taken(R)) /\ Occupied(R) <= Occupied(S)
         /\ Occupied(R) \in Nat /\ Occupied(S) \in Nat
<1>1. Taken(R) \in SUBSET Taken(S)
  BY DEF Taken
<1> QED BY <1>1, FS_Subset, FS_CardinalityType DEF Occupied

\* No calls take none.
LEMMA TakenNone == IsFiniteSet(Taken({})) /\ Occupied({}) = 0
<1>1. Taken({}) = {}
  BY DEF Taken
<1> QED BY <1>1, FS_EmptySet DEF Occupied

\* Nobody writes the rows but requests, and each release is sent once.
Steady == world.troubles \cap {"resend decrement", "status", "limit", "reset"} = {}

\* There, the slots that a row counts are enough for the calls that have them.
Covered ==
  Steady => \A l \in Limits : Kept(l) =>
    /\ IsFiniteSet(Taken(Holding(l)))
    /\ Occupied(Holding(l)) <= slots[l] /\ slots[l] <= limit[l]

\* Where there are no troubles at all, only calls that are made go on, none has a
\* timeout and none is cancelled.
Calm ==
  Untroubled =>
    /\ \A c \in Calls : pc[c] # "idle" => c \in world.calls
    /\ \A c \in Calls : timer[c] = None
    /\ abandoned = {}

\* The inductive invariant. NothingLeaks is part of it: it is Covered, made exact where
\* there are no troubles.
LimitInv ==
  /\ Inv /\ pc \in [Calls -> Phases] /\ timer \in [Calls -> Nat \cup {None}]
  /\ Covered /\ Calm /\ NothingLeaks

\* What a step may do to the calls that have slots of a limit, and to its row: none takes
\* any, or one takes its own while there is room, or one gives back its own.
HoldingStep(l) ==
  \/ /\ slots'[l] = slots[l] /\ limit'[l] = limit[l]
     /\ Holding(l)' \subseteq Holding(l)
     /\ Untroubled => Holding(l)' = Holding(l)
  \/ \E c \in Calls \ Holding(l) :
       /\ slots'[l] = slots[l] + Occupy[c] /\ limit'[l] = limit[l]
       /\ slots'[l] <= limit[l] /\ Holding(l)' = Holding(l) \cup {c}
  \/ \E c \in Holding(l) :
       /\ slots'[l] = Less(slots[l], Occupy[c]) /\ limit'[l] = limit[l]
       /\ Holding(l)' = Holding(l) \ {c}

\* Such a step keeps what the row promises.
LEMMA HoldingStepKeeps ==
  ASSUME LimitInv, Steady, NEW l \in Limits, Kept(l), HoldingStep(l)
  PROVE  /\ IsFiniteSet(Taken(Holding(l)'))
         /\ Occupied(Holding(l)') <= slots'[l] /\ slots'[l] <= limit'[l]
         /\ Untroubled => slots'[l] = Occupied(Holding(l)')
<1> DEFINE H == Holding(l)
           G == Holding(l)'
<1>1. /\ IsFiniteSet(Taken(H)) /\ Occupied(H) <= slots[l] /\ slots[l] <= limit[l]
      /\ Untroubled => slots[l] = Occupied(H)
      /\ slots[l] \in Nat /\ limit[l] \in Nat /\ H \subseteq Calls
  BY DEF LimitInv, Covered, NothingLeaks, Inv, Numbers, Holding
<1> HIDE DEF H, G
<1>2. CASE /\ slots'[l] = slots[l] /\ limit'[l] = limit[l] /\ G \subseteq H
           /\ Untroubled => G = H
  BY <1>1, <1>2, TakenFewer DEF H, G
<1>3. ASSUME NEW c \in Calls \ H, slots'[l] = slots[l] + Occupy[c], limit'[l] = limit[l],
             slots'[l] <= limit[l], G = H \cup {c}
      PROVE  /\ IsFiniteSet(Taken(G)) /\ Occupied(G) <= slots'[l] /\ slots'[l] <= limit'[l]
             /\ Untroubled => slots'[l] = Occupied(G)
  <2>1. /\ IsFiniteSet(Taken(G)) /\ Occupied(G) = Occupied(H) + Occupy[c]
        /\ Occupied(H) \in Nat /\ Occupy[c] \in Nat
    BY <1>1, <1>3, TakenOne, GlobalConcurrencyAssumption
  <2> QED BY <1>1, <1>3, <2>1
<1>4. ASSUME NEW c \in H, slots'[l] = Less(slots[l], Occupy[c]), limit'[l] = limit[l],
             G = H \ {c}
      PROVE  /\ IsFiniteSet(Taken(G)) /\ Occupied(G) <= slots'[l] /\ slots'[l] <= limit'[l]
             /\ Untroubled => slots'[l] = Occupied(G)
  <2>1. /\ IsFiniteSet(Taken(G)) /\ H = G \cup {c} /\ G \subseteq Calls /\ c \in Calls \ G
    BY <1>1, <1>4, TakenFewer
  <2>2. Occupied(H) = Occupied(G) + Occupy[c] /\ Occupied(G) \in Nat
    BY <2>1, TakenOne
  <2>3. Occupy[c] \in Nat
    BY <2>1, GlobalConcurrencyAssumption
  <2> QED BY <1>1, <1>4, <2>1, <2>2, <2>3 DEF Less
<1> QED BY <1>2, <1>3, <1>4 DEF HoldingStep, H, G

\* Where a call has slots, on the server's side.
Slotted == {"granted", "inside", "releasing"}

\* A call goes on without a row being written.
LEMMA CallMoves ==
  ASSUME LimitInv, NEW l \in Limits, NEW c \in Calls, NEW p,
         pc' = [pc EXCEPT ![c] = p], UNCHANGED <<world, status, limit, slots>>,
         p \in Slotted => pc[c] \in Slotted,
         Untroubled /\ pc[c] \in Slotted => p \in Slotted
  PROVE  (Kept(l)' => Kept(l)) /\ HoldingStep(l)
<1>1. Kept(l)' = Kept(l)
  BY DEF Kept
<1>2. Holding(l) = {i \in Calls : pc[i] \in Slotted /\ l \in Names(i)}
  BY DEF Holding, Slotted
<1>3. Holding(l)' = {i \in Calls : pc'[i] \in Slotted /\ l \in Names(i)}
  BY DEF Holding, Slotted, Names
<1>4. \A i \in Calls : pc'[i] = IF i = c THEN p ELSE pc[i]
  BY DEF LimitInv
<1>5. Holding(l)' \subseteq Holding(l) /\ (Untroubled => Holding(l)' = Holding(l))
  BY <1>2, <1>3, <1>4
<1> QED BY <1>1, <1>5 DEF HoldingStep

\* A request that is granted.
LEMMA GrantMoves ==
  ASSUME LimitInv, NEW l \in Limits, NEW c \in Calls, Grant(c)
  PROVE  (Kept(l)' => Kept(l)) /\ (Kept(l) => HoldingStep(l))
<1>1. /\ UNCHANGED <<world, status, limit>> /\ pc' = [pc EXCEPT ![c] = "granted"]
      /\ pc[c] = "sending" /\ CanAcquire(c)
      /\ slots'[l] = IF l \in Active(c) THEN ActiveSlotsAfterDecay(l) + Occupy[c]
                     ELSE slots[l]
  BY DEF Grant
<1>2. Kept(l)' = Kept(l)
  BY <1>1 DEF Kept
<1>3. \A i \in Calls : pc'[i] = IF i = c THEN "granted" ELSE pc[i]
  BY <1>1 DEF LimitInv
<1>4. SUFFICES ASSUME Kept(l) PROVE HoldingStep(l)
  BY <1>2
<1>5. ActiveSlotsAfterDecay(l) = slots[l]
  BY <1>4, GlobalConcurrencyAssumption DEF Kept, Decays, ActiveSlotsAfterDecay, After
<1>6. CASE l \in Names(c)
  <2>1. l \in Active(c)
    BY <1>4, <1>6 DEF Active, Kept
  <2>2. slots'[l] = slots[l] + Occupy[c] /\ slots'[l] <= limit[l] /\ limit'[l] = limit[l]
    BY <1>1, <1>5, <2>1 DEF CanAcquire
  <2>3. c \notin Holding(l) /\ Holding(l)' = Holding(l) \cup {c}
    BY <1>1, <1>3, <1>6 DEF Holding, Names
  <2> QED BY <2>2, <2>3 DEF HoldingStep
<1>7. CASE l \notin Names(c)
  <2>1. slots'[l] = slots[l] /\ limit'[l] = limit[l]
    BY <1>1, <1>7 DEF Active
  <2>2. Holding(l)' = Holding(l)
    BY <1>1, <1>3, <1>7 DEF Holding, Names
  <2> QED BY <2>1, <2>2 DEF HoldingStep
<1> QED BY <1>6, <1>7

\* A release. It may make rows of limits that there were none of, which are inactive.
LEMMA DecrementMoves ==
  ASSUME LimitInv, NEW l \in Limits, NEW c \in Calls, Decrement(c)
  PROVE  (Kept(l)' => Kept(l)) /\ (Kept(l) => HoldingStep(l))
<1>1. /\ pc[c] = "releasing" /\ pc' = [pc EXCEPT ![c] = "released"]
      /\ status'[l] = IF l \in Names(c) \ Found(c) THEN "inactive" ELSE status[l]
      /\ limit'[l] = IF l \in Names(c) \ Found(c) THEN 1 ELSE limit[l]
      /\ slots'[l] = IF l \in Active(c) THEN Less(ActiveSlotsAfterDecay(l), Occupy[c])
                     ELSE slots[l]
  BY DEF Decrement
<1>2. Kept(l)' => Kept(l)
  BY <1>1 DEF Kept, Found
<1>3. \A i \in Calls : pc'[i] = IF i = c THEN "released" ELSE pc[i]
  BY <1>1 DEF LimitInv
<1>4. SUFFICES ASSUME Kept(l) PROVE HoldingStep(l)
  BY <1>2
<1>5. ActiveSlotsAfterDecay(l) = slots[l]
  BY <1>4, GlobalConcurrencyAssumption DEF Kept, Decays, ActiveSlotsAfterDecay, After
<1>6. limit'[l] = limit[l]
  BY <1>1, <1>4 DEF Kept, Found
<1>7. CASE l \in Names(c)
  <2>1. l \in Active(c)
    BY <1>4, <1>7 DEF Active, Kept
  <2>2. slots'[l] = Less(slots[l], Occupy[c])
    BY <1>1, <1>5, <2>1
  <2>3. c \in Holding(l) /\ Holding(l)' = Holding(l) \ {c}
    BY <1>1, <1>3, <1>7 DEF Holding, Names
  <2> QED BY <1>6, <2>2, <2>3 DEF HoldingStep
<1>8. CASE l \notin Names(c)
  <2>1. slots'[l] = slots[l]
    BY <1>1, <1>8 DEF Active
  <2>2. Holding(l)' = Holding(l)
    BY <1>1, <1>3, <1>8 DEF Holding, Names
  <2> QED BY <1>6, <2>1, <2>2 DEF HoldingStep
<1> QED BY <1>7, <1>8

\* All steps there are where users leave the rows alone.
LEMMA EveryoneMoves ==
  ASSUME LimitInv, Steady, NEW l \in Limits, [Next]_vars
  PROVE  (Kept(l)' => Kept(l)) /\ (Kept(l) => HoldingStep(l))
<1> DEFINE Goal == (Kept(l)' => Kept(l)) /\ (Kept(l) => HoldingStep(l))
<1>1. ASSUME NEW c \in Calls, Call(c) \/ Leave(c) \/ Handle(c) \/ Retry(c) \/ Return(c)
      PROVE  Goal
  <2>1. UNCHANGED <<world, status, limit, slots>>
    BY <1>1 DEF Call, Leave, Handle, Retry, Return, row
  <2>2. \/ pc[c] = "idle" /\ pc' = [pc EXCEPT ![c] = "queued"]
        \/ pc[c] = "inside" /\ pc' = [pc EXCEPT ![c] = "releasing"]
        \/ pc[c] = "queued" /\ pc' = [pc EXCEPT ![c] = "sending"]
        \/ pc[c] = "sleeping" /\ pc' = [pc EXCEPT ![c] = "sending"]
        \/ pc[c] = "released" /\ pc' = [pc EXCEPT ![c] = "idle"]
    BY <1>1 DEF Call, Leave, Handle, Retry, Return
  <2> QED BY <2>1, <2>2, CallMoves DEF Slotted
<1>2. ASSUME NEW c \in Calls, Refuse(c) \/ Deny(c) \/ CountDenial(c) PROVE Goal
  <2>1. UNCHANGED <<world, status, limit, slots>>
    BY <1>2 DEF Refuse, Deny, CountDenial, row
  <2>2. \/ pc[c] = "sending" /\ pc' = [pc EXCEPT ![c] = "idle"]
        \/ pc[c] = "sending" /\ pc' = [pc EXCEPT ![c] = "denied"]
        \/ pc[c] = "denied" /\ pc' = [pc EXCEPT ![c] = "idle"]
        \/ pc[c] = "denied" /\ pc' = [pc EXCEPT ![c] = "sleeping"]
    BY <1>2 DEF Refuse, Deny, CountDenial, Finish
  <2> QED BY <2>1, <2>2, CallMoves DEF Slotted
<1>3. ASSUME NEW c \in Calls, Receive(c) \/ TimeOut(c) PROVE Goal
  <2>1. UNCHANGED <<world, status, limit, slots>>
    BY <1>3 DEF Receive, TimeOut, row
  <2>2. /\ \/ pc' = [pc EXCEPT ![c] = "idle"]
           \/ pc[c] = "granted" /\ pc' = [pc EXCEPT ![c] = "inside"]
        /\ Untroubled => pc' = [pc EXCEPT ![c] = "inside"]
    <3>1. Untroubled => /\ c \notin abandoned /\ timer[c] # 0
                        /\ pc[c] = "granted" => c \notin RateCalls
      BY GlobalConcurrencyAssumption DEF LimitInv, Calm, Untroubled
    <3> QED BY <1>3, <3>1 DEF Receive, TimeOut, Finish
  <2> QED BY <2>1, <2>2, CallMoves DEF Slotted
<1>4. ASSUME NEW c \in Calls, Fault(c) PROVE Goal
  <2>1. UNCHANGED <<world, status, limit, slots>>
    BY <1>4 DEF Fault, ResendIncrement, ResendDecrement, ReleaseFails, CancelCaller, row
  <2>2. ~Untroubled
    BY <1>4 DEF Fault, ResendIncrement, ResendDecrement, ReleaseFails, CancelCaller,
                Untroubled
  <2>3. \/ pc' = [pc EXCEPT ![c] = "sending"] \/ pc' = [pc EXCEPT ![c] = "idle"]
        \/ pc' = [pc EXCEPT ![c] = pc[c]]
    BY <1>4 DEF Fault, ResendIncrement, ResendDecrement, ReleaseFails, CancelCaller, Steady,
                LimitInv
  <2> QED BY <2>1, <2>2, <2>3, CallMoves DEF Slotted
<1>5. ASSUME NEW s \in Services, Crash(s) PROVE Goal
  <2>1. UNCHANGED <<world, status, limit, slots>> /\ ~Untroubled
    BY <1>5 DEF Crash, row, Untroubled
  <2>2. \A i \in Calls : pc'[i] \in {"idle", pc[i]}
    BY <1>5 DEF Crash
  <2>3. Holding(l)' \subseteq Holding(l)
    BY <2>2 DEF Holding, Names
  <2> QED BY <2>1, <2>3 DEF HoldingStep, Kept
<1>6. ASSUME NEW k \in Limits, User(k) PROVE FALSE
  BY <1>6 DEF User, CreateLimit, DeleteLimit, ToggleLimit, SetLimit, ResetSlots, Steady
<1>7. CASE Tick \/ UNCHANGED vars
  <2>1. UNCHANGED <<world, status, limit, slots, pc>>
    BY <1>7 DEF Tick, vars
  <2>2. Holding(l)' = Holding(l)
    BY <2>1 DEF Holding, Names
  <2> QED BY <2>1, <2>2 DEF HoldingStep, Kept
<1>8. ASSUME NEW c \in Calls, Grant(c) PROVE Goal
  BY <1>8, GrantMoves
<1>9. ASSUME NEW c \in Calls, Decrement(c) PROVE Goal
  BY <1>9, DecrementMoves
<1>10. CASE Next
  <2>1. ASSUME NEW c \in Calls, Call(c) \/ Leave(c) \/ Server(c) \/ Client(c) \/ Fault(c)
        PROVE  Goal
    <3>1. CASE Server(c)
      BY <3>1, <1>2, <1>8, <1>9 DEF Server
    <3>2. CASE Client(c)
      BY <3>2, <1>1, <1>3 DEF Client
    <3> QED BY <2>1, <3>1, <3>2, <1>1, <1>4
  <2> QED BY <1>10, <2>1, <1>5, <1>6, <1>7 DEF Next
<1> QED BY <1>7, <1>10

\* The invariant holds in the beginning.
LEMMA LimitInvInit == Init => LimitInv
<1> SUFFICES ASSUME Init PROVE LimitInv
  OBVIOUS
<1>1. pc \in [Calls -> Phases] /\ timer \in [Calls -> Nat \cup {None}]
  BY DEF Init, Phases
<1>2. ASSUME NEW l \in Limits PROVE Holding(l) = {} /\ slots[l] = 0 /\ limit[l] \in Nat
  BY GlobalConcurrencyAssumption DEF Init, Holding
<1>3. Covered
  BY <1>2, TakenNone DEF Covered
<1>4. NothingLeaks
  BY <1>2, TakenNone DEF NothingLeaks
<1>5. Calm
  BY DEF Init, Calm
<1> QED BY <1>1, <1>3, <1>4, <1>5, InitInv DEF LimitInv

\* What a call is about, and when its time is up.
LEMMA CallsStep ==
  ASSUME LimitInv, [Next]_vars
  PROVE  /\ pc' \in [Calls -> Phases] /\ timer' \in [Calls -> Nat \cup {None}]
         /\ Calm' /\ world' = world
<1> DEFINE Goal == /\ pc' \in [Calls -> Phases] /\ timer' \in [Calls -> Nat \cup {None}]
                   /\ Calm' /\ world' = world
<1>1. /\ pc \in [Calls -> Phases] /\ timer \in [Calls -> Nat \cup {None}]
      /\ Timeout \in [Calls -> Nat \cup {None}] /\ None \notin Nat /\ Calm
  BY GlobalConcurrencyAssumption DEF LimitInv
<1>2. ASSUME NEW c \in Calls, NEW p \in Phases, pc' = [pc EXCEPT ![c] = p], world' = world,
             \/ timer' = timer
             \/ timer' = [timer EXCEPT ![c] = None]
             \/ timer' = [timer EXCEPT ![c] = Timeout[c]],
             abandoned' \subseteq abandoned \/ "cancel" \in world.troubles,
             pc[c] # "idle" \/ c \in world.calls
      PROVE  Goal
  <2>1. pc' \in [Calls -> Phases] /\ timer' \in [Calls -> Nat \cup {None}]
    BY <1>1, <1>2
  <2>2. ASSUME Untroubled
        PROVE  /\ \A i \in Calls : pc'[i] # "idle" => i \in world.calls
               /\ \A i \in Calls : timer'[i] = None
               /\ abandoned' = {}
    <3>1. /\ \A i \in Calls : pc[i] # "idle" => i \in world.calls
          /\ \A i \in Calls : timer[i] = None
          /\ abandoned = {} /\ "cancel" \notin world.troubles
      BY <1>1, <2>2 DEF Calm, Untroubled
    <3>2. c \in world.calls /\ Timeout[c] = None
      BY <1>2, <2>2, <3>1 DEF Untroubled
    <3> QED BY <1>1, <1>2, <3>1, <3>2
  <2>3. Untroubled' = Untroubled
    BY <1>2 DEF Untroubled
  <2> QED BY <1>2, <2>1, <2>2, <2>3 DEF Calm
<1>3. ASSUME NEW c \in Calls, Call(c) \/ Leave(c) \/ Handle(c) \/ Retry(c) \/ Return(c)
      PROVE  Goal
  <2>1. \E p \in Phases : pc' = [pc EXCEPT ![c] = p]
    BY <1>3 DEF Call, Leave, Handle, Retry, Return, Phases
  <2>2. /\ world' = world /\ (timer' = timer \/ timer' = [timer EXCEPT ![c] = Timeout[c]])
        /\ abandoned' = abandoned /\ (pc[c] # "idle" \/ c \in world.calls)
    BY <1>3 DEF Call, Leave, Handle, Retry, Return, item
  <2> QED BY <1>2, <2>1, <2>2
<1>4. ASSUME NEW c \in Calls,
             \/ Refuse(c) \/ Grant(c) \/ Deny(c) \/ CountDenial(c) \/ Decrement(c)
             \/ Receive(c) \/ TimeOut(c)
      PROVE  Goal
  <2>1. \E p \in Phases : pc' = [pc EXCEPT ![c] = p]
    BY <1>4 DEF Refuse, Grant, Deny, CountDenial, Decrement, Receive, TimeOut, Finish, Phases
  <2>2. /\ world' = world /\ (timer' = timer \/ timer' = [timer EXCEPT ![c] = None])
        /\ abandoned' \subseteq abandoned /\ pc[c] # "idle"
    BY <1>4 DEF Refuse, Grant, Deny, CountDenial, Decrement, Receive, TimeOut, Finish, item
  <2> QED BY <1>2, <2>1, <2>2
<1>5. ASSUME NEW c \in Calls, Fault(c) PROVE Goal
  <2>1. \E p \in Phases : pc' = [pc EXCEPT ![c] = p]
    <3>1. pc[c] \in Phases /\ pc = [pc EXCEPT ![c] = pc[c]]
      BY <1>1
    <3> QED BY <1>5, <3>1 DEF Fault, ResendIncrement, ResendDecrement, ReleaseFails,
                              CancelCaller, Phases
  <2>2. /\ world' = world /\ timer' = timer /\ pc[c] # "idle"
        /\ abandoned' = abandoned \/ "cancel" \in world.troubles
    BY <1>5 DEF Fault, ResendIncrement, ResendDecrement, ReleaseFails, CancelCaller, item,
                Waiting
  <2> QED BY <1>2, <2>1, <2>2
<1>6. ASSUME NEW s \in Services, Crash(s) PROVE Goal
  <2>1. /\ \A i \in Calls : pc'[i] \in {"idle", pc[i]} /\ timer'[i] \in {None, timer[i]}
        /\ pc' = [i \in Calls |-> pc'[i]] /\ timer' = [i \in Calls |-> timer'[i]]
        /\ world' = world /\ "crash" \in world.troubles
    BY <1>6 DEF Crash
  <2>2. pc' \in [Calls -> Phases]
    <3>1. \A i \in Calls : pc'[i] \in Phases
      BY <1>1, <2>1 DEF Phases
    <3> QED BY <2>1, <3>1
  <2>3. timer' \in [Calls -> Nat \cup {None}]
    <3>1. \A i \in Calls : timer'[i] \in Nat \cup {None}
      BY <1>1, <2>1
    <3> QED BY <2>1, <3>1
  <2> QED BY <2>1, <2>2, <2>3 DEF Calm, Untroubled
<1>7. ASSUME NEW k \in Limits, User(k) PROVE Goal
  <2>1. UNCHANGED <<world, pc, abandoned, timer>>
    BY <1>7 DEF User, CreateLimit, DeleteLimit, ToggleLimit, SetLimit, ResetSlots, item
  <2> QED BY <1>1, <2>1 DEF Calm, Untroubled
<1>8. CASE Tick
  <2>1. /\ UNCHANGED <<world, pc, abandoned>>
        /\ timer' = [i \in Calls |-> IF timer[i] = None THEN None ELSE Less(timer[i], 1)]
    BY <1>8 DEF Tick
  <2>2. \A i \in Calls : timer'[i] \in Nat \cup {None}
    BY <1>1, <2>1 DEF Less
  <2>3. timer' \in [Calls -> Nat \cup {None}]
    BY <2>1, <2>2
  <2>4. (\A i \in Calls : timer[i] = None) => \A i \in Calls : timer'[i] = None
    BY <2>1
  <2> QED BY <1>1, <2>1, <2>3, <2>4 DEF Calm, Untroubled
<1>9. CASE UNCHANGED vars
  <2>1. UNCHANGED <<world, pc, abandoned, timer>>
    BY <1>9 DEF vars
  <2> QED BY <1>1, <2>1 DEF Calm, Untroubled
<1>10. CASE Next
  <2>1. ASSUME NEW c \in Calls, Call(c) \/ Leave(c) \/ Server(c) \/ Client(c) \/ Fault(c)
        PROVE  Goal
    <3>1. CASE Server(c)
      BY <3>1, <1>4 DEF Server
    <3>2. CASE Client(c)
      BY <3>2, <1>3, <1>4 DEF Client
    <3> QED BY <2>1, <3>1, <3>2, <1>3, <1>5
  <2> QED BY <1>10, <2>1, <1>6, <1>7, <1>8 DEF Next
<1> QED BY <1>9, <1>10

\* Every step keeps it.
LEMMA LimitInvStep ==
  ASSUME LimitInv, [Next]_vars
  PROVE  LimitInv'
<1>1. Inv'
  BY NextInv DEF LimitInv, Bounded
<1>2. /\ pc' \in [Calls -> Phases] /\ timer' \in [Calls -> Nat \cup {None}]
      /\ Calm' /\ world' = world
  BY CallsStep
<1>3. Steady' = Steady /\ Untroubled' = Untroubled /\ (Untroubled => Steady)
  BY <1>2 DEF Steady, Untroubled
<1>4. ASSUME Steady, NEW l \in Limits, Kept(l)'
      PROVE  /\ IsFiniteSet(Taken(Holding(l)'))
             /\ Occupied(Holding(l)') <= slots'[l] /\ slots'[l] <= limit'[l]
             /\ Untroubled => slots'[l] = Occupied(Holding(l)')
  <2>1. Kept(l) /\ HoldingStep(l)
    BY <1>4, EveryoneMoves
  <2> QED BY <1>4, <2>1, HoldingStepKeeps
<1>5. Covered'
  BY <1>3, <1>4 DEF Covered, Taken, Occupied
<1>6. NothingLeaks'
  BY <1>3, <1>4 DEF NothingLeaks, Taken, Occupied
<1> QED BY <1>1, <1>2, <1>5, <1>6 DEF LimitInv

\* So it always holds.
LEMMA LimitInvariant == Spec => []LimitInv
<1>1. LimitInv /\ [Next]_vars => LimitInv'
  BY LimitInvStep
<1> QED BY <1>1, LimitInvInit, PTL DEF Spec

\* The blocks that run under a limit without decay never occupy more slots than it has,
\* whoever is resent, cancelled, killed or loses a release (bulk_increment_active_slots,
\* bulk_decrement_active_slots).
THEOREM BlocksWithinLimit == Spec => []LimitKept
<1>1. LimitInv => LimitKept
  <2> SUFFICES ASSUME LimitInv, Steady, NEW l \in Limits, Kept(l)
               PROVE  Occupied(Inside(l)) <= limit[l]
    BY DEF LimitKept, Steady
  <2>1. /\ IsFiniteSet(Taken(Holding(l))) /\ Occupied(Holding(l)) <= slots[l]
        /\ slots[l] <= limit[l] /\ slots[l] \in Nat /\ limit[l] \in Nat
    BY DEF LimitInv, Covered, Inv, Numbers
  <2>2. Inside(l) \subseteq Holding(l)
    BY DEF Inside, Holding
  <2>3. Occupied(Inside(l)) <= Occupied(Holding(l)) /\ Occupied(Inside(l)) \in Nat
        /\ Occupied(Holding(l)) \in Nat
    BY <2>1, <2>2, TakenFewer
  <2> QED BY <2>1, <2>3
<1> QED BY <1>1, LimitInvariant, PTL

\* Without troubles the slots of such a limit are exactly those of the calls that have
\* them: a denied request keeps none, a release gives back all.
THEOREM SlotsAccounted == Spec => []NothingLeaks
<1>1. LimitInv => NothingLeaks
  BY DEF LimitInv
<1> QED BY <1>1, LimitInvariant, PTL
--------------------------------------------------------------------------------
(* Services take their calls one after the other.                          *)

\* A call is in the queue of its service, once, as long as it waits, and only the first
\* may have left its place.
Lined(s) ==
  \A i \in 1 .. Len(queue[s]) :
    /\ ServiceOf[queue[s][i]] = s /\ pc[queue[s][i]] \in Waiting
    /\ i # 1 => pc[queue[s][i]] = "queued"
    /\ \A j \in 1 .. Len(queue[s]) : queue[s][j] = queue[s][i] => j = i

InQueue(c) == \E i \in 1 .. Len(queue[ServiceOf[c]]) : queue[ServiceOf[c]][i] = c

QueuesOK ==
  /\ queue \in [Services -> Seq(Calls)] /\ pc \in [Calls -> Phases]
  /\ \A s \in Services : Lined(s)
  /\ \A c \in Calls : pc[c] \in Waiting => InQueue(c)
  /\ abandoned \subseteq {c \in Calls : pc[c] \in Waiting}

\* A call that is being handled is the first of its service.
LEMMA HandledIsFirst ==
  ASSUME QueuesOK, NEW c \in Calls, pc[c] \in Waiting \ {"queued"}
  PROVE  /\ ServiceOf[c] \in Services /\ queue[ServiceOf[c]] \in Seq(Calls)
         /\ Len(queue[ServiceOf[c]]) \in Nat /\ 1 \in 1 .. Len(queue[ServiceOf[c]])
         /\ queue[ServiceOf[c]][1] = c /\ Head(queue[ServiceOf[c]]) = c
<1> DEFINE q == queue[ServiceOf[c]]
<1>1. ServiceOf[c] \in Services /\ q \in Seq(Calls)
  BY GlobalConcurrencyAssumption DEF QueuesOK
<1>2. PICK i \in 1 .. Len(q) : q[i] = c
  BY DEF QueuesOK, InQueue
<1>3. i = 1
  BY <1>1, <1>2 DEF QueuesOK, Lined
<1> HIDE DEF q
<1>4. Len(q) \in Nat /\ 1 \in 1 .. Len(q)
  BY <1>1, <1>2, <1>3
<1>5. Head(q) = q[1]
  BY <1>1, <1>4
<1> QED BY <1>1, <1>2, <1>3, <1>4, <1>5 DEF q

\* A call that is handled goes on, or its turn comes.
LEMMA WorkKeepsQueues ==
  ASSUME QueuesOK, NEW c \in Calls, NEW p \in Waiting,
         \/ pc[c] \in Waiting \ {"queued"}
         \/ pc[c] = "queued" /\ Head(queue[ServiceOf[c]]) = c,
         pc' = [pc EXCEPT ![c] = p], queue' = queue, abandoned' = abandoned
  PROVE  QueuesOK'
<1>1. /\ pc \in [Calls -> Phases] /\ queue \in [Services -> Seq(Calls)]
      /\ \A s \in Services : Lined(s)
      /\ \A e \in Calls : pc[e] \in Waiting => InQueue(e)
      /\ abandoned \subseteq {e \in Calls : pc[e] \in Waiting}
      /\ ServiceOf[c] \in Services
  BY GlobalConcurrencyAssumption DEF QueuesOK
<1>2. /\ pc' \in [Calls -> Phases] /\ pc'[c] = p
      /\ \A e \in Calls \ {c} : pc'[e] = pc[e]
      /\ pc[c] \in Waiting
  BY <1>1 DEF Phases, Waiting
<1>3. queue[ServiceOf[c]][1] = c
  <2>1. CASE pc[c] \in Waiting \ {"queued"}
    BY <2>1, HandledIsFirst
  <2>2. CASE pc[c] = "queued" /\ Head(queue[ServiceOf[c]]) = c
    <3> DEFINE q == queue[ServiceOf[c]]
    <3>1. q \in Seq(Calls) /\ Head(q) = c
      BY <1>1, <2>2
    <3>2. PICK i \in 1 .. Len(q) : q[i] = c
      BY <1>1, <1>2 DEF InQueue
    <3> HIDE DEF q
    <3>3. Head(q) = q[1]
      BY <3>1, <3>2
    <3> QED BY <3>1, <3>3 DEF q
  <2> QED BY <2>1, <2>2
<1>4. ASSUME NEW s \in Services PROVE Lined(s)'
  <2> SUFFICES ASSUME NEW i \in 1 .. Len(queue[s])
               PROVE  /\ ServiceOf[queue[s][i]] = s /\ pc'[queue[s][i]] \in Waiting
                      /\ i # 1 => pc'[queue[s][i]] = "queued"
                      /\ \A j \in 1 .. Len(queue[s]) : queue[s][j] = queue[s][i] => j = i
    BY DEF Lined
  <2>1. /\ ServiceOf[queue[s][i]] = s /\ pc[queue[s][i]] \in Waiting
        /\ i # 1 => pc[queue[s][i]] = "queued"
        /\ \A j \in 1 .. Len(queue[s]) : queue[s][j] = queue[s][i] => j = i
    BY <1>1 DEF Lined
  <2>2. queue[s][i] \in Calls /\ 1 \in 1 .. Len(queue[s])
    <3>1. queue[s] \in Seq(Calls)
      BY <1>1
    <3> QED BY <3>1
  <2>3. queue[s][i] = c => i = 1
    BY <1>3, <2>1, <2>2
  <2> QED BY <1>2, <2>1, <2>2, <2>3
<1>5. \A e \in Calls : pc'[e] \in Waiting => InQueue(e)'
  BY <1>1, <1>2 DEF InQueue
<1>6. abandoned' \subseteq {e \in Calls : pc'[e] \in Waiting}
  BY <1>1, <1>2
<1> QED BY <1>1, <1>2, <1>4, <1>5, <1>6 DEF QueuesOK

\* A call that does not wait does something else that is not waiting.
LEMMA OutsideKeepsQueues ==
  ASSUME QueuesOK, NEW c \in Calls, NEW p \in Phases \ Waiting, pc[c] \notin Waiting,
         pc' = [pc EXCEPT ![c] = p], queue' = queue, abandoned' = abandoned
  PROVE  QueuesOK'
<1>1. /\ pc \in [Calls -> Phases] /\ queue \in [Services -> Seq(Calls)]
      /\ \A s \in Services : Lined(s)
      /\ \A e \in Calls : pc[e] \in Waiting => InQueue(e)
      /\ abandoned \subseteq {e \in Calls : pc[e] \in Waiting}
  BY DEF QueuesOK
<1>2. pc' \in [Calls -> Phases] /\ pc'[c] = p /\ \A e \in Calls \ {c} : pc'[e] = pc[e]
  BY <1>1
<1>3. ASSUME NEW s \in Services PROVE Lined(s)'
  <2>1. \A i \in 1 .. Len(queue[s]) : queue[s][i] \in Calls \ {c}
    <3>1. queue[s] \in Seq(Calls)
      BY <1>1
    <3>2. \A i \in 1 .. Len(queue[s]) : queue[s][i] \in Calls
      BY <3>1
    <3> QED BY <1>1, <3>2 DEF Lined
  <2> QED BY <1>1, <1>2, <2>1 DEF Lined
<1>4. \A e \in Calls : pc'[e] \in Waiting => InQueue(e)'
  BY <1>1, <1>2 DEF InQueue
<1>5. abandoned' \subseteq {e \in Calls : pc'[e] \in Waiting}
  BY <1>1, <1>2
<1> QED BY <1>1, <1>2, <1>3, <1>4, <1>5 DEF QueuesOK

\* A call is put at the end of its queue.
LEMMA CallKeepsQueues ==
  ASSUME QueuesOK, NEW c \in Calls, Call(c)
  PROVE  QueuesOK'
<1> DEFINE t == ServiceOf[c]
           q == queue[t]
<1>1. /\ pc \in [Calls -> Phases] /\ queue \in [Services -> Seq(Calls)]
      /\ \A s \in Services : Lined(s)
      /\ \A e \in Calls : pc[e] \in Waiting => InQueue(e)
      /\ abandoned \subseteq {e \in Calls : pc[e] \in Waiting}
      /\ ServiceOf \in [Calls -> Services]
  BY GlobalConcurrencyAssumption DEF QueuesOK
<1>2. /\ pc[c] = "idle" /\ pc' = [pc EXCEPT ![c] = "queued"]
      /\ queue' = [queue EXCEPT ![t] = Append(@, c)] /\ abandoned' = abandoned
  BY DEF Call
<1>3. /\ pc' \in [Calls -> Phases] /\ pc'[c] = "queued"
      /\ \A e \in Calls \ {c} : pc'[e] = pc[e]
      /\ "queued" \in Waiting /\ "idle" \notin Waiting
  BY <1>1, <1>2 DEF Phases, Waiting
<1>4. t \in Services /\ q \in Seq(Calls)
  BY <1>1
<1>5. queue' \in [Services -> Seq(Calls)] /\ queue'[t] = Append(q, c)
      /\ \A s \in Services \ {t} : queue'[s] = queue[s]
  BY <1>1, <1>2, <1>4
<1>6. /\ Len(q) \in Nat /\ Len(Append(q, c)) = Len(q) + 1
      /\ \A i \in 1 .. Len(q) : Append(q, c)[i] = q[i]
      /\ Append(q, c)[Len(q) + 1] = c
      /\ \A i \in 1 .. Len(q) : q[i] \in Calls
  BY <1>4
<1>7. \A i \in 1 .. (Len(q) + 1) : i \in 1 .. Len(q) \/ i = Len(q) + 1
  BY <1>6
<1>8. ASSUME NEW s \in Services, NEW i \in 1 .. Len(queue[s]) PROVE queue[s][i] \in Calls \ {c}
  <2>1. queue[s] \in Seq(Calls)
    BY <1>1
  <2>2. queue[s][i] \in Calls
    BY <2>1
  <2> QED BY <1>1, <1>2, <1>3, <2>2 DEF Lined
<1>9. ASSUME NEW s \in Services PROVE Lined(s)'
  <2>1. CASE s # t
    <3>1. queue'[s] = queue[s]
      BY <1>5, <2>1
    <3> QED BY <1>1, <1>3, <1>8, <3>1 DEF Lined
  <2>2. CASE s = t
    <3> HIDE DEF q, t
    <3>1. /\ queue'[s] = Append(q, c) /\ queue[s] = q /\ Len(queue'[s]) = Len(q) + 1
      BY <1>5, <1>6, <2>2 DEF q
    <3>2. ASSUME NEW i \in 1 .. Len(q)
          PROVE  /\ ServiceOf[q[i]] = s /\ pc[q[i]] \in Waiting /\ q[i] \in Calls \ {c}
                 /\ i # 1 => pc[q[i]] = "queued"
                 /\ \A j \in 1 .. Len(q) : q[j] = q[i] => j = i
      BY <1>1, <1>8, <3>1 DEF Lined
    <3>3. \A i \in 1 .. Len(q) : queue'[s][i] = q[i]
      BY <1>6, <3>1
    <3>4. queue'[s][Len(q) + 1] = c /\ ServiceOf[c] = s
      BY <1>6, <2>2, <3>1 DEF t
    <3>5. ASSUME NEW i \in 1 .. Len(q)
          PROVE  /\ ServiceOf[queue'[s][i]] = s /\ pc'[queue'[s][i]] \in Waiting
                 /\ i # 1 => pc'[queue'[s][i]] = "queued"
                 /\ \A j \in 1 .. (Len(q) + 1) : queue'[s][j] = queue'[s][i] => j = i
      BY <1>3, <1>7, <3>2, <3>3, <3>4
    <3>6. \A j \in 1 .. (Len(q) + 1) : queue'[s][j] = c => j = Len(q) + 1
      BY <1>7, <3>2, <3>3
    <3> QED BY <1>3, <1>7, <3>1, <3>4, <3>5, <3>6 DEF Lined
  <2> QED BY <2>1, <2>2
<1>10. ASSUME NEW e \in Calls, pc'[e] \in Waiting PROVE InQueue(e)'
  <2>1. CASE e = c
    <3>1. Len(q) + 1 \in 1 .. Len(queue'[t]) /\ queue'[t][Len(q) + 1] = e
      BY <1>5, <1>6, <2>1
    <3> QED BY <2>1, <3>1 DEF InQueue
  <2>2. CASE e # c
    <3>1. InQueue(e) /\ ServiceOf[e] \in Services
      BY <1>1, <1>3, <1>10, <2>2
    <3>2. PICK i \in 1 .. Len(queue[ServiceOf[e]]) : queue[ServiceOf[e]][i] = e
      BY <3>1 DEF InQueue
    <3>3. i \in 1 .. Len(queue'[ServiceOf[e]]) /\ queue'[ServiceOf[e]][i] = e
      <4>1. CASE ServiceOf[e] # t
        BY <1>5, <3>1, <3>2, <4>1
      <4>2. CASE ServiceOf[e] = t
        <5>1. i \in 1 .. Len(q) /\ q[i] = e /\ queue'[ServiceOf[e]] = Append(q, c)
          BY <1>5, <3>2, <4>2
        <5> HIDE DEF q
        <5> QED BY <1>6, <5>1
      <4> QED BY <4>1, <4>2
    <3> QED BY <3>3 DEF InQueue
  <2> QED BY <2>1, <2>2
<1>11. abandoned' \subseteq {e \in Calls : pc'[e] \in Waiting}
  BY <1>1, <1>2, <1>3
<1> QED BY <1>3, <1>5, <1>9, <1>10, <1>11 DEF QueuesOK

\* The first of a queue goes away.
LEMMA FinishKeepsQueues ==
  ASSUME QueuesOK, NEW c \in Calls, NEW p \in Phases \ Waiting,
         pc[c] \in Waiting \ {"queued"}, Finish(c, p)
  PROVE  QueuesOK'
<1> DEFINE t == ServiceOf[c]
           q == queue[t]
           n == Len(q)
<1>1. /\ pc \in [Calls -> Phases] /\ queue \in [Services -> Seq(Calls)]
      /\ \A s \in Services : Lined(s)
      /\ \A e \in Calls : pc[e] \in Waiting => InQueue(e)
      /\ abandoned \subseteq {e \in Calls : pc[e] \in Waiting}
      /\ ServiceOf \in [Calls -> Services]
  BY GlobalConcurrencyAssumption DEF QueuesOK
<1>2. /\ pc' = [pc EXCEPT ![c] = p] /\ queue' = [queue EXCEPT ![t] = Tail(@)]
      /\ abandoned' = abandoned \ {c}
  BY DEF Finish
<1>3. pc' \in [Calls -> Phases] /\ pc'[c] = p /\ \A e \in Calls \ {c} : pc'[e] = pc[e]
  BY <1>1, <1>2
<1>4. /\ t \in Services /\ q \in Seq(Calls) /\ n \in Nat /\ 1 \in 1 .. n /\ q[1] = c
  BY HandledIsFirst
<1>5. /\ Tail(q) \in Seq(Calls) /\ Len(Tail(q)) = n - 1
      /\ \A i \in 1 .. (n - 1) : Tail(q)[i] = q[i + 1]
  <2> HIDE DEF q
  <2>1. q # <<>>
    BY <1>4
  <2> QED BY <1>4, <2>1
<1>6. /\ queue' \in [Services -> Seq(Calls)] /\ queue'[t] = Tail(q)
      /\ \A s \in Services \ {t} : queue'[s] = queue[s]
  BY <1>1, <1>2, <1>4, <1>5
<1>7. ASSUME NEW i \in 1 .. n
      PROVE  /\ q[i] \in Calls /\ ServiceOf[q[i]] = t /\ pc[q[i]] \in Waiting
             /\ i # 1 => pc[q[i]] = "queued" /\ q[i] # c
             /\ \A j \in 1 .. n : q[j] = q[i] => j = i
  <2>1. /\ ServiceOf[q[i]] = t /\ pc[q[i]] \in Waiting
        /\ i # 1 => pc[q[i]] = "queued"
        /\ \A j \in 1 .. n : q[j] = q[i] => j = i
    BY <1>1, <1>4 DEF Lined
  <2>2. q[i] \in Calls
    BY <1>4
  <2> QED BY <1>4, <2>1, <2>2
<1> HIDE DEF q, n
<1>8. ASSUME NEW s \in Services PROVE Lined(s)'
  <2>1. CASE s # t
    <3>1. queue'[s] = queue[s]
      BY <1>6, <2>1
    <3>2. ASSUME NEW i \in 1 .. Len(queue[s]) PROVE queue[s][i] \in Calls \ {c}
      <4>1. queue[s] \in Seq(Calls) /\ ServiceOf[queue[s][i]] = s
        BY <1>1 DEF Lined
      <4> QED BY <2>1, <4>1
    <3> QED BY <1>1, <1>3, <3>1, <3>2 DEF Lined
  <2>2. CASE s = t
    <3>1. queue'[s] = Tail(q) /\ Len(queue'[s]) = n - 1
      BY <1>5, <1>6, <2>2
    <3>2. \A i \in 1 .. (n - 1) : i + 1 \in 1 .. n /\ i + 1 # 1 /\ queue'[s][i] = q[i + 1]
      BY <1>4, <1>5, <3>1
    <3>3. ASSUME NEW i \in 1 .. (n - 1)
          PROVE  /\ ServiceOf[queue'[s][i]] = s /\ pc'[queue'[s][i]] = "queued"
                 /\ \A j \in 1 .. (n - 1) : queue'[s][j] = queue'[s][i] => j = i
      <4>1. /\ q[i + 1] \in Calls \ {c} /\ ServiceOf[q[i + 1]] = t /\ pc[q[i + 1]] = "queued"
            /\ \A j \in 1 .. n : q[j] = q[i + 1] => j = i + 1
        BY <1>7, <3>2
      <4>2. \A j \in 1 .. (n - 1) : queue'[s][j] = queue'[s][i] => j + 1 = i + 1
        BY <3>2, <4>1
      <4>3. \A j \in 1 .. (n - 1) : j + 1 = i + 1 => j = i
        BY <1>4
      <4> QED BY <1>3, <2>2, <3>2, <4>1, <4>2, <4>3
    <3>4. "queued" \in Waiting
      BY DEF Waiting
    <3> QED BY <3>1, <3>3, <3>4 DEF Lined
  <2> QED BY <2>1, <2>2
<1>9. ASSUME NEW e \in Calls, pc'[e] \in Waiting PROVE InQueue(e)'
  <2>1. e # c /\ InQueue(e) /\ ServiceOf[e] \in Services
    BY <1>1, <1>3, <1>9
  <2>2. PICK i \in 1 .. Len(queue[ServiceOf[e]]) : queue[ServiceOf[e]][i] = e
    BY <2>1 DEF InQueue
  <2>3. CASE ServiceOf[e] # t
    BY <1>6, <2>1, <2>2, <2>3 DEF InQueue
  <2>4. CASE ServiceOf[e] = t
    <3>1. i \in 1 .. n /\ q[i] = e
      BY <2>2, <2>4 DEF q, n
    <3>2. i # 1
      BY <1>4, <2>1, <3>1
    <3>3. i - 1 \in 1 .. (n - 1) /\ (i - 1) + 1 = i
      BY <1>4, <3>1, <3>2
    <3>4. queue'[t][i - 1] = e /\ Len(queue'[t]) = n - 1
      BY <1>5, <1>6, <3>1, <3>3
    <3> QED BY <2>4, <3>3, <3>4 DEF InQueue
  <2> QED BY <2>3, <2>4
<1>10. abandoned' \subseteq {e \in Calls : pc'[e] \in Waiting}
  BY <1>1, <1>2, <1>3
<1> QED BY <1>3, <1>6, <1>8, <1>9, <1>10 DEF QueuesOK

\* The process of a service dies with its queue.
LEMMA CrashKeepsQueues ==
  ASSUME QueuesOK, NEW t \in Services, Crash(t)
  PROVE  QueuesOK'
<1>1. /\ pc \in [Calls -> Phases] /\ queue \in [Services -> Seq(Calls)]
      /\ \A s \in Services : Lined(s)
      /\ \A e \in Calls : pc[e] \in Waiting => InQueue(e)
      /\ abandoned \subseteq {e \in Calls : pc[e] \in Waiting}
      /\ ServiceOf \in [Calls -> Services]
  BY GlobalConcurrencyAssumption DEF QueuesOK
<1>2. /\ queue' = [queue EXCEPT ![t] = <<>>]
      /\ pc' = [c \in Calls |-> IF ServiceOf[c] = t THEN "idle" ELSE pc[c]]
      /\ abandoned' = abandoned \ {c \in Calls : ServiceOf[c] = t}
  BY DEF Crash
<1>3. /\ \A e \in Calls : pc'[e] = IF ServiceOf[e] = t THEN "idle" ELSE pc[e]
      /\ "idle" \in Phases \ Waiting
  BY <1>2 DEF Phases, Waiting
<1>4. pc' \in [Calls -> Phases]
  <2>1. \A e \in Calls : pc'[e] \in Phases
    BY <1>1, <1>3
  <2> QED BY <1>2, <2>1
<1>5. /\ queue' \in [Services -> Seq(Calls)] /\ queue'[t] = <<>>
      /\ \A s \in Services \ {t} : queue'[s] = queue[s]
  BY <1>1, <1>2
<1>6. ASSUME NEW s \in Services PROVE Lined(s)'
  <2>1. CASE s = t
    <3>1. 1 .. Len(queue'[s]) = {}
      BY <1>5, <2>1
    <3> QED BY <3>1 DEF Lined
  <2>2. CASE s # t
    <3>1. queue'[s] = queue[s]
      BY <1>5, <2>2
    <3>2. ASSUME NEW i \in 1 .. Len(queue[s]) PROVE pc'[queue[s][i]] = pc[queue[s][i]]
      <4>1. queue[s] \in Seq(Calls) /\ ServiceOf[queue[s][i]] = s
        BY <1>1 DEF Lined
      <4> QED BY <1>3, <2>2, <4>1
    <3> QED BY <1>1, <3>1, <3>2 DEF Lined
  <2> QED BY <2>1, <2>2
<1>7. ASSUME NEW e \in Calls, pc'[e] \in Waiting PROVE InQueue(e)'
  <2>1. ServiceOf[e] # t /\ InQueue(e) /\ ServiceOf[e] \in Services
    BY <1>1, <1>3, <1>7
  <2> QED BY <1>5, <2>1 DEF InQueue
<1>8. abandoned' \subseteq {e \in Calls : pc'[e] \in Waiting}
  BY <1>1, <1>2, <1>3
<1> QED BY <1>4, <1>5, <1>6, <1>7, <1>8 DEF QueuesOK

\* Every step keeps the queues in order.
LEMMA QueuesStep ==
  ASSUME QueuesOK, [Next]_vars
  PROVE  QueuesOK'
<1>p. /\ Waiting = {"queued", "sending", "granted", "denied", "sleeping"}
      /\ Phases \ Waiting = {"idle", "inside", "releasing", "released"}
  BY DEF Phases, Waiting
<1>1. ASSUME NEW c \in Calls,
             Handle(c) \/ Grant(c) \/ Deny(c) \/ Retry(c) \/ ResendIncrement(c)
      PROVE  QueuesOK'
  <2>1. /\ \E p \in Waiting : pc' = [pc EXCEPT ![c] = p]
        /\ queue' = queue /\ abandoned' = abandoned
        /\ \/ pc[c] \in Waiting \ {"queued"}
           \/ pc[c] = "queued" /\ Head(queue[ServiceOf[c]]) = c
    BY <1>p, <1>1 DEF Handle, Grant, Deny, Retry, ResendIncrement
  <2> QED BY <2>1, WorkKeepsQueues
<1>2. ASSUME NEW c \in Calls,
             Leave(c) \/ Decrement(c) \/ Return(c) \/ ResendDecrement(c) \/ ReleaseFails(c)
      PROVE  QueuesOK'
  <2>1. /\ \E p \in Phases \ Waiting : pc' = [pc EXCEPT ![c] = p]
        /\ queue' = queue /\ abandoned' = abandoned /\ pc[c] \notin Waiting
    BY <1>p, <1>2 DEF Leave, Decrement, Return, ResendDecrement, ReleaseFails
  <2> QED BY <2>1, OutsideKeepsQueues
<1>3. ASSUME NEW c \in Calls, Refuse(c) \/ Receive(c) \/ TimeOut(c)
      PROVE  QueuesOK'
  <2>1. pc[c] \in Waiting \ {"queued"} /\ \E p \in Phases \ Waiting : Finish(c, p)
    BY <1>p, <1>3 DEF Refuse, Receive, TimeOut
  <2> QED BY <2>1, FinishKeepsQueues
<1>4. ASSUME NEW c \in Calls, CountDenial(c)
      PROVE  QueuesOK'
  <2>1. pc[c] \in Waiting \ {"queued"} /\ "idle" \in Phases \ Waiting /\ "sleeping" \in Waiting
    BY <1>p, <1>4 DEF CountDenial
  <2>2. CASE Finish(c, "idle")
    BY <2>1, <2>2, FinishKeepsQueues
  <2>3. CASE pc' = [pc EXCEPT ![c] = "sleeping"] /\ UNCHANGED <<queue, abandoned, item>>
    BY <2>1, <2>3, WorkKeepsQueues
  <2> QED BY <1>4, <2>2, <2>3 DEF CountDenial
<1>5. ASSUME NEW c \in Calls, CancelCaller(c)
      PROVE  QueuesOK'
  <2>1. /\ pc[c] \in Waiting /\ abandoned' = abandoned \cup {c}
        /\ UNCHANGED <<queue, pc>>
    BY <1>5 DEF CancelCaller
  <2>2. abandoned' \subseteq {e \in Calls : pc'[e] \in Waiting}
    BY <2>1 DEF QueuesOK
  <2> QED BY <2>1, <2>2 DEF QueuesOK, Lined, InQueue
<1>6. ASSUME UNCHANGED <<queue, pc, abandoned>>
      PROVE  QueuesOK'
  BY <1>6 DEF QueuesOK, Lined, InQueue
<1>7. ASSUME NEW k \in Limits, User(k) PROVE QueuesOK'
  BY <1>6, <1>7 DEF User, CreateLimit, DeleteLimit, ToggleLimit, SetLimit, ResetSlots
<1>8. CASE Tick
  BY <1>6, <1>8 DEF Tick
<1>9. CASE UNCHANGED vars
  BY <1>6, <1>9 DEF vars
<1>10. CASE Next
  <2>1. ASSUME NEW c \in Calls, Call(c) \/ Leave(c) \/ Server(c) \/ Client(c) \/ Fault(c)
        PROVE  QueuesOK'
    <3>1. CASE Server(c)
      BY <3>1, <1>1, <1>2, <1>3, <1>4 DEF Server
    <3>2. CASE Client(c)
      BY <3>2, <1>1, <1>2, <1>3 DEF Client
    <3>3. CASE Fault(c)
      BY <3>3, <1>1, <1>2, <1>5 DEF Fault
    <3> QED BY <2>1, <3>1, <3>2, <3>3, <1>2, CallKeepsQueues
  <2>2. ASSUME NEW s \in Services, Crash(s) PROVE QueuesOK'
    BY <2>2, CrashKeepsQueues
  <2> QED BY <1>10, <2>1, <2>2, <1>7, <1>8 DEF Next
<1> QED BY <1>9, <1>10

\* What else is stored about limits and calls. A call that sleeps has retries left.
ValuesOK ==
  /\ status \in [Limits -> Status] /\ denied \in [Limits -> Nat]
  /\ asked \in [Calls -> SUBSET Limits] /\ wait \in [Calls -> Nat]
  /\ timer \in [Calls -> Nat \cup {None}] /\ tries \in [Calls -> Nat \cup {None}]
  /\ \A c \in Calls : pc[c] = "sleeping" => tries[c] # 0

\* A denied call waits for a number of ticks: the divisor is not zero, since a limit that a
\* call asks more of than it has is refused.
LEMMA RetryAfterIsNat ==
  ASSUME Numbers, ValuesOK, NEW c \in Calls, ~Unprocessable(c)
  PROVE  RetryAfter(c) \subseteq Nat
<1>1. /\ Occupy[c] \in Nat \ {0} /\ OccupancyTicks \in Nat \ {0}
      /\ Active(c) \subseteq Limits
  BY GlobalConcurrencyAssumption DEF Active, Names
<1>2. ASSUME NEW l \in Active(c)
      PROVE  (IF Decays(l) THEN DecayTicks[l] * Blocking(c, l)
              ELSE (OccupancyTicks * Blocking(c, l) + limit[l] - 1) \div limit[l]) \in Nat
  <2>1. /\ limit[l] \in Nat /\ DecayTicks[l] \in Nat /\ Blocking(c, l) \in Nat
        /\ ~(limit[l] < Occupy[c])
    BY <1>1, GlobalConcurrencyAssumption DEF Numbers, ValuesOK, Blocking, Unprocessable
  <2>2. limit[l] \in Nat \ {0}
    BY <1>1, <2>1
  <2>3. OccupancyTicks * Blocking(c, l) \in Nat /\ DecayTicks[l] * Blocking(c, l) \in Nat
    BY <1>1, <2>1, Products
  <2>4. OccupancyTicks * Blocking(c, l) + limit[l] - 1 \in Nat
    BY <2>2, <2>3
  <2>5. ((OccupancyTicks * Blocking(c, l) + limit[l] - 1) \div limit[l]) \in Nat
    <3> DEFINE x == OccupancyTicks * Blocking(c, l) + limit[l] - 1
    <3>1. x \in Nat
      BY <2>4
    <3> HIDE DEF x
    <3>2. (x \div limit[l]) \in Nat
      BY <2>2, <3>1, FloorIsBelow
    <3> QED BY <3>2 DEF x
  <2> QED BY <2>3, <2>5
<1> QED BY <1>2 DEF RetryAfter

LEMMA DeniedIsNat ==
  ASSUME Numbers, ValuesOK, NEW l \in Limits
  PROVE  DeniedSlotsAfterDecay(l) \in Nat
<1>1. /\ DecayTicks[l] \in Nat /\ OccupancyTicks \in Nat /\ denied[l] \in Nat
      /\ age[l] \in Nat
  BY GlobalConcurrencyAssumption DEF Numbers, ValuesOK
<1> QED BY <1>1, DecayIsSlower DEF DeniedSlotsAfterDecay

LEMMA ValuesStep ==
  ASSUME Numbers, pc \in [Calls -> Phases], ValuesOK, [Next]_vars
  PROVE  ValuesOK'
<1>t. /\ pc \in [Calls -> Phases]
      /\ status \in [Limits -> Status] /\ denied \in [Limits -> Nat]
      /\ asked \in [Calls -> SUBSET Limits] /\ wait \in [Calls -> Nat]
      /\ timer \in [Calls -> Nat \cup {None}] /\ tries \in [Calls -> Nat \cup {None}]
      /\ \A c \in Calls : pc[c] = "sleeping" => tries[c] # 0
      /\ Timeout \in [Calls -> Nat \cup {None}] /\ MaxRetries \in [Calls -> Nat \cup {None}]
      /\ None \notin Nat /\ \A c \in Calls : Active(c) \subseteq Limits
  BY GlobalConcurrencyAssumption DEF ValuesOK, Active, Names
<1>1. ASSUME NEW c \in Calls, UNCHANGED <<status, denied>>,
             \A e \in Calls \ {c} : tries'[e] = tries[e] /\ pc'[e] = pc[e],
             pc'[c] # "sleeping",
             asked' \in [Calls -> SUBSET Limits], wait' \in [Calls -> Nat],
             timer' \in [Calls -> Nat \cup {None}], tries' \in [Calls -> Nat \cup {None}]
      PROVE  ValuesOK'
  <2>1. \A e \in Calls : pc'[e] = "sleeping" => tries'[e] # 0
    BY <1>t, <1>1
  <2> QED BY <1>t, <1>1, <2>1 DEF ValuesOK
<1>2. ASSUME NEW c \in Calls, NEW p \in Phases \ {"sleeping"}, Finish(c, p),
             UNCHANGED <<status, denied>>
      PROVE  ValuesOK'
  <2>1. /\ pc' = [pc EXCEPT ![c] = p] /\ tries' = [tries EXCEPT ![c] = None]
        /\ timer' = [timer EXCEPT ![c] = None]
        /\ asked' = [asked EXCEPT ![c] = {}] /\ wait' = [wait EXCEPT ![c] = 0]
    BY <1>2 DEF Finish
  <2>2. asked' \in [Calls -> SUBSET Limits] /\ wait' \in [Calls -> Nat]
    BY <1>t, <2>1
  <2>3. timer' \in [Calls -> Nat \cup {None}] /\ tries' \in [Calls -> Nat \cup {None}]
    BY <1>t, <2>1
  <2>4. /\ \A e \in Calls \ {c} : tries'[e] = tries[e] /\ pc'[e] = pc[e]
        /\ pc'[c] # "sleeping"
    BY <1>t, <2>1
  <2> QED BY <1>1, <1>2, <2>2, <2>3, <2>4
<1>3. ASSUME NEW c \in Calls, Refuse(c) \/ Receive(c) \/ TimeOut(c)
      PROVE  ValuesOK'
  <2>1. /\ UNCHANGED <<status, denied>>
        /\ \E p \in Phases \ {"sleeping"} : Finish(c, p)
    BY <1>3 DEF Refuse, Receive, TimeOut, row, Phases
  <2> QED BY <1>2, <2>1
<1>4. ASSUME NEW c \in Calls,
             \/ Call(c) \/ Leave(c) \/ Handle(c) \/ Return(c)
             \/ ResendIncrement(c) \/ ResendDecrement(c) \/ ReleaseFails(c)
      PROVE  ValuesOK'
  <2>1. /\ UNCHANGED <<status, denied, asked, wait>>
        /\ timer' = timer \/ timer' = [timer EXCEPT ![c] = Timeout[c]]
        /\ tries' = tries \/ tries' = [tries EXCEPT ![c] = MaxRetries[c]]
        /\ \E p \in Phases : pc' = [pc EXCEPT ![c] = p] /\ p # "sleeping"
    BY <1>4 DEF Call, Leave, Handle, Return, ResendIncrement, ResendDecrement, ReleaseFails,
                row, item, Phases
  <2>2. timer' \in [Calls -> Nat \cup {None}] /\ tries' \in [Calls -> Nat \cup {None}]
    BY <1>t, <2>1
  <2>3. /\ \A e \in Calls \ {c} : tries'[e] = tries[e] /\ pc'[e] = pc[e]
        /\ pc'[c] # "sleeping"
    BY <1>t, <2>1
  <2>4. asked' \in [Calls -> SUBSET Limits] /\ wait' \in [Calls -> Nat]
    BY <1>t, <2>1
  <2> QED BY <1>1, <2>1, <2>2, <2>3, <2>4
<1>5. ASSUME NEW c \in Calls, Retry(c) PROVE ValuesOK'
  <2>1. /\ UNCHANGED <<status, denied, wait, timer>> /\ pc[c] = "sleeping"
        /\ pc' = [pc EXCEPT ![c] = "sending"]
        /\ tries' = [tries EXCEPT ![c] = IF @ = None THEN None ELSE @ - 1]
        /\ asked' = [asked EXCEPT ![c] = {}]
    BY <1>5 DEF Retry, row
  <2>2. tries[c] = None \/ tries[c] - 1 \in Nat
    BY <1>t, <2>1
  <2>3. /\ asked' \in [Calls -> SUBSET Limits] /\ tries' \in [Calls -> Nat \cup {None}]
        /\ wait' \in [Calls -> Nat] /\ timer' \in [Calls -> Nat \cup {None}]
    BY <1>t, <2>1, <2>2
  <2>4. /\ \A e \in Calls \ {c} : tries'[e] = tries[e] /\ pc'[e] = pc[e]
        /\ pc'[c] # "sleeping"
    BY <1>t, <2>1
  <2> QED BY <1>1, <2>1, <2>3, <2>4
<1>6. ASSUME NEW c \in Calls, Deny(c) PROVE ValuesOK'
  <2>1. /\ UNCHANGED <<status, denied, timer, tries>> /\ ~Unprocessable(c)
        /\ pc' = [pc EXCEPT ![c] = "denied"]
        /\ asked' = [asked EXCEPT ![c] = Active(c)]
        /\ \E t \in RetryAfter(c) : wait' = [wait EXCEPT ![c] = t]
    BY <1>6 DEF Deny, row
  <2>2. PICK t \in Nat : wait' = [wait EXCEPT ![c] = t]
    BY <2>1, RetryAfterIsNat
  <2>3. Active(c) \in SUBSET Limits
    BY <1>t
  <2>4. asked' \in [Calls -> SUBSET Limits] /\ wait' \in [Calls -> Nat]
    BY <1>t, <2>1, <2>2, <2>3
  <2>5. /\ \A e \in Calls \ {c} : tries'[e] = tries[e] /\ pc'[e] = pc[e]
        /\ pc'[c] # "sleeping"
    BY <1>t, <2>1
  <2> QED BY <1>t, <1>1, <2>1, <2>4, <2>5
<1>7. ASSUME NEW c \in Calls, Grant(c) PROVE ValuesOK'
  <2>1. /\ UNCHANGED <<status, asked, wait, timer, tries>>
        /\ pc' = [pc EXCEPT ![c] = "granted"]
        /\ denied' = [l \in Limits |-> IF l \in Active(c)
                                       THEN DeniedSlotsAfterDecay(l) ELSE denied[l]]
    BY <1>7 DEF Grant, item
  <2>2. denied' \in [Limits -> Nat]
    BY <1>t, <2>1, DeniedIsNat
  <2> QED BY <1>t, <2>1, <2>2 DEF ValuesOK
<1>8. ASSUME NEW c \in Calls, Decrement(c) PROVE ValuesOK'
  <2>1. /\ UNCHANGED <<asked, wait, timer, tries>>
        /\ pc' = [pc EXCEPT ![c] = "released"]
        /\ status' = [l \in Limits |-> IF l \in Names(c) \ Found(c) THEN "inactive"
                                       ELSE status[l]]
        /\ denied' = [l \in Limits |-> IF l \in Active(c)
                                       THEN DeniedSlotsAfterDecay(l) ELSE denied[l]]
    BY <1>8 DEF Decrement, item
  <2>2. denied' \in [Limits -> Nat]
    BY <1>t, <2>1, DeniedIsNat
  <2>3. status' \in [Limits -> Status]
    BY <1>t, <2>1 DEF Status
  <2> QED BY <1>t, <2>1, <2>2, <2>3 DEF ValuesOK
<1>9. ASSUME NEW c \in Calls, CountDenial(c) PROVE ValuesOK'
  <2>1. /\ status' = status
        /\ denied' = [l \in Limits |-> IF l \in Denied(c) THEN DeniedAfter(c, l) ELSE denied[l]]
        /\ IF tries[c] = 0 \/ timer[c] = 0
           THEN Finish(c, "idle")
           ELSE pc' = [pc EXCEPT ![c] = "sleeping"] /\ UNCHANGED item
    BY <1>9 DEF CountDenial
  <2>2. \A l \in Limits : DeniedAfter(c, l) \in Nat
    BY DeniedIsNat, GlobalConcurrencyAssumption DEF DeniedAfter
  <2>3. denied' \in [Limits -> Nat]
    BY <1>t, <2>1, <2>2
  <2>4. CASE Finish(c, "idle")
    <3>1. /\ asked' \in [Calls -> SUBSET Limits] /\ wait' \in [Calls -> Nat]
          /\ timer' \in [Calls -> Nat \cup {None}] /\ tries' \in [Calls -> Nat \cup {None}]
          /\ pc' = [pc EXCEPT ![c] = "idle"]
          /\ \A e \in Calls \ {c} : tries'[e] = tries[e]
      BY <1>t, <2>4 DEF Finish
    <3> QED BY <1>t, <2>1, <2>3, <3>1 DEF ValuesOK
  <2>5. CASE tries[c] # 0 /\ pc' = [pc EXCEPT ![c] = "sleeping"] /\ UNCHANGED item
    BY <1>t, <2>1, <2>3, <2>5 DEF ValuesOK, item
  <2> QED BY <2>1, <2>4, <2>5
<1>10. ASSUME NEW s \in Services, Crash(s) PROVE ValuesOK'
  <2> DEFINE dead == {c \in Calls : ServiceOf[c] = s}
  <2>1. /\ pc' = [c \in Calls |-> IF c \in dead THEN "idle" ELSE pc[c]]
        /\ asked' = [c \in Calls |-> IF c \in dead THEN {} ELSE asked[c]]
        /\ wait' = [c \in Calls |-> IF c \in dead THEN 0 ELSE wait[c]]
        /\ timer' = [c \in Calls |-> IF c \in dead THEN None ELSE timer[c]]
        /\ tries' = [c \in Calls |-> IF c \in dead THEN None ELSE tries[c]]
        /\ UNCHANGED <<status, denied>>
    BY <1>10 DEF Crash, row
  <2> HIDE DEF dead
  <2>2. asked' \in [Calls -> SUBSET Limits] /\ wait' \in [Calls -> Nat]
    BY <1>t, <2>1
  <2>3. timer' \in [Calls -> Nat \cup {None}] /\ tries' \in [Calls -> Nat \cup {None}]
    BY <1>t, <2>1
  <2>4. \A c \in Calls : pc'[c] = "sleeping" => tries'[c] # 0
    BY <1>t, <2>1
  <2> QED BY <1>t, <2>1, <2>2, <2>3, <2>4 DEF ValuesOK
<1>11. ASSUME NEW k \in Limits, User(k) PROVE ValuesOK'
  <2>1. /\ UNCHANGED <<pc, asked, wait, timer, tries>>
        /\ status' = status \/ \E x \in Status : status' = [status EXCEPT ![k] = x]
        /\ denied' = denied \/ denied' = [denied EXCEPT ![k] = 0]
    <3>1. \A x : (IF x = "active" THEN "inactive" ELSE "active") \in Status
      BY DEF Status
    <3>2. "active" \in Status /\ "absent" \in Status
      BY DEF Status
    <3> QED BY <1>11, <3>1, <3>2 DEF User, CreateLimit, DeleteLimit, ToggleLimit, SetLimit,
                                     ResetSlots, item
  <2>2. status' \in [Limits -> Status] /\ denied' \in [Limits -> Nat]
    BY <1>t, <2>1
  <2> QED BY <1>t, <2>1, <2>2 DEF ValuesOK
<1>12. CASE Tick
  <2>1. /\ UNCHANGED <<status, denied, pc, asked, tries>>
        /\ wait' = [c \in Calls |-> Less(wait[c], 1)]
        /\ timer' = [c \in Calls |-> IF timer[c] = None THEN None ELSE Less(timer[c], 1)]
    BY <1>12 DEF Tick
  <2>2. wait' \in [Calls -> Nat]
    <3>1. \A c \in Calls : Less(wait[c], 1) \in Nat
      BY <1>t, LessIsNat
    <3> QED BY <2>1, <3>1
  <2>3. timer' \in [Calls -> Nat \cup {None}]
    <3>1. \A c \in Calls : timer[c] # None => Less(timer[c], 1) \in Nat
      BY <1>t, LessIsNat
    <3> QED BY <2>1, <3>1
  <2> QED BY <1>t, <2>1, <2>2, <2>3 DEF ValuesOK
<1>13. ASSUME UNCHANGED <<status, denied, pc, item>> PROVE ValuesOK'
  BY <1>t, <1>13 DEF ValuesOK, item
<1>14. ASSUME NEW c \in Calls, CancelCaller(c) PROVE ValuesOK'
  BY <1>13, <1>14 DEF CancelCaller, row
<1>15. CASE UNCHANGED vars
  BY <1>13, <1>15 DEF vars, item
<1>16. CASE Next
  <2>1. ASSUME NEW c \in Calls, Call(c) \/ Leave(c) \/ Server(c) \/ Client(c) \/ Fault(c)
        PROVE  ValuesOK'
    <3>1. CASE Server(c)
      BY <3>1, <1>3, <1>6, <1>7, <1>8, <1>9 DEF Server
    <3>2. CASE Client(c)
      BY <3>2, <1>3, <1>4, <1>5 DEF Client
    <3>3. CASE Fault(c)
      BY <3>3, <1>4, <1>14 DEF Fault
    <3> QED BY <2>1, <3>1, <3>2, <3>3, <1>4
  <2> QED BY <1>16, <2>1, <1>10, <1>11, <1>12 DEF Next
<1> QED BY <1>15, <1>16

\* A service has the calls that wait for it in a queue, each once, and works for the first of
\* them only, through timeouts, retries and crashes (_QueueServiceBase._main_loop in
\* _internal/concurrency/services.py); no counter goes below zero, and no wait is divided
\* by a limit of zero (RetryAfterIsNat).
THEOREM ServicesInOrder == Spec => []TypeOK
<1>1. Init => QueuesOK /\ ValuesOK
  <2> SUFFICES ASSUME Init PROVE QueuesOK /\ ValuesOK
    OBVIOUS
  <2>1. /\ queue = [s \in Services |-> <<>>] /\ pc = [c \in Calls |-> "idle"]
        /\ abandoned = {} /\ status = world.status /\ world \in World
        /\ "idle" \in Phases \ Waiting
    BY GlobalConcurrencyAssumption DEF Init, Phases, Waiting
  <2>2. queue \in [Services -> Seq(Calls)]
    <3>1. <<>> \in Seq(Calls)
      OBVIOUS
    <3> QED BY <2>1, <3>1
  <2>3. \A s \in Services : Lined(s)
    <3>1. ASSUME NEW s \in Services PROVE 1 .. Len(queue[s]) = {}
      <4>1. queue[s] = <<>>
        BY <2>1
      <4> QED BY <4>1
    <3> QED BY <3>1 DEF Lined
  <2>4. QueuesOK
    BY <2>1, <2>2, <2>3 DEF QueuesOK
  <2>5. status \in [Limits -> Status]
    BY <2>1 DEF World
  <2>6. ValuesOK
    BY <2>1, <2>5 DEF Init, ValuesOK
  <2> QED BY <2>4, <2>6
<1>2. LimitInv /\ QueuesOK /\ ValuesOK /\ [Next]_vars => QueuesOK' /\ ValuesOK'
  BY QueuesStep, ValuesStep DEF LimitInv, Inv
<1>3. LimitInv /\ QueuesOK /\ ValuesOK => TypeOK
  <2> SUFFICES ASSUME LimitInv, QueuesOK, ValuesOK PROVE TypeOK
    OBVIOUS
  <2>1. ASSUME NEW c \in Calls
        PROVE  /\ pc[c] \in Waiting <=>
                    \E i \in DOMAIN queue[ServiceOf[c]] : queue[ServiceOf[c]][i] = c
               /\ pc[c] \in Waiting \ {"queued"} => Head(queue[ServiceOf[c]]) = c
    <3>1. /\ queue[ServiceOf[c]] \in Seq(Calls) /\ ServiceOf[c] \in Services
      BY GlobalConcurrencyAssumption DEF QueuesOK
    <3>2. DOMAIN queue[ServiceOf[c]] = 1 .. Len(queue[ServiceOf[c]])
      BY <3>1
    <3>3. pc[c] \in Waiting <=> InQueue(c)
      BY <3>1 DEF QueuesOK, Lined, InQueue
    <3> QED BY <3>2, <3>3, HandledIsFirst DEF InQueue
  <2>2. /\ limit \in [Limits -> Nat] /\ slots \in [Limits -> Nat]
        /\ age \in [Limits -> Nat] /\ debt \in [Limits -> Nat]
    BY DEF LimitInv, Inv, Numbers
  <2> QED BY <2>1, <2>2 DEF TypeOK, QueuesOK, ValuesOK
<1> QED BY <1>1, <1>2, <1>3, LimitInvariant, PTL DEF Spec
=============================================================================
