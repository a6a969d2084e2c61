----------------------------- MODULE SchedulerProofs -----------------------------
(***************************************************************************)
(* What the schedulers promise whatever the deployments, schedules,        *)
(* settings, changes and errors: no run is started twice, the runs of an   *)
(* old configuration go, no schedule has more runs than it needs, and      *)
(* every date has its run.                                                 *)
(***************************************************************************)
EXTENDS Scheduler, FiniteSetTheorems, WellFoundedInduction, TLAPS

-----------------------------------------------------------------------------
(* The state.                                                              *)

Runs ==
  [deployment : Deployments, schedule : Nat, date : Nat, version : Nat, left : BOOLEAN]

Schedules == [deployment : Deployments, interval : Intervals, active : BOOLEAN]

\* A row as a scheduler has read it.
Reads == [deployment : Deployments, version : Nat, start : Nat]

\* What the variables hold.
TypeOK ==
  /\ world \in World
  /\ now \in Nat
  /\ deployment \in [Deployments -> {"absent", "active", "paused", "deleted"}]
  /\ schedule \in Seq(Schedules \cup {None})
  /\ runs \subseteq Runs
  /\ recent \subseteq Deployments /\ pausing \subseteq Deployments
  /\ pc \in [Schedulers -> {"idle", "selecting", "reading", "generating"}]
  /\ cursor \in [Schedulers -> Deployments \cup {None}]
  /\ page \in [Schedulers -> SUBSET Deployments]
  /\ unread \in [Schedulers -> SUBSET Deployments]
  /\ row \in [Schedulers -> Reads \cup {None}]
  /\ collected \in [Schedulers -> SUBSET Runs]
  /\ prompt \subseteq Schedulers /\ covered \in BOOLEAN /\ edits \in Nat
  /\ version \in [Deployments -> Nat]
  /\ unchanged \subseteq Deployments /\ settled \subseteq Deployments
  /\ overtaken \subseteq Deployments

-----------------------------------------------------------------------------
(* The invariant.                                                          *)

Keys(S) == {Key(r) : r \in S}

\* A round goes through a page once: what was collected is of deployments that were
\* read, and nothing is left over between pages.
RoundOK(k) ==
  /\ pc[k] \in {"idle", "selecting"} => unread[k] = {} /\ collected[k] = {}
  /\ pc[k] = "generating" =>
       /\ row[k] \in Reads /\ row[k].deployment \notin unread[k]
       /\ row[k].start <= now /\ row[k].version <= version[row[k].deployment]
  /\ IsFiniteSet(collected[k])
  /\ \A r \in collected[k] :
       /\ ~r.left /\ r.deployment \notin unread[k]
       /\ pc[k] = "generating" => r.deployment # row[k].deployment

\* No two of a set of runs have one key.
OneEach(S) == \A r, o \in S : Key(r) = Key(o) => r = o

\* What was started is still there.
BegunLeft == begun \subseteq Keys({r \in runs : r.left})

\* A run that was generated since the scheduled runs of its deployment were last deleted.
Current(r) == r.version = version[r.deployment]

\* r has a date that a schedule with interval n wanted at some time up to t, and the dates
\* between that time and its own have their keys too.
Reaches(r, n, t, keys) ==
  /\ n # 0
  /\ \E s \in 0 .. t :
       /\ r.date \in Wanted(n, s)
       /\ \A u \in Dates(n, s) : u <= r.date => <<r.deployment, r.schedule, u>> \in keys

\* A current run is one of its schedule as it is now.
Follows(r, keys) ==
  /\ r.version <= version[r.deployment]
  /\ Current(r) =>
       /\ r.schedule \in ActiveSchedules(r.deployment)
       /\ Reaches(r, schedule[r.schedule].interval, now, keys)

RunsOK == OneEach(runs) /\ \A r \in runs : Follows(r, Keys(runs))

CollectedOK(k) ==
  OneEach(collected[k]) /\ \A r \in collected[k] : Follows(r, Keys(runs \cup collected[k]))

\* A scheduled run is a current one, of an active deployment or of one whose pause is
\* half done, unless a scheduler was overtaken.
ScheduledCurrent ==
  \A r \in runs : ~r.left /\ r.deployment \notin overtaken =>
    /\ Current(r)
    /\ deployment[r.deployment] = "active" \/ r.deployment \in pausing

Inv ==
  /\ TypeOK /\ BegunLeft /\ RunsOK /\ ScheduledCurrent
  /\ \A k \in Schedulers : RoundOK(k) /\ CollectedOK(k)

-----------------------------------------------------------------------------
(* Least and greatest numbers.                                             *)

LEMMA NatLeast ==
  ASSUME NEW S \in SUBSET Nat, S # {}
  PROVE  \E n \in S : \A m \in S : n <= m
<1> DEFINE R == {x \in Nat \X Nat : x[1] < x[2]}
<1>1. IsWellFoundedOn(R, Nat)
  BY NatLessThanWellFounded DEF OpToRel
<1>2. PICK n \in S : \A m \in S : ~ (<<m, n>> \in R)
  BY <1>1, WFMin
<1>3. ASSUME NEW m \in S PROVE n <= m
  <2>1. ~ (<<m, n>> \in R)
    BY <1>2
  <2>2. m \in Nat /\ n \in Nat
    OBVIOUS
  <2>3. ~(m < n)
    BY <2>1, <2>2
  <2> QED BY <2>2, <2>3
<1> QED BY <1>3

\* The greatest number of a finite set is below as few numbers as its size minus one.
LEMMA NatGreatest ==
  ASSUME NEW S \in SUBSET Nat, S # {}, IsFiniteSet(S)
  PROVE  \E n \in S : \A m \in S : m <= n
<1> DEFINE Above(n) == {m \in S : n < m}
           Counts == {Cardinality(Above(n)) : n \in S}
<1>1. ASSUME NEW n \in S
      PROVE  Above(n) \in SUBSET S /\ IsFiniteSet(Above(n)) /\ Cardinality(Above(n)) \in Nat
  BY FS_Subset, FS_CardinalityType
<1>2. PICK c \in Counts : \A e \in Counts : c <= e
  <2>1. Counts \in SUBSET Nat /\ Counts # {}
    BY <1>1
  <2> HIDE DEF Counts
  <2> QED BY <2>1, NatLeast
<1>3. PICK n \in S : c = Cardinality(Above(n))
  OBVIOUS
<1>4. ASSUME NEW m \in S, n < m PROVE FALSE
  <2>1. m \in Above(n) /\ m \notin Above(m)
    BY <1>4
  <2>2. Above(m) \in SUBSET Above(n)
    <3>1. \A e \in S : e \in Nat /\ n \in Nat /\ m \in Nat
      OBVIOUS
    <3>2. \A e \in S : m < e => n < e
      BY <1>4, <3>1
    <3> QED BY <3>2
  <2>3. Cardinality(Above(m)) <= Cardinality(Above(n)) /\ Above(m) # Above(n)
    BY <1>1, <2>1, <2>2, FS_Subset
  <2>4. Cardinality(Above(m)) # Cardinality(Above(n))
    BY <1>1, <2>2, <2>3, FS_Subset
  <2>5. c <= Cardinality(Above(m))
    BY <1>2
  <2> QED BY <1>1, <1>3, <2>3, <2>4, <2>5
<1>5. \A m \in S : m <= n
  <2>1. S \subseteq Nat
    OBVIOUS
  <2> QED BY <1>4, <2>1
<1> QED BY <1>5

LEMMA MinProperties ==
  ASSUME NEW S \in SUBSET Nat, S # {}
  PROVE  Min(S) \in S /\ \A m \in S : Min(S) <= m
BY NatLeast DEF Min

LEMMA MaxProperties ==
  ASSUME NEW S \in SUBSET Nat, S # {}, IsFiniteSet(S)
  PROVE  Max(S) \in S /\ \A m \in S : m <= Max(S)
<1>1. \E n \in S : \A m \in S : n >= m
  <2>1. PICK n \in S : \A m \in S : m <= n
    BY NatGreatest
  <2> QED BY <2>1
<1>2. Max(S) \in S /\ \A m \in S : Max(S) >= m
  BY <1>1 DEF Max
<1> QED BY <1>2

-----------------------------------------------------------------------------
(* The dates that a schedule wants.                                        *)

LEMMA DatesFinite ==
  ASSUME NEW n \in Nat \ {0}, NEW s \in Nat
  PROVE  /\ Dates(n, s) \in SUBSET Nat /\ IsFiniteSet(Dates(n, s))
         /\ Wanted(n, s) \in SUBSET Dates(n, s)
         /\ \A t \in Dates(n, s) : s <= t /\ t <= s + MaxScheduledTime
<1>1. Dates(n, s) \in SUBSET (s .. s + MaxScheduledTime)
  BY DEF Dates
<1>2. MaxScheduledTime \in Nat
  BY SchedulerAssumption
<1>3. IsFiniteSet(s .. s + MaxScheduledTime)
  BY <1>2, FS_Interval
<1>4. IsFiniteSet(Dates(n, s))
  BY <1>1, <1>3, FS_Subset
<1>5. \A t \in s .. s + MaxScheduledTime : t \in Nat /\ s <= t /\ t <= s + MaxScheduledTime
  BY <1>2
<1>6. Wanted(n, s) \in SUBSET Dates(n, s)
  BY DEF Wanted
<1> QED BY <1>1, <1>4, <1>5, <1>6

\* With a date it wants those before it.
LEMMA WantedDownwards ==
  ASSUME NEW n \in Nat \ {0}, NEW s \in Nat, NEW t \in Wanted(n, s),
         NEW u \in Dates(n, s), u <= t
  PROVE  u \in Wanted(n, s)
<1> DEFINE D == Dates(n, s)
           UpTo(x) == {y \in D : y <= x}
<1>1. D \in SUBSET Nat /\ IsFiniteSet(D) /\ t \in D
  BY DatesFinite
<1>2. UpTo(u) \in SUBSET UpTo(t) /\ UpTo(t) \in SUBSET D
  <2>1. u \in Nat /\ t \in Nat /\ \A y \in D : y \in Nat
    BY <1>1
  <2>2. \A y \in D : y <= u => y <= t
    BY <2>1
  <2> QED BY <2>2
<1>3. IsFiniteSet(UpTo(t)) /\ IsFiniteSet(UpTo(u))
  BY <1>1, <1>2, FS_Subset
<1>4. Cardinality(UpTo(u)) <= Cardinality(UpTo(t))
  BY <1>2, <1>3, FS_Subset
<1>5. Cardinality(UpTo(t)) <= MaxRuns /\ ~\E x \in D : x < t /\ Enough(D, x, s)
  BY DEF Wanted
<1>6. Cardinality(UpTo(u)) <= MaxRuns
  BY <1>3, <1>4, <1>5, FS_CardinalityType, SchedulerAssumption
<1>7. ~\E x \in D : x < u /\ Enough(D, x, s)
  <2>1. u \in Nat /\ t \in Nat /\ \A y \in D : y \in Nat
    BY <1>1
  <2>2. \A x \in D : x < u => x < t
    BY <2>1
  <2> QED BY <1>5, <2>2
<1> QED BY <1>6, <1>7 DEF Wanted

\* Each run is generated for a schedule of the deployment, and they are finitely many.
LEMMA GeneratedRuns ==
  ASSUME NEW q \in Reads, schedule \in Seq(Schedules \cup {None}),
         NEW r \in Generated(q)
  PROVE  /\ r \in Runs /\ r.deployment = q.deployment /\ r.version = q.version /\ ~r.left
         /\ r.schedule \in ActiveSchedules(q.deployment)
         /\ schedule[r.schedule].interval \in Nat \ {0}
         /\ r.date \in Wanted(schedule[r.schedule].interval, q.start)
<1> DEFINE d == q.deployment
           run(i, t) == [deployment |-> d, schedule |-> i, date |-> t,
                         version |-> q.version, left |-> FALSE]
           of(i) == {run(i, t) : t \in Wanted(schedule[i].interval, q.start)}
<1>1. /\ \A i \in ActiveSchedules(d) : schedule[i].interval # 0
      /\ r \in UNION {of(i) : i \in ActiveSchedules(d)}
  BY DEF Generated
<1>2. PICK i \in ActiveSchedules(d) : r \in of(i)
  BY <1>1
<1>3. PICK t \in Wanted(schedule[i].interval, q.start) : r = run(i, t)
  BY <1>2
<1>4. i \in Nat /\ schedule[i] \in Schedules
  BY DEF ActiveSchedules, SchedulesOf, Made
<1>5. schedule[i].interval \in Nat \ {0}
  BY <1>1, <1>4, SchedulerAssumption DEF Schedules
<1>6. t \in Nat
  BY <1>5, DatesFinite DEF Reads
<1>7. /\ r.deployment = d /\ r.version = q.version /\ r.schedule = i /\ r.date = t
      /\ r.left = FALSE
  BY <1>3
<1>8. r \in Runs
  BY <1>3, <1>4, <1>6 DEF Runs, Reads
<1> QED BY <1>3, <1>5, <1>7, <1>8

LEMMA GeneratedKeys ==
  ASSUME NEW q \in Reads, schedule \in Seq(Schedules \cup {None})
  PROVE  \A r, o \in Generated(q) : Key(r) = Key(o) => r = o
<1> SUFFICES ASSUME NEW r \in Generated(q), NEW o \in Generated(q), Key(r) = Key(o)
             PROVE  r = o
  OBVIOUS
<1>1. /\ r \in Runs /\ r.deployment = q.deployment /\ r.version = q.version /\ ~r.left
      /\ o \in Runs /\ o.deployment = q.deployment /\ o.version = q.version /\ ~o.left
  BY GeneratedRuns
<1>2. r.schedule = o.schedule /\ r.date = o.date
  BY DEF Key
<1>3. r.left = FALSE /\ o.left = FALSE
  BY <1>1 DEF Runs
<1>4. /\ r = [deployment |-> r.deployment, schedule |-> r.schedule, date |-> r.date,
              version |-> r.version, left |-> r.left]
      /\ o = [deployment |-> o.deployment, schedule |-> o.schedule, date |-> o.date,
              version |-> o.version, left |-> o.left]
  BY <1>1 DEF Runs
<1> QED BY <1>1, <1>2, <1>3, <1>4

LEMMA GeneratedFinite ==
  ASSUME NEW q \in Reads, schedule \in Seq(Schedules \cup {None})
  PROVE  IsFiniteSet(Generated(q))
<1> DEFINE S == Generated(q)
           T == (DOMAIN schedule) \X (q.start .. q.start + MaxScheduledTime)
           f == [r \in S |-> <<r.schedule, r.date>>]
<1>1. IsFiniteSet(T)
  <2>1. IsFiniteSet(DOMAIN schedule)
    <3>1. DOMAIN schedule = 1 .. Len(schedule) /\ Len(schedule) \in Nat
      OBVIOUS
    <3> QED BY <3>1, FS_Interval
  <2>2. IsFiniteSet(q.start .. q.start + MaxScheduledTime)
    BY FS_Interval, SchedulerAssumption DEF Reads
  <2> QED BY <2>1, <2>2, FS_Product
<1>2. ASSUME NEW r \in S PROVE <<r.schedule, r.date>> \in T
  <2>1. /\ r.schedule \in ActiveSchedules(q.deployment)
        /\ schedule[r.schedule].interval \in Nat \ {0}
        /\ r.date \in Wanted(schedule[r.schedule].interval, q.start)
    BY GeneratedRuns
  <2>2. r.schedule \in DOMAIN schedule
    BY <2>1 DEF ActiveSchedules, SchedulesOf, Made
  <2>3. r.date \in q.start .. q.start + MaxScheduledTime
    BY <2>1 DEF Wanted, Dates
  <2> QED BY <2>2, <2>3
<1>3. \A r, o \in S : f[r] = f[o] => r = o
  <2> SUFFICES ASSUME NEW r \in S, NEW o \in S, f[r] = f[o] PROVE r = o
    OBVIOUS
  <2>1. r.deployment = q.deployment /\ o.deployment = q.deployment
    BY GeneratedRuns
  <2>2. r.schedule = o.schedule /\ r.date = o.date
    OBVIOUS
  <2> QED BY <2>1, <2>2, GeneratedKeys DEF Key
<1>4. f \in [S -> T]
  <2> HIDE DEF S, T
  <2> QED BY <1>2
<1>5. f \in Injection(S, T)
  <2> HIDE DEF S, T, f
  <2> QED BY <1>3, <1>4 DEF Injection, IsInjective
<1> QED BY <1>1, <1>5, FS_Injection

\* With a run all those of its schedule with earlier dates are generated.
LEMMA GeneratedDownwards ==
  ASSUME NEW q \in Reads, schedule \in Seq(Schedules \cup {None}), NEW r \in Generated(q),
         NEW t \in Dates(schedule[r.schedule].interval, q.start), t <= r.date
  PROVE  <<r.deployment, r.schedule, t>> \in Keys(Generated(q))
<1> DEFINE d == q.deployment
           i == r.schedule
           run(j, u) == [deployment |-> d, schedule |-> j, date |-> u,
                         version |-> q.version, left |-> FALSE]
           of(j) == {run(j, u) : u \in Wanted(schedule[j].interval, q.start)}
<1>1. /\ r.deployment = d /\ i \in ActiveSchedules(d)
      /\ schedule[i].interval \in Nat \ {0}
      /\ r.date \in Wanted(schedule[i].interval, q.start)
  BY GeneratedRuns
<1>2. q.start \in Nat
  BY DEF Reads
<1>3. t \in Wanted(schedule[i].interval, q.start)
  BY <1>1, <1>2, WantedDownwards
<1>4. Generated(q) = UNION {of(j) : j \in ActiveSchedules(d)}
  BY DEF Generated
<1>5. run(i, t) \in Generated(q)
  <2>1. run(i, t) \in of(i)
    BY <1>3
  <2> HIDE DEF of, run
  <2> QED BY <1>1, <1>4, <2>1
<1>6. Key(run(i, t)) = <<d, i, t>>
  BY DEF Key
<1> QED BY <1>1, <1>5, <1>6 DEF Keys

-----------------------------------------------------------------------------
(* The types.                                                              *)

LEMMA InitTypes == Init => TypeOK
<1> SUFFICES ASSUME Init PROVE TypeOK
  OBVIOUS
<1>1. world \in World
  BY SchedulerAssumption DEF Init
<1>2. deployment \in [Deployments -> {"absent", "active", "paused", "deleted"}]
  BY DEF Init
<1>3. schedule \in Seq(Schedules \cup {None})
  <2>1. PICK order \in [1 .. Cardinality(Existing) -> Existing] :
          schedule = [i \in DOMAIN order |-> Row(order[i], world.deployments[order[i]])]
    BY DEF Init
  <2>2. IsFiniteSet(Existing)
    BY FS_Subset, SchedulerAssumption DEF Existing
  <2>3. Cardinality(Existing) \in Nat
    BY <2>2, FS_CardinalityType
  <2>4. ASSUME NEW d \in Existing PROVE d \in Deployments /\ world.deployments[d] \in Intervals
    <3>1. d \in Deployments /\ deployment[d] # "absent"
      BY DEF Existing
    <3>2. world.deployments[d] # None
      BY <3>1 DEF Init
    <3> QED BY <1>1, <3>1, <3>2 DEF World
  <2>5. \A i \in 1 .. Cardinality(Existing) : schedule[i] \in Schedules
    BY <2>1, <2>4 DEF Row, Schedules
  <2>6. schedule = [i \in 1 .. Cardinality(Existing) |-> schedule[i]]
    BY <2>1
  <2>7. schedule \in [1 .. Cardinality(Existing) -> Schedules \cup {None}]
    BY <2>5, <2>6
  <2> QED BY <2>3, <2>7
<1> QED BY <1>1, <1>2, <1>3 DEF Init, TypeOK

\* The actions of rounds, each with the sets that its helpers name.
LEMMA SelectTypes ==
  ASSUME TypeOK, NEW k \in Schedulers, SelectDeployments(k)
  PROVE  TypeOK'
<1> DEFINE found == {d \in Selectable(k) : cursor[k] # None => d > cursor[k]}
           first == {d \in found : Cardinality({e \in found : e <= d}) <= DeploymentBatchSize}
<1>1. first \in SUBSET Deployments
  BY DEF Selectable
<1>2. /\ page' = [page EXCEPT ![k] = first] /\ unread' = [unread EXCEPT ![k] = first]
      /\ pc' = [pc EXCEPT ![k] = "reading"]
      /\ prompt' = IF pc[k] = "idle" THEN prompt \cup {k} ELSE prompt
      /\ unchanged' = IF pc[k] = "idle" /\ k = "main" THEN Deployments ELSE unchanged
      /\ UNCHANGED <<world, now, users, runs, cursor, row, collected, covered, settled,
                     overtaken, begun>>
  BY DEF SelectDeployments
<1> HIDE DEF first
<1>3. page' \in [Schedulers -> SUBSET Deployments] /\ unread' \in [Schedulers -> SUBSET Deployments]
  BY <1>1, <1>2 DEF TypeOK
<1>4. pc' \in [Schedulers -> {"idle", "selecting", "reading", "generating"}]
  BY <1>2 DEF TypeOK
<1>5. prompt' \subseteq Schedulers /\ unchanged' \subseteq Deployments
  BY <1>2 DEF TypeOK
<1> QED BY <1>2, <1>3, <1>4, <1>5 DEF TypeOK, users

LEMMA ReadDeploymentTypes ==
  ASSUME TypeOK, NEW k \in Schedulers, ReadDeployment(k)
  PROVE  TypeOK' /\ Min(unread[k]) \in unread[k] /\ Min(unread[k]) \in Deployments
<1> DEFINE d == Min(unread[k])
<1>1. d \in unread[k] /\ d \in Deployments
  <2>1. unread[k] \in SUBSET Deployments /\ unread[k] # {}
    BY DEF TypeOK, ReadDeployment
  <2>2. Deployments \subseteq Nat
    BY SchedulerAssumption
  <2> QED BY <2>1, <2>2, MinProperties
<1> HIDE DEF d
<1>2. /\ unread' = [unread EXCEPT ![k] = @ \ {d}]
      /\ \/ /\ row' = [row EXCEPT ![k] =
                          [deployment |-> d, version |-> version[d], start |-> now]]
            /\ pc' = [pc EXCEPT ![k] = "generating"]
         \/ UNCHANGED <<row, pc>>
      /\ UNCHANGED <<world, now, users, runs, cursor, page, collected, prompt, covered,
                     history, begun>>
  BY DEF ReadDeployment, d
<1>3. unread' \in [Schedulers -> SUBSET Deployments]
  BY <1>2 DEF TypeOK
<1>4. [deployment |-> d, version |-> version[d], start |-> now] \in Reads
  BY <1>1 DEF Reads, TypeOK
<1>5. row' \in [Schedulers -> Reads \cup {None}]
  <2> DEFINE q == [deployment |-> d, version |-> version[d], start |-> now]
  <2>1. row' = [row EXCEPT ![k] = q] \/ row' = row
    BY <1>2
  <2> HIDE DEF q
  <2>2. q \in Reads
    BY <1>4 DEF q
  <2> QED BY <2>1, <2>2 DEF TypeOK
<1>6. pc' \in [Schedulers -> {"idle", "selecting", "reading", "generating"}]
  BY <1>2 DEF TypeOK
<1> QED BY <1>1, <1>2, <1>3, <1>5, <1>6 DEF TypeOK, users, history, d

LEMMA ReadSchedulesTypes ==
  ASSUME TypeOK, NEW k \in Schedulers, ReadSchedules(k), row[k] \in Reads
  PROVE  TypeOK'
<1> DEFINE G == Generated(row[k])
<1>1. G \in SUBSET Runs
  BY GeneratedRuns DEF TypeOK
<1>2. /\ collected' = [collected EXCEPT ![k] = @ \cup G]
      /\ row' = [row EXCEPT ![k] = None]
      /\ pc' = [pc EXCEPT ![k] = "reading"]
      /\ UNCHANGED <<world, now, users, runs, cursor, page, unread, prompt, covered,
                     history, begun>>
  BY DEF ReadSchedules
<1> HIDE DEF G
<1>3. collected' \in [Schedulers -> SUBSET Runs]
  BY <1>1, <1>2 DEF TypeOK
<1>4. row' \in [Schedulers -> Reads \cup {None}]
  BY <1>2 DEF TypeOK
<1>5. pc' \in [Schedulers -> {"idle", "selecting", "reading", "generating"}]
  BY <1>2 DEF TypeOK
<1> QED BY <1>2, <1>3, <1>4, <1>5 DEF TypeOK, users, history

LEMMA InsertTypes ==
  ASSUME TypeOK, NEW k \in Schedulers, Insert(k)
  PROVE  TypeOK'
<1> DEFINE B == Batch(k)
           new == {r \in B : \A o \in runs : Key(o) # Key(r)}
           over == {d \in Deployments : \E r \in new :
                      r.deployment = d /\ (r.version # version[d] \/ deployment[d] # "active")}
<1>1. /\ runs' = runs \cup new /\ overtaken' = overtaken \cup over
      /\ collected' = [collected EXCEPT ![k] = @ \ B]
      /\ UNCHANGED <<world, now, users, pc, cursor, page, unread, row, prompt, covered,
                     unchanged, settled, begun>>
  BY DEF Insert
<1>2. B \in SUBSET collected[k]
  BY DEF Batch
<1>3. new \in SUBSET Runs /\ over \in SUBSET Deployments
  BY <1>2 DEF TypeOK
<1> HIDE DEF B, new, over
<1>4. collected' \in [Schedulers -> SUBSET Runs]
  BY <1>1 DEF TypeOK
<1> QED BY <1>1, <1>3, <1>4 DEF TypeOK, users

LEMMA EndPageTypes ==
  ASSUME TypeOK, NEW k \in Schedulers, EndPage(k)
  PROVE  /\ TypeOK'
         /\ Cardinality(page[k]) >= DeploymentBatchSize =>
              Max(page[k]) \in page[k] /\ \A e \in page[k] : e <= Max(page[k])
<1>1. page[k] \in SUBSET Deployments /\ IsFiniteSet(page[k]) /\ Deployments \subseteq Nat
  BY FS_Subset, SchedulerAssumption DEF TypeOK
<1>2. Cardinality(page[k]) \in Nat
  BY <1>1, FS_CardinalityType
<1>3. ASSUME Cardinality(page[k]) >= DeploymentBatchSize
      PROVE  Max(page[k]) \in page[k] /\ \A e \in page[k] : e <= Max(page[k])
  <2>1. page[k] # {}
    BY <1>2, <1>3, FS_EmptySet, SchedulerAssumption
  <2> QED BY <1>1, <2>1, MaxProperties
<1>4. cursor' \in [Schedulers -> Deployments \cup {None}]
  <2>1. CASE Cardinality(page[k]) < DeploymentBatchSize
    BY <2>1 DEF EndPage, TypeOK
  <2>2. CASE ~(Cardinality(page[k]) < DeploymentBatchSize)
    <3>1. Cardinality(page[k]) >= DeploymentBatchSize
      BY <1>2, <2>2, SchedulerAssumption
    <3>2. Max(page[k]) \in Deployments
      BY <1>1, <1>3, <3>1
    <3>3. cursor' = [cursor EXCEPT ![k] = Max(page[k])]
      BY <2>2 DEF EndPage
    <3> QED BY <3>2, <3>3 DEF TypeOK
  <2> QED BY <2>1, <2>2
<1>5. pc' \in [Schedulers -> {"idle", "selecting", "reading", "generating"}]
  BY DEF EndPage, TypeOK
<1>6. page' \in [Schedulers -> SUBSET Deployments]
  BY DEF EndPage, TypeOK
<1>7. prompt' \subseteq Schedulers /\ settled' \subseteq Deployments
  BY DEF EndPage, TypeOK
<1>8. covered' \in BOOLEAN
  BY DEF EndPage, TypeOK
<1> QED BY <1>3, <1>4, <1>5, <1>6, <1>7, <1>8 DEF EndPage, TypeOK, users

\* What an error in the middle of a page does: the round leaves the deployments in S out.
Skips(k, S) ==
  /\ pc[k] = "generating" => row[k].deployment \in S
  /\ unread' = [unread EXCEPT ![k] = @ \ S]
  /\ unchanged' = IF k = "main" THEN unchanged \ S ELSE unchanged
  /\ settled' = IF k = "main" THEN settled \ S ELSE settled
  /\ pc[k] \in {"reading", "generating"} /\ pc' = [pc EXCEPT ![k] = "reading"]
  /\ row' = [row EXCEPT ![k] = None]
  /\ UNCHANGED <<world, now, users, runs, cursor, page, collected, prompt, covered, overtaken,
                 begun>>

LEMMA SkipSkips ==
  ASSUME NEW k \in Schedulers, Skip(k)
  PROVE  \E S : Skips(k, S)
<1> DEFINE first == IF pc[k] = "generating" THEN row[k].deployment ELSE Min(unread[k])
<1>1. PICK S \in {{first}, {first} \cup unread[k]} :
        /\ unread' = [unread EXCEPT ![k] = @ \ S]
        /\ unchanged' = IF k = "main" THEN unchanged \ S ELSE unchanged
        /\ settled' = IF k = "main" THEN settled \ S ELSE settled
  BY DEF Skip
<1>2. pc[k] = "generating" => row[k].deployment \in S
  BY <1>1
<1> HIDE DEF first
<1>3. Skips(k, S)
  BY <1>1, <1>2 DEF Skip, Skips
<1> QED BY <1>3

LEMMA SkipTypes ==
  ASSUME TypeOK, NEW k \in Schedulers, Skip(k)
  PROVE  TypeOK'
<1>1. PICK S : Skips(k, S)
  BY SkipSkips
<1>2. unread' \in [Schedulers -> SUBSET Deployments]
  BY <1>1 DEF TypeOK, Skips
<1>3. row' \in [Schedulers -> Reads \cup {None}]
  BY <1>1 DEF TypeOK, Skips
<1>4. pc' \in [Schedulers -> {"idle", "selecting", "reading", "generating"}]
  BY <1>1 DEF TypeOK, Skips
<1>5. unchanged' \subseteq Deployments /\ settled' \subseteq Deployments
  BY <1>1 DEF TypeOK, Skips
<1>6. UNCHANGED <<world, now, users, runs, cursor, page, collected, prompt, covered, overtaken,
                  begun>>
  BY <1>1 DEF Skips
<1> QED BY <1>2, <1>3, <1>4, <1>5, <1>6 DEF TypeOK, users

LEMMA BreakTypes ==
  ASSUME TypeOK, NEW k \in Schedulers, TryAgain(k) \/ Fail(k)
  PROVE  TypeOK'
<1>1. /\ page' = [page EXCEPT ![k] = {}] /\ unread' = [unread EXCEPT ![k] = {}]
      /\ row' = [row EXCEPT ![k] = None] /\ collected' = [collected EXCEPT ![k] = {}]
      /\ pc' = [pc EXCEPT ![k] = "selecting"] \/ pc' = [pc EXCEPT ![k] = "idle"]
      /\ cursor' = cursor \/ cursor' = [cursor EXCEPT ![k] = None]
      /\ prompt' = prompt \/ prompt' = prompt \ {k}
      /\ UNCHANGED <<world, now, users, runs, covered, history, begun>>
  BY DEF TryAgain, Fail
<1>2. page' \in [Schedulers -> SUBSET Deployments] /\ unread' \in [Schedulers -> SUBSET Deployments]
  BY <1>1 DEF TypeOK
<1>3. row' \in [Schedulers -> Reads \cup {None}] /\ collected' \in [Schedulers -> SUBSET Runs]
  BY <1>1 DEF TypeOK
<1>4. /\ pc' \in [Schedulers -> {"idle", "selecting", "reading", "generating"}]
      /\ cursor' \in [Schedulers -> Deployments \cup {None}]
  BY <1>1 DEF TypeOK
<1>5. prompt' \subseteq Schedulers
  BY <1>1 DEF TypeOK
<1> QED BY <1>1, <1>2, <1>3, <1>4, <1>5 DEF TypeOK, users, history

LEMMA StartTypes ==
  ASSUME TypeOK, NEW r \in runs, Start(r)
  PROVE  TypeOK'
<1>1. r \in Runs /\ [r EXCEPT !.left = TRUE] \in Runs
  BY DEF TypeOK, Runs
<1>2. runs' = (runs \ {r}) \cup {[r EXCEPT !.left = TRUE]}
  BY DEF Start
<1>3. runs' \subseteq Runs
  BY <1>1, <1>2 DEF TypeOK
<1> QED BY <1>3 DEF Start, TypeOK, users, rounds, history

LEMMA TickTypes ==
  ASSUME TypeOK, Tick
  PROVE  TypeOK'
<1>1. covered' \in BOOLEAN
  <2>1. covered' = FALSE
    BY DEF Tick
  <2> QED BY <2>1
<1>2. now' \in Nat /\ prompt' \subseteq Schedulers /\ recent' \subseteq Deployments
  BY DEF Tick, TypeOK
<1>3. UNCHANGED <<world, runs, deployment, schedule, pausing, edits, version, pc, cursor,
                  page, unread, row, collected, unchanged, settled, overtaken>>
  BY DEF Tick, history
<1> QED BY <1>1, <1>2, <1>3 DEF TypeOK

-----------------------------------------------------------------------------
(* What a request about a deployment may change.                           *)

\* Rounds and other deployments stay as they are; either the scheduled runs of d are
\* deleted, or d keeps its schedules, and if it becomes inactive it is being paused.
Touches(d) ==
  /\ UNCHANGED <<world, now, rounds, begun>>
  /\ Change(d)
  /\ \/ /\ runs' = {r \in runs : r.deployment # d \/ r.left}
        /\ version' = [version EXCEPT ![d] = @ + 1]
        /\ overtaken' = overtaken \ {d}
     \/ /\ UNCHANGED <<runs, version, overtaken>>
        /\ SchedulesOf(d) \subseteq SchedulesOf(d)'
        /\ \A i \in SchedulesOf(d) : schedule'[i] = schedule[i]
        /\ deployment[d] = "active" \/ d \in pausing
             => deployment'[d] = "active" \/ d \in pausing'
  /\ \A e \in Deployments \ {d} :
       /\ deployment'[e] = deployment[e] /\ (e \in pausing' <=> e \in pausing)
       /\ SchedulesOf(e)' = SchedulesOf(e)
       /\ \A i \in SchedulesOf(e) : schedule'[i] = schedule[i]

LEMMA SameLength ==
  ASSUME NEW m \in Nat, NEW n \in Nat, 1 .. m = 1 .. n
  PROVE  m = n
<1>1. ~(m < n)
  <2> SUFFICES ASSUME m < n PROVE FALSE
    OBVIOUS
  <2>1. n \in 1 .. n /\ n \notin 1 .. m
    OBVIOUS
  <2> QED BY <2>1
<1>2. ~(n < m)
  <2> SUFFICES ASSUME n < m PROVE FALSE
    OBVIOUS
  <2>1. m \in 1 .. m /\ m \notin 1 .. n
    OBVIOUS
  <2> QED BY <2>1
<1> QED BY <1>1, <1>2

LEMMA FunctionIsSeq ==
  ASSUME NEW T, NEW n \in Nat, NEW f \in [1 .. n -> T]
  PROVE  f \in Seq(T)
OBVIOUS

LEMMA ScheduleTypes ==
  ASSUME schedule \in Seq(Schedules \cup {None})
  PROVE  /\ Len(schedule) \in Nat /\ DOMAIN schedule = 1 .. Len(schedule)
         /\ \A i \in Made : i \in 1 .. Len(schedule) /\ schedule[i] \in Schedules
         /\ \A d \in Deployments : \A i \in SchedulesOf(d) :
              i \in Made /\ schedule[i].deployment = d /\ schedule[i].interval \in Nat
<1>1. Len(schedule) \in Nat /\ DOMAIN schedule = 1 .. Len(schedule)
  OBVIOUS
<1>2. ASSUME NEW i \in Made PROVE i \in 1 .. Len(schedule) /\ schedule[i] \in Schedules
  BY <1>1 DEF Made
<1>3. ASSUME NEW d \in Deployments, NEW i \in SchedulesOf(d)
      PROVE  i \in Made /\ schedule[i].deployment = d /\ schedule[i].interval \in Nat
  <2>1. i \in Made /\ schedule[i].deployment = d
    BY DEF SchedulesOf
  <2>2. schedule[i].interval \in Intervals
    BY <1>2, <2>1 DEF Schedules
  <2> QED BY <2>1, <2>2, SchedulerAssumption
<1> QED BY <1>1, <1>2, <1>3

LEMMA AppendSchedule ==
  ASSUME schedule \in Seq(Schedules \cup {None}), NEW d \in Deployments, NEW n \in Intervals,
         schedule' = Append(schedule, Row(d, n))
  PROVE  /\ schedule' \in Seq(Schedules \cup {None})
         /\ SchedulesOf(d) \subseteq SchedulesOf(d)'
         /\ \A i \in Made : schedule'[i] = schedule[i]
         /\ \A e \in Deployments \ {d} : SchedulesOf(e)' = SchedulesOf(e)
<1>1. Row(d, n) \in Schedules
  BY DEF Row, Schedules
<1> DEFINE L == Len(schedule)
<1>2. /\ L \in Nat /\ DOMAIN schedule = 1 .. L /\ Len(schedule') = L + 1
      /\ DOMAIN schedule' = 1 .. (L + 1)
      /\ schedule' \in Seq(Schedules \cup {None})
      /\ \A i \in 1 .. L : schedule'[i] = schedule[i]
      /\ schedule'[L + 1] = Row(d, n)
  BY <1>1
<1>3. schedule'[L + 1].deployment = d
  BY <1>2 DEF Row
<1>4. \A i \in 1 .. (L + 1) : i \in 1 .. L \/ i = L + 1
  BY <1>2
<1>5. Made = {i \in 1 .. L : schedule[i] # None}
      /\ Made' = {i \in 1 .. (L + 1) : schedule'[i] # None}
  BY <1>2 DEF Made
<1>6. Made \subseteq Made' /\ Made' \subseteq Made \cup {L + 1}
  BY <1>2, <1>4, <1>5
<1>7. \A i \in Made : schedule'[i] = schedule[i]
  BY <1>2, <1>5
<1>8. \A e : SchedulesOf(e) = {i \in Made : schedule[i].deployment = e}
             /\ SchedulesOf(e)' = {i \in Made' : schedule'[i].deployment = e}
  BY DEF SchedulesOf
<1>9. SchedulesOf(d) \subseteq SchedulesOf(d)'
  BY <1>6, <1>7, <1>8
<1>10. \A e \in Deployments \ {d} : SchedulesOf(e)' = SchedulesOf(e)
  BY <1>3, <1>6, <1>7, <1>8
<1> QED BY <1>2, <1>7, <1>9, <1>10

\* ids are schedules of d: no other deployment loses any.
LEMMA WithoutSchedules ==
  ASSUME schedule \in Seq(Schedules \cup {None}), NEW d \in Deployments,
         NEW ids \in SUBSET SchedulesOf(d)
  PROVE  LET s == Without(ids) IN
         /\ s \in Seq(Schedules \cup {None}) /\ DOMAIN s = DOMAIN schedule
         /\ \A i \in DOMAIN schedule : s[i] = IF i \in ids THEN None ELSE schedule[i]
<1> DEFINE L == Len(schedule)
<1>1. L \in Nat /\ DOMAIN schedule = 1 .. L /\ \A i \in 1 .. L : schedule[i] \in Schedules \cup {None}
  OBVIOUS
<1>2. Without(ids) = [i \in 1 .. L |-> IF i \in ids THEN None ELSE schedule[i]]
  BY <1>1 DEF Without
<1>3. Without(ids) \in [1 .. L -> Schedules \cup {None}]
  BY <1>1, <1>2
<1> QED BY <1>1, <1>2, <1>3

LEMMA DropSchedules ==
  ASSUME schedule \in Seq(Schedules \cup {None}), NEW d \in Deployments,
         NEW ids \in SUBSET SchedulesOf(d), schedule' = Without(ids)
  PROVE  /\ schedule' \in Seq(Schedules \cup {None})
         /\ \A e \in Deployments \ {d} :
              SchedulesOf(e)' = SchedulesOf(e) /\ \A i \in SchedulesOf(e) : schedule'[i] = schedule[i]
<1>1. /\ schedule' \in Seq(Schedules \cup {None}) /\ DOMAIN schedule' = DOMAIN schedule
      /\ \A i \in DOMAIN schedule : schedule'[i] = IF i \in ids THEN None ELSE schedule[i]
  BY WithoutSchedules
<1>2. SUFFICES ASSUME NEW e \in Deployments \ {d}
               PROVE  SchedulesOf(e)' = SchedulesOf(e)
                      /\ \A i \in SchedulesOf(e) : schedule'[i] = schedule[i]
  BY <1>1
<1>3. \A i \in DOMAIN schedule : i \in ids => schedule[i].deployment = d /\ schedule[i] # None
  BY DEF SchedulesOf, Made
<1>4. SchedulesOf(e) = {i \in DOMAIN schedule : schedule[i] # None /\ schedule[i].deployment = e}
  BY DEF SchedulesOf, Made
<1>5. SchedulesOf(e)' = {i \in DOMAIN schedule' : schedule'[i] # None /\ schedule'[i].deployment = e}
  BY DEF SchedulesOf, Made
<1>6. \A i \in SchedulesOf(e) : i \in DOMAIN schedule /\ i \notin ids
  BY <1>3, <1>4
<1>7. \A i \in SchedulesOf(e) : schedule'[i] = schedule[i]
  BY <1>1, <1>6
<1>8. SchedulesOf(e) \subseteq SchedulesOf(e)'
  BY <1>1, <1>4, <1>5, <1>6, <1>7
<1>9. SchedulesOf(e)' \subseteq SchedulesOf(e)
  BY <1>1, <1>3, <1>4, <1>5
<1> QED BY <1>7, <1>8, <1>9

\* Requests that replace schedules first drop those there are, then append one.
LEMMA ReplaceSchedule ==
  ASSUME schedule \in Seq(Schedules \cup {None}), NEW d \in Deployments, NEW n \in Intervals,
         NEW ids \in SUBSET SchedulesOf(d), schedule' = Append(Without(ids), Row(d, n))
  PROVE  /\ schedule' \in Seq(Schedules \cup {None})
         /\ \A e \in Deployments \ {d} :
              SchedulesOf(e)' = SchedulesOf(e) /\ \A i \in SchedulesOf(e) : schedule'[i] = schedule[i]
<1> DEFINE s == Without(ids)
           L == Len(schedule)
<1>1. /\ s \in Seq(Schedules \cup {None}) /\ DOMAIN s = DOMAIN schedule
      /\ \A i \in DOMAIN schedule : s[i] = IF i \in ids THEN None ELSE schedule[i]
  BY WithoutSchedules
<1>2. Row(d, n) \in Schedules /\ Row(d, n).deployment = d
  BY DEF Row, Schedules
<1>3. L \in Nat /\ DOMAIN schedule = 1 .. L
  OBVIOUS
<1>4. Len(s) = L
  <2>1. Len(s) \in Nat /\ DOMAIN s = 1 .. Len(s)
    BY <1>1
  <2>2. 1 .. Len(s) = 1 .. L
    BY <1>1, <1>3, <2>1
  <2> HIDE DEF s, L
  <2> QED BY <1>3, <2>1, <2>2, SameLength
<1>5. /\ schedule' \in Seq(Schedules \cup {None}) /\ DOMAIN schedule' = 1 .. (L + 1)
      /\ \A i \in 1 .. L : schedule'[i] = s[i]
      /\ schedule'[L + 1] = Row(d, n)
  <2> HIDE DEF s
  <2>1. schedule' = Append(s, Row(d, n))
    BY DEF s
  <2> QED BY <1>1, <1>2, <1>4, <2>1
<1>6. SUFFICES ASSUME NEW e \in Deployments \ {d}
               PROVE  SchedulesOf(e)' = SchedulesOf(e)
                      /\ \A i \in SchedulesOf(e) : schedule'[i] = schedule[i]
  BY <1>5
<1>7. \A i \in DOMAIN schedule : i \in ids => schedule[i].deployment = d /\ schedule[i] # None
  BY DEF SchedulesOf, Made
<1>8. SchedulesOf(e) = {i \in 1 .. L : schedule[i] # None /\ schedule[i].deployment = e}
  BY <1>3 DEF SchedulesOf, Made
<1>9. SchedulesOf(e)' = {i \in 1 .. (L + 1) : schedule'[i] # None /\ schedule'[i].deployment = e}
  BY <1>5 DEF SchedulesOf, Made
<1>10. \A i \in 1 .. L : schedule'[i] = IF i \in ids THEN None ELSE schedule[i]
  BY <1>1, <1>3, <1>5
<1>11. \A i \in SchedulesOf(e) : i \in 1 .. L /\ i \notin ids /\ i \in 1 .. (L + 1)
  BY <1>3, <1>7, <1>8
<1>12. \A i \in SchedulesOf(e) : schedule'[i] = schedule[i]
  BY <1>10, <1>11
<1>13. SchedulesOf(e) \subseteq SchedulesOf(e)'
  BY <1>8, <1>9, <1>11, <1>12
<1>14. SchedulesOf(e)' \subseteq SchedulesOf(e)
  <2>1. \A i \in 1 .. (L + 1) : i \in 1 .. L \/ i = L + 1
    BY <1>3
  <2>2. L + 1 \notin SchedulesOf(e)'
    BY <1>2, <1>5, <1>9
  <2> QED BY <1>3, <1>7, <1>8, <1>9, <1>10, <2>1, <2>2
<1> QED BY <1>12, <1>13, <1>14

LEMMA PatchedSchedule ==
  ASSUME schedule \in Seq(Schedules \cup {None}), NEW d \in Deployments, NEW n \in Intervals,
         NEW i \in SchedulesOf(d), NEW a \in BOOLEAN,
         schedule' = [schedule EXCEPT ![i].interval = n, ![i].active = a]
  PROVE  /\ schedule' \in Seq(Schedules \cup {None})
         /\ \A e \in Deployments \ {d} :
              SchedulesOf(e)' = SchedulesOf(e) /\ \A j \in SchedulesOf(e) : schedule'[j] = schedule[j]
<1> DEFINE L == Len(schedule)
           patched == [[schedule[i] EXCEPT !.interval = n] EXCEPT !.active = a]
<1>1. L \in Nat /\ DOMAIN schedule = 1 .. L
  OBVIOUS
<1>2. i \in 1 .. L /\ schedule[i] # None /\ schedule[i] \in Schedules /\ schedule[i].deployment = d
  BY <1>1 DEF SchedulesOf, Made
<1>3. patched \in Schedules /\ patched.deployment = d
  BY <1>2 DEF Schedules
<1>4. /\ schedule' = [j \in 1 .. L |-> IF j = i THEN patched ELSE schedule[j]]
  BY <1>1, <1>2
<1> HIDE DEF patched
<1>5. /\ DOMAIN schedule' = 1 .. L /\ schedule'[i] = patched
      /\ \A j \in 1 .. L : j # i => schedule'[j] = schedule[j]
  BY <1>2, <1>4
<1>6. schedule' \in Seq(Schedules \cup {None})
  <2>1. \A j \in 1 .. L : schedule[j] \in Schedules \cup {None}
    BY <1>1
  <2>2. \A j \in 1 .. L : schedule'[j] \in Schedules \cup {None}
    BY <1>3, <1>5, <2>1
  <2>3. schedule' \in [1 .. L -> Schedules \cup {None}]
    BY <1>4, <2>2
  <2> HIDE DEF L
  <2> QED BY <1>1, <2>3, FunctionIsSeq
<1>7. SUFFICES ASSUME NEW e \in Deployments \ {d}
               PROVE  SchedulesOf(e)' = SchedulesOf(e)
                      /\ \A j \in SchedulesOf(e) : schedule'[j] = schedule[j]
  BY <1>6
<1>8. SchedulesOf(e) = {j \in 1 .. L : schedule[j] # None /\ schedule[j].deployment = e}
  BY <1>1 DEF SchedulesOf, Made
<1>9. SchedulesOf(e)' = {j \in 1 .. L : schedule'[j] # None /\ schedule'[j].deployment = e}
  BY <1>5 DEF SchedulesOf, Made
<1>10. i \notin SchedulesOf(e) /\ i \notin SchedulesOf(e)'
  BY <1>2, <1>3, <1>5, <1>8, <1>9
<1>11. \A j \in 1 .. L : (j \in SchedulesOf(e)' <=> j \in SchedulesOf(e))
  BY <1>5, <1>8, <1>9, <1>10
<1>12. \A j \in SchedulesOf(e) : schedule'[j] = schedule[j]
  BY <1>5, <1>8, <1>10
<1> QED BY <1>8, <1>9, <1>11, <1>12

-----------------------------------------------------------------------------
(* The requests of users.                                                  *)

LEMMA DeleteTypes ==
  ASSUME TypeOK, NEW d \in Deployments, DeleteScheduledRuns(d)
  PROVE  /\ runs' \subseteq Runs /\ version' \in [Deployments -> Nat]
         /\ unchanged' \subseteq Deployments /\ settled' \subseteq Deployments
         /\ overtaken' \subseteq Deployments
<1>1. runs' \subseteq Runs
  BY DEF DeleteScheduledRuns, TypeOK
<1>2. version' \in [Deployments -> Nat]
  BY DEF DeleteScheduledRuns, TypeOK
<1> QED BY <1>1, <1>2 DEF DeleteScheduledRuns, Change, TypeOK

\* What is left to show of a request that deletes the scheduled runs of d.
LEMMA DeletingTouches ==
  ASSUME TypeOK, NEW d \in Deployments, DeleteScheduledRuns(d),
         UNCHANGED <<world, now, rounds, begun>>,
         deployment' \in [Deployments -> {"absent", "active", "paused", "deleted"}],
         schedule' \in Seq(Schedules \cup {None}),
         recent' \subseteq Deployments, pausing' \subseteq Deployments, edits' \in Nat,
         \A e \in Deployments \ {d} :
           /\ deployment'[e] = deployment[e] /\ (e \in pausing' <=> e \in pausing)
           /\ SchedulesOf(e)' = SchedulesOf(e)
           /\ \A i \in SchedulesOf(e) : schedule'[i] = schedule[i]
  PROVE  TypeOK' /\ Touches(d)
<1>1. /\ runs' \subseteq Runs /\ version' \in [Deployments -> Nat]
      /\ unchanged' \subseteq Deployments /\ settled' \subseteq Deployments
      /\ overtaken' \subseteq Deployments
  BY DeleteTypes
<1>2. UNCHANGED <<world, now, pc, cursor, page, unread, row, collected, prompt, covered>>
  BY DEF rounds
<1>3. TypeOK'
  BY <1>1, <1>2 DEF TypeOK
<1>4. Touches(d)
  BY DEF Touches, DeleteScheduledRuns
<1> QED BY <1>3, <1>4

\* What is left to show of a request that does not.
LEMMA KeepingTouches ==
  ASSUME TypeOK, NEW d \in Deployments, Change(d),
         UNCHANGED <<world, now, rounds, begun, runs, version, overtaken>>,
         deployment' \in [Deployments -> {"absent", "active", "paused", "deleted"}],
         schedule' \in Seq(Schedules \cup {None}),
         recent' \subseteq Deployments, pausing' \subseteq Deployments, edits' \in Nat,
         SchedulesOf(d) \subseteq SchedulesOf(d)',
         \A i \in SchedulesOf(d) : schedule'[i] = schedule[i],
         deployment[d] = "active" \/ d \in pausing => deployment'[d] = "active" \/ d \in pausing',
         \A e \in Deployments \ {d} :
           /\ deployment'[e] = deployment[e] /\ (e \in pausing' <=> e \in pausing)
           /\ SchedulesOf(e)' = SchedulesOf(e)
           /\ \A i \in SchedulesOf(e) : schedule'[i] = schedule[i]
  PROVE  TypeOK' /\ Touches(d)
<1>1. UNCHANGED <<world, now, pc, cursor, page, unread, row, collected, prompt, covered>>
  BY DEF rounds
<1>2. TypeOK'
  BY <1>1 DEF TypeOK, Change
<1>3. Touches(d)
  BY DEF Touches
<1> QED BY <1>2, <1>3

\* If the rows of schedules stay as they are.
LEMMA SameSchedules ==
  ASSUME schedule' = schedule
  PROVE  /\ Made' = Made
         /\ \A e : SchedulesOf(e)' = SchedulesOf(e) /\ ActiveSchedules(e)' = ActiveSchedules(e)
BY DEF Made, SchedulesOf, ActiveSchedules

LEMMA EditTypes ==
  ASSUME TypeOK, NEW e, Edit(e)
  PROVE  edits' \in Nat
BY DEF Edit, TypeOK

LEMMA CreateDeploymentTouches ==
  ASSUME TypeOK, NEW d \in Deployments, CreateDeployment(d)
  PROVE  TypeOK' /\ Touches(d)
<1>1. PICK n \in world.intervals : schedule' = Append(schedule, Row(d, n))
  BY DEF CreateDeployment
<1>2. n \in Intervals
  BY DEF TypeOK, World
<1>3. /\ schedule' \in Seq(Schedules \cup {None})
      /\ SchedulesOf(d) \subseteq SchedulesOf(d)'
      /\ \A i \in Made : schedule'[i] = schedule[i]
      /\ \A e \in Deployments \ {d} : SchedulesOf(e)' = SchedulesOf(e)
  BY <1>1, <1>2, AppendSchedule DEF TypeOK
<1>4. \A e \in Deployments : \A i \in SchedulesOf(e) : schedule'[i] = schedule[i]
  BY <1>3 DEF SchedulesOf
<1>5. /\ deployment' \in [Deployments -> {"absent", "active", "paused", "deleted"}]
      /\ deployment'[d] = "active"
      /\ \A e \in Deployments \ {d} : deployment'[e] = deployment[e]
  BY DEF CreateDeployment, TypeOK
<1>6. recent' \subseteq Deployments /\ edits' \in Nat /\ pausing' = pausing
      /\ pausing' \subseteq Deployments
  BY DEF CreateDeployment, Edit, TypeOK
<1>7. Change(d) /\ UNCHANGED <<world, now, rounds, begun, runs, version, overtaken>>
  BY DEF CreateDeployment
<1> QED BY <1>3, <1>4, <1>5, <1>6, <1>7, KeepingTouches

LEMMA AddScheduleTouches ==
  ASSUME TypeOK, NEW d \in Deployments, AddSchedule(d)
  PROVE  TypeOK' /\ Touches(d)
<1>1. PICK n \in world.intervals : schedule' = Append(schedule, Row(d, n))
  BY DEF AddSchedule
<1>2. n \in Intervals
  BY DEF TypeOK, World
<1>3. /\ schedule' \in Seq(Schedules \cup {None})
      /\ SchedulesOf(d) \subseteq SchedulesOf(d)'
      /\ \A i \in Made : schedule'[i] = schedule[i]
      /\ \A e \in Deployments \ {d} : SchedulesOf(e)' = SchedulesOf(e)
  BY <1>1, <1>2, AppendSchedule DEF TypeOK
<1>4. \A e \in Deployments : \A i \in SchedulesOf(e) : schedule'[i] = schedule[i]
  BY <1>3 DEF SchedulesOf
<1>5. deployment' = deployment /\ pausing' = pausing /\ recent' = recent /\ edits' \in Nat
  <2>1. deployment' = deployment /\ pausing' = pausing /\ recent' = recent
    BY DEF AddSchedule
  <2>2. Edit("add schedule")
    BY DEF AddSchedule
  <2> QED BY <2>1, <2>2, EditTypes
<1>6. Change(d) /\ UNCHANGED <<world, now, rounds, begun, runs, version, overtaken>>
  BY DEF AddSchedule
<1>7. /\ deployment' \in [Deployments -> {"absent", "active", "paused", "deleted"}]
      /\ recent' \subseteq Deployments /\ pausing' \subseteq Deployments
  BY <1>5 DEF TypeOK
<1> QED BY <1>3, <1>4, <1>5, <1>6, <1>7, KeepingTouches

LEMMA PauseDeploymentTouches ==
  ASSUME TypeOK, NEW d \in Deployments, PauseDeployment(d)
  PROVE  TypeOK' /\ Touches(d)
<1>1. /\ deployment' \in [Deployments -> {"absent", "active", "paused", "deleted"}]
      /\ \A e \in Deployments \ {d} : deployment'[e] = deployment[e]
  BY DEF PauseDeployment, TypeOK
<1>2. /\ recent' \subseteq Deployments /\ pausing' \subseteq Deployments
      /\ d \in pausing' /\ \A e \in Deployments \ {d} : (e \in pausing' <=> e \in pausing)
  BY DEF PauseDeployment, TypeOK
<1>3. edits' \in Nat /\ Change(d) /\ schedule' = schedule
      /\ UNCHANGED <<world, now, rounds, begun, runs, version, overtaken>>
  BY DEF PauseDeployment, Edit, TypeOK
<1>4. schedule' \in Seq(Schedules \cup {None})
  BY <1>3 DEF TypeOK
<1>5. \A e : SchedulesOf(e)' = SchedulesOf(e) /\ \A i \in SchedulesOf(e) : schedule'[i] = schedule[i]
  BY <1>3, SameSchedules
<1> QED BY <1>1, <1>2, <1>3, <1>4, <1>5, KeepingTouches

LEMMA ResumeDeploymentTouches ==
  ASSUME TypeOK, NEW d \in Deployments, ResumeDeployment(d)
  PROVE  TypeOK' /\ Touches(d)
<1>1. /\ deployment' \in [Deployments -> {"absent", "active", "paused", "deleted"}]
      /\ deployment'[d] = "active"
      /\ \A e \in Deployments \ {d} : deployment'[e] = deployment[e]
  BY DEF ResumeDeployment, TypeOK
<1>2. recent' \subseteq Deployments /\ pausing' \subseteq Deployments /\ pausing' = pausing
  BY DEF ResumeDeployment, TypeOK
<1>3. edits' \in Nat /\ Change(d) /\ schedule' = schedule
      /\ UNCHANGED <<world, now, rounds, begun, runs, version, overtaken>>
  BY DEF ResumeDeployment, Edit, TypeOK
<1>4. schedule' \in Seq(Schedules \cup {None})
  BY <1>3 DEF TypeOK
<1>5. \A e : SchedulesOf(e)' = SchedulesOf(e) /\ \A i \in SchedulesOf(e) : schedule'[i] = schedule[i]
  BY <1>3, SameSchedules
<1> QED BY <1>1, <1>2, <1>3, <1>4, <1>5, KeepingTouches

LEMMA UpdateDeploymentTouches ==
  ASSUME TypeOK, NEW d \in Deployments, UpdateDeployment(d)
  PROVE  TypeOK' /\ Touches(d)
<1>1. /\ DeleteScheduledRuns(d) /\ edits' \in Nat
      /\ UNCHANGED <<world, now, rounds, begun, pausing>>
      /\ recent' \subseteq Deployments /\ pausing' \subseteq Deployments
  BY DEF UpdateDeployment, Edit, TypeOK
<1>2. /\ deployment' \in [Deployments -> {"absent", "active", "paused", "deleted"}]
      /\ \A e \in Deployments \ {d} : deployment'[e] = deployment[e]
  BY DEF UpdateDeployment, TypeOK
<1>3. /\ schedule' \in Seq(Schedules \cup {None})
      /\ \A e \in Deployments \ {d} :
           SchedulesOf(e)' = SchedulesOf(e) /\ \A i \in SchedulesOf(e) : schedule'[i] = schedule[i]
  <2>1. CASE schedule' = schedule
    BY <2>1, SameSchedules DEF TypeOK
  <2>2. ASSUME NEW n \in world.intervals, schedule' = Append(schedule, Row(d, n))
        PROVE  <1>3!1 /\ <1>3!2
    <3>1. n \in Intervals
      BY DEF TypeOK, World
    <3>2. /\ schedule' \in Seq(Schedules \cup {None})
          /\ \A i \in Made : schedule'[i] = schedule[i]
          /\ \A e \in Deployments \ {d} : SchedulesOf(e)' = SchedulesOf(e)
      BY <2>2, <3>1, AppendSchedule DEF TypeOK
    <3> QED BY <3>2 DEF SchedulesOf
  <2> QED BY <2>1, <2>2 DEF UpdateDeployment, CreateSchedule
<1> QED BY <1>1, <1>2, <1>3, DeletingTouches

LEMMA FinishPauseTouches ==
  ASSUME TypeOK, NEW d \in Deployments, FinishPause(d)
  PROVE  TypeOK' /\ Touches(d)
<1>1. /\ DeleteScheduledRuns(d) /\ edits' = edits /\ recent' = recent
      /\ UNCHANGED <<world, now, rounds, begun, deployment, schedule>>
      /\ pausing' = pausing \ {d}
  BY DEF FinishPause
<1>2. /\ deployment' \in [Deployments -> {"absent", "active", "paused", "deleted"}]
      /\ schedule' \in Seq(Schedules \cup {None}) /\ pausing' \subseteq Deployments
      /\ edits' \in Nat /\ recent' \subseteq Deployments
  BY <1>1 DEF TypeOK
<1>3. \A e : SchedulesOf(e)' = SchedulesOf(e) /\ \A i \in SchedulesOf(e) : schedule'[i] = schedule[i]
  BY <1>1, SameSchedules
<1> QED BY <1>1, <1>2, <1>3, DeletingTouches

LEMMA ReplaceSchedulesTouches ==
  ASSUME TypeOK, NEW d \in Deployments, ReplaceSchedules(d)
  PROVE  TypeOK' /\ Touches(d)
<1>1. PICK n \in world.intervals : schedule' = Append(Without(SchedulesOf(d)), Row(d, n))
  BY DEF ReplaceSchedules
<1>2. n \in Intervals
  BY DEF TypeOK, World
<1>3. /\ schedule' \in Seq(Schedules \cup {None})
      /\ \A e \in Deployments \ {d} :
           SchedulesOf(e)' = SchedulesOf(e) /\ \A i \in SchedulesOf(e) : schedule'[i] = schedule[i]
  BY <1>1, <1>2, ReplaceSchedule DEF TypeOK
<1>4. /\ DeleteScheduledRuns(d) /\ edits' \in Nat
      /\ UNCHANGED <<world, now, rounds, begun, deployment, pausing>>
      /\ recent' \subseteq Deployments
  BY DEF ReplaceSchedules, Edit, TypeOK
<1>5. /\ deployment' \in [Deployments -> {"absent", "active", "paused", "deleted"}]
      /\ pausing' \subseteq Deployments
  BY <1>4 DEF TypeOK
<1> QED BY <1>3, <1>4, <1>5, DeletingTouches

LEMMA DeleteDeploymentTouches ==
  ASSUME TypeOK, NEW d \in Deployments, DeleteDeployment(d)
  PROVE  TypeOK' /\ Touches(d)
<1>1. schedule' = Without(SchedulesOf(d))
  BY DEF DeleteDeployment
<1>2. /\ schedule' \in Seq(Schedules \cup {None})
      /\ \A e \in Deployments \ {d} :
           SchedulesOf(e)' = SchedulesOf(e) /\ \A i \in SchedulesOf(e) : schedule'[i] = schedule[i]
  BY <1>1, DropSchedules DEF TypeOK
<1>3. /\ DeleteScheduledRuns(d) /\ edits' \in Nat
      /\ UNCHANGED <<world, now, rounds, begun, pausing>>
      /\ recent' \subseteq Deployments /\ pausing' \subseteq Deployments
  BY DEF DeleteDeployment, Edit, TypeOK
<1>4. /\ deployment' \in [Deployments -> {"absent", "active", "paused", "deleted"}]
      /\ \A e \in Deployments \ {d} : deployment'[e] = deployment[e]
  BY DEF DeleteDeployment, TypeOK
<1> QED BY <1>2, <1>3, <1>4, DeletingTouches

LEMMA PatchScheduleTouches ==
  ASSUME TypeOK, NEW d \in Deployments, PatchSchedule(d)
  PROVE  TypeOK' /\ Touches(d)
<1>1. PICK i \in SchedulesOf(d), n \in world.intervals, a \in BOOLEAN :
        schedule' = [schedule EXCEPT ![i].interval = n, ![i].active = a]
  BY DEF PatchSchedule
<1>2. n \in Intervals
  BY DEF TypeOK, World
<1>3. /\ schedule' \in Seq(Schedules \cup {None})
      /\ \A e \in Deployments \ {d} :
           SchedulesOf(e)' = SchedulesOf(e) /\ \A j \in SchedulesOf(e) : schedule'[j] = schedule[j]
  BY <1>1, <1>2, PatchedSchedule DEF TypeOK
<1>4. /\ DeleteScheduledRuns(d) /\ edits' \in Nat
      /\ UNCHANGED <<world, now, rounds, begun, deployment, pausing>>
      /\ recent' \subseteq Deployments
  <2>1. /\ DeleteScheduledRuns(d) /\ Edit("patch schedule")
        /\ UNCHANGED <<world, now, rounds, begun, deployment, pausing>>
        /\ recent' \in {recent, recent \cup {d}}
    BY DEF PatchSchedule
  <2>2. recent' \subseteq Deployments
    BY <2>1 DEF TypeOK
  <2> QED BY <2>1, <2>2, EditTypes
<1>5. /\ deployment' \in [Deployments -> {"absent", "active", "paused", "deleted"}]
      /\ pausing' \subseteq Deployments
  BY <1>4 DEF TypeOK
<1> QED BY <1>3, <1>4, <1>5, DeletingTouches

LEMMA DeleteScheduleTouches ==
  ASSUME TypeOK, NEW d \in Deployments, DeleteSchedule(d)
  PROVE  TypeOK' /\ Touches(d)
<1>1. PICK i \in SchedulesOf(d) : schedule' = Without({i})
  BY DEF DeleteSchedule
<1>2. {i} \in SUBSET SchedulesOf(d)
  OBVIOUS
<1>3. /\ schedule' \in Seq(Schedules \cup {None})
      /\ \A e \in Deployments \ {d} :
           SchedulesOf(e)' = SchedulesOf(e) /\ \A j \in SchedulesOf(e) : schedule'[j] = schedule[j]
  BY <1>1, <1>2, DropSchedules DEF TypeOK
<1>4. /\ DeleteScheduledRuns(d) /\ edits' \in Nat /\ recent' = recent
      /\ UNCHANGED <<world, now, rounds, begun, deployment, pausing>>
  <2>1. /\ DeleteScheduledRuns(d) /\ Edit("delete schedule") /\ recent' = recent
        /\ UNCHANGED <<world, now, rounds, begun, deployment, pausing>>
    BY DEF DeleteSchedule
  <2> QED BY <2>1, EditTypes
<1>5. /\ deployment' \in [Deployments -> {"absent", "active", "paused", "deleted"}]
      /\ pausing' \subseteq Deployments /\ recent' \subseteq Deployments
  BY <1>4 DEF TypeOK
<1> QED BY <1>3, <1>4, <1>5, DeletingTouches

LEMMA UserTouches ==
  ASSUME TypeOK, NEW d \in Deployments, User(d)
  PROVE  TypeOK' /\ Touches(d)
BY CreateDeploymentTouches, UpdateDeploymentTouches, ReplaceSchedulesTouches,
   DeleteDeploymentTouches, PauseDeploymentTouches, FinishPauseTouches,
   ResumeDeploymentTouches, AddScheduleTouches, PatchScheduleTouches, DeleteScheduleTouches
   DEF User

\* A worker that polls changes nothing but the column updated.
Unseen ==
  /\ UNCHANGED <<world, now, rounds, runs, deployment, schedule, pausing, version, history>>
  /\ begun' = begun

LEMMA PollTypes ==
  ASSUME TypeOK, NEW d \in Deployments, Poll(d)
  PROVE  TypeOK' /\ Unseen
<1>1. Unseen /\ edits' = edits /\ recent' \subseteq Deployments
  BY DEF Poll, Unseen, TypeOK
<1>2. UNCHANGED <<world, now, runs, deployment, schedule, pausing, version, pc, cursor, page,
                  unread, row, collected, prompt, covered, unchanged, settled, overtaken>>
  BY <1>1 DEF Unseen, rounds, history
<1> QED BY <1>1, <1>2 DEF TypeOK

-----------------------------------------------------------------------------
(* Lemmas about keys.                                                      *)

LEMMA KeysMore ==
  ASSUME NEW S, NEW T, S \subseteq T
  PROVE  Keys(S) \subseteq Keys(T)
BY DEF Keys

LEMMA ReachesMore ==
  ASSUME NEW r, NEW n, NEW t \in Nat, NEW u \in Nat, t <= u, NEW K, NEW L,
         Reaches(r, n, t, K),
         \A i, v : <<r.deployment, i, v>> \in K => <<r.deployment, i, v>> \in L
  PROVE  Reaches(r, n, u, L)
<1>1. PICK s \in 0 .. t :
        /\ r.date \in Wanted(n, s)
        /\ \A v \in Dates(n, s) : v <= r.date => <<r.deployment, r.schedule, v>> \in K
  BY DEF Reaches
<1>2. s \in 0 .. u
  OBVIOUS
<1> QED BY <1>1, <1>2 DEF Reaches

\* A run follows as before if its deployment's schedules and keys are still there, or if
\* the scheduled runs of its deployment were deleted.
LEMMA FollowsStep ==
  ASSUME TypeOK, TypeOK', NEW r \in Runs, NEW K, NEW L, now <= now',
         r.version <= version[r.deployment],
         Current(r) => /\ r.schedule \in ActiveSchedules(r.deployment)
                       /\ Reaches(r, schedule[r.schedule].interval, now, K),
         \/ version'[r.deployment] = version[r.deployment] + 1
         \/ /\ version'[r.deployment] = version[r.deployment]
            /\ SchedulesOf(r.deployment) \subseteq SchedulesOf(r.deployment)'
            /\ \A i \in SchedulesOf(r.deployment) : schedule'[i] = schedule[i]
            /\ \A i, v : <<r.deployment, i, v>> \in K => <<r.deployment, i, v>> \in L
  PROVE  /\ r.version <= version'[r.deployment]
         /\ r.version = version'[r.deployment] =>
              /\ r.schedule \in ActiveSchedules(r.deployment)'
              /\ Reaches(r, schedule'[r.schedule].interval, now', L)
<1> DEFINE d == r.deployment
<1>1. d \in Deployments /\ r.version \in Nat /\ version[d] \in Nat /\ version'[d] \in Nat
      /\ now \in Nat /\ now' \in Nat
  BY DEF Runs, TypeOK
<1>2. CASE version'[d] = version[d] + 1
  BY <1>1, <1>2
<1>3. CASE /\ version'[d] = version[d]
           /\ SchedulesOf(d) \subseteq SchedulesOf(d)'
           /\ \A i \in SchedulesOf(d) : schedule'[i] = schedule[i]
           /\ \A i, v : <<d, i, v>> \in K => <<d, i, v>> \in L
  <2>1. SUFFICES ASSUME r.version = version'[d]
                 PROVE  /\ r.schedule \in ActiveSchedules(d)'
                        /\ Reaches(r, schedule'[r.schedule].interval, now', L)
    BY <1>3
  <2>2. r.schedule \in ActiveSchedules(d) /\ Reaches(r, schedule[r.schedule].interval, now, K)
    BY <1>3, <2>1 DEF Current
  <2>3. r.schedule \in SchedulesOf(d) /\ schedule[r.schedule].active
    BY <2>2 DEF ActiveSchedules
  <2>4. schedule'[r.schedule] = schedule[r.schedule] /\ r.schedule \in SchedulesOf(d)'
    BY <1>3, <2>3
  <2>5. r.schedule \in ActiveSchedules(d)'
    BY <2>3, <2>4 DEF ActiveSchedules
  <2>6. Reaches(r, schedule[r.schedule].interval, now', L)
    BY <1>1, <1>3, <2>2, ReachesMore
  <2> QED BY <2>4, <2>5, <2>6
<1> QED BY <1>2, <1>3

-----------------------------------------------------------------------------
(* The invariant is kept by requests, workers and time.                    *)

LEMMA InitInv == Init => Inv
<1> SUFFICES ASSUME Init PROVE Inv
  OBVIOUS
<1>1. TypeOK
  BY InitTypes
<1>2. runs = {} /\ begun = {} /\ \A k \in Schedulers : collected[k] = {} /\ unread[k] = {} /\ pc[k] = "idle"
  BY DEF Init
<1>3. BegunLeft /\ RunsOK /\ ScheduledCurrent
  BY <1>2 DEF BegunLeft, RunsOK, ScheduledCurrent, OneEach
<1>4. ASSUME NEW k \in Schedulers PROVE RoundOK(k) /\ CollectedOK(k)
  BY <1>2, FS_EmptySet DEF RoundOK, CollectedOK, OneEach
<1> QED BY <1>1, <1>3, <1>4 DEF Inv

LEMMA TouchesKeeps ==
  ASSUME Inv, TypeOK', NEW d \in Deployments, Touches(d)
  PROVE  Inv'
<1> DEFINE Deleted == /\ runs' = {r \in runs : r.deployment # d \/ r.left}
                      /\ version' = [version EXCEPT ![d] = @ + 1]
                      /\ overtaken' = overtaken \ {d}
           Kept == /\ UNCHANGED <<runs, version, overtaken>>
                   /\ SchedulesOf(d) \subseteq SchedulesOf(d)'
                   /\ \A i \in SchedulesOf(d) : schedule'[i] = schedule[i]
                   /\ deployment[d] = "active" \/ d \in pausing
                        => deployment'[d] = "active" \/ d \in pausing'
<1>t. TypeOK /\ runs \subseteq Runs /\ now \in Nat
      /\ \A k \in Schedulers : collected[k] \subseteq Runs
  BY DEF Inv, TypeOK
<1>1. Deleted \/ Kept
  BY DEF Touches
<1>2. /\ world' = world /\ now' = now /\ begun' = begun
      /\ UNCHANGED <<pc, cursor, page, unread, row, collected, prompt, covered>>
  BY DEF Touches, rounds
<1>3. \A e \in Deployments \ {d} :
        /\ deployment'[e] = deployment[e] /\ (e \in pausing' <=> e \in pausing)
        /\ SchedulesOf(e)' = SchedulesOf(e)
        /\ \A i \in SchedulesOf(e) : schedule'[i] = schedule[i]
  BY DEF Touches
<1>4. /\ version \in [Deployments -> Nat]
      /\ \A e \in Deployments \ {d} : version'[e] = version[e]
      /\ Deleted => version'[d] = version[d] + 1
      /\ Kept => version'[d] = version[d]
  BY <1>1, <1>t DEF TypeOK
<1>5. runs' \subseteq runs /\ \A r \in runs : r.left \/ r.deployment # d \/ Kept => r \in runs'
  BY <1>1
<1> HIDE DEF Deleted, Kept
<1>6. BegunLeft'
  <2>1. {r \in runs : r.left} \subseteq {r \in runs' : r.left}
    BY <1>5
  <2>2. Keys({r \in runs : r.left}) \subseteq Keys({r \in runs' : r.left})
    BY <2>1, KeysMore
  <2> QED BY <1>2, <2>2 DEF Inv, BegunLeft
<1>7. ASSUME NEW S, S \subseteq Runs, NEW r \in S,
             Follows(r, Keys(runs \cup S))
      PROVE  Follows(r, Keys(runs \cup S))'
  <2> DEFINE e == r.deployment
             K == Keys(runs \cup S)
             L == Keys(runs' \cup S)
  <2>0. r \in Runs /\ e \in Deployments
    BY <1>7 DEF Runs
  <2>1. \/ version'[e] = version[e] + 1
        \/ /\ version'[e] = version[e]
           /\ SchedulesOf(e) \subseteq SchedulesOf(e)'
           /\ \A i \in SchedulesOf(e) : schedule'[i] = schedule[i]
           /\ \A i, v : <<e, i, v>> \in K => <<e, i, v>> \in L
    <3>1. CASE Deleted /\ e = d
      BY <1>4, <3>1
    <3>2. CASE Kept \/ e # d
      <4>1. version'[e] = version[e] /\ SchedulesOf(e) \subseteq SchedulesOf(e)'
            /\ \A i \in SchedulesOf(e) : schedule'[i] = schedule[i]
        BY <1>3, <1>4, <2>0, <3>2 DEF Kept
      <4>2. ASSUME NEW i, NEW v, <<e, i, v>> \in K PROVE <<e, i, v>> \in L
        <5>1. PICK o \in runs \cup S : Key(o) = <<e, i, v>>
          BY <4>2 DEF Keys
        <5>2. o.deployment = e
          BY <5>1 DEF Key
        <5>3. o \in runs' \cup S
          BY <1>5, <3>2, <5>1, <5>2
        <5> QED BY <5>1, <5>3 DEF Keys
      <4> QED BY <4>1, <4>2
    <3> QED BY <1>1, <3>1, <3>2
  <2>2. /\ r.version <= version[e]
        /\ Current(r) => /\ r.schedule \in ActiveSchedules(e)
                         /\ Reaches(r, schedule[r.schedule].interval, now, K)
    BY <1>7 DEF Follows
  <2>3. now <= now'
    BY <1>t, <1>2
  <2> HIDE DEF K, L
  <2>4. /\ r.version <= version'[e]
        /\ r.version = version'[e] =>
             /\ r.schedule \in ActiveSchedules(e)'
             /\ Reaches(r, schedule'[r.schedule].interval, now', L)
    BY <1>t, <2>0, <2>1, <2>2, <2>3, FollowsStep
  <2> QED BY <2>4 DEF Follows, Current, L, Keys
<1>8. RunsOK'
  <2>1. OneEach(runs')
    BY <1>5 DEF Inv, RunsOK, OneEach
  <2>2. ASSUME NEW r \in runs' PROVE Follows(r, Keys(runs))'
    <3>1. r \in runs /\ Follows(r, Keys(runs))
      BY <1>5 DEF Inv, RunsOK
    <3>2. runs \cup {r} = runs /\ runs' \cup {r} = runs'
      BY <3>1
    <3>3. {r} \subseteq Runs /\ r \in {r}
      BY <1>t, <3>1
    <3>4. Follows(r, Keys(runs \cup {r}))
      BY <3>1, <3>2
    <3>5. Follows(r, Keys(runs \cup {r}))'
      BY <1>7, <3>3, <3>4
    <3>6. Keys(runs \cup {r})' = Keys(runs)'
      BY <3>2
    <3> QED BY <3>2, <3>5, <3>6 DEF Follows
  <2> QED BY <2>1, <2>2 DEF RunsOK
<1>9. ScheduledCurrent'
  <2>1. SUFFICES ASSUME NEW r \in runs', ~r.left, r.deployment \notin overtaken'
                 PROVE  /\ r.version = version'[r.deployment]
                        /\ deployment'[r.deployment] = "active" \/ r.deployment \in pausing'
    BY DEF ScheduledCurrent, Current
  <2>2. r \in runs /\ r.deployment \in Deployments
    BY <1>t, <1>5 DEF Runs
  <2>3. CASE Deleted
    <3>1. r.deployment # d
      BY <2>1, <2>3 DEF Deleted
    <3>2. r.deployment \notin overtaken
      BY <2>1, <2>3, <3>1 DEF Deleted
    <3> QED BY <1>3, <1>4, <2>1, <2>2, <3>1, <3>2 DEF Inv, ScheduledCurrent, Current
  <2>4. CASE Kept
    <3>1. r.deployment \notin overtaken /\ version' = version
      BY <2>1, <2>4 DEF Kept
    <3>2. r.version = version[r.deployment]
          /\ (deployment[r.deployment] = "active" \/ r.deployment \in pausing)
      BY <2>1, <2>2, <3>1 DEF Inv, ScheduledCurrent, Current
    <3> QED BY <1>3, <2>2, <2>4, <3>1, <3>2 DEF Kept
  <2> QED BY <1>1, <2>3, <2>4
<1>10. ASSUME NEW k \in Schedulers PROVE RoundOK(k)' /\ CollectedOK(k)'
  <2>1. RoundOK(k) /\ CollectedOK(k)
    BY DEF Inv
  <2>2. RoundOK(k)'
    <3>1. ASSUME pc[k] = "generating" PROVE row[k].version <= version'[row[k].deployment]
      <4>1. /\ row[k] \in Reads /\ row[k].version <= version[row[k].deployment]
        BY <2>1, <3>1 DEF RoundOK
      <4>2. /\ row[k].deployment \in Deployments /\ row[k].version \in Nat
            /\ version[row[k].deployment] \in Nat
        BY <1>4, <4>1 DEF Reads
      <4>3. version'[row[k].deployment] \in {version[row[k].deployment], version[row[k].deployment] + 1}
        BY <1>1, <1>4, <4>2
      <4> QED BY <4>1, <4>2, <4>3
    <3> QED BY <1>2, <2>1, <3>1 DEF RoundOK
  <2>3. CollectedOK(k)'
    <3>1. OneEach(collected'[k])
      BY <1>2, <2>1 DEF CollectedOK
    <3>2. ASSUME NEW r \in collected'[k]
          PROVE  Follows(r, Keys(runs \cup collected[k]))'
      <4>1. r \in collected[k] /\ Follows(r, Keys(runs \cup collected[k]))
        BY <1>2, <2>1 DEF CollectedOK
      <4> DEFINE S == collected[k]
      <4>2. S \subseteq Runs /\ collected'[k] = S
        BY <1>t, <1>2
      <4> QED BY <1>7, <4>1, <4>2
    <3> QED BY <3>1, <3>2 DEF CollectedOK
  <2> QED BY <2>2, <2>3
<1> QED BY <1>6, <1>8, <1>9, <1>10 DEF Inv

\* A run follows as before while requests change nothing and no key is lost.
LEMMA FollowsOn ==
  ASSUME TypeOK, TypeOK', NEW r \in Runs, NEW K, NEW L, now <= now',
         version' = version, schedule' = schedule, Follows(r, K), K \subseteq L
  PROVE  /\ r.version <= version'[r.deployment]
         /\ r.version = version'[r.deployment] =>
              /\ r.schedule \in ActiveSchedules(r.deployment)'
              /\ Reaches(r, schedule'[r.schedule].interval, now', L)
<1>1. /\ SchedulesOf(r.deployment) \subseteq SchedulesOf(r.deployment)'
      /\ \A i \in SchedulesOf(r.deployment) : schedule'[i] = schedule[i]
      /\ version'[r.deployment] = version[r.deployment]
      /\ \A i, v : <<r.deployment, i, v>> \in K => <<r.deployment, i, v>> \in L
  BY SameSchedules
<1>2. /\ r.version <= version[r.deployment]
      /\ Current(r) => /\ r.schedule \in ActiveSchedules(r.deployment)
                       /\ Reaches(r, schedule[r.schedule].interval, now, K)
  BY DEF Follows
<1> QED BY <1>1, <1>2, FollowsStep

LEMMA UnseenKeeps ==
  ASSUME Inv, TypeOK', Unseen
  PROVE  Inv'
<1>1. UNCHANGED <<now, runs, deployment, schedule, pausing, version, pc, cursor, page,
                  unread, row, collected, prompt, covered, unchanged, settled, overtaken, begun>>
  BY DEF Unseen, rounds, history
<1>2. RunsOK' /\ BegunLeft' /\ ScheduledCurrent'
  BY <1>1 DEF Inv, RunsOK, BegunLeft, ScheduledCurrent, Follows, Current, OneEach, Keys,
              ActiveSchedules, SchedulesOf, Made
<1>3. ASSUME NEW k \in Schedulers PROVE RoundOK(k)' /\ CollectedOK(k)'
  BY <1>1 DEF Inv, RoundOK, CollectedOK, Follows, Current, OneEach, Keys,
              ActiveSchedules, SchedulesOf, Made
<1> QED BY <1>2, <1>3 DEF Inv

LEMMA StartKeeps ==
  ASSUME Inv, TypeOK', NEW r \in runs, Start(r)
  PROVE  Inv' /\ Keys(runs') = Keys(runs)
<1> DEFINE n == [r EXCEPT !.left = TRUE]
<1>1. /\ runs' = (runs \ {r}) \cup {n} /\ begun' = begun \cup {Key(r)} /\ ~r.left
      /\ UNCHANGED <<world, now, users, rounds, history>>
  BY DEF Start
<1>2. UNCHANGED <<now, deployment, schedule, pausing, version, pc, cursor, page,
                  unread, row, collected, prompt, covered, unchanged, settled, overtaken>>
  BY <1>1 DEF users, rounds, history
<1>t. /\ TypeOK /\ runs \subseteq Runs /\ now \in Nat
      /\ \A k \in Schedulers : collected[k] \subseteq Runs
  BY DEF Inv, TypeOK
<1>3. /\ n \in Runs /\ n.deployment = r.deployment /\ n.schedule = r.schedule /\ n.date = r.date
      /\ n.version = r.version /\ n.left = TRUE
  <2>1. r \in Runs
    BY <1>t
  <2> QED BY <2>1 DEF Runs
<1> HIDE DEF n
<1>4. Key(n) = Key(r)
  BY <1>3 DEF Key
<1>5. Keys(runs') = Keys(runs)
  BY <1>1, <1>4 DEF Keys
<1>6. BegunLeft'
  <2>1. ASSUME NEW q \in begun' PROVE \E o \in runs' : o.left /\ q = Key(o)
    <3>1. CASE q = Key(r)
      BY <1>1, <1>3, <1>4, <3>1
    <3>2. CASE q # Key(r)
      <4>1. PICK o \in runs : o.left /\ q = Key(o)
        BY <1>1, <2>1, <3>2 DEF Inv, BegunLeft, Keys
      <4>2. o \in runs'
        BY <1>1, <4>1
      <4> QED BY <4>1, <4>2
    <3> QED BY <3>1, <3>2
  <2> QED BY <2>1 DEF BegunLeft, Keys
<1>7. RunsOK'
  <2>1. OneEach(runs')
    <3> SUFFICES ASSUME NEW o \in runs', NEW p \in runs', Key(o) = Key(p) PROVE o = p
      BY DEF OneEach
    <3>1. \A a, b \in runs : Key(a) = Key(b) => a = b
      BY DEF Inv, RunsOK, OneEach
    <3>2. (o \in runs /\ o # r) \/ o = n
      BY <1>1
    <3>3. (p \in runs /\ p # r) \/ p = n
      BY <1>1
    <3> QED BY <1>4, <3>1, <3>2, <3>3
  <2>2. ASSUME NEW o \in runs'
        PROVE  /\ o.version <= version'[o.deployment]
               /\ o.version = version'[o.deployment] =>
                    /\ o.schedule \in ActiveSchedules(o.deployment)'
                    /\ Reaches(o, schedule'[o.schedule].interval, now', Keys(runs'))
    <3>1. o \in Runs
      BY <1>1, <1>3, <1>t
    <3>2. Follows(o, Keys(runs))
      <4>1. CASE o \in runs
        BY <4>1 DEF Inv, RunsOK
      <4>2. CASE o = n
        <5>1. Follows(r, Keys(runs))
          BY DEF Inv, RunsOK
        <5> QED BY <1>3, <4>2, <5>1 DEF Follows, Reaches, Current
      <4> QED BY <1>1, <4>1, <4>2
    <3>3. now <= now' /\ version' = version /\ schedule' = schedule
      BY <1>2, <1>t
    <3> QED BY <1>5, <1>t, <3>1, <3>2, <3>3, FollowsOn
  <2> QED BY <2>1, <2>2 DEF RunsOK, Follows, Current, Keys
<1>8. ScheduledCurrent'
  <2>1. \A o \in runs' : ~o.left => o \in runs
    BY <1>1, <1>3
  <2> QED BY <1>2, <2>1 DEF Inv, ScheduledCurrent, Current
<1>9. ASSUME NEW k \in Schedulers PROVE RoundOK(k)' /\ CollectedOK(k)'
  <2>1. RoundOK(k)'
    BY <1>2 DEF Inv, RoundOK
  <2>2. Keys(runs' \cup collected[k]) = Keys(runs \cup collected[k])
    BY <1>5 DEF Keys
  <2>3. ASSUME NEW o \in collected[k]
        PROVE  /\ o.version <= version'[o.deployment]
               /\ o.version = version'[o.deployment] =>
                    /\ o.schedule \in ActiveSchedules(o.deployment)'
                    /\ Reaches(o, schedule'[o.schedule].interval, now',
                               Keys(runs' \cup collected[k]))
    <3>1. o \in Runs /\ Follows(o, Keys(runs \cup collected[k]))
      BY <1>t DEF Inv, CollectedOK
    <3>2. now <= now' /\ version' = version /\ schedule' = schedule
      BY <1>2, <1>t
    <3> QED BY <1>t, <2>2, <3>1, <3>2, FollowsOn
  <2>4. OneEach(collected[k])
    BY DEF Inv, CollectedOK
  <2>5. collected'[k] = collected[k]
    BY <1>2
  <2>6. CollectedOK(k)'
    BY <2>3, <2>4, <2>5 DEF CollectedOK, Follows, Current, Keys
  <2> QED BY <2>1, <2>6
<1> QED BY <1>5, <1>6, <1>7, <1>8, <1>9 DEF Inv

LEMMA TickKeeps ==
  ASSUME Inv, TypeOK', Tick
  PROVE  Inv'
<1>1. now' = now + 1
      /\ UNCHANGED <<runs, deployment, schedule, pausing, version, pc, cursor, page,
                     unread, row, collected, unchanged, settled, overtaken, begun>>
  BY DEF Tick, history
<1>t. /\ TypeOK /\ runs \subseteq Runs /\ now \in Nat /\ now <= now'
      /\ \A k \in Schedulers : collected[k] \subseteq Runs
  BY <1>1 DEF Inv, TypeOK
<1>2. BegunLeft' /\ ScheduledCurrent'
  BY <1>1 DEF Inv, BegunLeft, ScheduledCurrent, Current, Keys
<1>3. ASSUME NEW o \in Runs, NEW K, Follows(o, K)
      PROVE  /\ o.version <= version'[o.deployment]
             /\ o.version = version'[o.deployment] =>
                  /\ o.schedule \in ActiveSchedules(o.deployment)'
                  /\ Reaches(o, schedule'[o.schedule].interval, now', K)
  BY <1>1, <1>3, <1>t, FollowsOn
<1>4. RunsOK'
  <2>1. ASSUME NEW o \in runs
        PROVE  /\ o.version <= version'[o.deployment]
               /\ o.version = version'[o.deployment] =>
                    /\ o.schedule \in ActiveSchedules(o.deployment)'
                    /\ Reaches(o, schedule'[o.schedule].interval, now', Keys(runs))
    <3>1. o \in Runs /\ Follows(o, Keys(runs))
      BY <1>t DEF Inv, RunsOK
    <3> QED BY <1>3, <3>1
  <2>2. OneEach(runs)
    BY DEF Inv, RunsOK
  <2> QED BY <1>1, <2>1, <2>2 DEF RunsOK, Follows, Current, Keys
<1>5. ASSUME NEW k \in Schedulers PROVE RoundOK(k)' /\ CollectedOK(k)'
  <2>1. RoundOK(k)'
    <3>1. ASSUME pc[k] = "generating" PROVE row[k].start <= now'
      <4>1. row[k] \in Reads /\ row[k].start <= now
        BY <3>1 DEF Inv, RoundOK
      <4> QED BY <1>1, <1>t, <4>1 DEF Reads
    <3> QED BY <1>1, <3>1 DEF Inv, RoundOK
  <2>2. ASSUME NEW o \in collected[k]
        PROVE  /\ o.version <= version'[o.deployment]
               /\ o.version = version'[o.deployment] =>
                    /\ o.schedule \in ActiveSchedules(o.deployment)'
                    /\ Reaches(o, schedule'[o.schedule].interval, now',
                               Keys(runs \cup collected[k]))
    <3>1. o \in Runs /\ Follows(o, Keys(runs \cup collected[k]))
      BY <1>t DEF Inv, CollectedOK
    <3> QED BY <1>3, <3>1
  <2>3. OneEach(collected[k])
    BY DEF Inv, CollectedOK
  <2>4. CollectedOK(k)'
    BY <1>1, <2>2, <2>3 DEF CollectedOK, Follows, Current, Keys
  <2> QED BY <2>1, <2>4
<1> QED BY <1>2, <1>4, <1>5 DEF Inv

-----------------------------------------------------------------------------
(* The invariant is kept by the steps of rounds.                           *)

\* What is left to show of a step of scheduler k that inserts no runs.
LEMMA RoundStepKeeps ==
  ASSUME Inv, TypeOK', NEW k \in Schedulers,
         UNCHANGED <<now, users, runs, overtaken, begun>>,
         \A j \in Schedulers \ {k} :
           /\ pc'[j] = pc[j] /\ unread'[j] = unread[j] /\ row'[j] = row[j]
           /\ collected'[j] = collected[j],
         RoundOK(k)', CollectedOK(k)'
  PROVE  Inv'
<1>1. UNCHANGED <<now, deployment, schedule, pausing, version, runs, overtaken, begun>>
  BY DEF users
<1>2. RunsOK' /\ BegunLeft' /\ ScheduledCurrent'
  BY <1>1 DEF Inv, RunsOK, BegunLeft, ScheduledCurrent, Follows, Current, OneEach, Keys,
              ActiveSchedules, SchedulesOf, Made
<1>3. ASSUME NEW j \in Schedulers \ {k} PROVE RoundOK(j)' /\ CollectedOK(j)'
  <2>1. pc'[j] = pc[j] /\ unread'[j] = unread[j] /\ row'[j] = row[j] /\ collected'[j] = collected[j]
    OBVIOUS
  <2>2. RoundOK(j)'
    BY <1>1, <2>1 DEF Inv, RoundOK
  <2>3. CollectedOK(j)'
    BY <1>1, <2>1 DEF Inv, CollectedOK, Follows, Current, OneEach, Keys,
                      ActiveSchedules, SchedulesOf, Made
  <2> QED BY <2>2, <2>3
<1> QED BY <1>2, <1>3 DEF Inv

LEMMA SelectKeeps ==
  ASSUME Inv, TypeOK', NEW k \in Schedulers, SelectDeployments(k)
  PROVE  Inv'
<1>1. /\ pc[k] \in {"idle", "selecting"} /\ pc' = [pc EXCEPT ![k] = "reading"]
      /\ \E first : unread' = [unread EXCEPT ![k] = first]
      /\ UNCHANGED <<world, now, users, runs, cursor, row, collected, covered, settled,
                     overtaken, begun>>
  BY DEF SelectDeployments
<1>2. collected[k] = {} /\ collected'[k] = {} /\ pc'[k] = "reading"
  BY <1>1 DEF Inv, RoundOK, TypeOK
<1>3. RoundOK(k)' /\ CollectedOK(k)'
  BY <1>2, FS_EmptySet DEF RoundOK, CollectedOK, OneEach
<1>4. \A j \in Schedulers \ {k} :
        /\ pc'[j] = pc[j] /\ unread'[j] = unread[j] /\ row'[j] = row[j]
        /\ collected'[j] = collected[j]
  BY <1>1 DEF Inv, TypeOK
<1> QED BY <1>1, <1>3, <1>4, RoundStepKeeps

LEMMA BreakKeeps ==
  ASSUME Inv, TypeOK', NEW k \in Schedulers, TryAgain(k) \/ Fail(k)
  PROVE  Inv'
<1>1. /\ unread' = [unread EXCEPT ![k] = {}]
      /\ row' = [row EXCEPT ![k] = None] /\ collected' = [collected EXCEPT ![k] = {}]
      /\ pc' = [pc EXCEPT ![k] = "selecting"] \/ pc' = [pc EXCEPT ![k] = "idle"]
      /\ UNCHANGED <<world, now, users, runs, covered, history, begun>>
  BY DEF TryAgain, Fail
<1>2. collected'[k] = {} /\ unread'[k] = {} /\ pc'[k] \in {"idle", "selecting"}
  BY <1>1 DEF Inv, TypeOK
<1>3. RoundOK(k)' /\ CollectedOK(k)'
  BY <1>2, FS_EmptySet DEF RoundOK, CollectedOK, OneEach
<1>4. \A j \in Schedulers \ {k} :
        /\ pc'[j] = pc[j] /\ unread'[j] = unread[j] /\ row'[j] = row[j]
        /\ collected'[j] = collected[j]
  BY <1>1 DEF Inv, TypeOK
<1>5. overtaken' = overtaken
  BY <1>1 DEF history
<1> QED BY <1>1, <1>3, <1>4, <1>5, RoundStepKeeps

LEMMA SkipKeeps ==
  ASSUME Inv, TypeOK', NEW k \in Schedulers, Skip(k)
  PROVE  Inv'
<1>t. TypeOK
  BY DEF Inv
<1>1. PICK S : Skips(k, S)
  BY SkipSkips
<1>2. /\ UNCHANGED <<world, now, users, runs, collected, overtaken, begun>>
      /\ unread'[k] \subseteq unread[k] /\ pc'[k] = "reading"
  BY <1>t, <1>1 DEF TypeOK, Skips
<1>3. UNCHANGED <<schedule, version>>
  BY <1>2 DEF users
<1>4. RoundOK(k) /\ CollectedOK(k)
  BY DEF Inv
<1>5. RoundOK(k)'
  BY <1>2, <1>4 DEF RoundOK
<1>6. CollectedOK(k)'
  BY <1>2, <1>3, <1>4 DEF CollectedOK, Follows, Current, OneEach, Keys, ActiveSchedules,
                          SchedulesOf, Made
<1>7. \A j \in Schedulers \ {k} :
        /\ pc'[j] = pc[j] /\ unread'[j] = unread[j] /\ row'[j] = row[j]
        /\ collected'[j] = collected[j]
  BY <1>1, <1>t DEF TypeOK, Skips
<1> QED BY <1>2, <1>5, <1>6, <1>7, RoundStepKeeps

LEMMA EndPageKeeps ==
  ASSUME Inv, TypeOK', NEW k \in Schedulers, EndPage(k)
  PROVE  Inv'
<1>1. /\ unread[k] = {} /\ collected[k] = {}
      /\ pc' = [pc EXCEPT ![k] = "selecting"] \/ pc' = [pc EXCEPT ![k] = "idle"]
      /\ UNCHANGED <<world, now, users, runs, unread, row, collected, unchanged,
                     overtaken, begun>>
  BY DEF EndPage
<1>2. collected'[k] = {} /\ unread'[k] = {} /\ pc'[k] \in {"idle", "selecting"}
  BY <1>1 DEF Inv, TypeOK
<1>3. RoundOK(k)' /\ CollectedOK(k)'
  BY <1>2, FS_EmptySet DEF RoundOK, CollectedOK, OneEach
<1>4. \A j \in Schedulers \ {k} :
        /\ pc'[j] = pc[j] /\ unread'[j] = unread[j] /\ row'[j] = row[j]
        /\ collected'[j] = collected[j]
  BY <1>1 DEF Inv, TypeOK
<1> QED BY <1>1, <1>3, <1>4, RoundStepKeeps

LEMMA ReadDeploymentKeeps ==
  ASSUME Inv, TypeOK', NEW k \in Schedulers, ReadDeployment(k)
  PROVE  Inv'
<1> DEFINE d == Min(unread[k])
           q == [deployment |-> d, version |-> version[d], start |-> now]
<1>t. TypeOK /\ now \in Nat /\ version \in [Deployments -> Nat]
  BY DEF Inv, TypeOK
<1>1. d \in unread[k] /\ d \in Deployments
  BY <1>t, ReadDeploymentTypes
<1>2. /\ pc[k] = "reading" /\ unread' = [unread EXCEPT ![k] = @ \ {d}]
      /\ \/ row' = [row EXCEPT ![k] = q] /\ pc' = [pc EXCEPT ![k] = "generating"]
         \/ UNCHANGED <<row, pc>>
      /\ UNCHANGED <<world, now, users, runs, cursor, page, collected, prompt, covered,
                     history, begun>>
  BY DEF ReadDeployment
<1>3. q \in Reads /\ q.deployment = d /\ q.start = now /\ q.version = version[d]
  BY <1>t, <1>1 DEF Reads
<1> HIDE DEF d, q
<1>4. /\ unread'[k] = unread[k] \ {d} /\ collected'[k] = collected[k]
      /\ \/ pc'[k] = "generating" /\ row'[k] = q
         \/ pc'[k] = "reading"
  BY <1>2, <1>t DEF TypeOK
<1>5. now' = now /\ version' = version /\ overtaken' = overtaken /\ schedule' = schedule /\ runs' = runs
  BY <1>2 DEF users, history
<1>6. RoundOK(k) /\ CollectedOK(k)
  BY DEF Inv
<1>7. RoundOK(k)'
  <2>1. \A r \in collected[k] : ~r.left /\ r.deployment \notin unread'[k] /\ r.deployment # d
    BY <1>1, <1>4, <1>6 DEF RoundOK
  <2>2. IsFiniteSet(collected[k])
    BY <1>6 DEF RoundOK
  <2>3. version[d] <= version[d] /\ now <= now
    BY <1>t, <1>1
  <2>4. CASE pc'[k] = "generating" /\ row'[k] = q
    <3>1. row'[k].deployment = d /\ row'[k].start = now /\ row'[k].version = version[d]
          /\ row'[k] \in Reads
      BY <1>3, <2>4
    <3>2. d \notin unread'[k]
      BY <1>4
    <3> QED BY <1>4, <1>5, <2>1, <2>2, <2>3, <2>4, <3>1, <3>2 DEF RoundOK
  <2>5. CASE pc'[k] = "reading"
    BY <1>4, <1>5, <2>1, <2>2, <2>5 DEF RoundOK
  <2> QED BY <1>4, <2>4, <2>5
<1>8. CollectedOK(k)'
  BY <1>4, <1>5, <1>6 DEF CollectedOK, Follows, Current, OneEach, Keys, ActiveSchedules,
                          SchedulesOf, Made
<1>9. \A j \in Schedulers \ {k} :
        /\ pc'[j] = pc[j] /\ unread'[j] = unread[j] /\ row'[j] = row[j]
        /\ collected'[j] = collected[j]
  BY <1>2, <1>t DEF TypeOK
<1> QED BY <1>2, <1>5, <1>7, <1>8, <1>9, RoundStepKeeps

LEMMA ReadSchedulesKeeps ==
  ASSUME Inv, TypeOK', NEW k \in Schedulers, ReadSchedules(k)
  PROVE  Inv'
<1> DEFINE q == row[k]
           G == Generated(q)
           C == collected[k]
<1>t. TypeOK /\ now \in Nat /\ version \in [Deployments -> Nat] /\ C \subseteq Runs
      /\ schedule \in Seq(Schedules \cup {None})
  BY DEF Inv, TypeOK
<1>1. /\ pc[k] = "generating" /\ collected' = [collected EXCEPT ![k] = C \cup G]
      /\ row' = [row EXCEPT ![k] = None] /\ pc' = [pc EXCEPT ![k] = "reading"]
      /\ UNCHANGED <<world, now, users, runs, cursor, page, unread, prompt, covered,
                     history, begun>>
  BY DEF ReadSchedules
<1>2. /\ q \in Reads /\ q.deployment \notin unread[k]
      /\ q.start <= now /\ q.version <= version[q.deployment]
      /\ IsFiniteSet(C) /\ \A r \in C : ~r.left /\ r.deployment \notin unread[k]
      /\ \A r \in C : r.deployment # q.deployment
  BY <1>1 DEF Inv, RoundOK
<1>3. \A r \in G : /\ r \in Runs /\ r.deployment = q.deployment /\ r.version = q.version /\ ~r.left
                   /\ r.schedule \in ActiveSchedules(q.deployment)
                   /\ schedule[r.schedule].interval \in Nat \ {0}
                   /\ r.date \in Wanted(schedule[r.schedule].interval, q.start)
  BY <1>2, <1>t, GeneratedRuns
<1>4. IsFiniteSet(G) /\ \A r, o \in G : Key(r) = Key(o) => r = o
  BY <1>2, <1>t, GeneratedFinite, GeneratedKeys
<1>5. ASSUME NEW r \in G
      PROVE  \A t \in Dates(schedule[r.schedule].interval, q.start) :
               t <= r.date => <<r.deployment, r.schedule, t>> \in Keys(G)
  BY <1>2, <1>t, GeneratedDownwards
<1> HIDE DEF G, C
<1>6. /\ collected'[k] = C \cup G /\ pc'[k] = "reading"
      /\ now' = now /\ version' = version /\ overtaken' = overtaken /\ schedule' = schedule
      /\ runs' = runs /\ unread' = unread
  BY <1>1, <1>t DEF TypeOK, users, history
<1>7. RoundOK(k)'
  <2>1. IsFiniteSet(C \cup G)
    BY <1>2, <1>4, FS_Union
  <2>2. \A r \in C \cup G : ~r.left /\ r.deployment \notin unread[k]
    BY <1>2, <1>3
  <2> QED BY <1>6, <2>1, <2>2 DEF RoundOK
<1>8. CollectedOK(k)'
  <2>1. OneEach(C \cup G)
    <3> SUFFICES ASSUME NEW r \in C \cup G, NEW o \in C \cup G, Key(r) = Key(o) PROVE r = o
      BY DEF OneEach
    <3>1. \A a, b \in C : Key(a) = Key(b) => a = b
      BY DEF Inv, CollectedOK, OneEach, C
    <3>2. r.deployment = o.deployment
      BY DEF Key
    <3> QED BY <1>2, <1>3, <1>4, <3>1, <3>2
  <2>2. ASSUME NEW r \in C \cup G
        PROVE  /\ r.version <= version'[r.deployment]
               /\ r.version = version'[r.deployment] =>
                    /\ r.schedule \in ActiveSchedules(r.deployment)'
                    /\ Reaches(r, schedule'[r.schedule].interval, now', Keys(runs \cup C \cup G))
    <3>1. CASE r \in C
      <4>1. r \in Runs /\ Follows(r, Keys(runs \cup C))
        BY <1>t, <3>1 DEF Inv, CollectedOK, C
      <4>2. Keys(runs \cup C) \subseteq Keys(runs \cup C \cup G)
        BY DEF Keys
      <4>3. now <= now' /\ version' = version /\ schedule' = schedule
        BY <1>6, <1>t
      <4> QED BY <1>t, <4>1, <4>2, <4>3, FollowsOn
    <3>2. CASE r \in G
      <4>1. q.start \in 0 .. now
        BY <1>2, <1>t DEF Reads
      <4>2. Keys(G) \subseteq Keys(runs \cup C \cup G)
        BY DEF Keys
      <4>3. /\ r.date \in Wanted(schedule[r.schedule].interval, q.start)
            /\ schedule[r.schedule].interval # 0
            /\ r.version <= version[r.deployment] /\ r.schedule \in ActiveSchedules(r.deployment)
        BY <1>2, <1>3, <3>2
      <4>4. Reaches(r, schedule[r.schedule].interval, now, Keys(runs \cup C \cup G))
        BY <1>5, <3>2, <4>1, <4>2, <4>3 DEF Reaches
      <4>5. ActiveSchedules(r.deployment)' = ActiveSchedules(r.deployment)
        BY <1>6, SameSchedules
      <4> QED BY <1>6, <4>3, <4>4, <4>5
    <3> QED BY <3>1, <3>2
  <2>3. runs' \cup collected'[k] = runs \cup C \cup G
    BY <1>6
  <2> QED BY <1>6, <2>1, <2>2, <2>3 DEF CollectedOK, Follows, Current, Keys
<1>9. \A j \in Schedulers \ {k} :
        /\ pc'[j] = pc[j] /\ unread'[j] = unread[j] /\ row'[j] = row[j]
        /\ collected'[j] = collected[j]
  BY <1>1, <1>t DEF TypeOK
<1> QED BY <1>1, <1>6, <1>7, <1>8, <1>9, RoundStepKeeps

\* A batch takes what comes first: with a run all those that come before it.
LEMMA BatchDownwards ==
  ASSUME NEW k \in Schedulers, collected[k] \subseteq Runs, IsFiniteSet(collected[k]),
         NEW r \in Batch(k), NEW o \in collected[k], Before(o, r)
  PROVE  o \in Batch(k)
<1> DEFINE C == collected[k]
           Ahead(x) == {y \in C : Before(y, x)}
<1>1. r \in C /\ Cardinality(Ahead(r)) < InsertBatchSize
  BY DEF Batch
<1>2. Ahead(o) \subseteq Ahead(r)
  <2> SUFFICES ASSUME NEW y \in C, Before(y, o) PROVE Before(y, r)
    OBVIOUS
  <2>1. /\ y.deployment \in Nat /\ o.deployment \in Nat /\ r.deployment \in Nat
        /\ y.schedule \in Nat /\ o.schedule \in Nat /\ r.schedule \in Nat
        /\ y.date \in Nat /\ o.date \in Nat /\ r.date \in Nat
    BY <1>1, SchedulerAssumption DEF Runs
  <2> QED BY <2>1 DEF Before
<1>3. IsFiniteSet(Ahead(r)) /\ IsFiniteSet(Ahead(o))
  BY FS_Subset
<1>4. Cardinality(Ahead(o)) <= Cardinality(Ahead(r))
  BY <1>2, <1>3, FS_Subset
<1>5. Cardinality(Ahead(o)) \in Nat /\ Cardinality(Ahead(r)) \in Nat /\ InsertBatchSize \in Nat
  BY <1>3, FS_CardinalityType, SchedulerAssumption
<1>6. Cardinality(Ahead(o)) < InsertBatchSize
  <2> HIDE DEF Ahead
  <2> QED BY <1>1, <1>4, <1>5
<1> QED BY <1>6 DEF Batch

LEMMA InsertKeeps ==
  ASSUME Inv, TypeOK', NEW k \in Schedulers, Insert(k)
  PROVE  Inv' /\ runs \subseteq runs' /\ Keys(runs') \subseteq Keys(runs \cup collected[k])
         /\ Keys(runs \cup collected[k]) = Keys(runs' \cup collected'[k])
<1> DEFINE B == Batch(k)
           C == collected[k]
           new == {r \in B : \A o \in runs : Key(o) # Key(r)}
           over == {d \in Deployments : \E r \in new :
                      r.deployment = d /\ (r.version # version[d] \/ deployment[d] # "active")}
<1>t. /\ TypeOK /\ now \in Nat /\ version \in [Deployments -> Nat]
      /\ \A j \in Schedulers : collected[j] \subseteq Runs
      /\ runs \subseteq Runs /\ C \subseteq Runs
  BY DEF Inv, TypeOK
<1>1. /\ pc[k] = "reading" /\ runs' = runs \cup new /\ overtaken' = overtaken \cup over
      /\ collected' = [collected EXCEPT ![k] = C \ B]
      /\ UNCHANGED <<world, now, users, pc, cursor, page, unread, row, prompt, covered,
                     unchanged, settled, begun>>
  BY DEF Insert
<1>2. B \subseteq C /\ new \subseteq B
  BY DEF Batch
<1>3. /\ IsFiniteSet(C) /\ \A r \in C : ~r.left /\ r.deployment \notin unread[k]
      /\ OneEach(C) /\ \A r \in C : Follows(r, Keys(runs \cup C))
  BY <1>1 DEF Inv, RoundOK, CollectedOK
<1>4. \A r \in B, o \in C : Before(o, r) => o \in B
  BY <1>3, <1>t, BatchDownwards
<1>5. \A r \in B : r \in new \/ \E o \in runs : Key(o) = Key(r)
  OBVIOUS
<1>6. \A r \in new, o \in runs : Key(o) # Key(r)
  OBVIOUS
<1> HIDE DEF B, C, new
<1>7. /\ collected'[k] = C \ B /\ pc' = pc /\ unread' = unread /\ row' = row
      /\ now' = now /\ version' = version /\ schedule' = schedule /\ begun' = begun
      /\ deployment' = deployment /\ pausing' = pausing /\ runs \subseteq runs'
      /\ \A j \in Schedulers \ {k} : collected'[j] = collected[j]
  BY <1>1, <1>t DEF TypeOK, users
<1>8. Keys(B) \subseteq Keys(runs') /\ Keys(runs) \subseteq Keys(runs')
  BY <1>1, <1>5 DEF Keys
<1>9. Keys(runs \cup C) = Keys(runs' \cup (C \ B))
  <2>1. runs' \cup (C \ B) \subseteq runs \cup C
    BY <1>1, <1>2
  <2>2. \A r \in runs \cup C : Key(r) \in Keys(runs' \cup (C \ B))
    BY <1>1, <1>5 DEF Keys
  <2> QED BY <2>1, <2>2 DEF Keys
<1>10. BegunLeft'
  <2>1. {r \in runs : r.left} \subseteq {r \in runs' : r.left}
    BY <1>7
  <2>2. Keys({r \in runs : r.left}) \subseteq Keys({r \in runs' : r.left})
    BY <2>1, KeysMore
  <2> QED BY <1>7, <2>2 DEF Inv, BegunLeft
<1>11. ASSUME NEW r \in Runs, NEW K, NEW L, Follows(r, K), K \subseteq L
       PROVE  /\ r.version <= version'[r.deployment]
              /\ r.version = version'[r.deployment] =>
                   /\ r.schedule \in ActiveSchedules(r.deployment)'
                   /\ Reaches(r, schedule'[r.schedule].interval, now', L)
  <2>1. now <= now'
    BY <1>7, <1>t
  <2> QED BY <1>7, <1>11, <1>t, <2>1, FollowsOn
\* The dates before that of a run in the batch are in the batch or in the table.
<1>12. ASSUME NEW r \in new, NEW i, NEW n \in Nat \ {0}, i = r.schedule,
              Reaches(r, n, now, Keys(runs \cup C))
       PROVE  Reaches(r, n, now, Keys(runs'))
  <2>1. PICK s \in 0 .. now :
          /\ r.date \in Wanted(n, s)
          /\ \A u \in Dates(n, s) : u <= r.date =>
               <<r.deployment, r.schedule, u>> \in Keys(runs \cup C)
    BY <1>12 DEF Reaches
  <2>2. ASSUME NEW u \in Dates(n, s), u <= r.date
        PROVE  <<r.deployment, r.schedule, u>> \in Keys(runs')
    <3>1. PICK o \in runs \cup C : Key(o) = <<r.deployment, r.schedule, u>>
      BY <2>1, <2>2 DEF Keys
    <3>2. o.deployment = r.deployment /\ o.schedule = r.schedule /\ o.date = u
      BY <3>1 DEF Key
    <3>3. CASE o \in runs
      BY <1>7, <3>1, <3>3 DEF Keys
    <3>4. CASE o \in C /\ u = r.date
      <4>1. Key(o) = Key(r)
        BY <3>2, <3>4 DEF Key
      <4> QED BY <1>1, <3>1, <4>1 DEF Keys
    <3>5. CASE o \in C /\ u # r.date
      <4>1. u \in Nat /\ r.date \in Nat
        BY <1>2, <1>t, <2>1, DatesFinite DEF Runs
      <4>2. u < r.date
        BY <2>2, <3>5, <4>1
      <4>3. Before(o, r)
        BY <3>2, <4>2 DEF Before
      <4>4. o \in B
        BY <1>2, <1>4, <3>5, <4>3
      <4> QED BY <1>8, <3>1, <4>4 DEF Keys
    <3> QED BY <3>3, <3>4, <3>5
  <2> QED BY <1>12, <2>1, <2>2 DEF Reaches
<1>13. RunsOK'
  <2>1. OneEach(runs')
    <3> SUFFICES ASSUME NEW r \in runs', NEW o \in runs', Key(r) = Key(o) PROVE r = o
      BY DEF OneEach
    <3>1. \A a, b \in runs : Key(a) = Key(b) => a = b
      BY DEF Inv, RunsOK, OneEach
    <3>2. \A a, b \in new : Key(a) = Key(b) => a = b
      BY <1>2, <1>3 DEF OneEach
    <3> QED BY <1>1, <1>6, <3>1, <3>2
  <2>2. ASSUME NEW r \in runs'
        PROVE  /\ r.version <= version'[r.deployment]
               /\ r.version = version'[r.deployment] =>
                    /\ r.schedule \in ActiveSchedules(r.deployment)'
                    /\ Reaches(r, schedule'[r.schedule].interval, now', Keys(runs'))
    <3>1. CASE r \in runs
      BY <1>8, <1>11, <1>t, <3>1 DEF Inv, RunsOK
    <3>2. CASE r \in new
      <4>1. r \in Runs /\ Follows(r, Keys(runs \cup C))
        BY <1>2, <1>3, <1>t, <3>2
      <4>2. r.version <= version'[r.deployment]
        BY <1>7, <4>1 DEF Follows
      <4>3. ASSUME r.version = version'[r.deployment]
            PROVE  /\ r.schedule \in ActiveSchedules(r.deployment)'
                   /\ Reaches(r, schedule'[r.schedule].interval, now', Keys(runs'))
        <5>1. /\ r.schedule \in ActiveSchedules(r.deployment)
              /\ Reaches(r, schedule[r.schedule].interval, now, Keys(runs \cup C))
          BY <1>7, <4>1, <4>3 DEF Follows, Current
        <5>2. r.deployment \in Deployments /\ r.schedule \in SchedulesOf(r.deployment)
          BY <4>1, <5>1 DEF Runs, ActiveSchedules
        <5>3. schedule[r.schedule].interval \in Nat \ {0}
          BY <1>t, <5>1, <5>2, ScheduleTypes DEF TypeOK, Reaches
        <5>4. Reaches(r, schedule[r.schedule].interval, now, Keys(runs'))
          BY <1>12, <3>2, <5>1, <5>3
        <5> QED BY <1>7, <5>1, <5>4, SameSchedules
      <4> QED BY <4>2, <4>3
    <3> QED BY <1>1, <3>1, <3>2
  <2> QED BY <2>1, <2>2 DEF RunsOK, Follows, Current, Keys
<1>14. ScheduledCurrent'
  <2>1. SUFFICES ASSUME NEW r \in runs', ~r.left, r.deployment \notin overtaken'
                 PROVE  /\ r.version = version[r.deployment]
                        /\ deployment[r.deployment] = "active" \/ r.deployment \in pausing
    BY <1>7 DEF ScheduledCurrent, Current
  <2>2. CASE r \in runs
    BY <1>1, <2>1, <2>2 DEF Inv, ScheduledCurrent, Current
  <2>3. CASE r \in new
    <3>1. r.deployment \notin over /\ r.deployment \in Deployments
      BY <1>1, <1>2, <1>t, <2>1, <2>3 DEF Runs
    <3> QED BY <2>3, <3>1
  <2> QED BY <1>1, <2>2, <2>3
<1>15. ASSUME NEW j \in Schedulers PROVE RoundOK(j)' /\ CollectedOK(j)'
  <2>1. RoundOK(j) /\ CollectedOK(j)
    BY DEF Inv
  <2>2. collected'[j] \subseteq collected[j]
    BY <1>7 DEF C
  <2>3. IsFiniteSet(collected'[j])
    BY <2>1, <2>2, FS_Subset DEF RoundOK
  <2>4. RoundOK(j)'
    BY <1>7, <2>1, <2>2, <2>3 DEF RoundOK
  <2>5. OneEach(collected'[j])
    BY <2>1, <2>2 DEF CollectedOK, OneEach
  <2>6. Keys(runs \cup collected[j]) \subseteq Keys(runs' \cup collected'[j])
    <3>1. CASE j = k
      BY <1>7, <1>9, <3>1 DEF C
    <3>2. CASE j # k
      BY <1>7, <3>2 DEF Keys
    <3> QED BY <3>1, <3>2
  <2>7. ASSUME NEW r \in collected'[j]
        PROVE  /\ r.version <= version'[r.deployment]
               /\ r.version = version'[r.deployment] =>
                    /\ r.schedule \in ActiveSchedules(r.deployment)'
                    /\ Reaches(r, schedule'[r.schedule].interval, now',
                               Keys(runs' \cup collected'[j]))
    <3>1. r \in Runs /\ Follows(r, Keys(runs \cup collected[j]))
      BY <1>t, <2>1, <2>2 DEF CollectedOK
    <3> QED BY <1>11, <2>6, <3>1
  <2> QED BY <2>4, <2>5, <2>7 DEF CollectedOK, Follows, Current, Keys
<1>16. Keys(runs') \subseteq Keys(runs \cup C)
  BY <1>1, <1>2 DEF Keys
<1> QED BY <1>7, <1>9, <1>10, <1>13, <1>14, <1>15, <1>16 DEF Inv, C

LEMMA RoundKeeps ==
  ASSUME Inv, NEW k \in Schedulers, Round(k)
  PROVE  Inv'
<1>t. TypeOK
  BY DEF Inv
<1>1. CASE SelectDeployments(k)
  BY <1>1, <1>t, SelectTypes, SelectKeeps
<1>2. CASE ReadDeployment(k)
  BY <1>2, <1>t, ReadDeploymentTypes, ReadDeploymentKeeps
<1>3. CASE ReadSchedules(k)
  <2>1. row[k] \in Reads
    BY <1>3 DEF Inv, RoundOK, ReadSchedules
  <2> QED BY <1>3, <1>t, <2>1, ReadSchedulesTypes, ReadSchedulesKeeps
<1>4. CASE Insert(k)
  BY <1>4, <1>t, InsertTypes, InsertKeeps
<1>5. CASE EndPage(k)
  BY <1>5, <1>t, EndPageTypes, EndPageKeeps
<1>6. CASE TryAgain(k) \/ Fail(k)
  BY <1>6, <1>t, BreakTypes, BreakKeeps
<1>7. CASE Skip(k)
  BY <1>7, <1>t, SkipTypes, SkipKeeps
<1> QED BY <1>1, <1>2, <1>3, <1>4, <1>5, <1>6, <1>7 DEF Round

LEMMA StutterUnseen ==
  ASSUME TypeOK, UNCHANGED vars
  PROVE  TypeOK' /\ Unseen
<1>1. UNCHANGED <<world, now, users, rounds, runs, history, begun>>
  BY DEF vars
<1>2. UNCHANGED <<deployment, schedule, recent, pausing, edits, version>>
  BY <1>1 DEF users
<1>3. UNCHANGED <<pc, cursor, page, unread, row, collected, prompt, covered>>
  BY <1>1 DEF rounds
<1>4. UNCHANGED <<unchanged, settled, overtaken>>
  BY <1>1 DEF history
<1>5. TypeOK'
  BY <1>1, <1>2, <1>3, <1>4 DEF TypeOK
<1>6. Unseen
  BY <1>1, <1>2 DEF Unseen
<1> QED BY <1>5, <1>6

LEMMA NextKeeps == Inv /\ [Next]_vars => Inv'
<1> SUFFICES ASSUME Inv, [Next]_vars PROVE Inv'
  OBVIOUS
<1>t. TypeOK
  BY DEF Inv
<1>1. CASE \E k \in Schedulers : Round(k)
  BY <1>1, RoundKeeps
<1>2. ASSUME NEW d \in Deployments, User(d) PROVE Inv'
  BY <1>2, <1>t, UserTouches, TouchesKeeps
<1>3. ASSUME NEW d \in Deployments, Poll(d) PROVE Inv'
  BY <1>3, <1>t, PollTypes, UnseenKeeps
<1>4. ASSUME NEW r \in runs, Start(r) PROVE Inv'
  BY <1>4, <1>t, StartTypes, StartKeeps
<1>5. CASE Tick
  BY <1>5, <1>t, TickTypes, TickKeeps
<1>6. CASE UNCHANGED vars
  BY <1>6, <1>t, StutterUnseen, UnseenKeeps
<1> QED BY <1>1, <1>2, <1>3, <1>4, <1>5, <1>6 DEF Next

LEMMA InvHolds == Spec => []Inv
BY InitInv, NextKeeps, PTL DEF Spec

-----------------------------------------------------------------------------
(* What follows from it.                                                   *)

\* A run of a schedule and a date is started once: while it has not left its first state
\* no run with its key has (_insert_scheduled_flow_runs, _delete_scheduled_runs).
THEOREM NoRunStartsTwice == Spec => StartedOnce
<1>1. ASSUME Inv PROVE \A r \in runs : ~r.left => Key(r) \notin begun
  <2> SUFFICES ASSUME NEW r \in runs, ~r.left, Key(r) \in begun PROVE FALSE
    OBVIOUS
  <2>1. PICK o \in runs : o.left /\ Key(o) = Key(r)
    BY <1>1 DEF Inv, BegunLeft, Keys
  <2>2. o = r
    BY <1>1, <2>1 DEF Inv, RunsOK, OneEach
  <2> QED BY <2>1, <2>2
<1> DEFINE Once == \A r \in runs :
                     (~r.left /\ [r EXCEPT !.left = TRUE] \in runs') => Key(r) \notin begun
<1>2. Inv /\ [Next]_vars => [Once]_vars
  BY <1>1
<1>3. Spec => [][Once]_vars
  BY <1>2, InvHolds, PTL DEF Spec
<1> QED BY <1>3 DEF StartedOnce

\* A scheduled run is one of an active deployment and an active schedule as they are now,
\* unless a scheduler was overtaken or a pause is half done (_delete_scheduled_runs).
THEOREM OldRunsGo == Spec => []OldRunsRemoved
<1>1. Inv => OldRunsRemoved
  <2> SUFFICES ASSUME Inv, NEW r \in runs, ~r.left, r.deployment \notin overtaken \cup pausing
               PROVE  /\ deployment[r.deployment] = "active"
                      /\ r.version = version[r.deployment]
                      /\ r.schedule \in ActiveSchedules(r.deployment)
                      /\ r.date % schedule[r.schedule].interval = 0
    BY DEF OldRunsRemoved
  <2>1. r.version = version[r.deployment] /\ deployment[r.deployment] = "active"
    BY DEF Inv, ScheduledCurrent, Current
  <2>2. /\ r.schedule \in ActiveSchedules(r.deployment)
        /\ Reaches(r, schedule[r.schedule].interval, now, Keys(runs))
    BY <2>1 DEF Inv, RunsOK, Follows, Current
  <2>3. r.date % schedule[r.schedule].interval = 0
    BY <2>2 DEF Reaches, Wanted, Dates
  <2> QED BY <2>1, <2>2, <2>3
<1> QED BY <1>1, InvHolds, PTL

\* Of the dates that a schedule wanted at some time s, those that are still to come at a
\* later time are among the dates from s on.
LEMMA DatesToCome ==
  ASSUME NEW n \in Nat \ {0}, NEW s \in Nat, NEW t \in Wanted(n, s), NEW e \in Nat,
         e % n = 0, s <= e, e <= t
  PROVE  e \in Dates(n, s)
<1>1. t \in Nat /\ t <= s + MaxScheduledTime /\ MaxScheduledTime \in Nat
  BY DatesFinite, SchedulerAssumption
<1>2. e \in s .. s + MaxScheduledTime
  BY <1>1
<1> QED BY <1>2 DEF Dates

\* Of the runs of a schedule only the last satisfies both minimums, and there are no more
\* than the maximum, whoever has inserted them when (_generate_scheduled_flow_runs).
THEOREM NoMoreThanNeeded == Spec => []FewestRuns
<1>1. ASSUME Inv, NEW i \in Made
      PROVE  LET new == {r \in runs : r.schedule = i /\ r.version = version[r.deployment]}
                 dates == {r.date : r \in new} \cap (now .. now + MaxScheduledTime) IN
             /\ Cardinality(dates) <= MaxRuns
             /\ \A t \in dates : Enough(dates, t, now) => \A u \in dates : u <= t
  <2> DEFINE new == {r \in runs : r.schedule = i /\ r.version = version[r.deployment]}
             dates == {r.date : r \in new} \cap (now .. now + MaxScheduledTime)
             n == schedule[i].interval
  <2>t. /\ now \in Nat /\ MaxRuns \in Nat \ {0} /\ MinRuns \in Nat
        /\ MaxScheduledTime \in Nat /\ MinScheduledTime \in Nat
        /\ runs \subseteq Runs /\ schedule \in Seq(Schedules \cup {None})
    BY <1>1, SchedulerAssumption DEF Inv, TypeOK
  <2>1. dates \in SUBSET Nat /\ IsFiniteSet(dates) /\ \A t \in dates : now <= t
    <3>1. dates \subseteq now .. now + MaxScheduledTime
      OBVIOUS
    <3>2. IsFiniteSet(now .. now + MaxScheduledTime)
      BY <2>t, FS_Interval
    <3>3. \A t \in now .. now + MaxScheduledTime : t \in Nat /\ now <= t
      BY <2>t
    <3> HIDE DEF dates
    <3> QED BY <3>1, <3>2, <3>3, FS_Subset
  <2>2. ASSUME NEW t \in dates
        PROVE  n \in Nat \ {0} /\ t % n = 0 /\ \E s \in 0 .. now : t \in Wanted(n, s)
    <3>1. PICK r \in new : t = r.date
      OBVIOUS
    <3>2. /\ r \in Runs /\ r.schedule = i
          /\ i \in ActiveSchedules(r.deployment) /\ Reaches(r, n, now, Keys(runs))
      BY <1>1, <2>t DEF Inv, RunsOK, Follows, Current
    <3>3. r.deployment \in Deployments /\ i \in SchedulesOf(r.deployment)
      BY <3>2 DEF Runs, ActiveSchedules
    <3>4. n \in Nat \ {0}
      BY <2>t, <3>2, <3>3, ScheduleTypes DEF Reaches
    <3>5. PICK s \in 0 .. now : t \in Wanted(n, s)
      BY <3>1, <3>2 DEF Reaches
    <3>6. t % n = 0
      BY <3>5 DEF Wanted, Dates
    <3> QED BY <3>4, <3>5, <3>6
  <2> HIDE DEF new, n
  <2>3. ASSUME NEW t \in dates, NEW s \in 0 .. now, t \in Wanted(n, s)
        PROVE  \A e \in dates : e <= t => e \in Dates(n, s)
    <3> SUFFICES ASSUME NEW e \in dates, e <= t PROVE e \in Dates(n, s)
      OBVIOUS
    <3>1. e \in Nat /\ now <= e /\ s \in Nat /\ s <= now
      BY <2>1, <2>t
    <3>2. n \in Nat \ {0} /\ e % n = 0
      BY <2>2
    <3>3. s <= e
      BY <2>t, <3>1
    <3> QED BY <2>3, <3>1, <3>2, <3>3, DatesToCome
  <2> HIDE DEF dates
  <2>4. Cardinality(dates) <= MaxRuns
    <3>1. CASE dates = {}
      BY <2>t, <3>1, FS_EmptySet
    <3>2. CASE dates # {}
      <4>1. PICK t \in dates : \A e \in dates : e <= t
        BY <2>1, <3>2, NatGreatest
      <4>2. PICK s \in 0 .. now : t \in Wanted(n, s)
        BY <2>2
      <4> DEFINE UpTo == {u \in Dates(n, s) : u <= t}
      <4>3. dates \subseteq UpTo
        BY <2>3, <4>1, <4>2
      <4>4. n \in Nat \ {0} /\ s \in Nat
        BY <2>2, <2>t
      <4>5. IsFiniteSet(UpTo)
        BY <4>4, DatesFinite, FS_Subset
      <4>6. Cardinality(UpTo) <= MaxRuns
        BY <4>2 DEF Wanted
      <4>7. Cardinality(dates) <= Cardinality(UpTo)
        BY <4>3, <4>5, FS_Subset
      <4>8. Cardinality(dates) \in Nat /\ Cardinality(UpTo) \in Nat
        BY <2>1, <4>5, FS_CardinalityType
      <4> HIDE DEF UpTo
      <4> QED BY <2>t, <4>6, <4>7, <4>8
    <3> QED BY <3>1, <3>2
  <2>5. ASSUME NEW t \in dates, Enough(dates, t, now), NEW u \in dates, ~(u <= t)
        PROVE  FALSE
    <3>1. PICK s \in 0 .. now : u \in Wanted(n, s)
      BY <2>2
    <3>2. n \in Nat \ {0} /\ s \in Nat /\ s <= now /\ t \in Nat /\ u \in Nat /\ t < u
      BY <2>1, <2>2, <2>5, <2>t
    <3> DEFINE D == Dates(n, s)
               Come == {e \in dates : e <= t}
               UpTo == {e \in D : e <= t}
    <3>3. \A e \in dates : e <= t => e <= u
      BY <2>1, <3>2
    <3>4. Come \subseteq UpTo
      BY <2>3, <3>1, <3>3
    <3>5. t \in D
      BY <2>3, <3>1, <3>2
    <3>6. IsFiniteSet(UpTo) /\ IsFiniteSet(Come)
      BY <2>1, <3>2, DatesFinite, FS_Subset
    <3>7. Cardinality(Come) <= Cardinality(UpTo)
      BY <3>4, <3>6, FS_Subset
    <3>8. Cardinality(Come) \in Nat /\ Cardinality(UpTo) \in Nat
      BY <3>6, FS_CardinalityType
    <3>9. Cardinality(Come) >= MinRuns /\ t >= now + MinScheduledTime
      BY <2>5 DEF Enough
    <3>10. Cardinality(UpTo) >= MinRuns /\ t >= s + MinScheduledTime
      <4> HIDE DEF Come, UpTo
      <4> QED BY <2>t, <3>2, <3>7, <3>8, <3>9
    <3>11. Enough(D, t, s)
      BY <3>10 DEF Enough
    <3> QED BY <3>1, <3>2, <3>5, <3>11 DEF Wanted
  <2> QED BY <2>4, <2>5 DEF dates, new
<1>2. Inv => FewestRuns
  BY <1>1 DEF FewestRuns
<1> QED BY <1>2, InvHolds, PTL

-----------------------------------------------------------------------------
(* Every date has its run.                                                 *)

\* A scheduler that looks at a deployment sees to this time and to the next one: otherwise
\* the run of a date may be missing when the date has come and no round has ended since.
SettingsOK ==
  /\ MinRuns >= 1 /\ (MinRuns >= 2 \/ MinScheduledTime >= 1)
  /\ MaxRuns >= 2 /\ MaxScheduledTime >= 1

\* What DatesKept speaks of.
Alone(d, i) ==
  /\ deployment[d] = "active" /\ d \notin overtaken
  /\ Only(d, i) /\ schedule[i].active /\ schedule[i].interval > 0

\* If t is a date of a schedule with interval n, it has its key.
Has(d, i, n, t, keys) == t % n = 0 => <<d, i, t>> \in keys

\* What the main scheduler sees to for a deployment that it passes: this time has its run,
\* and the next one too if the round began at this time.
Soon(d, i, keys) ==
  /\ Has(d, i, schedule[i].interval, now, keys)
  /\ "main" \in prompt => Has(d, i, schedule[i].interval, now + 1, keys)

SettledOK ==
  \A d \in settled, i \in Made : Alone(d, i) =>
    /\ Has(d, i, schedule[i].interval, now, Keys(runs))
    /\ covered => Has(d, i, schedule[i].interval, now + 1, Keys(runs))

\* It has been seen to, waits to be read, or is left to a later page.
Passed(d, i) ==
  /\ cursor["main"] # None /\ d <= cursor["main"] => Soon(d, i, Keys(runs))
  /\ pc["main"] # "selecting" =>
       \/ Soon(d, i, Keys(runs \cup collected["main"]))
       \/ d \in unread["main"]
       \/ pc["main"] = "generating" /\ row["main"].deployment = d
       \/ /\ Cardinality(page["main"]) >= DeploymentBatchSize
          /\ \A e \in page["main"] : e < d

\* A round of the main scheduler lasts at most until the tick after the one in which it
\* began, and passes each deployment that was not changed meanwhile.
MainRoundOK ==
  /\ pc["main"] = "idle" => cursor["main"] = None
  /\ pc["main"] # "idle" =>
       /\ settled \subseteq unchanged
       /\ covered => "main" \in prompt
       /\ pc["main"] = "generating" =>
            row["main"].start + 1 >= now /\ ("main" \in prompt => row["main"].start = now)
       /\ \A d \in unchanged, i \in Made : Alone(d, i) => Passed(d, i)

LEMMA HasMore ==
  ASSUME NEW d, NEW i, NEW n, NEW t, NEW K, NEW L, K \subseteq L, Has(d, i, n, t, K)
  PROVE  Has(d, i, n, t, L)
BY DEF Has

LEMMA SoonMore ==
  ASSUME NEW d, NEW i, NEW K, NEW L, K \subseteq L, Soon(d, i, K)
  PROVE  Soon(d, i, L)
BY HasMore DEF Soon

LEMMA AloneTypes ==
  ASSUME TypeOK, NEW d \in Deployments, NEW i, Alone(d, i)
  PROVE  /\ i \in Made /\ schedule[i].interval \in Nat \ {0} /\ d \in Existing
         /\ SchedulesOf(d) = {i} /\ ActiveSchedules(d) = {i}
<1>1. SchedulesOf(d) = {i} /\ i \in SchedulesOf(d)
  BY DEF Alone, Only
<1>2. i \in Made /\ schedule[i].interval \in Nat
  BY <1>1, ScheduleTypes DEF TypeOK
<1>3. ActiveSchedules(d) = {i}
  BY <1>1 DEF ActiveSchedules, Alone
<1>4. schedule[i].interval \in Nat \ {0} /\ d \in Existing
  BY <1>2 DEF Alone, Existing
<1> QED BY <1>1, <1>2, <1>3, <1>4

\* If nothing is due, this time and the next one have their runs.
LEMMA NotDueSoon ==
  ASSUME Inv, SettingsOK, NEW d \in Deployments, NEW i, Alone(d, i), ~Due(d)
  PROVE  /\ Has(d, i, schedule[i].interval, now, Keys(runs))
         /\ Has(d, i, schedule[i].interval, now + 1, Keys(runs))
<1> DEFINE n == schedule[i].interval
           F == Future(d)
<1>t. /\ TypeOK /\ now \in Nat /\ runs \subseteq Runs
      /\ MinRuns \in Nat /\ MinScheduledTime \in Nat
  BY SchedulerAssumption DEF Inv, TypeOK
<1>1. n \in Nat \ {0} /\ ActiveSchedules(d) = {i}
  BY <1>t, AloneTypes
<1>2. ASSUME NEW r \in F
      PROVE  /\ r \in runs /\ r.date \in Nat /\ r.date >= now
             /\ r.deployment = d /\ r.schedule = i /\ Reaches(r, n, now, Keys(runs))
  <2>1. r \in runs /\ r.deployment = d /\ ~r.left /\ r.date >= now
    BY DEF Future
  <2>2. r.version = version[d]
    BY <2>1 DEF Inv, ScheduledCurrent, Current, Alone
  <2>3. r.schedule \in ActiveSchedules(d) /\ Reaches(r, schedule[r.schedule].interval, now, Keys(runs))
    BY <2>1, <2>2 DEF Inv, RunsOK, Follows, Current
  <2> QED BY <1>1, <1>t, <2>1, <2>3 DEF Runs
<1>3. ~(Cardinality(F) < MinRuns) /\ ~(F # {} /\ \A r \in F : r.date < now + MinScheduledTime)
  BY DEF Due
<1> HIDE DEF F, n
<1>4. F # {}
  <2> SUFFICES ASSUME F = {} PROVE FALSE
    OBVIOUS
  <2>1. Cardinality(F) = 0
    BY FS_EmptySet
  <2> QED BY <1>3, <1>t, <2>1 DEF SettingsOK
<1>5. PICK q \in F : ~(q.date < now + MinScheduledTime)
  BY <1>3, <1>4
<1>6. PICK r \in F : r.date >= now + 1
  <2>1. CASE MinScheduledTime >= 1
    <3>1. q.date >= now + 1
      BY <1>2, <1>5, <1>t, <2>1
    <3> QED BY <3>1
  <2>2. CASE MinRuns >= 2
    <3> SUFFICES ASSUME \A r \in F : ~(r.date >= now + 1) PROVE FALSE
      OBVIOUS
    <3>1. \A r \in F : r.date = now /\ r.deployment = d /\ r.schedule = i /\ r \in runs
      BY <1>2, <1>t
    <3>2. \A r \in F : r = q
      BY <3>1 DEF Inv, RunsOK, OneEach, Key
    <3>3. F = {q}
      BY <3>2
    <3>4. Cardinality(F) = 1
      BY <3>3, FS_Singleton
    <3> QED BY <1>3, <1>t, <2>2, <3>4
  <2> QED BY <2>1, <2>2 DEF SettingsOK
<1>7. PICK s \in 0 .. now :
        /\ r.date \in Wanted(n, s)
        /\ \A u \in Dates(n, s) : u <= r.date => <<d, i, u>> \in Keys(runs)
  BY <1>2 DEF Reaches
<1>8. ASSUME NEW u \in {now, now + 1}, u % n = 0 PROVE <<d, i, u>> \in Keys(runs)
  <2>1. u \in Nat /\ s \in Nat /\ s <= u /\ u <= r.date
    BY <1>2, <1>6, <1>t
  <2>2. u \in Dates(n, s)
    BY <1>1, <1>7, <1>8, <2>1, DatesToCome DEF n
  <2> QED BY <1>7, <2>1, <2>2
<1> QED BY <1>8 DEF Has, n

\* A schedule wants the date it is asked for and the next one, if they are dates.
LEMMA WantedSoon ==
  ASSUME SettingsOK, NEW n \in Nat \ {0}, NEW s \in Nat, NEW t \in {s, s + 1}, t % n = 0
  PROVE  t \in Wanted(n, s)
<1> DEFINE D == Dates(n, s)
           UpTo(x) == {u \in D : u <= x}
<1>t. MaxScheduledTime \in Nat /\ MinScheduledTime \in Nat /\ MinRuns \in Nat /\ MaxRuns \in Nat
  BY SchedulerAssumption
<1>1. t \in D
  BY <1>t DEF Dates, SettingsOK
<1>2. ASSUME NEW u \in D, u <= t PROVE u \in {s, s + 1}
  <2>1. u \in Nat /\ s <= u /\ t \in Nat
    BY DatesFinite
  <2> QED BY <1>2, <2>1
<1>3. UpTo(t) \subseteq {s, s + 1}
  BY <1>2
<1>4. IsFiniteSet({s, s + 1}) /\ Cardinality({s, s + 1}) = 2
  <2>1. IsFiniteSet({s}) /\ Cardinality({s}) = 1
    BY FS_Singleton
  <2>2. {s, s + 1} = {s} \cup {s + 1} /\ s + 1 \notin {s}
    OBVIOUS
  <2> QED BY <2>1, <2>2, FS_AddElement
<1>5. Cardinality(UpTo(t)) <= 2 /\ IsFiniteSet(UpTo(t))
  BY <1>3, <1>4, FS_Subset
<1>6. Cardinality(UpTo(t)) \in Nat
  BY <1>5, FS_CardinalityType
<1>7. Cardinality(UpTo(t)) <= MaxRuns
  <2> HIDE DEF UpTo
  <2> QED BY <1>5, <1>6, <1>t DEF SettingsOK
<1>8. ASSUME NEW u \in D, u < t, Enough(D, u, s) PROVE FALSE
  <2>1. u \in Nat /\ t \in Nat /\ u <= t
    BY <1>8, DatesFinite
  <2>2. u = s
    BY <1>2, <1>8, <2>1
  <2>3. UpTo(s) \subseteq {s}
    <3>1. \A x \in D : x \in Nat /\ s <= x
      BY DatesFinite
    <3> QED BY <3>1
  <2>4. IsFiniteSet({s}) /\ Cardinality({s}) = 1
    BY FS_Singleton
  <2>5. Cardinality(UpTo(s)) <= 1 /\ IsFiniteSet(UpTo(s))
    BY <2>3, <2>4, FS_Subset
  <2>6. Cardinality(UpTo(s)) \in Nat
    BY <2>5, FS_CardinalityType
  <2>7. Cardinality(UpTo(s)) >= MinRuns /\ s >= s + MinScheduledTime
    BY <1>8, <2>2 DEF Enough
  <2> HIDE DEF UpTo
  <2> QED BY <1>t, <2>5, <2>6, <2>7 DEF SettingsOK
<1> QED BY <1>1, <1>7, <1>8 DEF Wanted

LEMMA GeneratedSoon ==
  ASSUME Inv, SettingsOK, NEW q \in Reads, NEW i, Alone(q.deployment, i),
         NEW t \in {q.start, q.start + 1}
  PROVE  Has(q.deployment, i, schedule[i].interval, t, Keys(Generated(q)))
<1> DEFINE d == q.deployment
           run(j, u) == [deployment |-> d, schedule |-> j, date |-> u,
                         version |-> q.version, left |-> FALSE]
           of(j) == {run(j, u) : u \in Wanted(schedule[j].interval, q.start)}
<1>1. d \in Deployments /\ q.start \in Nat /\ TypeOK
  BY DEF Reads, Inv
<1>2. ActiveSchedules(d) = {i} /\ schedule[i].interval \in Nat \ {0}
  BY <1>1, AloneTypes
<1>3. Generated(q) = UNION {of(j) : j \in ActiveSchedules(d)}
  BY <1>2 DEF Generated
<1>4. SUFFICES ASSUME t % schedule[i].interval = 0
               PROVE  <<d, i, t>> \in Keys(Generated(q))
  BY DEF Has
<1>5. t \in Wanted(schedule[i].interval, q.start)
  BY <1>1, <1>2, <1>4, WantedSoon
<1>6. run(i, t) \in Generated(q)
  <2>1. run(i, t) \in of(i)
    BY <1>5
  <2> HIDE DEF of, run
  <2> QED BY <1>2, <1>3, <2>1
<1>7. Key(run(i, t)) = <<d, i, t>>
  BY DEF Key
<1> QED BY <1>6, <1>7 DEF Keys

\* A page leaves out only deployments after all of its own, and then it is full.
LEMMA PageFull ==
  ASSUME NEW found \in SUBSET Deployments, NEW d \in found,
         Cardinality({e \in found : e <= d}) > DeploymentBatchSize
  PROVE  LET first == {c \in found :
                         Cardinality({e \in found : e <= c}) <= DeploymentBatchSize} IN
         /\ Cardinality(first) >= DeploymentBatchSize
         /\ \A c \in first : c < d
<1> DEFINE UpTo(c) == {e \in found : e <= c}
           first == {c \in found : Cardinality(UpTo(c)) <= DeploymentBatchSize}
           beyond == {c \in found : Cardinality(UpTo(c)) > DeploymentBatchSize}
<1>1. /\ found \subseteq Nat /\ IsFiniteSet(found) /\ DeploymentBatchSize \in Nat \ {0}
      /\ \A c \in found : IsFiniteSet(UpTo(c)) /\ Cardinality(UpTo(c)) \in Nat
  BY SchedulerAssumption, FS_Subset, FS_CardinalityType
<1>2. \A c \in first : c < d
  <2> SUFFICES ASSUME NEW c \in first, ~(c < d) PROVE FALSE
    OBVIOUS
  <2>1. c \in Nat /\ d \in Nat /\ d <= c /\ c \in found
    BY <1>1
  <2>2. UpTo(d) \subseteq UpTo(c)
    <3>1. \A e \in found : e <= d => e <= c
      BY <1>1, <2>1
    <3> QED BY <3>1
  <2>3. Cardinality(UpTo(d)) <= Cardinality(UpTo(c))
    BY <1>1, <2>1, <2>2, FS_Subset
  <2>4. /\ Cardinality(UpTo(c)) <= DeploymentBatchSize /\ Cardinality(UpTo(c)) \in Nat
        /\ Cardinality(UpTo(d)) > DeploymentBatchSize /\ Cardinality(UpTo(d)) \in Nat
    BY <1>1, <2>1
  <2> HIDE DEF UpTo
  <2> QED BY <1>1, <2>3, <2>4
<1>3. PICK b \in beyond : \A c \in beyond : b <= c
  <2>1. d \in beyond /\ beyond \subseteq Nat
    BY <1>1
  <2> HIDE DEF beyond
  <2> QED BY <2>1, NatLeast
<1>4. UpTo(b) \ {b} \subseteq first
  <2> SUFFICES ASSUME NEW c \in UpTo(b), c # b PROVE c \in first
    OBVIOUS
  <2>1. c \in found /\ c \in Nat /\ b \in Nat /\ c <= b
    BY <1>1
  <2>2. c \notin beyond
    BY <1>3, <2>1
  <2>3. ~(Cardinality(UpTo(c)) > DeploymentBatchSize) /\ Cardinality(UpTo(c)) \in Nat
    BY <1>1, <2>1, <2>2
  <2> HIDE DEF UpTo
  <2>4. Cardinality(UpTo(c)) <= DeploymentBatchSize
    BY <1>1, <2>3
  <2> QED BY <2>1, <2>4
<1>5. b \in UpTo(b) /\ IsFiniteSet(UpTo(b)) /\ Cardinality(UpTo(b)) \in Nat
      /\ Cardinality(UpTo(b)) > DeploymentBatchSize
  BY <1>1
<1>6. Cardinality(UpTo(b) \ {b}) = Cardinality(UpTo(b)) - 1 /\ IsFiniteSet(UpTo(b) \ {b})
  BY <1>5, FS_RemoveElement
<1>7. IsFiniteSet(first) /\ Cardinality(first) \in Nat
  BY <1>1, FS_Subset, FS_CardinalityType
<1>8. Cardinality(UpTo(b) \ {b}) <= Cardinality(first)
  BY <1>4, <1>7, FS_Subset
<1>9. Cardinality(first) >= DeploymentBatchSize
  <2> HIDE DEF UpTo, first
  <2> QED BY <1>1, <1>5, <1>6, <1>7, <1>8
<1> QED BY <1>2, <1>9

Covering == SettledOK /\ MainRoundOK

LEMMA InitCovering == Init => Covering
BY DEF Init, Covering, SettledOK, MainRoundOK, Schedulers

\* A step that is none of the main scheduler's nor of time: for the deployments that it
\* does not change everything stays there.
LEMMA OthersCover ==
  ASSUME Covering, NEW E,
         settled' = settled \ E, unchanged' = unchanged \ E, now' = now, covered' = covered,
         "main" \in prompt' <=> "main" \in prompt,
         pc'["main"] = pc["main"], cursor'["main"] = cursor["main"],
         page'["main"] = page["main"], unread'["main"] = unread["main"],
         row'["main"] = row["main"], collected'["main"] = collected["main"],
         settled \subseteq Deployments, unchanged \subseteq Deployments,
         \A d \in Deployments \ E : \A i :
           /\ Alone(d, i)' => Alone(d, i) /\ schedule'[i] = schedule[i] /\ i \in Made
           /\ \A t : <<d, i, t>> \in Keys(runs) => <<d, i, t>> \in Keys(runs')
  PROVE  Covering'
<1>1. ASSUME NEW d \in Deployments \ E, NEW i, NEW t, NEW n, Has(d, i, n, t, Keys(runs))
      PROVE  Has(d, i, n, t, Keys(runs'))
  BY <1>1 DEF Has
<1>2. ASSUME NEW d \in Deployments \ E, NEW i, NEW t, NEW n,
             Has(d, i, n, t, Keys(runs \cup collected["main"]))
      PROVE  Has(d, i, n, t, Keys(runs' \cup collected'["main"]))
  <2>1. SUFFICES ASSUME t % n = 0 PROVE <<d, i, t>> \in Keys(runs' \cup collected'["main"])
    BY DEF Has
  <2>2. <<d, i, t>> \in Keys(runs \cup collected["main"])
    BY <1>2, <2>1 DEF Has
  <2>3. <<d, i, t>> \in Keys(runs) \/ <<d, i, t>> \in Keys(collected["main"])
    BY <2>2 DEF Keys
  <2>4. <<d, i, t>> \in Keys(runs') \/ <<d, i, t>> \in Keys(collected'["main"])
    BY <2>3
  <2> QED BY <2>4 DEF Keys
<1>3. SettledOK'
  <2>1. SUFFICES ASSUME NEW d \in settled \ E, NEW i, Alone(d, i)'
                 PROVE  /\ Has(d, i, schedule'[i].interval, now, Keys(runs'))
                        /\ covered => Has(d, i, schedule'[i].interval, now + 1, Keys(runs'))
    BY DEF SettledOK
  <2>2. d \in Deployments \ E /\ Alone(d, i) /\ schedule'[i] = schedule[i] /\ i \in Made
    BY <2>1
  <2>3. /\ Has(d, i, schedule[i].interval, now, Keys(runs))
        /\ covered => Has(d, i, schedule[i].interval, now + 1, Keys(runs))
    BY <2>2 DEF Covering, SettledOK
  <2> QED BY <1>1, <2>2, <2>3
<1>4. MainRoundOK'
  <2>1. ASSUME pc["main"] # "idle", NEW d \in unchanged \ E, NEW i, Alone(d, i)'
        PROVE  Passed(d, i)'
    <3>1. d \in Deployments \ E /\ Alone(d, i) /\ schedule'[i] = schedule[i] /\ i \in Made
      BY <2>1
    <3>2. Passed(d, i)
      BY <2>1, <3>1 DEF Covering, MainRoundOK
    <3>3. Soon(d, i, Keys(runs)) => Soon(d, i, Keys(runs))'
      BY <1>1, <3>1 DEF Soon
    <3>4. Soon(d, i, Keys(runs \cup collected["main"])) => Soon(d, i, Keys(runs \cup collected["main"]))'
      BY <1>2, <3>1 DEF Soon
    <3> QED BY <3>2, <3>3, <3>4 DEF Passed
  <2>2. pc["main"] # "idle" =>
          /\ settled' \subseteq unchanged'
          /\ covered' => "main" \in prompt'
          /\ pc'["main"] = "generating" =>
               row'["main"].start + 1 >= now' /\ ("main" \in prompt' => row'["main"].start = now')
    BY DEF Covering, MainRoundOK
  <2>3. pc'["main"] = "idle" => cursor'["main"] = None
    BY DEF Covering, MainRoundOK
  <2> QED BY <2>1, <2>2, <2>3 DEF MainRoundOK
<1> QED BY <1>3, <1>4 DEF Covering

\* Requests of users, polls, and starts of runs.
LEMMA TouchesCover ==
  ASSUME Inv, Covering, NEW e \in Deployments, Touches(e)
  PROVE  Covering'
<1>1. /\ now' = now
      /\ UNCHANGED <<pc, cursor, page, unread, row, collected, prompt, covered>>
      /\ settled' = settled \ {e} /\ unchanged' = unchanged \ {e}
      /\ settled \subseteq Deployments /\ unchanged \subseteq Deployments
  BY DEF Touches, rounds, Change, Inv, TypeOK
<1>2. ASSUME NEW d \in Deployments \ {e}, NEW i, Alone(d, i)'
      PROVE  Alone(d, i) /\ schedule'[i] = schedule[i] /\ i \in Made
  <2>1. /\ deployment'[d] = deployment[d] /\ SchedulesOf(d)' = SchedulesOf(d)
        /\ \A j \in SchedulesOf(d) : schedule'[j] = schedule[j]
        /\ d \in overtaken => d \in overtaken'
    BY DEF Touches
  <2>2. SchedulesOf(d)' = {i} /\ deployment'[d] = "active" /\ d \notin overtaken'
        /\ schedule'[i].active /\ schedule'[i].interval > 0
    BY <1>2 DEF Alone, Only
  <2>3. i \in SchedulesOf(d) /\ schedule'[i] = schedule[i] /\ SchedulesOf(d) = {i}
    BY <2>1, <2>2
  <2>4. i \in Made
    BY <2>3 DEF SchedulesOf
  <2> QED BY <2>1, <2>2, <2>3, <2>4 DEF Alone, Only
<1>3. ASSUME NEW d \in Deployments \ {e}, NEW i, NEW t, <<d, i, t>> \in Keys(runs)
      PROVE  <<d, i, t>> \in Keys(runs')
  <2>1. PICK r \in runs : Key(r) = <<d, i, t>>
    BY <1>3 DEF Keys
  <2>2. r.deployment = d
    BY <2>1 DEF Key
  <2>3. r \in runs'
    BY <2>1, <2>2 DEF Touches
  <2> QED BY <2>1, <2>3 DEF Keys
<1> QED BY <1>1, <1>2, <1>3, OthersCover

\* A step that leaves schedules and deployments alone.
LEMMA RestCovers ==
  ASSUME Inv, Covering, Keys(runs) \subseteq Keys(runs'), overtaken \subseteq overtaken',
         UNCHANGED <<now, deployment, schedule, covered, settled, unchanged>>,
         "main" \in prompt' <=> "main" \in prompt,
         pc'["main"] = pc["main"], cursor'["main"] = cursor["main"],
         page'["main"] = page["main"], unread'["main"] = unread["main"],
         row'["main"] = row["main"], collected'["main"] = collected["main"]
  PROVE  Covering'
<1>1. /\ settled' = settled \ {} /\ unchanged' = unchanged \ {}
      /\ settled \subseteq Deployments /\ unchanged \subseteq Deployments
  BY DEF Inv, TypeOK
<1>2. ASSUME NEW d \in Deployments \ {}, NEW i, Alone(d, i)'
      PROVE  Alone(d, i) /\ schedule'[i] = schedule[i] /\ i \in Made
  <2>1. Alone(d, i)
    BY <1>2 DEF Alone, Only, SchedulesOf, Made
  <2>2. i \in Made
    BY <2>1 DEF Alone, Only, SchedulesOf
  <2> QED BY <2>1, <2>2
<1>3. \A d \in Deployments \ {} : \A i, t : <<d, i, t>> \in Keys(runs) => <<d, i, t>> \in Keys(runs')
  OBVIOUS
<1> QED BY <1>1, <1>2, <1>3, OthersCover

LEMMA UnseenCovers ==
  ASSUME Inv, Covering, Unseen
  PROVE  Covering'
<1>1. UNCHANGED <<now, runs, deployment, schedule, pc, cursor, page,
                  unread, row, collected, prompt, covered, unchanged, settled, overtaken>>
  BY DEF Unseen, rounds, history
<1>2. Keys(runs) = Keys(runs')
  BY <1>1
<1> QED BY <1>1, <1>2, RestCovers

LEMMA StartCovers ==
  ASSUME Inv, TypeOK', Covering, NEW r \in runs, Start(r)
  PROVE  Covering'
<1>1. UNCHANGED <<now, deployment, schedule, pc, cursor, page,
                  unread, row, collected, prompt, covered, unchanged, settled, overtaken>>
  BY DEF Start, users, rounds, history
<1>2. Keys(runs) = Keys(runs')
  BY StartKeeps
<1> QED BY <1>1, <1>2, RestCovers

LEMMA RecentCovers ==
  ASSUME Inv, Covering, NEW k \in Schedulers, k # "main", Round(k)
  PROVE  Covering'
<1>t. TypeOK /\ "main" \in Schedulers
  BY DEF Inv, Schedulers
<1>1. UNCHANGED <<now, deployment, schedule, covered, settled, unchanged>>
      /\ overtaken \subseteq overtaken' /\ ("main" \in prompt' <=> "main" \in prompt)
      /\ Keys(runs) \subseteq Keys(runs')
  <2>1. CASE SelectDeployments(k)
    BY <2>1 DEF SelectDeployments, users
  <2>2. CASE ReadDeployment(k)
    BY <2>2 DEF ReadDeployment, users, history
  <2>3. CASE ReadSchedules(k)
    BY <2>3 DEF ReadSchedules, users, history
  <2>4. CASE Insert(k)
    <3>1. runs \subseteq runs'
      BY <2>4 DEF Insert
    <3>2. Keys(runs) \subseteq Keys(runs')
      BY <3>1, KeysMore
    <3>3. overtaken \subseteq overtaken'
      BY <2>4 DEF Insert
    <3> QED BY <2>4, <3>2, <3>3 DEF Insert, users
  <2>5. CASE EndPage(k)
    <3>1. covered' = covered /\ settled' = settled /\ ("main" \in prompt' <=> "main" \in prompt)
      BY <1>t, <2>5 DEF EndPage, TypeOK
    <3> QED BY <2>5, <3>1 DEF EndPage, users
  <2>6. CASE TryAgain(k) \/ Fail(k)
    BY <2>6 DEF TryAgain, Fail, users, history
  <2>7. CASE Skip(k)
    BY <2>7 DEF Skip, users
  <2> QED BY <2>1, <2>2, <2>3, <2>4, <2>5, <2>6, <2>7 DEF Round
<1>2. /\ pc'["main"] = pc["main"] /\ cursor'["main"] = cursor["main"]
      /\ page'["main"] = page["main"] /\ unread'["main"] = unread["main"]
      /\ row'["main"] = row["main"] /\ collected'["main"] = collected["main"]
  <2>1. /\ pc' = pc \/ \E x : pc' = [pc EXCEPT ![k] = x]
        /\ cursor' = cursor \/ \E x : cursor' = [cursor EXCEPT ![k] = x]
        /\ page' = page \/ \E x : page' = [page EXCEPT ![k] = x]
        /\ unread' = unread \/ \E x : unread' = [unread EXCEPT ![k] = x]
        /\ row' = row \/ \E x : row' = [row EXCEPT ![k] = x]
        /\ collected' = collected \/ \E x : collected' = [collected EXCEPT ![k] = x]
    <3>1. CASE SelectDeployments(k)
      BY <3>1 DEF SelectDeployments
    <3>2. CASE ReadDeployment(k)
      BY <3>2 DEF ReadDeployment
    <3>3. CASE ReadSchedules(k)
      BY <3>3 DEF ReadSchedules
    <3>4. CASE Insert(k)
      BY <3>4 DEF Insert
    <3>5. CASE EndPage(k)
      BY <3>5 DEF EndPage
    <3>6. CASE TryAgain(k) \/ Fail(k)
      BY <3>6 DEF TryAgain, Fail
    <3>7. CASE Skip(k)
      BY <3>7 DEF Skip
    <3> QED BY <3>1, <3>2, <3>3, <3>4, <3>5, <3>6, <3>7 DEF Round
  <2> QED BY <1>t, <2>1 DEF TypeOK
<1> QED BY <1>1, <1>2, RestCovers

\* Steps of the main scheduler.
LEMMA SelectCovers ==
  ASSUME Inv, SettingsOK, Covering, SelectDeployments("main")
  PROVE  Covering'
<1> DEFINE found == {d \in Selectable("main") : cursor["main"] # None => d > cursor["main"]}
           first == {d \in found : Cardinality({e \in found : e <= d}) <= DeploymentBatchSize}
<1>t. TypeOK /\ "main" \in Schedulers /\ now \in Nat
  BY DEF Inv, Schedulers, TypeOK
<1>1. /\ pc["main"] \in {"idle", "selecting"}
      /\ page' = [page EXCEPT !["main"] = first] /\ unread' = [unread EXCEPT !["main"] = first]
      /\ pc' = [pc EXCEPT !["main"] = "reading"]
      /\ prompt' = IF pc["main"] = "idle" THEN prompt \cup {"main"} ELSE prompt
      /\ unchanged' = IF pc["main"] = "idle" THEN Deployments ELSE unchanged
      /\ UNCHANGED <<world, now, users, runs, cursor, row, collected, covered, settled,
                     overtaken, begun>>
  BY DEF SelectDeployments
<1>2. UNCHANGED <<now, deployment, schedule, runs, cursor, row, collected, covered, settled,
                  overtaken>>
  BY <1>1 DEF users
<1>3. found \in SUBSET Deployments
  BY DEF Selectable
<1> HIDE DEF found, first
<1>4. /\ pc'["main"] = "reading" /\ page'["main"] = first /\ unread'["main"] = first
      /\ cursor'["main"] = cursor["main"]
      /\ settled \subseteq Deployments /\ unchanged \subseteq Deployments
      /\ cursor["main"] \in Deployments \cup {None}
  BY <1>1, <1>2, <1>t DEF TypeOK
<1>5. \A d, i : (Alone(d, i)' <=> Alone(d, i))
  BY <1>2 DEF Alone, Only, SchedulesOf, Made
<1>6. SettledOK'
  BY <1>2, <1>5 DEF Covering, SettledOK, Made
<1>7. ASSUME NEW d \in unchanged', NEW i, Alone(d, i)'
      PROVE  Passed(d, i)'
  <2>1. Alone(d, i) /\ d \in Deployments /\ i \in Made /\ ActiveSchedules(d) = {i}
    BY <1>1, <1>4, <1>5, <1>7, <1>t, AloneTypes
  <2>2. cursor["main"] # None /\ d <= cursor["main"] => Soon(d, i, Keys(runs))'
    <3>1. SUFFICES ASSUME cursor["main"] # None, d <= cursor["main"]
                   PROVE  Soon(d, i, Keys(runs))'
      OBVIOUS
    <3>2. pc["main"] # "idle"
      BY <3>1 DEF Covering, MainRoundOK
    <3>3. d \in unchanged /\ prompt' = prompt
      BY <1>1, <1>7, <3>2
    <3>4. Soon(d, i, Keys(runs))
      BY <2>1, <3>1, <3>2, <3>3 DEF Covering, MainRoundOK, Passed
    <3> QED BY <1>2, <3>3, <3>4 DEF Soon
  <2>3. CASE cursor["main"] # None /\ d <= cursor["main"]
    <3>1. Soon(d, i, Keys(runs))'
      BY <2>2, <2>3
    <3>2. Keys(runs') \subseteq Keys(runs' \cup collected'["main"])
      BY KeysMore
    <3>3. Soon(d, i, Keys(runs \cup collected["main"]))'
      BY <3>1, <3>2 DEF Soon, Has
    <3> QED BY <1>4, <2>2, <3>3 DEF Passed
  <2>4. CASE ~(cursor["main"] # None /\ d <= cursor["main"]) /\ ~Due(d)
    <3>1. /\ Has(d, i, schedule[i].interval, now, Keys(runs))
          /\ Has(d, i, schedule[i].interval, now + 1, Keys(runs))
      BY <2>1, <2>4, NotDueSoon
    <3>2. Keys(runs') \subseteq Keys(runs' \cup collected'["main"])
      BY KeysMore
    <3>3. Soon(d, i, Keys(runs \cup collected["main"]))'
      BY <1>2, <3>1, <3>2 DEF Soon, Has
    <3> QED BY <1>4, <2>2, <3>3 DEF Passed
  <2>5. CASE ~(cursor["main"] # None /\ d <= cursor["main"]) /\ Due(d)
    <3>1. d \in Selectable("main")
      BY <2>1, <2>5 DEF Selectable, Alone
    <3>2. cursor["main"] # None => d > cursor["main"]
      <4>1. SUFFICES ASSUME cursor["main"] # None PROVE d > cursor["main"]
        OBVIOUS
      <4>2. cursor["main"] \in Nat /\ d \in Nat /\ ~(d <= cursor["main"])
        BY <1>4, <2>1, <2>5, <4>1, SchedulerAssumption
      <4> QED BY <4>2
    <3>3. d \in found
      BY <3>1, <3>2 DEF found
    <3>4. CASE d \in first
      BY <1>4, <2>2, <3>4 DEF Passed
    <3>5. CASE d \notin first
      <4> DEFINE up == {e \in found : e <= d}
      <4>1. IsFiniteSet(up) /\ Cardinality(up) \in Nat
        BY <1>3, SchedulerAssumption, FS_Subset, FS_CardinalityType
      <4>2. ~(Cardinality(up) <= DeploymentBatchSize)
        BY <3>3, <3>5 DEF first
      <4> HIDE DEF up
      <4>3. Cardinality(up) > DeploymentBatchSize
        BY <4>1, <4>2, SchedulerAssumption
      <4>4. Cardinality(first) >= DeploymentBatchSize /\ \A c \in first : c < d
        BY <1>3, <3>3, <4>3, PageFull DEF up, first
      <4> QED BY <1>4, <2>2, <4>4 DEF Passed
    <3> QED BY <3>4, <3>5
  <2> QED BY <2>3, <2>4, <2>5
<1>8. settled' \subseteq unchanged'
  BY <1>1, <1>2, <1>4 DEF Covering, MainRoundOK
<1>9. covered' => "main" \in prompt'
  BY <1>1, <1>2 DEF Covering, MainRoundOK
<1>10. MainRoundOK'
  BY <1>4, <1>7, <1>8, <1>9 DEF MainRoundOK
<1> QED BY <1>6, <1>10 DEF Covering

\* What is left to show of a step of the main scheduler within a page that leaves the
\* deployments in S out.
LEMMA WithinPageBut ==
  ASSUME Inv, Covering, pc["main"] # "idle", pc'["main"] # "idle",
         UNCHANGED <<now, users, covered, prompt>>,
         NEW S, unchanged' = unchanged \ S, settled' = settled \ S,
         overtaken \subseteq overtaken', Keys(runs) \subseteq Keys(runs'),
         cursor'["main"] = cursor["main"],
         pc'["main"] = "generating" =>
           row'["main"].start + 1 >= now' /\ ("main" \in prompt' => row'["main"].start = now'),
         \A d \in unchanged \ S : \A i :
           Alone(d, i) /\ Passed(d, i) /\ pc'["main"] # "selecting" =>
             \/ Soon(d, i, Keys(runs \cup collected["main"]))'
             \/ d \in unread'["main"]
             \/ pc'["main"] = "generating" /\ row'["main"].deployment = d
             \/ /\ Cardinality(page'["main"]) >= DeploymentBatchSize
                /\ \A e \in page'["main"] : e < d
  PROVE  Covering'
<1>1. UNCHANGED <<now, deployment, schedule, covered, prompt>>
  BY DEF users
<1>2. \A d, i : Alone(d, i)' => Alone(d, i)
  BY <1>1 DEF Alone, Only, SchedulesOf, Made
<1>3. SettledOK'
  <2>1. SUFFICES ASSUME NEW d \in settled \ S, NEW i \in Made, Alone(d, i)
                 PROVE  /\ Has(d, i, schedule[i].interval, now, Keys(runs'))
                        /\ covered => Has(d, i, schedule[i].interval, now + 1, Keys(runs'))
    BY <1>1, <1>2 DEF SettledOK, Made
  <2>2. /\ Has(d, i, schedule[i].interval, now, Keys(runs))
        /\ covered => Has(d, i, schedule[i].interval, now + 1, Keys(runs))
    BY <2>1 DEF Covering, SettledOK
  <2> QED BY <2>2, HasMore
<1>4. ASSUME NEW d \in unchanged \ S, NEW i \in Made, Alone(d, i)
      PROVE  Passed(d, i)'
  <2>1. Passed(d, i)
    BY <1>4 DEF Covering, MainRoundOK
  <2>2. Soon(d, i, Keys(runs)) => Soon(d, i, Keys(runs))'
    BY <1>1 DEF Soon, Has
  <2>3. cursor'["main"] # None /\ d <= cursor'["main"] => Soon(d, i, Keys(runs))'
    BY <2>1, <2>2 DEF Passed
  <2> QED BY <1>4, <2>1, <2>3 DEF Passed
<1>5. settled' \subseteq unchanged' /\ (covered' => "main" \in prompt')
  BY <1>1 DEF Covering, MainRoundOK
<1>6. MainRoundOK'
  <2>1. \A d \in unchanged', i \in Made' : Alone(d, i)' => Passed(d, i)'
    BY <1>1, <1>2, <1>4 DEF Made
  <2> QED BY <1>5, <2>1 DEF MainRoundOK
<1> QED BY <1>3, <1>6 DEF Covering

\* The same of one that leaves none out.
LEMMA WithinPage ==
  ASSUME Inv, Covering, pc["main"] # "idle", pc'["main"] # "idle",
         UNCHANGED <<now, users, unchanged, settled, covered, prompt>>,
         overtaken \subseteq overtaken', Keys(runs) \subseteq Keys(runs'),
         cursor'["main"] = cursor["main"],
         pc'["main"] = "generating" =>
           row'["main"].start + 1 >= now' /\ ("main" \in prompt' => row'["main"].start = now'),
         \A d \in unchanged : \A i :
           Alone(d, i) /\ Passed(d, i) /\ pc'["main"] # "selecting" =>
             \/ Soon(d, i, Keys(runs \cup collected["main"]))'
             \/ d \in unread'["main"]
             \/ pc'["main"] = "generating" /\ row'["main"].deployment = d
             \/ /\ Cardinality(page'["main"]) >= DeploymentBatchSize
                /\ \A e \in page'["main"] : e < d
  PROVE  Covering'
<1>1. unchanged' = unchanged \ {} /\ settled' = settled \ {} /\ unchanged \ {} = unchanged
  OBVIOUS
<1> QED BY <1>1, WithinPageBut

LEMMA ReadDeploymentCovers ==
  ASSUME Inv, Covering, ReadDeployment("main")
  PROVE  Covering'
<1> DEFINE o == Min(unread["main"])
           q == [deployment |-> o, version |-> version[o], start |-> now]
<1>t. TypeOK /\ "main" \in Schedulers /\ now \in Nat /\ unchanged \subseteq Deployments
  BY DEF Inv, Schedulers, TypeOK
<1>1. /\ pc["main"] = "reading" /\ unread' = [unread EXCEPT !["main"] = @ \ {o}]
      /\ IF o \in Existing
         THEN row' = [row EXCEPT !["main"] = q] /\ pc' = [pc EXCEPT !["main"] = "generating"]
         ELSE UNCHANGED <<row, pc>>
      /\ UNCHANGED <<world, now, users, runs, cursor, page, collected, prompt, covered,
                     history, begun>>
  BY DEF ReadDeployment
<1>q. q.deployment = o /\ q.start = now
  OBVIOUS
<1> HIDE DEF o, q
<1>2. /\ unread'["main"] = unread["main"] \ {o}
      /\ o \in Existing => row'["main"] = q /\ pc'["main"] = "generating"
      /\ o \notin Existing => pc'["main"] = "reading"
  BY <1>1, <1>t DEF TypeOK
<1>3. pc["main"] # "idle" /\ pc'["main"] # "idle" /\ pc["main"] # "generating"
  BY <1>1, <1>2
<1>4. pc'["main"] = "generating" =>
        row'["main"].start + 1 >= now' /\ ("main" \in prompt' => row'["main"].start = now')
  BY <1>1, <1>2, <1>q, <1>t
<1>5. ASSUME NEW d \in unchanged, NEW i, Alone(d, i), Passed(d, i)
      PROVE  \/ Soon(d, i, Keys(runs \cup collected["main"]))'
             \/ d \in unread'["main"]
             \/ pc'["main"] = "generating" /\ row'["main"].deployment = d
             \/ /\ Cardinality(page'["main"]) >= DeploymentBatchSize
                /\ \A e \in page'["main"] : e < d
  <2>1. \/ Soon(d, i, Keys(runs \cup collected["main"]))
        \/ d \in unread["main"]
        \/ /\ Cardinality(page["main"]) >= DeploymentBatchSize
           /\ \A e \in page["main"] : e < d
    BY <1>1, <1>5 DEF Passed
  <2>2. Soon(d, i, Keys(runs \cup collected["main"])) => Soon(d, i, Keys(runs \cup collected["main"]))'
    BY <1>1 DEF Soon, users
  <2>3. d \in Existing
    BY <1>5, <1>t, AloneTypes
  <2>4. d = o => pc'["main"] = "generating" /\ row'["main"].deployment = d
    BY <1>2, <1>q, <2>3
  <2>5. d # o /\ d \in unread["main"] => d \in unread'["main"]
    BY <1>2
  <2> QED BY <1>1, <2>1, <2>2, <2>4, <2>5
<1>6. /\ UNCHANGED <<now, users, unchanged, settled, covered, prompt, overtaken>>
      /\ cursor'["main"] = cursor["main"] /\ Keys(runs) = Keys(runs')
  BY <1>1 DEF history
<1> QED BY <1>3, <1>4, <1>5, <1>6, WithinPage

\* Whom the round leaves out, it does not settle.
LEMMA SkipCovers ==
  ASSUME Inv, Covering, Skip("main")
  PROVE  Covering'
<1>t. TypeOK /\ "main" \in Schedulers
  BY DEF Inv, Schedulers
<1>1. PICK S : Skips("main", S)
  BY <1>t, SkipSkips
<1>2. /\ pc["main"] # "idle" /\ pc["main"] # "selecting" /\ pc'["main"] = "reading"
      /\ unread'["main"] = unread["main"] \ S
      /\ pc["main"] = "generating" => row["main"].deployment \in S
      /\ UNCHANGED <<now, users, covered, prompt, overtaken, cursor, page, runs, collected>>
      /\ unchanged' = unchanged \ S /\ settled' = settled \ S
  BY <1>1, <1>t DEF TypeOK, Skips
<1>3. ASSUME NEW d \in unchanged \ S, NEW i, Alone(d, i), Passed(d, i)
      PROVE  \/ Soon(d, i, Keys(runs \cup collected["main"]))'
             \/ d \in unread'["main"]
             \/ /\ Cardinality(page'["main"]) >= DeploymentBatchSize
                /\ \A e \in page'["main"] : e < d
  <2>1. \/ Soon(d, i, Keys(runs \cup collected["main"]))
        \/ d \in unread["main"]
        \/ /\ Cardinality(page["main"]) >= DeploymentBatchSize
           /\ \A e \in page["main"] : e < d
    BY <1>2, <1>3 DEF Passed
  <2>2. Soon(d, i, Keys(runs \cup collected["main"])) => Soon(d, i, Keys(runs \cup collected["main"]))'
    BY <1>2 DEF Soon, users
  <2>3. d \in unread["main"] => d \in unread'["main"]
    BY <1>2
  <2> QED BY <1>2, <2>1, <2>2, <2>3
<1>4. pc'["main"] # "idle" /\ pc'["main"] # "generating" /\ Keys(runs) = Keys(runs')
      /\ cursor'["main"] = cursor["main"]
  BY <1>2
<1> QED BY <1>2, <1>3, <1>4, WithinPageBut

LEMMA ReadSchedulesCovers ==
  ASSUME Inv, SettingsOK, Covering, ReadSchedules("main")
  PROVE  Covering'
<1> DEFINE q == row["main"]
           G == Generated(q)
           C == collected["main"]
<1>t. TypeOK /\ "main" \in Schedulers /\ now \in Nat /\ unchanged \subseteq Deployments
  BY DEF Inv, Schedulers, TypeOK
<1>1. /\ pc["main"] = "generating"
      /\ collected' = [collected EXCEPT !["main"] = C \cup G]
      /\ pc' = [pc EXCEPT !["main"] = "reading"]
      /\ UNCHANGED <<world, now, users, runs, cursor, page, unread, prompt, covered, history,
                     begun>>
  BY DEF ReadSchedules
<1>2. /\ q \in Reads /\ q.start <= now /\ q.start + 1 >= now /\ q.start \in Nat
      /\ "main" \in prompt => q.start = now
  BY <1>1, <1>t DEF Inv, RoundOK, Covering, MainRoundOK, Reads
<1>3. now \in {q.start, q.start + 1} /\ ("main" \in prompt => now + 1 \in {q.start, q.start + 1})
  <2>1. now = q.start \/ now = q.start + 1
    BY <1>2, <1>t
  <2> QED BY <1>2, <2>1
<1> HIDE DEF G
<1>4. pc'["main"] = "reading" /\ collected'["main"] = C \cup G
  BY <1>1, <1>t DEF TypeOK
<1>5. ASSUME NEW d \in unchanged, NEW i, Alone(d, i), Passed(d, i)
      PROVE  \/ Soon(d, i, Keys(runs \cup collected["main"]))'
             \/ d \in unread'["main"]
             \/ /\ Cardinality(page'["main"]) >= DeploymentBatchSize
                /\ \A e \in page'["main"] : e < d
  <2>1. \/ Soon(d, i, Keys(runs \cup C))
        \/ d \in unread["main"]
        \/ q.deployment = d
        \/ /\ Cardinality(page["main"]) >= DeploymentBatchSize
           /\ \A e \in page["main"] : e < d
    BY <1>1, <1>5 DEF Passed
  <2>2. Keys(runs \cup C) \subseteq Keys(runs' \cup collected'["main"])
        /\ Keys(G) \subseteq Keys(runs' \cup collected'["main"])
    BY <1>1, <1>4 DEF Keys
  <2>3. schedule' = schedule /\ now' = now /\ prompt' = prompt
    BY <1>1 DEF users
  <2>4. Soon(d, i, Keys(runs \cup C)) => Soon(d, i, Keys(runs \cup collected["main"]))'
    BY <2>2, <2>3 DEF Soon, Has
  <2>5. ASSUME q.deployment = d PROVE Soon(d, i, Keys(runs \cup collected["main"]))'
    <3>1. \A t \in {q.start, q.start + 1} : Has(d, i, schedule[i].interval, t, Keys(G))
      BY <1>2, <1>5, <2>5, GeneratedSoon DEF G
    <3>2. Has(d, i, schedule[i].interval, now, Keys(G))
          /\ ("main" \in prompt => Has(d, i, schedule[i].interval, now + 1, Keys(G)))
      BY <1>3, <3>1
    <3> QED BY <2>2, <2>3, <3>2 DEF Soon, Has
  <2> QED BY <1>1, <2>1, <2>4, <2>5
<1>6. /\ UNCHANGED <<now, users, unchanged, settled, covered, prompt, overtaken>>
      /\ cursor'["main"] = cursor["main"] /\ Keys(runs) = Keys(runs')
      /\ pc["main"] # "idle" /\ pc'["main"] # "idle" /\ pc'["main"] # "generating"
  BY <1>1, <1>4 DEF history
<1> QED BY <1>5, <1>6, WithinPage

LEMMA InsertCovers ==
  ASSUME Inv, TypeOK', Covering, Insert("main")
  PROVE  Covering'
<1>t. "main" \in Schedulers /\ TypeOK
  BY DEF Schedulers, Inv
<1>1. /\ pc["main"] = "reading"
      /\ UNCHANGED <<world, now, users, pc, cursor, page, unread, row, prompt, covered,
                     unchanged, settled, begun>>
      /\ overtaken \subseteq overtaken'
  BY DEF Insert
<1>2. /\ runs \subseteq runs'
      /\ Keys(runs \cup collected["main"]) = Keys(runs' \cup collected'["main"])
  BY <1>t, InsertKeeps
<1>3. Keys(runs) \subseteq Keys(runs')
  BY <1>2, KeysMore
<1>4. ASSUME NEW d \in unchanged, NEW i, Alone(d, i), Passed(d, i)
      PROVE  \/ Soon(d, i, Keys(runs \cup collected["main"]))'
             \/ d \in unread'["main"]
             \/ /\ Cardinality(page'["main"]) >= DeploymentBatchSize
                /\ \A e \in page'["main"] : e < d
  <2>1. \/ Soon(d, i, Keys(runs \cup collected["main"]))
        \/ d \in unread["main"]
        \/ /\ Cardinality(page["main"]) >= DeploymentBatchSize
           /\ \A e \in page["main"] : e < d
    BY <1>1, <1>4 DEF Passed
  <2>2. Soon(d, i, Keys(runs \cup collected["main"])) => Soon(d, i, Keys(runs \cup collected["main"]))'
    BY <1>1, <1>2 DEF Soon, users
  <2> QED BY <1>1, <2>1, <2>2
<1>5. /\ UNCHANGED <<now, users, unchanged, settled, covered, prompt>>
      /\ cursor'["main"] = cursor["main"]
      /\ pc["main"] # "idle" /\ pc'["main"] # "idle" /\ pc'["main"] # "generating"
  BY <1>1
<1> QED BY <1>1, <1>3, <1>4, <1>5, WithinPage

LEMMA EndPageCovers ==
  ASSUME Inv, Covering, EndPage("main")
  PROVE  Covering'
<1> DEFINE p == page["main"]
<1>t. /\ TypeOK /\ "main" \in Schedulers /\ unchanged \subseteq Deployments
      /\ p \in SUBSET Deployments /\ IsFiniteSet(p) /\ Cardinality(p) \in Nat
      /\ Deployments \subseteq Nat /\ DeploymentBatchSize \in Nat
  <2>1. TypeOK /\ "main" \in Schedulers
    BY DEF Inv, Schedulers
  <2>2. p \in SUBSET Deployments /\ unchanged \subseteq Deployments
    BY <2>1 DEF TypeOK
  <2> QED BY <2>1, <2>2, FS_Subset, FS_CardinalityType, SchedulerAssumption
<1>1. /\ pc["main"] = "reading" /\ unread["main"] = {} /\ collected["main"] = {}
      /\ UNCHANGED <<world, now, users, runs, unread, row, collected, unchanged, overtaken,
                     begun>>
  BY DEF EndPage
<1>2. UNCHANGED <<now, deployment, schedule, runs, unchanged, overtaken>>
  BY <1>1 DEF users
<1>3. \A d, i : (Alone(d, i)' <=> Alone(d, i))
  BY <1>2 DEF Alone, Only, SchedulesOf, Made
<1>4. /\ settled \subseteq unchanged /\ (covered => "main" \in prompt)
      /\ \A d \in unchanged, i \in Made : Alone(d, i) => Passed(d, i)
  BY <1>1 DEF Covering, MainRoundOK
<1>5. ASSUME NEW d \in unchanged, NEW i \in Made, Alone(d, i)
      PROVE  \/ Soon(d, i, Keys(runs))
             \/ /\ Cardinality(p) >= DeploymentBatchSize
                /\ \A e \in p : e < d
  <2>1. Passed(d, i)
    BY <1>4, <1>5
  <2>2. runs \cup collected["main"] = runs
    BY <1>1
  <2> QED BY <1>1, <2>1, <2>2 DEF Passed
<1>6. CASE Cardinality(p) < DeploymentBatchSize
  <2>1. /\ pc' = [pc EXCEPT !["main"] = "idle"] /\ cursor' = [cursor EXCEPT !["main"] = None]
        /\ covered' = (covered \/ "main" \in prompt)
        /\ settled' = settled \cup unchanged
    BY <1>6 DEF EndPage
  <2>2. settled' = unchanged /\ pc'["main"] = "idle" /\ cursor'["main"] = None
    BY <1>4, <1>t, <2>1 DEF TypeOK
  <2>3. MainRoundOK'
    BY <2>2 DEF MainRoundOK
  <2>4. ASSUME NEW d \in unchanged, NEW i \in Made, Alone(d, i)
        PROVE  /\ Has(d, i, schedule[i].interval, now, Keys(runs))
               /\ covered' => Has(d, i, schedule[i].interval, now + 1, Keys(runs))
    <3>1. Soon(d, i, Keys(runs))
      BY <1>5, <1>6, <1>t, <2>4
    <3>2. covered' => "main" \in prompt
      BY <1>4, <2>1
    <3> QED BY <3>1, <3>2 DEF Soon
  <2>5. SettledOK'
    BY <1>2, <1>3, <2>2, <2>4 DEF SettledOK, Made
  <2> QED BY <2>3, <2>5 DEF Covering
<1>7. CASE ~(Cardinality(p) < DeploymentBatchSize)
  <2>1. /\ pc' = [pc EXCEPT !["main"] = "selecting"]
        /\ cursor' = [cursor EXCEPT !["main"] = Max(p)]
        /\ UNCHANGED <<covered, prompt, settled>>
    BY <1>7 DEF EndPage
  <2>2. Max(p) \in p /\ \A e \in p : e <= Max(p)
    <3>1. Cardinality(p) >= DeploymentBatchSize
      BY <1>7, <1>t
    <3> QED BY <1>t, <3>1, EndPageTypes
  <2>3. pc'["main"] = "selecting" /\ cursor'["main"] = Max(p)
    BY <1>t, <2>1 DEF TypeOK
  <2>4. SettledOK'
    BY <1>2, <1>3, <2>1 DEF Covering, SettledOK, Made
  <2>5. ASSUME NEW d \in unchanged, NEW i \in Made, Alone(d, i)
        PROVE  Passed(d, i)'
    <3>1. d \in Nat /\ Max(p) \in Nat
      BY <1>t, <2>2
    <3>2. d <= Max(p) => ~(Max(p) < d)
      BY <3>1
    <3>3. d <= Max(p) => Soon(d, i, Keys(runs))
      BY <1>5, <2>2, <2>5, <3>2
    <3>4. d <= Max(p) => Soon(d, i, Keys(runs))'
      BY <1>2, <2>1, <3>3 DEF Soon
    <3> QED BY <2>3, <3>4 DEF Passed
  <2>6. \A d \in unchanged', i \in Made' : Alone(d, i)' => Passed(d, i)'
    BY <1>2, <1>3, <2>5 DEF Made
  <2>7. MainRoundOK'
    BY <1>2, <1>4, <2>1, <2>3, <2>6 DEF MainRoundOK
  <2> QED BY <2>4, <2>7 DEF Covering
<1> QED BY <1>6, <1>7

LEMMA TryAgainCovers ==
  ASSUME Inv, Covering, TryAgain("main")
  PROVE  Covering'
<1>t. TypeOK /\ "main" \in Schedulers
  BY DEF Inv, Schedulers
<1>1. /\ pc["main"] # "idle" /\ pc' = [pc EXCEPT !["main"] = "selecting"]
      /\ UNCHANGED <<world, now, users, runs, cursor, prompt, covered, history, begun>>
  BY DEF TryAgain
<1>2. pc'["main"] = "selecting"
  BY <1>1, <1>t DEF TypeOK
<1>3. /\ UNCHANGED <<now, users, unchanged, settled, covered, prompt, overtaken>>
      /\ cursor'["main"] = cursor["main"] /\ Keys(runs) = Keys(runs')
  BY <1>1 DEF history
<1> QED BY <1>1, <1>2, <1>3, WithinPage

LEMMA FailCovers ==
  ASSUME Inv, Covering, Fail("main")
  PROVE  Covering'
<1>t. TypeOK /\ "main" \in Schedulers
  BY DEF Inv, Schedulers
<1>1. /\ pc' = [pc EXCEPT !["main"] = "idle"] /\ cursor' = [cursor EXCEPT !["main"] = None]
      /\ UNCHANGED <<now, deployment, schedule, runs, covered, settled, overtaken>>
  BY DEF Fail, users, history
<1>2. pc'["main"] = "idle" /\ cursor'["main"] = None
  BY <1>1, <1>t DEF TypeOK
<1>3. MainRoundOK'
  BY <1>2 DEF MainRoundOK
<1>4. \A d, i : (Alone(d, i)' <=> Alone(d, i))
  BY <1>1 DEF Alone, Only, SchedulesOf, Made
<1>5. SettledOK'
  BY <1>1, <1>4 DEF Covering, SettledOK, Made
<1> QED BY <1>3, <1>5 DEF Covering

\* Time goes on when the main scheduler has begun and ended a round at it.
LEMMA TickCovers ==
  ASSUME Inv, Covering, Tick
  PROVE  Covering'
<1>t. TypeOK /\ now \in Nat /\ settled \subseteq Deployments /\ unchanged \subseteq Deployments
  BY DEF Inv, TypeOK
<1>1. /\ covered /\ now' = now + 1 /\ covered' = FALSE /\ prompt' = {}
      /\ UNCHANGED <<runs, deployment, schedule, pc, cursor, page, unread, row, collected,
                     unchanged, settled, overtaken>>
  BY DEF Tick, history
<1>2. \A d, i : (Alone(d, i)' <=> Alone(d, i))
  BY <1>1 DEF Alone, Only, SchedulesOf, Made
<1>3. SettledOK'
  <2>1. SUFFICES ASSUME NEW d \in settled, NEW i \in Made, Alone(d, i)
                 PROVE  Has(d, i, schedule[i].interval, now + 1, Keys(runs))
    BY <1>1, <1>2 DEF SettledOK, Made
  <2> QED BY <1>1, <2>1 DEF Covering, SettledOK
<1>4. ASSUME pc["main"] # "idle", NEW d \in unchanged, NEW i \in Made, Alone(d, i)
      PROVE  Passed(d, i)'
  <2>1. Passed(d, i) /\ "main" \in prompt
    BY <1>1, <1>4 DEF Covering, MainRoundOK
  <2>2. Soon(d, i, Keys(runs)) => Soon(d, i, Keys(runs))'
    BY <1>1, <2>1 DEF Soon
  <2>3. Soon(d, i, Keys(runs \cup collected["main"])) => Soon(d, i, Keys(runs \cup collected["main"]))'
    BY <1>1, <2>1 DEF Soon
  <2> QED BY <1>1, <2>1, <2>2, <2>3 DEF Passed
<1>5. pc["main"] = "generating" => row["main"].start = now
  BY <1>1 DEF Covering, MainRoundOK
<1>6. MainRoundOK'
  <2>1. \A d \in unchanged', i \in Made' :
          pc["main"] # "idle" /\ Alone(d, i)' => Passed(d, i)'
    BY <1>1, <1>2, <1>4 DEF Made
  <2>2. pc'["main"] = "generating" => row'["main"].start + 1 >= now'
    BY <1>1, <1>5, <1>t
  <2>3. /\ pc["main"] = "idle" => cursor["main"] = None
        /\ pc["main"] # "idle" => settled \subseteq unchanged
    BY DEF Covering, MainRoundOK
  <2> QED BY <1>1, <2>1, <2>2, <2>3 DEF MainRoundOK
<1> QED BY <1>3, <1>6 DEF Covering

LEMMA MainCovers ==
  ASSUME Inv, Inv', SettingsOK, Covering, Round("main")
  PROVE  Covering'
<1>t. TypeOK'
  BY DEF Inv
<1>1. CASE SelectDeployments("main")
  BY <1>1, SelectCovers
<1>2. CASE ReadDeployment("main")
  BY <1>2, ReadDeploymentCovers
<1>3. CASE ReadSchedules("main")
  BY <1>3, ReadSchedulesCovers
<1>4. CASE Insert("main")
  BY <1>4, <1>t, InsertCovers
<1>5. CASE EndPage("main")
  BY <1>5, EndPageCovers
<1>6. CASE TryAgain("main")
  BY <1>6, TryAgainCovers
<1>7. CASE Fail("main")
  BY <1>7, FailCovers
<1>8. CASE Skip("main")
  BY <1>8, SkipCovers
<1> QED BY <1>1, <1>2, <1>3, <1>4, <1>5, <1>6, <1>7, <1>8 DEF Round

LEMMA NextCovers ==
  ASSUME SettingsOK
  PROVE  Inv /\ Inv' /\ Covering /\ [Next]_vars => Covering'
<1> SUFFICES ASSUME Inv, Inv', Covering, [Next]_vars PROVE Covering'
  OBVIOUS
<1>t. TypeOK /\ TypeOK'
  BY DEF Inv
<1>1. CASE \E k \in Schedulers : Round(k)
  BY <1>1, MainCovers, RecentCovers
<1>2. ASSUME NEW d \in Deployments, User(d) PROVE Covering'
  BY <1>2, <1>t, UserTouches, TouchesCover
<1>3. ASSUME NEW d \in Deployments, Poll(d) PROVE Covering'
  BY <1>3, <1>t, PollTypes, UnseenCovers
<1>4. ASSUME NEW r \in runs, Start(r) PROVE Covering'
  BY <1>4, <1>t, StartCovers
<1>5. CASE Tick
  BY <1>5, TickCovers
<1>6. CASE UNCHANGED vars
  BY <1>6, <1>t, StutterUnseen, UnseenCovers
<1> QED BY <1>1, <1>2, <1>3, <1>4, <1>5, <1>6 DEF Next

\* Every date of a deployment's only schedule has its run by then, whichever rounds fail,
\* whatever errors the other deployments meet and however pages and batches are cut, if a
\* round has ended since the deployment was last changed or skipped, unless a scheduler was
\* overtaken (_get_select_deployments_to_schedule_query, run_once, _collect_flow_runs).
THEOREM EveryDateHasItsRun ==
  ASSUME SettingsOK
  PROVE  Spec => []DatesKept
<1>1. Inv /\ Covering => DatesKept
  <2> SUFFICES ASSUME Inv, Covering, NEW d \in Deployments \ overtaken, NEW i \in Made,
                      deployment[d] = "active", d \in settled, Only(d, i),
                      schedule[i].active, schedule[i].interval > 0,
                      now % schedule[i].interval = 0
               PROVE  <<d, i, now>> \in {Key(r) : r \in runs}
    BY DEF DatesKept
  <2>1. Alone(d, i)
    BY DEF Alone
  <2>2. Has(d, i, schedule[i].interval, now, Keys(runs))
    BY <2>1 DEF Covering, SettledOK
  <2> QED BY <2>2 DEF Has, Keys
<1>2. Inv /\ Inv' /\ Covering /\ [Next]_vars => Covering'
  BY NextCovers
<1> QED BY <1>1, <1>2, InitCovering, InvHolds, PTL DEF Spec
=============================================================================
