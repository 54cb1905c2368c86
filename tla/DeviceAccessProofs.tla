------------------------- MODULE DeviceAccessProofs -------------------------
(***************************************************************************)
(* For any number of devices, of PATCH requests and of telemetry passes:   *)
(* without a race the devices of an account stay within its limit, without *)
(* a revival registrations never pass the highest one, and only a PATCH    *)
(* revives a revoked device.                                               *)
(***************************************************************************)
EXTENDS DeviceAccess, FiniteSetTheorems, TLAPS

(* The inductive invariant.                                                *)

Holding  == {"locked", "read", "inserted"}
Assigned == {"active", "blocked_by_limit"}

\* Who holds a lock is at the step that needs it, and a row carries what its
\* holder writes.
Locks ==
  /\ \A d \in Devices : post[d] \in Holding <=> advisory = d
  /\ \A p \in Patches : patch[p] \in {"locked", "planned"} <=> accessLock = p
  /\ \A d \in Devices :
       /\ rowLock[d] \in Patches =>
            patch[rowLock[d]] = "planned" /\ written[d] \in Assigned
       /\ rowLock[d] \in Devices => rowLock[d] = d /\ written[d] = "revoked"
       /\ rowLock[d] \in {Telemetry, None} => written[d] = None

\* A device whose registration has begun has one place in the order, and only
\* rows that exist are written.
Rows ==
  /\ \A i, j \in DOMAIN order : order[i] = order[j] => i = j
  /\ \A d \in Devices : post[d] # "idle" <=> \E i \in DOMAIN order : order[i] = d
  /\ \A d \in Devices : status[d] # None => post[d] = "done"
  /\ \A d \in Devices :
       rowLock[d] # None \/ delete[d] # "idle" \/ next = d => status[d] # None
  /\ \A p \in Patches, d \in Devices :
       plan[p][d] # None => plan[p][d] \in Assigned /\ status[d] # None

\* The status d has when p commits, and the devices p leaves active.
Final(p, d) ==
  IF plan[p][d] # None THEN plan[p][d]
  ELSE IF rowLock[d] = p THEN written[d] ELSE status[d]
Left(p) == {d \in Devices : Final(p, d) = "active"}

\* Without a race the limit a registration read is the limit, and what a PATCH
\* has planned fits the limit it sets.
Fits ==
  ~raced =>
    /\ ~(Posting /\ Patching)
    /\ \A d \in Devices : post[d] \in {"read", "inserted"} => seen[d] = limit
    /\ \A d \in Devices : post[d] = "inserted" => Cardinality(Registered) < limit
    /\ Cardinality(Active) <= limit
    /\ \A p \in Patches : patch[p] = "planned" => Cardinality(Left(p)) <= chosen[p]

\* No limit is above the highest, and without a revival there is room for the
\* device that was counted in.
Turns ==
  /\ limit <= highest
  /\ \A d \in Devices : seen[d] <= highest
  /\ ~revived =>
       /\ Cardinality(Registered) <= highest
       /\ \A d \in Devices :
            post[d] = "inserted" => Cardinality(Registered) < seen[d]

AccessInv == TypeOK /\ Locks /\ Rows /\ Fits /\ Turns

-----------------------------------------------------------------------------
(* Sets of devices and limits.                                             *)

LEMMA DeviceSets ==
  ASSUME NEW S, S \subseteq Devices
  PROVE  IsFiniteSet(S) /\ Cardinality(S) \in Nat
  BY AccessAssumption, FS_Subset, FS_CardinalityType DEF AccessAssumption

LEMMA FewerDevices ==
  ASSUME NEW S, NEW T, S \subseteq T, T \subseteq Devices
  PROVE  Cardinality(S) <= Cardinality(T)
  BY DeviceSets, FS_Subset

LEMMA LimitsArePositive == \A l \in Limits : l \in Nat /\ l > 0
  BY AccessAssumption DEF AccessAssumption

\* The names None, Telemetry and Access are neither devices nor requests.
LEMMA Apart ==
  /\ \A d \in Devices : d \notin Patches /\ d \notin {None, Telemetry, Access}
  /\ \A p \in Patches : p \notin {None, Telemetry, Access}
  BY AccessAssumption DEF AccessAssumption

LEMMA Words ==
  /\ None \notin Statuses /\ None # Telemetry /\ None # Access /\ Telemetry # Access
  /\ Assigned \subseteq Statuses
  BY DEF None, Telemetry, Access, Statuses, Assigned

\* Of devices that are counted from zero in the order of their creation, at
\* most n have an index below n.
LEMMA PlacesAreFew ==
  ASSUME TypeOK, Rows, NEW n \in Nat
  PROVE  Cardinality({d \in Registered : Index(d) < n}) <= n
<1> DEFINE low == {d \in Registered : Index(d) < n}
           place == [d \in low |-> Index(d)]
<1>1. \A d \in Registered : Index(d) \in Nat
  <2>1. \A d : {e \in Registered : Before(e, d)} \subseteq Devices
    BY DEF Registered
  <2>2. QED
    BY <2>1, DeviceSets DEF Index
<1>2. ASSUME NEW d \in Registered, NEW e \in Registered, Before(d, e)
      PROVE  Index(d) < Index(e)
  <2> DEFINE D == {x \in Registered : Before(x, d)}
             E == {x \in Registered : Before(x, e)}
  <2>1. PICK i \in DOMAIN order, j \in DOMAIN order :
          i < j /\ order[i] = d /\ order[j] = e
    BY <1>2 DEF Before
  <2>2. DOMAIN order \subseteq Nat
    BY DEF TypeOK
  <2>3. ASSUME NEW x \in D PROVE x \in E
    <3>1. PICK k \in DOMAIN order, l \in DOMAIN order :
            k < l /\ order[k] = x /\ order[l] = d
      BY <2>3 DEF Before
    <3>2. l = i
      BY <2>1, <3>1 DEF Rows
    <3>3. k < j
      BY <2>1, <2>2, <3>1, <3>2
    <3>4. QED
      BY <2>1, <3>1, <3>3 DEF Before
  <2>4. d \in E
    BY <1>2
  <2>5. d \notin D
    <3>1. SUFFICES ASSUME Before(d, d) PROVE FALSE
      OBVIOUS
    <3>2. PICK k \in DOMAIN order, l \in DOMAIN order :
            k < l /\ order[k] = d /\ order[l] = d
      BY <3>1 DEF Before
    <3>3. QED
      BY <2>2, <3>2 DEF Rows
  <2>6. D \subseteq E /\ D # E /\ E \subseteq Devices
    BY <2>3, <2>4, <2>5 DEF Registered
  <2> HIDE DEF D, E
  <2>7. Cardinality(D) < Cardinality(E)
    <3>1. IsFiniteSet(E) /\ Cardinality(E) \in Nat /\ Cardinality(D) \in Nat
      BY <2>6, DeviceSets
    <3>2. Cardinality(D) <= Cardinality(E) /\ Cardinality(D) # Cardinality(E)
      BY <2>6, <3>1, FS_Subset
    <3>3. QED
      BY <3>1, <3>2
  <2>8. QED
    BY <2>7 DEF D, E, Index
<1>3. ASSUME NEW d \in low, NEW e \in low, d # e PROVE Index(d) # Index(e)
  <2>1. PICK i \in DOMAIN order, j \in DOMAIN order : order[i] = d /\ order[j] = e
    BY Words DEF Registered, Rows, Statuses, TypeOK, None
  <2>2. i \in Nat /\ j \in Nat /\ i # j
    BY <1>3, <2>1 DEF TypeOK
  <2>3. Before(d, e) \/ Before(e, d)
    BY <2>1, <2>2 DEF Before
  <2>4. QED
    BY <1>1, <1>2, <2>3
<1>4. place \in Injection(low, 0..n-1)
  <2>1. place \in [low -> 0..n-1]
    BY <1>1
  <2>2. QED
    BY <1>3, <2>1 DEF Injection, IsInjective
<1>5. IsFiniteSet(0..n-1) /\ Cardinality(0..n-1) = n
  BY FS_Interval
<1> HIDE DEF place
<1>6. QED
  BY <1>4, <1>5, FS_Injection

-----------------------------------------------------------------------------
(* The invariant holds at first.                                           *)

LEMMA InitAccess == Init => AccessInv
<1> SUFFICES ASSUME Init PROVE AccessInv
  OBVIOUS
<1> USE DEF Init, NoPlan
<1>1. Registered = {} /\ Active = {}
  BY Words DEF Registered, Active, Statuses
<1>2. TypeOK
  <2>1. 0 \in 0..MaxPasses
    BY AccessAssumption DEF AccessAssumption
  <2>2. limit \in Limits /\ highest \in Limits
    OBVIOUS
  <2>3. /\ status \in [Devices -> Statuses \cup {None}]
        /\ written \in [Devices -> Statuses \cup {None}]
        /\ rowLock \in [Devices -> Holders]
        /\ plan \in [Patches -> [Devices -> Statuses \cup {None}]]
    BY DEF Holders
  <2>4. /\ seen \in [Devices -> Limits] /\ chosen \in [Patches -> Limits]
        /\ post \in [Devices -> {"idle", "begun", "locked", "read", "inserted", "done"}]
        /\ delete \in [Devices -> {"idle", "called", "updated", "done"}]
        /\ patch \in [Patches -> {"idle", "begun", "locked", "planned", "done"}]
    BY <2>2
  <2>5. order \in Seq(Devices)
    OBVIOUS
  <2>6. QED
    BY <2>1, <2>2, <2>3, <2>4, <2>5 DEF TypeOK
<1>3. Locks
  BY Apart, Words DEF Locks, Holding
<1>4. Rows
  BY Apart, Words DEF Rows
<1>5. Fits
  BY <1>1, LimitsArePositive, FS_EmptySet DEF Fits, Posting, Patching
<1>6. Turns
  BY <1>1, LimitsArePositive, FS_EmptySet DEF Turns
<1>7. QED
  BY <1>2, <1>3, <1>4, <1>5, <1>6 DEF AccessInv

-----------------------------------------------------------------------------
(* Every step keeps it.                                                    *)

\* The types.
LEMMA TypeStep == ASSUME TypeOK, [Next]_vars PROVE TypeOK'
<1> USE Words DEF TypeOK, rows, locks, posts, patches, agent, history, PostGoto, PatchGoto,
    Holders
<1>1. ASSUME NEW d \in Devices, Post(d) PROVE TypeOK'
  BY <1>1 DEF Post
<1>2. ASSUME NEW d \in Devices, LockOwner(d) PROVE TypeOK'
  BY <1>2 DEF LockOwner
<1>3. ASSUME NEW d \in Devices, ReadLimit(d) PROVE TypeOK'
  BY <1>3 DEF ReadLimit
<1>4. ASSUME NEW d \in Devices, InsertDevice(d) PROVE TypeOK'
  BY <1>4 DEF InsertDevice
<1>5. ASSUME NEW d \in Devices, CommitDevice(d) PROVE TypeOK'
  BY <1>5 DEF CommitDevice, Statuses
<1>6. ASSUME NEW d \in Devices, RefuseDevice(d) PROVE TypeOK'
  BY <1>6 DEF RefuseDevice
<1>7. ASSUME NEW d \in Devices, Delete(d) PROVE TypeOK'
  BY <1>7 DEF Delete
<1>8. ASSUME NEW d \in Devices, UpdateRevoked(d) PROVE TypeOK'
  BY <1>8 DEF UpdateRevoked, Update, Statuses
<1>9. ASSUME NEW d \in Devices, CommitRevoked(d) PROVE TypeOK'
  BY <1>9 DEF CommitRevoked, CommitStatus, LetGo
<1>10. ASSUME NEW p \in Patches, NEW l \in Limits, Patch(p, l) PROVE TypeOK'
  BY <1>10 DEF Patch
<1>11. ASSUME NEW p \in Patches, UpdateAccess(p) PROVE TypeOK'
  BY <1>11 DEF UpdateAccess
<1>12. ASSUME NEW p \in Patches, PlanDevices(p) PROVE TypeOK'
  <2>1. \A d \in Devices : NextStatus(p, d) \in Statuses
    BY DEF NextStatus, Statuses
  <2>2. plan' \in [Patches -> [Devices -> Statuses \cup {None}]]
    BY <1>12, <2>1 DEF PlanDevices
  <2>3. QED
    BY <1>12, <2>2 DEF PlanDevices
<1>13. ASSUME NEW p \in Patches, NEW d \in Devices, UpdateDevice(p, d) PROVE TypeOK'
  BY <1>13 DEF UpdateDevice, Update
<1>14. ASSUME NEW p \in Patches, CommitAccount(p) PROVE TypeOK'
  BY <1>14 DEF CommitAccount, CommitStatus, LetGo
<1>15. ASSUME NEW p \in Patches, AbortPatch(p) PROVE TypeOK'
  BY <1>15 DEF AbortPatch, LetGo, NoPlan
<1>16. ASSUME NEW row \in Devices \cup {Access}, Measure(row) PROVE TypeOK'
  BY <1>16, AccessAssumption DEF Measure, AccessAssumption
<1>17. ASSUME NEW row \in Devices \cup {Access}, MeasureDevice(row) PROVE TypeOK'
  BY <1>17 DEF MeasureDevice, Update
<1>18. ASSUME MeasureAccess PROVE TypeOK'
  BY <1>18 DEF MeasureAccess, LetGo
<1>19. ASSUME AbortTelemetry PROVE TypeOK'
  BY <1>19 DEF AbortTelemetry, LetGo
<1>20. ASSUME UNCHANGED vars PROVE TypeOK'
  BY <1>20 DEF vars, rows, locks, posts, patches, agent, history
<1>21. QED
  BY <1>1, <1>2, <1>3, <1>4, <1>5, <1>6, <1>7, <1>8, <1>9, <1>10,
     <1>11, <1>12, <1>13, <1>14, <1>15, <1>16, <1>17, <1>18, <1>19, <1>20
     DEF Next, PostStep, DeleteStep, PatchStep, AgentStep, Done

\* The locks.
LEMMA LocksStep == ASSUME TypeOK, Locks, Rows, [Next]_vars PROVE Locks'
<1> USE Words, Apart DEF TypeOK, Locks, rows, locks, posts, patches, agent, history, PostGoto,
    PatchGoto, Holders, Holding
<1>1. ASSUME NEW d \in Devices, Post(d) PROVE Locks'
  BY <1>1 DEF Post
<1>2. ASSUME NEW d \in Devices, LockOwner(d) PROVE Locks'
  BY <1>2 DEF LockOwner
<1>3. ASSUME NEW d \in Devices, ReadLimit(d) PROVE Locks'
  BY <1>3 DEF ReadLimit
<1>4. ASSUME NEW d \in Devices, InsertDevice(d) PROVE Locks'
  BY <1>4 DEF InsertDevice
<1>5. ASSUME NEW d \in Devices, CommitDevice(d) PROVE Locks'
  BY <1>5 DEF CommitDevice
<1>6. ASSUME NEW d \in Devices, RefuseDevice(d) PROVE Locks'
  BY <1>6 DEF RefuseDevice
<1>7. ASSUME NEW d \in Devices, Delete(d) PROVE Locks'
  BY <1>7 DEF Delete
<1>8. ASSUME NEW d \in Devices, UpdateRevoked(d) PROVE Locks'
  BY <1>8 DEF UpdateRevoked, Update
<1>9. ASSUME NEW d \in Devices, CommitRevoked(d) PROVE Locks'
  BY <1>9 DEF CommitRevoked, LetGo
<1>10. ASSUME NEW p \in Patches, NEW l \in Limits, Patch(p, l) PROVE Locks'
  BY <1>10 DEF Patch
<1>11. ASSUME NEW p \in Patches, UpdateAccess(p) PROVE Locks'
  BY <1>11 DEF UpdateAccess
<1>12. ASSUME NEW p \in Patches, PlanDevices(p) PROVE Locks'
  BY <1>12 DEF PlanDevices
<1>13. ASSUME NEW p \in Patches, NEW d \in Devices, UpdateDevice(p, d) PROVE Locks'
  BY <1>13 DEF UpdateDevice, Update, IsNext, Planned, Rows, Assigned
<1>14. ASSUME NEW p \in Patches, CommitAccount(p) PROVE Locks'
  BY <1>14 DEF CommitAccount, LetGo
<1>15. ASSUME NEW p \in Patches, AbortPatch(p) PROVE Locks'
  BY <1>15 DEF AbortPatch, LetGo
<1>16. ASSUME NEW row \in Devices \cup {Access}, Measure(row) PROVE Locks'
  BY <1>16 DEF Measure
<1>17. ASSUME NEW row \in Devices \cup {Access}, MeasureDevice(row) PROVE Locks'
  BY <1>17 DEF MeasureDevice, Update
<1>18. ASSUME MeasureAccess PROVE Locks'
  BY <1>18 DEF MeasureAccess, LetGo
<1>19. ASSUME AbortTelemetry PROVE Locks'
  BY <1>19 DEF AbortTelemetry, LetGo
<1>20. ASSUME UNCHANGED vars PROVE Locks'
  BY <1>20 DEF vars, rows, locks, posts, patches, agent, history
<1>21. QED
  BY <1>1, <1>2, <1>3, <1>4, <1>5, <1>6, <1>7, <1>8, <1>9, <1>10,
     <1>11, <1>12, <1>13, <1>14, <1>15, <1>16, <1>17, <1>18, <1>19, <1>20
     DEF Next, PostStep, DeleteStep, PatchStep, AgentStep, Done

\* The rows.
LEMMA RowsStep == ASSUME TypeOK, Locks, Rows, [Next]_vars PROVE Rows'
<1> USE Words, Apart DEF TypeOK, Rows, rows, locks, posts, patches, agent, history, PostGoto,
    PatchGoto, Holders
<1>1. ASSUME NEW d \in Devices, Post(d) PROVE Rows'
  <2>1. order' = Append(order, d) /\ post[d] = "idle" /\ post' = [post EXCEPT ![d] = "begun"]
    BY <1>1 DEF Post
  <2>2. /\ Len(order) \in Nat /\ DOMAIN order = 1..Len(order)
        /\ DOMAIN order' = 1..Len(order) + 1 /\ order'[Len(order) + 1] = d
        /\ \A i \in DOMAIN order : order'[i] = order[i] /\ order[i] \in Devices
    BY <2>1
  <2> DEFINE n == Len(order) + 1
  <2>a. DOMAIN order' = DOMAIN order \cup {n} /\ order'[n] = d
    BY <2>2
  <2> HIDE DEF n
  <2>3. \A i \in DOMAIN order : order[i] # d
    BY <2>1
  <2>4. \A i, j \in DOMAIN order' : order'[i] = order'[j] => i = j
    BY <2>2, <2>3
  <2>5. \A e \in Devices : post'[e] # "idle" <=> \E i \in DOMAIN order' : order'[i] = e
    <3>1. \A e \in Devices : e # d => (post'[e] # "idle" <=> post[e] # "idle")
      BY <2>1
    <3>2. ASSUME NEW e \in Devices, e # d
          PROVE  (\E i \in DOMAIN order' : order'[i] = e) <=> \E i \in DOMAIN order : order[i] = e
      BY <2>2, <2>a, <3>2
    <3>3. post'[d] # "idle" /\ \E i \in DOMAIN order' : order'[i] = d
      BY <2>1, <2>a
    <3>4. QED
      BY <3>1, <3>2, <3>3
  <2>6. QED
    BY <1>1, <2>1, <2>4, <2>5 DEF Post
<1>2. ASSUME NEW d \in Devices, LockOwner(d) PROVE Rows'
  BY <1>2 DEF LockOwner
<1>3. ASSUME NEW d \in Devices, ReadLimit(d) PROVE Rows'
  BY <1>3 DEF ReadLimit
<1>4. ASSUME NEW d \in Devices, InsertDevice(d) PROVE Rows'
  BY <1>4 DEF InsertDevice
<1>5. ASSUME NEW d \in Devices, CommitDevice(d) PROVE Rows'
  BY <1>5 DEF CommitDevice
<1>6. ASSUME NEW d \in Devices, RefuseDevice(d) PROVE Rows'
  BY <1>6 DEF RefuseDevice
<1>7. ASSUME NEW d \in Devices, Delete(d) PROVE Rows'
  BY <1>7 DEF Delete
<1>8. ASSUME NEW d \in Devices, UpdateRevoked(d) PROVE Rows'
  BY <1>8 DEF UpdateRevoked, Update
<1>9. ASSUME NEW d \in Devices, CommitRevoked(d) PROVE Rows'
  BY <1>9 DEF CommitRevoked, LetGo, CommitStatus
<1>10. ASSUME NEW p \in Patches, NEW l \in Limits, Patch(p, l) PROVE Rows'
  BY <1>10 DEF Patch
<1>11. ASSUME NEW p \in Patches, UpdateAccess(p) PROVE Rows'
  BY <1>11 DEF UpdateAccess
<1>12. ASSUME NEW p \in Patches, PlanDevices(p) PROVE Rows'
  BY <1>12 DEF PlanDevices, NextStatus, Registered, Assigned
<1>13. ASSUME NEW p \in Patches, NEW d \in Devices, UpdateDevice(p, d) PROVE Rows'
  BY <1>13 DEF UpdateDevice, Update, IsNext, Planned
<1>14. ASSUME NEW p \in Patches, CommitAccount(p) PROVE Rows'
  BY <1>14 DEF CommitAccount, LetGo, CommitStatus
<1>15. ASSUME NEW p \in Patches, AbortPatch(p) PROVE Rows'
  BY <1>15 DEF AbortPatch, LetGo, NoPlan
<1>16. ASSUME NEW row \in Devices \cup {Access}, Measure(row) PROVE Rows'
  BY <1>16 DEF Measure
<1>17. ASSUME NEW row \in Devices \cup {Access}, MeasureDevice(row) PROVE Rows'
  BY <1>17 DEF MeasureDevice, Update
<1>18. ASSUME MeasureAccess PROVE Rows'
  BY <1>18 DEF MeasureAccess, LetGo
<1>19. ASSUME AbortTelemetry PROVE Rows'
  BY <1>19 DEF AbortTelemetry, LetGo
<1>20. ASSUME UNCHANGED vars PROVE Rows'
  BY <1>20 DEF vars, rows, locks, posts, patches, agent, history
<1>21. QED
  BY <1>1, <1>2, <1>3, <1>4, <1>5, <1>6, <1>7, <1>8, <1>9, <1>10,
     <1>11, <1>12, <1>13, <1>14, <1>15, <1>16, <1>17, <1>18, <1>19, <1>20
     DEF Next, PostStep, DeleteStep, PatchStep, AgentStep, Done

-----------------------------------------------------------------------------
(* Fits and Turns.                                                         *)

\* What only shrinks the sets and starts no transaction keeps Fits.
LEMMA FitsKept ==
  ASSUME TypeOK, Fits, UNCHANGED <<limit, seen>>,
         Registered' \subseteq Registered, Active' \subseteq Active,
         ~raced' => ~raced /\ ~(Posting' /\ Patching'),
         \A d \in Devices :
           post'[d] \in {"read", "inserted"} => post'[d] = post[d],
         \A p \in Patches : patch'[p] = "planned" =>
           /\ patch[p] = "planned" /\ chosen'[p] = chosen[p]
           /\ Left(p)' \subseteq Left(p)
  PROVE  Fits'
<1> SUFFICES ASSUME ~raced'
             PROVE  /\ \A d \in Devices :
                         post'[d] \in {"read", "inserted"} => seen'[d] = limit'
                    /\ \A d \in Devices :
                         post'[d] = "inserted" => Cardinality(Registered') < limit'
                    /\ Cardinality(Active') <= limit'
                    /\ \A p \in Patches :
                         patch'[p] = "planned" => Cardinality(Left(p)') <= chosen'[p]
  BY DEF Fits
<1>1. ~raced
  OBVIOUS
<1>2. Registered \subseteq Devices /\ Active \subseteq Devices
  BY DEF Registered, Active
<1>3. /\ Cardinality(Registered') <= Cardinality(Registered)
      /\ Cardinality(Registered') \in Nat /\ Cardinality(Registered) \in Nat
  BY <1>2, FewerDevices, DeviceSets
<1>4. /\ Cardinality(Active') <= Cardinality(Active)
      /\ Cardinality(Active') \in Nat /\ Cardinality(Active) \in Nat
  BY <1>2, FewerDevices, DeviceSets
<1>5. limit \in Nat
  BY LimitsArePositive DEF TypeOK
<1>6. ASSUME NEW d \in Devices, post'[d] \in {"read", "inserted"}
      PROVE  seen'[d] = limit'
  BY <1>1, <1>6 DEF Fits
<1>7. ASSUME NEW d \in Devices, post'[d] = "inserted"
      PROVE  Cardinality(Registered') < limit'
  <2>1. post[d] = "inserted"
    BY <1>7
  <2>2. Cardinality(Registered) < limit
    BY <1>1, <2>1 DEF Fits
  <2>3. QED
    BY <1>3, <1>5, <2>2
<1>8. Cardinality(Active') <= limit'
  <2>1. Cardinality(Active) <= limit
    BY <1>1 DEF Fits
  <2>2. QED
    BY <1>4, <1>5, <2>1
<1>9. ASSUME NEW p \in Patches, patch'[p] = "planned"
      PROVE  Cardinality(Left(p)') <= chosen'[p]
  <2>1. Left(p)' \subseteq Left(p) /\ Left(p) \subseteq Devices
    BY <1>9 DEF Left
  <2>2. Cardinality(Left(p)') <= Cardinality(Left(p))
    BY <2>1, FewerDevices
  <2>3. Cardinality(Left(p)') \in Nat /\ Cardinality(Left(p)) \in Nat
    BY <2>1, DeviceSets
  <2>4. Cardinality(Left(p)) <= chosen[p] /\ chosen'[p] = chosen[p]
    BY <1>1, <1>9 DEF Fits
  <2>5. chosen[p] \in Nat
    BY LimitsArePositive DEF TypeOK
  <2>6. QED
    BY <2>2, <2>3, <2>4, <2>5
<1>10. QED
  BY <1>6, <1>7, <1>8, <1>9

\* The devices a PATCH leaves active stay the same, or fewer.
LEMMA LeftKept ==
  ASSUME TypeOK, Locks, Rows, NEW p \in Patches, patch[p] = "planned",
         \/ UNCHANGED <<status, rowLock, written, plan>>
         \/ \E d \in Devices :
              UpdateRevoked(d) \/ CommitRevoked(d) \/ UpdateDevice(p, d)
         \/ \E row \in Devices \cup {Access} : MeasureDevice(row)
         \/ MeasureAccess \/ AbortTelemetry
  PROVE  Left(p)' \subseteq Left(p)
<1> USE Words, Apart DEF Left, Final, rows, locks, posts, patches, agent
<1>1. CASE UNCHANGED <<status, rowLock, written, plan>>
  BY <1>1
<1>2. ASSUME NEW d \in Devices, UpdateRevoked(d) PROVE Left(p)' \subseteq Left(p)
  BY <1>2 DEF UpdateRevoked, Update, TypeOK, Locks
<1>3. ASSUME NEW d \in Devices, CommitRevoked(d) PROVE Left(p)' \subseteq Left(p)
  BY <1>3 DEF CommitRevoked, CommitStatus, LetGo, TypeOK, Locks
<1>4. ASSUME NEW d \in Devices, UpdateDevice(p, d) PROVE Left(p)' \subseteq Left(p)
  BY <1>4 DEF UpdateDevice, Update, IsNext, Planned, TypeOK, Locks
<1>5. ASSUME NEW row \in Devices \cup {Access}, MeasureDevice(row)
      PROVE  Left(p)' \subseteq Left(p)
  BY <1>5 DEF MeasureDevice, Update, TypeOK, Locks
<1>6. CASE MeasureAccess
  BY <1>6 DEF MeasureAccess, LetGo, TypeOK, Locks
<1>7. CASE AbortTelemetry
  BY <1>7 DEF AbortTelemetry, LetGo, TypeOK, Locks
<1>8. QED
  BY <1>1, <1>2, <1>3, <1>4, <1>5, <1>6, <1>7

\* What a PATCH plans is within the limit it sets.
LEMMA PlanFits ==
  ASSUME TypeOK, Locks, Rows, NEW p \in Patches, PlanDevices(p)
  PROVE  Cardinality(Left(p)') <= chosen[p]
<1>1. Left(p)' \subseteq {d \in Registered : Index(d) < chosen[p]}
  <2>1. ASSUME NEW d \in Devices, Final(p, d)' = "active"
        PROVE  d \in Registered /\ Index(d) < chosen[p]
    <3>1. rowLock[d] # p /\ UNCHANGED <<rowLock, status>>
      BY Apart DEF Locks, PlanDevices, PatchGoto, rows, locks
    <3>2. plan'[p][d] = IF d \in Registered /\ NextStatus(p, d) # status[d]
                        THEN NextStatus(p, d) ELSE None
      BY DEF PlanDevices, TypeOK
    <3>3. CASE plan'[p][d] = None
      BY <2>1, <3>1, <3>2, <3>3, Words DEF Final, Registered, NextStatus, Statuses
    <3>4. CASE plan'[p][d] # None
      BY <2>1, <3>2, <3>4 DEF Final, NextStatus
    <3>5. QED
      BY <3>3, <3>4
  <2>2. QED
    BY <2>1 DEF Left
<1>2. chosen[p] \in Nat
  BY LimitsArePositive DEF TypeOK
<1> DEFINE low == {d \in Registered : Index(d) < chosen[p]}
<1>3. Cardinality(low) <= chosen[p]
  BY <1>2, PlacesAreFew
<1>4. low \subseteq Devices /\ Left(p)' \subseteq Devices
  BY DEF Registered, Left
<1> HIDE DEF low
<1>5. /\ Cardinality(Left(p)') <= Cardinality(low)
      /\ Cardinality(Left(p)') \in Nat /\ Cardinality(low) \in Nat
  BY <1>1, <1>4, FewerDevices, DeviceSets DEF low
<1>6. QED
  BY <1>2, <1>3, <1>5

\* The sets after each commit.
LEMMA CommittedDevice ==
  ASSUME TypeOK, Rows, NEW d \in Devices, CommitDevice(d)
  PROVE  /\ Registered' = Registered \cup {d} /\ d \notin Registered
         /\ Active' = Active \cup {d}
         /\ Cardinality(Registered') = Cardinality(Registered) + 1
<1>1. Registered' = Registered \cup {d} /\ Active' = Active \cup {d}
  BY DEF CommitDevice, Registered, Active, TypeOK
<1>2. d \notin Registered
  BY Words DEF CommitDevice, PostGoto, Rows, Registered, Statuses
<1>3. IsFiniteSet(Registered)
  BY DeviceSets DEF Registered
<1>4. QED
  BY <1>1, <1>2, <1>3, FS_AddElement

LEMMA CommittedRevocation ==
  ASSUME TypeOK, Locks, NEW d \in Devices, CommitRevoked(d)
  PROVE  Registered' \subseteq Registered /\ Active' \subseteq Active
  BY Apart, Words
     DEF CommitRevoked, CommitStatus, Registered, Active, TypeOK, Locks, Statuses

LEMMA CommittedAccount ==
  ASSUME TypeOK, Locks, Rows, NEW p \in Patches, CommitAccount(p)
  PROVE  Active' \subseteq Left(p) /\ (~Revives(p) => Registered' = Registered)
<1>1. \A d \in Devices : plan[p][d] = None
  BY DEF CommitAccount, Planned
<1>2. \A d \in Devices : rowLock[d] = p => written[d] \in Assigned /\ status[d] # None
  BY Apart DEF Locks, Rows
<1>3. \A d \in Devices :
        status'[d] = IF rowLock[d] = p /\ written[d] # None THEN written[d] ELSE status[d]
  BY DEF CommitAccount, CommitStatus
<1>4. Active' \subseteq Left(p)
  BY <1>1, <1>2, <1>3, Words DEF Active, Left, Final
<1>5. ASSUME ~Revives(p) PROVE Registered' = Registered
  <2>1. \A d \in Devices : rowLock[d] = p => d \in Registered
    BY <1>2, <1>5, Words DEF Revives, Registered, TypeOK, Statuses, Assigned
  <2>2. QED
    BY <1>2, <1>3, <2>1 DEF Registered, Assigned
<1>6. QED
  BY <1>4, <1>5

\* The steps that neither count devices, nor set a limit, nor commit an
\* active device.
Routine ==
  \/ \E d \in Devices :
       \/ Post(d) \/ LockOwner(d) \/ RefuseDevice(d)
       \/ Delete(d) \/ UpdateRevoked(d) \/ CommitRevoked(d)
  \/ \E p \in Patches :
       \/ UpdateAccess(p) \/ AbortPatch(p)
       \/ \E newLimit \in Limits : Patch(p, newLimit)
       \/ \E d \in Devices : UpdateDevice(p, d)
  \/ \E row \in Devices \cup {Access} : Measure(row) \/ MeasureDevice(row)
  \/ MeasureAccess \/ AbortTelemetry \/ UNCHANGED vars

LEMMA RoutineFrame ==
  ASSUME TypeOK, Locks, Routine
  PROVE  /\ UNCHANGED <<limit, seen, highest, revived>>
         /\ Registered' \subseteq Registered /\ Active' \subseteq Active
         /\ \A d \in Devices :
              post'[d] \in {"read", "inserted"} => post'[d] = post[d]
<1> USE DEF vars, rows, locks, posts, patches, agent, history, PostGoto, PatchGoto,
            Update, LetGo
<1>1. UNCHANGED <<limit, seen, highest, revived>>
  BY DEF Routine, Post, LockOwner, RefuseDevice, Delete, UpdateRevoked, CommitRevoked,
         UpdateAccess, AbortPatch, Patch, UpdateDevice, Measure, MeasureDevice,
         MeasureAccess, AbortTelemetry
<1>2. Registered' \subseteq Registered /\ Active' \subseteq Active
  <2>1. CASE UNCHANGED status
    BY <2>1 DEF Registered, Active
  <2>2. CASE \E d \in Devices : CommitRevoked(d)
    BY <2>2, CommittedRevocation
  <2>3. UNCHANGED status \/ \E d \in Devices : CommitRevoked(d)
    BY DEF Routine, Post, LockOwner, RefuseDevice, Delete, UpdateRevoked, UpdateAccess,
           AbortPatch, Patch, UpdateDevice, Measure, MeasureDevice, MeasureAccess,
           AbortTelemetry
  <2>4. QED
    BY <2>1, <2>2, <2>3
<1>3. ASSUME NEW d \in Devices, post'[d] \in {"read", "inserted"}
      PROVE  post'[d] = post[d]
  BY <1>3 DEF Routine, Post, LockOwner, RefuseDevice, Delete, UpdateRevoked,
    CommitRevoked, UpdateAccess, AbortPatch, Patch, UpdateDevice, Measure,
    MeasureDevice, MeasureAccess, AbortTelemetry, TypeOK
<1>4. QED
  BY <1>1, <1>2, <1>3

LEMMA RoutineFits == ASSUME TypeOK, Locks, Rows, Fits, Routine PROVE Fits'
<1> USE DEF vars, rows, locks, posts, patches, agent, history, PostGoto, PatchGoto
<1>1. ~raced' => ~raced /\ ~(Posting' /\ Patching')
  <2> SUFFICES ASSUME ~raced' PROVE ~raced /\ ~(Posting' /\ Patching')
    OBVIOUS
  <2>1. ASSUME NEW d \in Devices, Post(d) PROVE ~raced /\ ~Patching'
    BY <2>1 DEF Post, Patching
  <2>2. ASSUME NEW p \in Patches, UpdateAccess(p) PROVE ~raced /\ ~Posting'
    BY <2>2 DEF UpdateAccess, Posting
  <2>3. \/ \E d \in Devices : Post(d)
        \/ \E p \in Patches : UpdateAccess(p)
        \/ /\ UNCHANGED raced
           /\ Posting' => Posting
           /\ Patching' => Patching
    BY DEF Routine, LockOwner, RefuseDevice, Delete, UpdateRevoked, CommitRevoked,
      AbortPatch, Patch, UpdateDevice, Measure, MeasureDevice, MeasureAccess,
      AbortTelemetry, Posting, Patching, TypeOK
  <2>4. QED
    BY <2>1, <2>2, <2>3 DEF Fits
<1>2. ASSUME NEW p \in Patches, patch'[p] = "planned"
      PROVE  /\ patch[p] = "planned" /\ chosen'[p] = chosen[p]
             /\ Left(p)' \subseteq Left(p)
  <2>1. patch[p] = "planned" /\ chosen'[p] = chosen[p]
    BY <1>2 DEF Routine, Post, LockOwner, RefuseDevice, Delete, UpdateRevoked,
      CommitRevoked, UpdateAccess, AbortPatch, Patch, UpdateDevice, Measure,
      MeasureDevice, MeasureAccess, AbortTelemetry, TypeOK
  <2>2. ASSUME NEW q \in Patches, AbortPatch(q) PROVE FALSE
    <3>1. q # p /\ patch[q] = "planned"
      BY <1>2, <2>2 DEF AbortPatch, Deadlocked, WaitsForAgent, TypeOK
    <3>2. QED
      BY <2>1, <3>1 DEF Locks
  <2>3. ASSUME NEW q \in Patches, NEW d \in Devices, UpdateDevice(q, d) PROVE q = p
    BY <2>1, <2>3 DEF UpdateDevice, Locks
  <2>4. \/ UNCHANGED <<status, rowLock, written, plan>>
        \/ \E d \in Devices :
             UpdateRevoked(d) \/ CommitRevoked(d) \/ UpdateDevice(p, d)
        \/ \E row \in Devices \cup {Access} : MeasureDevice(row)
        \/ MeasureAccess \/ AbortTelemetry
    BY <2>2, <2>3 DEF Routine, Post, LockOwner, RefuseDevice, Delete, UpdateAccess,
      Patch, Measure
  <2>5. QED
    BY <2>1, <2>4, LeftKept
<1>3. QED
  BY <1>1, <1>2, RoutineFrame, FitsKept

LEMMA RoutineTurns == ASSUME TypeOK, Locks, Turns, Routine PROVE Turns'
<1>1. Registered \subseteq Devices
  BY DEF Registered
<1>2. /\ Cardinality(Registered') <= Cardinality(Registered)
      /\ Cardinality(Registered') \in Nat /\ Cardinality(Registered) \in Nat
  BY <1>1, RoutineFrame, FewerDevices, DeviceSets
<1>3. highest \in Nat /\ \A d \in Devices : seen[d] \in Nat
  BY LimitsArePositive DEF TypeOK
<1>4. QED
  BY <1>2, <1>3, RoutineFrame DEF Turns

\* Only one registration holds the owner's lock, only one PATCH the access.
LEMMA OneHolder ==
  ASSUME Locks
  PROVE  /\ \A d, e \in Devices :
              post[d] \in Holding /\ post[e] \in Holding => d = e
         /\ \A p, q \in Patches :
              /\ patch[p] \in {"locked", "planned"}
              /\ patch[q] \in {"locked", "planned"}
              => p = q
  BY DEF Locks

LEMMA FitsStep == ASSUME TypeOK, Locks, Rows, Fits, [Next]_vars PROVE Fits'
<1> USE DEF rows, locks, posts, patches, agent, history, PostGoto, PatchGoto
<1> limit \in Nat /\ (\A d \in Devices : seen[d] \in Nat) /\ \A p \in Patches : chosen[p] \in Nat
  BY LimitsArePositive DEF TypeOK
<1> Cardinality(Registered) \in Nat
  BY DeviceSets DEF Registered
<1>1. ASSUME NEW d \in Devices, ReadLimit(d) PROVE Fits'
  <2>1. /\ UNCHANGED <<Registered, Active, Posting, Patching>>
        /\ \A p \in Patches : Left(p)' = Left(p)
    BY <1>1 DEF ReadLimit, Registered, Active, Posting, Patching, Left, Final, TypeOK
  <2>2. QED
    BY <1>1, <2>1 DEF ReadLimit, Fits, TypeOK
<1>2. ASSUME NEW d \in Devices, InsertDevice(d) PROVE Fits'
  <2>1. /\ UNCHANGED <<Registered, Active, Posting, Patching>>
        /\ \A p \in Patches : Left(p)' = Left(p)
    BY <1>2 DEF InsertDevice, Registered, Active, Posting, Patching, Left, Final, TypeOK
  <2>2. QED
    BY <1>2, <2>1 DEF InsertDevice, Fits, TypeOK
<1>3. ASSUME NEW d \in Devices, CommitDevice(d) PROVE Fits'
  <2> SUFFICES ASSUME ~raced PROVE Fits'
    BY <1>3 DEF CommitDevice, Fits
  <2>1. ~Patching /\ ~Patching' /\ post[d] = "inserted" /\ UNCHANGED <<limit, seen>>
    BY <1>3 DEF CommitDevice, Posting, Patching, Fits
  <2>2. Cardinality(Active') <= limit
    <3>1. Cardinality(Registered) < limit
      BY <2>1 DEF Fits
    <3>2. Cardinality(Registered') <= limit /\ Cardinality(Registered') \in Nat
      BY <1>3, <3>1, CommittedDevice
    <3>3. Active' \subseteq Registered' /\ Registered' \subseteq Devices
      BY DEF Active, Registered
    <3>4. Cardinality(Active') <= Cardinality(Registered') /\ Cardinality(Active') \in Nat
      BY <3>3, FewerDevices, DeviceSets
    <3>5. QED
      BY <3>2, <3>4
  <2>3. \A e \in Devices : post'[e] # "inserted"
    BY <1>3, <2>1, OneHolder DEF CommitDevice, Holding, TypeOK
  <2>4. \A e \in Devices : post'[e] \in {"read", "inserted"} => post'[e] = post[e]
    BY <1>3 DEF CommitDevice, TypeOK
  <2>5. \A p \in Patches : patch'[p] # "planned"
    BY <2>1 DEF Patching
  <2>6. QED
    BY <2>1, <2>2, <2>3, <2>4, <2>5 DEF Fits
<1>4. ASSUME NEW p \in Patches, PlanDevices(p) PROVE Fits'
  <2>1. UNCHANGED <<Registered, Active, Posting>> /\ Patching
    BY <1>4 DEF PlanDevices, Registered, Active, Posting, Patching
  <2>2. \A q \in Patches : patch'[q] = "planned" => q = p
    BY <1>4, OneHolder DEF PlanDevices, TypeOK
  <2>3. Cardinality(Left(p)') <= chosen'[p]
    BY <1>4, PlanFits DEF PlanDevices
  <2>4. QED
    BY <1>4, <2>1, <2>2, <2>3 DEF PlanDevices, Fits
<1>5. ASSUME NEW p \in Patches, CommitAccount(p) PROVE Fits'
  <2> SUFFICES ASSUME ~raced PROVE Fits'
    BY <1>5 DEF CommitAccount, Fits
  <2>1. ~Posting /\ ~Posting' /\ patch[p] = "planned" /\ limit' = chosen[p] /\ UNCHANGED post
    BY <1>5 DEF CommitAccount, Posting, Patching, Fits
  <2>2. Cardinality(Active') <= limit'
    <3>1. Active' \subseteq Left(p) /\ Left(p) \subseteq Devices
      BY <1>5, CommittedAccount DEF Left
    <3>2. Cardinality(Left(p)) <= chosen[p]
      BY <2>1 DEF Fits
    <3>3. /\ Cardinality(Active') <= Cardinality(Left(p))
          /\ Cardinality(Active') \in Nat /\ Cardinality(Left(p)) \in Nat
      BY <3>1, FewerDevices, DeviceSets
    <3>4. QED
      BY <2>1, <3>2, <3>3
  <2>3. \A d \in Devices : post'[d] \notin {"read", "inserted"}
    BY <2>1 DEF Posting
  <2>4. \A q \in Patches : patch'[q] # "planned"
    BY <1>5, <2>1, OneHolder DEF CommitAccount, TypeOK
  <2>5. QED
    BY <2>1, <2>2, <2>3, <2>4 DEF Fits
<1>6. CASE Routine
  BY <1>6, RoutineFits
<1>7. QED
  BY <1>1, <1>2, <1>3, <1>4, <1>5, <1>6
     DEF Next, PostStep, DeleteStep, PatchStep, AgentStep, Done, Routine

LEMMA TurnsStep == ASSUME TypeOK, Locks, Rows, Turns, [Next]_vars PROVE Turns'
<1> USE DEF rows, locks, posts, patches, agent, history, PostGoto, PatchGoto
<1> /\ limit \in Nat /\ highest \in Nat
    /\ \A d \in Devices : seen[d] \in Nat
    /\ \A p \in Patches : chosen[p] \in Nat
  BY LimitsArePositive DEF TypeOK
<1> Cardinality(Registered) \in Nat
  BY DeviceSets DEF Registered
<1>1. ASSUME NEW d \in Devices, ReadLimit(d) PROVE Turns'
  <2>1. UNCHANGED Registered
    BY <1>1 DEF ReadLimit, Registered
  <2>2. QED
    BY <1>1, <2>1 DEF ReadLimit, Turns, TypeOK
<1>2. ASSUME NEW d \in Devices, InsertDevice(d) PROVE Turns'
  <2>1. UNCHANGED Registered
    BY <1>2 DEF InsertDevice, Registered
  <2>2. QED
    BY <1>2, <2>1 DEF InsertDevice, Turns, TypeOK
<1>3. ASSUME NEW d \in Devices, CommitDevice(d) PROVE Turns'
  <2>1. post[d] = "inserted" /\ UNCHANGED <<limit, seen, highest, revived>>
    BY <1>3 DEF CommitDevice
  <2>2. \A e \in Devices : post'[e] # "inserted"
    BY <1>3, <2>1, OneHolder DEF CommitDevice, Holding, TypeOK
  <2>3. Cardinality(Registered') = Cardinality(Registered) + 1
    BY <1>3, CommittedDevice
  <2>4. QED
    BY <2>1, <2>2, <2>3 DEF Turns
<1>4. ASSUME NEW p \in Patches, PlanDevices(p) PROVE Turns'
  <2>1. UNCHANGED Registered
    BY <1>4 DEF PlanDevices, Registered
  <2>2. QED
    BY <1>4, <2>1 DEF PlanDevices, Turns
<1>5. ASSUME NEW p \in Patches, CommitAccount(p) PROVE Turns'
  <2>1. /\ limit' = chosen[p] /\ UNCHANGED <<post, seen>>
        /\ highest' = IF chosen[p] > highest THEN chosen[p] ELSE highest
        /\ revived' = (revived \/ Revives(p))
    BY <1>5 DEF CommitAccount
  <2>2. ~revived' => ~revived /\ Registered' = Registered
    BY <1>5, <2>1, CommittedAccount
  <2>3. limit' <= highest' /\ highest <= highest' /\ highest' \in Nat
    BY <2>1
  <2>4. QED
    BY <2>1, <2>2, <2>3 DEF Turns
<1>6. CASE Routine
  BY <1>6, RoutineTurns
<1>7. QED
  BY <1>1, <1>2, <1>3, <1>4, <1>5, <1>6
     DEF Next, PostStep, DeleteStep, PatchStep, AgentStep, Done, Routine

-----------------------------------------------------------------------------
(* The theorems.                                                           *)

\* The invariant holds in every reachable state.
THEOREM AccessInvariant == Spec => []AccessInv
<1>1. AccessInv /\ [Next]_vars => AccessInv'
  BY TypeStep, LocksStep, RowsStep, FitsStep, TurnsStep DEF AccessInv
<1>2. QED
  BY InitAccess, <1>1, PTL DEF Spec

\* However many devices and requests there are, an account whose registrations
\* and PATCH requests do not overlap has no more active devices than its limit
\* at any moment, and without a revival no more registered ones than its
\* highest limit, whatever overlaps.
THEOREM LimitIsKept == Spec => []LimitHolds
<1>1. AccessInv => LimitHolds
  BY DEF AccessInv, Fits, Turns, LimitHolds, LimitWithoutRace, RegistrationsTakeTurns
<1>2. QED
  BY AccessInvariant, <1>1, PTL

\* RevokedForGood fails in one way only: the status of a revoked device changes
\* only where a PATCH commits a status it had planned before the revocation, and
\* `revived' then says so. No registration, revocation, abort or telemetry pass
\* brings a revoked device back.
THEOREM OnlyPatchRevives ==
  Spec => [][\A d \in Devices : status[d] = "revoked" /\ status'[d] # "revoked" =>
               revived' /\ \E p \in Patches : rowLock[d] = p /\ CommitAccount(p)]_vars
<1> DEFINE Kept(d) == status[d] = "revoked" /\ status'[d] # "revoked" =>
                        revived' /\ \E p \in Patches : rowLock[d] = p /\ CommitAccount(p)
<1>1. ASSUME AccessInv, Next, NEW d \in Devices PROVE Kept(d)
  <2> USE <1>1 DEF AccessInv, TypeOK, rows, locks, posts, patches, agent, history
  <2>1. ASSUME NEW e \in Devices, CommitDevice(e) PROVE Kept(d)
    <3>1. post[e] = "inserted" /\ status' = [status EXCEPT ![e] = "active"]
      BY <2>1 DEF CommitDevice, PostGoto
    <3>2. status[e] = None
      BY <3>1 DEF Rows
    <3>3. QED
      BY <3>1, <3>2 DEF None
  <2>2. ASSUME NEW e \in Devices, CommitRevoked(e) PROVE Kept(d)
    <3>1. rowLock[d] = e => written[d] = "revoked"
      BY Apart DEF Locks
    <3>2. status'[d] = IF rowLock[d] = e /\ written[d] # None THEN written[d] ELSE status[d]
      BY <2>2 DEF CommitRevoked, CommitStatus
    <3>3. QED
      BY <3>1, <3>2
  <2>3. ASSUME NEW p \in Patches, CommitAccount(p) PROVE Kept(d)
    <3>1. status'[d] = IF rowLock[d] = p /\ written[d] # None THEN written[d] ELSE status[d]
      BY <2>3 DEF CommitAccount, CommitStatus
    <3>2. revived' = (revived \/ Revives(p))
      BY <2>3 DEF CommitAccount
    <3>3. QED
      BY <2>3, <3>1, <3>2 DEF Revives
  <2>4. CASE UNCHANGED status
    BY <2>4
  <2>5. QED
    BY <2>1, <2>2, <2>3, <2>4
       DEF Next, PostStep, DeleteStep, PatchStep, AgentStep, Done, vars,
           Post, LockOwner, ReadLimit, InsertDevice, RefuseDevice, Delete, UpdateRevoked,
           Patch, UpdateAccess, PlanDevices, UpdateDevice, AbortPatch, Measure,
           MeasureDevice, MeasureAccess, AbortTelemetry
<1>2. AccessInv /\ [Next]_vars => [\A d \in Devices : Kept(d)]_vars
  BY <1>1
<1>3. QED
  BY AccessInvariant, <1>2, PTL DEF Spec
=============================================================================
