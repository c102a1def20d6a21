--------------------------- MODULE StartupProofs ---------------------------
(***************************************************************************)
(* The start of any number of replicas, of any builds and with any number  *)
(* of failures: migrations are applied in order, not again while the lock  *)
(* lasts, and a replica serves only with all of its own.  The same holds   *)
(* beside the synchronisation of the command menus, which takes no command *)
(* away from any user.                                                     *)
(***************************************************************************)
EXTENDS CommandMenu, FiniteSetTheorems, TLAPS

Needed(r) == 1..Build[r]

\* What a migrating replica still has to do contains all that the schema lacks of its build.
PendingCoversMissing == \A r \in Replicas :
    pc[r] = "migrating" => Needed(r) \ applied \subseteq pending[r] /\ pending[r] \subseteq Needed(r)

\* Behind the migrations of a replica its schema is complete.
CompleteAfterMigration == \A r \in Replicas : pc[r] \in {"verifying", "serving"} => Needed(r) \subseteq applied

\* Until a session is lost, the migrating replica holds the lock and nobody has applied what
\* it is going to apply.
LockedWhileMigrating == ~lostLock =>
    /\ repeated = {}
    /\ \A r \in Replicas : pc[r] \in {"locked", "migrating"} => holder = r
    /\ \A r \in Replicas : pc[r] = "migrating" => pending[r] \cap applied = {}

\* The inductive invariant.
IInv == TypeOK /\ AppliedInOrder /\ PendingCoversMissing /\ CompleteAfterMigration /\ LockedWhileMigrating

\* Builds embed some of the migrations.
LEMMA NeededFacts == \A r \in Replicas : Build[r] \in 1..Versions /\ Needed(r) \subseteq 1..Versions
BY StartupAssumption DEF Needed

\* The invariant holds before the first replica starts.
LEMMA InitIInv == Init => IInv
<1> SUFFICES ASSUME Init PROVE IInv
  OBVIOUS
<1>1. PICK k \in 0..Versions : applied = 1..k
  BY DEF Init
<1>2. AppliedInOrder
  BY <1>1 DEF AppliedInOrder
<1>3. TypeOK
  <2>1. applied \in SUBSET (1..Versions) /\ faults \in 0..MaxFaults
    BY <1>1, StartupAssumption DEF Init
  <2>2. lostLock \in BOOLEAN /\ holder \in Replicas \cup {"nobody"} /\ repeated \in SUBSET (1..Versions)
    BY DEF Init
  <2> QED BY <2>1, <2>2 DEF Init, TypeOK
<1>4. PendingCoversMissing /\ CompleteAfterMigration /\ LockedWhileMigrating
  BY DEF Init, PendingCoversMissing, CompleteAfterMigration, LockedWhileMigrating
<1> QED BY <1>2, <1>3, <1>4 DEF IInv

\* Types.
LEMMA TypeStep == TypeOK /\ [Next]_vars => TypeOK'
<1> SUFFICES ASSUME TypeOK, [Next]_vars PROVE TypeOK'
  OBVIOUS
<1> USE DEF TypeOK, Goto, Fault, LockAfter
<1>1. CASE UNCHANGED vars
  BY <1>1 DEF vars
<1>2. ASSUME NEW r \in Replicas, Start(r) \/ AcquireMigrationLock(r) \/ MigrationsApplied(r) \/ VerifySchema(r)
      PROVE  TypeOK'
  BY <1>2 DEF Start, AcquireMigrationLock, MigrationsApplied, VerifySchema
<1>3. ASSUME NEW r \in Replicas, ListPending(r) PROVE TypeOK'
  <2>1. (1..Build[r]) \ applied \in SUBSET (1..Versions)
    BY NeededFacts DEF Needed
  <2> QED BY <1>3, <2>1 DEF ListPending
<1>4. ASSUME NEW r \in Replicas, NEW v \in 1..Versions, ApplyMigration(r, v) PROVE TypeOK'
  BY <1>4 DEF ApplyMigration
<1>5. ASSUME NEW r \in Replicas, MigrationFails(r) PROVE TypeOK'
  BY <1>5, StartupAssumption DEF MigrationFails
<1>6. ASSUME NEW r \in Replicas, Crash(r) PROVE TypeOK'
  BY <1>6, StartupAssumption DEF Crash
<1>7. ASSUME NEW r \in Replicas, LoseLock(r) PROVE TypeOK'
  BY <1>7, StartupAssumption DEF LoseLock
<1> QED BY <1>1, <1>2, <1>3, <1>4, <1>5, <1>6, <1>7 DEF Next, StartStep

\* The next pending migration is an applied one or the first that is missing.
LEMMA NextPending ==
    ASSUME IInv, NEW r \in Replicas, NEW v \in 1..Versions, ApplyMigration(r, v),
           NEW k \in 0..Versions, applied = 1..k
    PROVE  v <= k + 1
<1>1. v \in Needed(r) /\ Needed(r) \ applied \subseteq pending[r]
  BY DEF IInv, PendingCoversMissing, ApplyMigration
<1>2. \A w \in pending[r] : v <= w
  BY DEF ApplyMigration
<1>3. Build[r] \in Nat /\ Versions \in Nat
  BY StartupAssumption
<1> SUFFICES ASSUME k + 1 < v PROVE FALSE
  OBVIOUS
<1>4. k + 1 \in Needed(r) \ applied
  BY <1>1, <1>3 DEF Needed
<1> QED BY <1>1, <1>2, <1>4

\* goose applies in order.
LEMMA OrderStep == IInv /\ [Next]_vars => AppliedInOrder'
<1> SUFFICES ASSUME IInv, [Next]_vars PROVE AppliedInOrder'
  OBVIOUS
<1>1. PICK k \in 0..Versions : applied = 1..k
  BY DEF IInv, AppliedInOrder
<1>2. CASE applied' = applied
  BY <1>1, <1>2 DEF AppliedInOrder
<1>3. ASSUME NEW r \in Replicas, NEW v \in 1..Versions, ApplyMigration(r, v) PROVE AppliedInOrder'
  <2>1. v <= k + 1 /\ applied' = applied \cup {v} /\ Versions \in Nat
    BY <1>1, <1>3, NextPending, StartupAssumption DEF ApplyMigration
  <2>2. CASE v <= k
    BY <1>1, <2>1, <2>2 DEF AppliedInOrder
  <2>3. CASE v = k + 1
    <3>1. applied' = 1..v /\ v \in 0..Versions
      BY <1>1, <2>1, <2>3
    <3> QED BY <3>1 DEF AppliedInOrder
  <2> QED BY <2>1, <2>2, <2>3
<1>4. applied' = applied \/ \E r \in Replicas, v \in 1..Versions : ApplyMigration(r, v)
  BY DEF Next, StartStep, Start, AcquireMigrationLock, ListPending, MigrationsApplied, VerifySchema,
         MigrationFails, Crash, LoseLock, vars
<1> QED BY <1>2, <1>3, <1>4

\* The applied migrations never become fewer.
LEMMA AppliedGrows == [Next]_vars => applied \subseteq applied'
BY DEF Next, StartStep, Start, AcquireMigrationLock, ListPending, ApplyMigration, MigrationsApplied,
       VerifySchema, MigrationFails, Crash, LoseLock, vars

\* What is missing stays pending, and nothing is missing afterwards.
LEMMA CoverStep == IInv /\ [Next]_vars => PendingCoversMissing' /\ CompleteAfterMigration'
<1> SUFFICES ASSUME IInv, [Next]_vars, NEW r \in Replicas
             PROVE  /\ pc'[r] = "migrating" => Needed(r) \ applied' \subseteq pending'[r] /\ pending'[r] \subseteq Needed(r)
                    /\ pc'[r] \in {"verifying", "serving"} => Needed(r) \subseteq applied'
  BY DEF PendingCoversMissing, CompleteAfterMigration, Needed
<1>1. /\ pc[r] = "migrating" => Needed(r) \ applied \subseteq pending[r] /\ pending[r] \subseteq Needed(r)
      /\ pc[r] \in {"verifying", "serving"} => Needed(r) \subseteq applied
      /\ applied \subseteq applied' /\ TypeOK
  BY AppliedGrows DEF IInv, PendingCoversMissing, CompleteAfterMigration
<1>2. CASE pc'[r] = pc[r] /\ pending'[r] = pending[r]
  BY <1>1, <1>2
<1>3. ASSUME NEW v \in 1..Versions, ApplyMigration(r, v)
      PROVE  pc'[r] = "migrating" /\ Needed(r) \ applied' \subseteq pending'[r] /\ pending'[r] \subseteq Needed(r)
  BY <1>1, <1>3 DEF ApplyMigration, TypeOK
<1>4. CASE ListPending(r)
  BY <1>1, <1>4 DEF ListPending, Goto, TypeOK, Needed
<1>5. CASE MigrationsApplied(r)
  BY <1>1, <1>5 DEF MigrationsApplied, Goto, TypeOK
<1>6. CASE VerifySchema(r)
  BY <1>1, <1>6 DEF VerifySchema, Goto, TypeOK
<1>7. CASE Start(r) \/ AcquireMigrationLock(r) \/ MigrationFails(r) \/ Crash(r)
  BY <1>1, <1>7 DEF Start, AcquireMigrationLock, MigrationFails, Crash, Goto, TypeOK
<1>8. \/ pc'[r] = pc[r] /\ pending'[r] = pending[r]
      \/ \E v \in 1..Versions : ApplyMigration(r, v)
      \/ ListPending(r) \/ MigrationsApplied(r) \/ VerifySchema(r)
      \/ Start(r) \/ AcquireMigrationLock(r) \/ MigrationFails(r) \/ Crash(r)
  <2>1. ASSUME NEW q \in Replicas \ {r}, StartStep(q) \/ MigrationFails(q) \/ Crash(q)
        PROVE  pc'[r] = pc[r] /\ pending'[r] = pending[r]
    BY <1>1, <2>1 DEF StartStep, Start, AcquireMigrationLock, ListPending, ApplyMigration, MigrationsApplied,
        VerifySchema, MigrationFails, Crash, Goto, TypeOK
  <2>2. ASSUME NEW q \in Replicas, LoseLock(q) PROVE pc'[r] = pc[r] /\ pending'[r] = pending[r]
    BY <2>2 DEF LoseLock
  <2>3. CASE UNCHANGED vars
    BY <2>3 DEF vars
  <2>4. CASE StartStep(r)
    BY <2>4 DEF StartStep
  <2> QED BY <2>1, <2>2, <2>3, <2>4 DEF Next
<1> QED BY <1>2, <1>3, <1>4, <1>5, <1>6, <1>7, <1>8

\* While no session is lost only the holder of the lock lists and applies.
LEMMA LockStep == IInv /\ [Next]_vars => LockedWhileMigrating'
<1> SUFFICES ASSUME IInv, [Next]_vars, ~lostLock' PROVE LockedWhileMigrating'
  BY DEF LockedWhileMigrating
<1>1. ~lostLock
  BY DEF IInv, TypeOK, Next, StartStep, Start, AcquireMigrationLock, ListPending, ApplyMigration, MigrationsApplied,
         VerifySchema, MigrationFails, Crash, LoseLock, vars
<1>2. /\ repeated = {}
      /\ \A r \in Replicas : pc[r] \in {"locked", "migrating"} => holder = r
      /\ \A r \in Replicas : pc[r] = "migrating" => pending[r] \cap applied = {}
      /\ TypeOK /\ "nobody" \notin Replicas
  BY <1>1, StartupAssumption DEF IInv, LockedWhileMigrating
<1>3. CASE UNCHANGED vars
  BY <1>2, <1>3 DEF vars, LockedWhileMigrating
<1>4. ASSUME NEW r \in Replicas, Start(r) PROVE LockedWhileMigrating'
  BY <1>2, <1>4 DEF Start, Goto, LockedWhileMigrating, TypeOK
<1>5. ASSUME NEW r \in Replicas, AcquireMigrationLock(r) PROVE LockedWhileMigrating'
  BY <1>2, <1>5 DEF AcquireMigrationLock, Goto, LockedWhileMigrating, TypeOK
<1>6. ASSUME NEW r \in Replicas, ListPending(r) PROVE LockedWhileMigrating'
  BY <1>2, <1>6 DEF ListPending, Goto, LockedWhileMigrating, TypeOK
<1>7. ASSUME NEW r \in Replicas, NEW v \in 1..Versions, ApplyMigration(r, v) PROVE LockedWhileMigrating'
  <2>1. pc[r] = "migrating" /\ v \in pending[r] /\ v \notin applied
    BY <1>2, <1>7 DEF ApplyMigration
  <2>2. \A q \in Replicas \ {r} : pc[q] # "migrating"
    BY <1>2, <2>1
  <2> QED BY <1>2, <1>7, <2>1, <2>2 DEF ApplyMigration, LockedWhileMigrating, TypeOK
<1>8. ASSUME NEW r \in Replicas, MigrationsApplied(r) PROVE LockedWhileMigrating'
  BY <1>2, <1>8 DEF MigrationsApplied, LockAfter, Goto, LockedWhileMigrating, TypeOK
<1>9. ASSUME NEW r \in Replicas, VerifySchema(r) PROVE LockedWhileMigrating'
  BY <1>2, <1>9 DEF VerifySchema, Goto, LockedWhileMigrating, TypeOK
<1>10. ASSUME NEW r \in Replicas, MigrationFails(r) \/ Crash(r) PROVE LockedWhileMigrating'
  BY <1>2, <1>10 DEF MigrationFails, Crash, LockAfter, Goto, LockedWhileMigrating, TypeOK
<1>11. ASSUME NEW r \in Replicas, LoseLock(r) PROVE FALSE
  BY <1>11 DEF LoseLock
<1> QED BY <1>3, <1>4, <1>5, <1>6, <1>7, <1>8, <1>9, <1>10, <1>11 DEF Next, StartStep

\* ApplyMigrations and VerifySchema keep the invariant.
THEOREM StartupInvariant == Spec => []IInv
<1>1. IInv /\ [Next]_vars => IInv'
  BY TypeStep, OrderStep, CoverStep, LockStep DEF IInv
<1> QED BY InitIInv, <1>1, PTL DEF Spec

\* The variables of the start keep their types.
THEOREM TypeCorrect == Spec => []TypeOK
<1>1. IInv => TypeOK
  BY DEF IInv
<1> QED BY <1>1, StartupInvariant, PTL

\* ApplyMigrations: no replica skips a migration, whatever happens to the lock.
THEOREM InOrder == Spec => []AppliedInOrder
<1>1. IInv => AppliedInOrder
  BY DEF IInv
<1> QED BY <1>1, StartupInvariant, PTL

\* ApplyMigrations: the lock lets no migration run twice.
THEOREM NotRepeated == Spec => []NoMigrationRepeated
<1>1. IInv => NoMigrationRepeated
  BY DEF IInv, LockedWhileMigrating, NoMigrationRepeated
<1> QED BY <1>1, StartupInvariant, PTL

\* Run: the HTTP server starts only on a schema with all migrations of the build.
THEOREM ServedSchemaComplete == Spec => []ServesItsSchema
<1>1. IInv => ServesItsSchema
  BY DEF IInv, CompleteAfterMigration, ServesItsSchema, Needed
<1> QED BY <1>1, StartupInvariant, PTL

-----------------------------------------------------------------------------
(* The command menus *)

SyncType == [pc : {"off", "reading", "writing", "finished"}, at : Menus,
             commands : SUBSET (Own \cup Builtin \cup {"alerts"}),
             defaults : SUBSET (Own \cup Builtin \cup {"alerts"})]

MenuTypes ==
    /\ menus \in [Menus -> SUBSET (Own \cup Builtin \cup {"alerts"})]
    /\ configured \in [Menus -> SUBSET Own]
    /\ syncs \in [Replicas -> SyncType]

Room == Cardinality(configured[1]) < MenuLimit

\* A menu that is filled has what its users saw; an empty one was empty from the start, so they
\* saw the default menu.
MenusKeep ==
    /\ \A l \in Menus : IF menus[l] = {} THEN configured[l] = configured[1] ELSE configured[l] \subseteq menus[l]
    /\ menus[1] = {} => configured[1] = {}
    /\ configured[1] # {} => menus[1] \in {configured[1], configured[1] \cup {"alerts"}}

\* So has what a replica is going to write.  The default menu had room, so it was not skipped
\* and is known when the languages are dealt with.
SyncsKeep == \A r \in Replicas :
    /\ syncs[r].pc = "writing" =>
           /\ syncs[r].commands # {} /\ configured[syncs[r].at] \subseteq syncs[r].commands
           /\ syncs[r].at = 1 /\ configured[1] # {} => syncs[r].commands = configured[1] \cup {"alerts"}
    /\ configured[1] # {} /\ syncs[r].at # 1 => configured[1] \subseteq syncs[r].defaults

\* The inductive invariant of the menus.
MenuInv == MenuTypes /\ (Room => MenusKeep /\ SyncsKeep)

\* The default menu is one of the menus.
LEMMA FirstMenu == 1 \in Menus
BY MenuAssumption DEF Menus

\* The menus are as their users know them before the deployment.
LEMMA InitMenuInv == DeployInit => MenuInv
<1> SUFFICES ASSUME DeployInit PROVE MenuInv
  OBVIOUS
<1>1. /\ menus \in [Menus -> SUBSET Own]
      /\ configured = [l \in Menus |-> IF menus[l] = {} THEN menus[1] ELSE menus[l]]
      /\ \A r \in Replicas : syncs[r] = [pc |-> "off", at |-> 1, commands |-> {}, defaults |-> {}]
      /\ syncs = [r \in Replicas |-> [pc |-> "off", at |-> 1, commands |-> {}, defaults |-> {}]]
  BY DEF DeployInit, Visible, Sync
<1>2. MenuTypes
  BY <1>1, FirstMenu DEF MenuTypes, SyncType
<1>3. MenusKeep /\ SyncsKeep
  BY <1>1, FirstMenu DEF MenusKeep, SyncsKeep
<1> QED BY <1>2, <1>3 DEF MenuInv

\* A step of the start begins or abandons synchronisations.
LEMMA StartupStepMenus == ASSUME MenuInv, StartupStep PROVE MenuInv'
<1>1. UNCHANGED <<menus, configured>> /\ \E first \in {"reading", "off"} : \A r \in Replicas :
          syncs'[r] \in {Sync("off"), Sync(first), syncs[r]}
  BY DEF StartupStep
<1>2. \A r \in Replicas : syncs'[r] \in SyncType
  BY <1>1, FirstMenu DEF MenuInv, MenuTypes, SyncType, Sync
<1>3. syncs' \in [Replicas -> SyncType]
  BY <1>2 DEF StartupStep
<1>4. ASSUME SyncsKeep PROVE SyncsKeep'
  BY <1>1, <1>4 DEF SyncsKeep, Sync
<1> QED BY <1>1, <1>3, <1>4 DEF MenuInv, MenuTypes, Room, MenusKeep

\* What is read and completed has everything the users of the menu saw.
LEMMA ReadMenuKeeps == ASSUME MenuInv, NEW r \in Replicas, ReadMenu(r) PROVE MenuInv'
<1> DEFINE at == syncs[r].at
           commands == Filled(r, menus[at]) \cup {"alerts"}
<1>1. /\ syncs[r] \in SyncType /\ at \in Menus /\ syncs[r].pc = "reading"
      /\ UNCHANGED <<menus, configured>>
      /\ syncs' = [syncs EXCEPT ![r] = [syncs[r] EXCEPT !.pc = "writing", !.commands = commands]]
  BY DEF MenuInv, MenuTypes, ReadMenu, SyncType, withPriceAlertCommand
<1>2. Filled(r, menus[at]) \subseteq Own \cup Builtin \cup {"alerts"}
  BY <1>1 DEF MenuInv, MenuTypes, SyncType, Filled
<1>3. syncs' \in [Replicas -> SyncType]
  BY <1>1, <1>2 DEF MenuInv, MenuTypes, SyncType
<1>4. /\ syncs'[r].commands = commands /\ syncs'[r].at = at /\ syncs'[r].defaults = syncs[r].defaults
      /\ \A q \in Replicas \ {r} : syncs'[q] = syncs[q]
  BY <1>1 DEF SyncType, MenuInv, MenuTypes
<1>5. ASSUME MenusKeep, SyncsKeep PROVE SyncsKeep'
  <2>1. configured[at] \subseteq Filled(r, menus[at])
    <3>1. CASE menus[at] # {}
      BY <1>1, <1>5, <3>1 DEF Filled, MenusKeep
    <3>2. CASE menus[at] = {} /\ configured[1] = {}
      BY <1>1, <1>5, <3>2 DEF MenusKeep
    <3>3. CASE menus[at] = {} /\ configured[1] # {}
      <4>1. at # 1 /\ configured[at] = configured[1]
        BY <1>1, <1>5, <3>3 DEF MenusKeep
      <4>2. configured[1] \subseteq syncs[r].defaults /\ syncs[r].defaults # {}
        BY <1>5, <3>3, <4>1 DEF SyncsKeep
      <4> QED BY <3>3, <4>1, <4>2 DEF Filled
    <3> QED BY <3>1, <3>2, <3>3
  <2>2. at = 1 /\ configured[1] # {} => commands = configured[1] \cup {"alerts"}
    BY <1>5 DEF MenusKeep, Filled
  <2> HIDE DEF commands
  <2>3. commands # {} /\ configured[at] \subseteq commands
    BY <2>1 DEF commands
  <2> QED BY <1>1, <1>4, <1>5, <2>2, <2>3 DEF SyncsKeep
<1> QED BY <1>1, <1>3, <1>5 DEF MenuInv, MenuTypes, Room, MenusKeep

\* The default menu with /alerts is not too long when it had room.
LEMMA RoomForAlerts ==
    ASSUME MenuTypes, Room
    PROVE  ~TooMany(configured[1] \cup {"alerts"})
<1>1. IsFiniteSet(configured[1]) /\ "alerts" \notin configured[1]
  BY FirstMenu, MenuAssumption, FS_Subset DEF MenuTypes
<1>2. Cardinality(configured[1] \cup {"alerts"}) = Cardinality(configured[1]) + 1 /\ Cardinality(configured[1]) \in Nat
  BY <1>1, FS_AddElement, FS_CardinalityType
<1> QED BY <1>2, MenuAssumption DEF Room, TooMany

\* Writing a menu keeps what its users saw.
LEMMA WriteMenuKeeps == ASSUME MenuInv, NEW r \in Replicas, WriteMenu(r) PROVE MenuInv'
<1> DEFINE at == syncs[r].at
           commands == syncs[r].commands
           skip == TooMany(commands)
<1>1. /\ syncs[r] \in SyncType /\ at \in Menus /\ syncs[r].pc = "writing" /\ UNCHANGED configured
      /\ commands \subseteq Own \cup Builtin \cup {"alerts"}
      /\ menus' = IF skip THEN menus ELSE [menus EXCEPT ![at] = commands]
  BY DEF MenuInv, MenuTypes, WriteMenu, SyncType
<1> DEFINE defaults == IF at = 1 /\ ~skip THEN commands ELSE syncs[r].defaults
<1>2. /\ syncs'[r].pc \in {"finished", "reading"}
      /\ syncs'[r].defaults = defaults
      /\ syncs'[r].at \in Menus
      /\ syncs'[r] \in SyncType
      /\ \A q \in Replicas \ {r} : syncs'[q] = syncs[q]
      /\ syncs' = [syncs EXCEPT ![r] = syncs'[r]]
      /\ syncs'[r].at = 1 => at = 1
  <2> DEFINE sync == IF at = 1 /\ ~skip THEN [syncs[r] EXCEPT !.defaults = commands] ELSE syncs[r]
  <2>1. sync \in SyncType /\ sync.at = at /\ sync.defaults = defaults
    BY <1>1 DEF SyncType
  <2>2. syncs' = [syncs EXCEPT ![r] = Advance(sync)]
    BY DEF WriteMenu
  <2>3. /\ Advance(sync) \in SyncType /\ Advance(sync).pc \in {"finished", "reading"}
        /\ Advance(sync).defaults = defaults
        /\ Advance(sync).at = 1 => at = 1
    <3> HIDE DEF sync, defaults, at
    <3>1. CASE sync.at = Locales
      BY <2>1, <3>1 DEF Advance, SyncType
    <3>2. CASE sync.at # Locales
      <4>1. Advance(sync) = [sync EXCEPT !.pc = "reading", !.at = @ + 1]
        BY <3>2 DEF Advance
      <4>2. sync.at \in Nat /\ sync.at + 1 \in Menus /\ sync.at + 1 # 1
        BY <2>1, <3>2, MenuAssumption DEF SyncType, Menus
      <4> QED BY <2>1, <4>1, <4>2 DEF SyncType
    <3> QED BY <3>1, <3>2
  <2> HIDE DEF sync, defaults
  <2>4. Advance(sync).at \in Menus
    BY <2>3 DEF SyncType
  <2>5. syncs'[r] = Advance(sync) /\ \A q \in Replicas \ {r} : syncs'[q] = syncs[q]
    BY <2>2 DEF MenuInv, MenuTypes
  <2>6. syncs' = [syncs EXCEPT ![r] = syncs'[r]]
    BY <2>2, <2>5
  <2> QED BY <2>3, <2>4, <2>5, <2>6
<1>3. MenuTypes'
  <2>1. syncs' \in [Replicas -> SyncType]
    BY <1>2 DEF MenuInv, MenuTypes
  <2>2. menus' \in [Menus -> SUBSET (Own \cup Builtin \cup {"alerts"})]
    BY <1>1 DEF MenuInv, MenuTypes
  <2> QED BY <1>1, <2>1, <2>2 DEF MenuInv, MenuTypes
<1>4. ASSUME Room, MenusKeep, SyncsKeep PROVE MenusKeep' /\ SyncsKeep'
  <2> HIDE DEF skip
  <2>1. /\ commands # {} /\ configured[at] \subseteq commands
        /\ at = 1 /\ configured[1] # {} => commands = configured[1] \cup {"alerts"} /\ ~skip
    BY <1>1, <1>4, RoomForAlerts DEF SyncsKeep, MenuInv, skip
  <2>2. MenusKeep'
    <3>1. CASE skip
      BY <1>1, <1>4, <3>1 DEF MenusKeep
    <3>2. CASE ~skip
      <4>1. menus'[at] = commands /\ \A l \in Menus \ {at} : menus'[l] = menus[l]
        BY <1>1, <3>2 DEF MenuInv, MenuTypes
      <4> HIDE DEF at, commands
      <4> QED BY <1>1, <1>4, <2>1, <4>1, FirstMenu DEF MenusKeep
    <3> QED BY <3>1, <3>2
  <2>3. configured[1] # {} /\ syncs'[r].at # 1 => configured[1] \subseteq defaults
    BY <1>4, <2>1 DEF SyncsKeep
  <2> HIDE DEF defaults
  <2>4. SyncsKeep'
    BY <1>1, <1>2, <1>4, <2>3 DEF SyncsKeep
  <2> QED BY <2>2, <2>4
<1>5. Room' <=> Room
  BY <1>1 DEF Room
<1> QED BY <1>3, <1>4, <1>5 DEF MenuInv

\* A synchronisation is given up.
LEMMA SyncFailsKeeps == ASSUME MenuInv, NEW r \in Replicas, SyncFails(r) PROVE MenuInv'
<1>1. /\ UNCHANGED <<menus, configured>> /\ syncs' = [syncs EXCEPT ![r] = Sync("off")]
      /\ syncs'[r] = Sync("off") /\ \A q \in Replicas \ {r} : syncs'[q] = syncs[q]
  BY DEF SyncFails, MenuInv, MenuTypes
<1>2. syncs' \in [Replicas -> SyncType]
  BY <1>1, FirstMenu DEF MenuInv, MenuTypes, SyncType, Sync
<1>3. ASSUME SyncsKeep PROVE SyncsKeep'
  BY <1>1, <1>3 DEF SyncsKeep, Sync
<1> QED BY <1>1, <1>2, <1>3 DEF MenuInv, MenuTypes, Room, MenusKeep

\* Both invariants hold throughout a deployment.
LEMMA DeployInvariant == DeploySpec => [](IInv /\ MenuInv)
<1>1. DeployInit => IInv /\ MenuInv
  BY InitIInv, InitMenuInv DEF DeployInit
<1>2. MenuInv /\ [DeployNext]_deployVars => MenuInv'
  <2> SUFFICES ASSUME MenuInv, [DeployNext]_deployVars PROVE MenuInv'
    OBVIOUS
  <2>1. CASE UNCHANGED deployVars
    BY <2>1 DEF deployVars, MenuInv, MenuTypes, Room, MenusKeep, SyncsKeep
  <2> QED BY <2>1, StartupStepMenus, ReadMenuKeeps, WriteMenuKeeps, SyncFailsKeeps DEF DeployNext
<1>3. IInv /\ [DeployNext]_deployVars => IInv'
  <2> SUFFICES ASSUME IInv, [DeployNext]_deployVars PROVE IInv'
    OBVIOUS
  <2>1. CASE [Next]_vars
    BY <2>1, TypeStep, OrderStep, CoverStep, LockStep DEF IInv
  <2>2. ASSUME NEW r \in Replicas, SyncFails(r) PROVE IInv'
    <3>1. TypeOK'
      BY <2>2, StartupAssumption DEF SyncFails, Fault, IInv, TypeOK
    <3>2. AppliedInOrder' /\ PendingCoversMissing' /\ CompleteAfterMigration' /\ LockedWhileMigrating'
      BY <2>2 DEF SyncFails, IInv, AppliedInOrder, PendingCoversMissing, CompleteAfterMigration, LockedWhileMigrating
    <3> QED BY <3>1, <3>2 DEF IInv
  <2> QED BY <2>1, <2>2 DEF DeployNext, StartupStep, ReadMenu, WriteMenu, deployVars
<1> QED BY <1>1, <1>2, <1>3, PTL DEF DeploySpec

\* syncPriceAlertMenu: however many replicas write the menus at the same time and wherever they
\* give up, no user loses a command if the default menu had room for one more.
THEOREM NoCommandLost == DeploySpec => []KeepsCommandsWithRoom
<1>1. MenuInv => KeepsCommandsWithRoom
  BY FirstMenu DEF MenuInv, Room, MenusKeep, KeepsCommandsWithRoom, Visible
<1> QED BY <1>1, DeployInvariant, PTL

\* The synchronisation does not disturb the start: during a deployment, too, migrations run in
\* order and once, and a replica serves only with its schema.
THEOREM DeploymentKeepsSchema ==
    DeploySpec => [](AppliedInOrder /\ NoMigrationRepeated /\ ServesItsSchema)
<1>1. IInv => AppliedInOrder /\ NoMigrationRepeated /\ ServesItsSchema
  BY DEF IInv, LockedWhileMigrating, NoMigrationRepeated, CompleteAfterMigration, ServesItsSchema, Needed
<1> QED BY <1>1, DeployInvariant, PTL
=============================================================================
