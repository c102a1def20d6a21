------------------------------ MODULE Startup ------------------------------
(***************************************************************************)
(* The start of replicas up to their HTTP server, during a rolling deploy: *)
(* a replica takes the migration advisory lock, applies what its build     *)
(* embeds and the database lacks, verifies the schema and serves.  Builds  *)
(* may differ in how many migrations they embed.                           *)
(*                                                                         *)
(* A migration is one transaction, which also records its version in       *)
(* goose_db_version.  What Run does after VerifySchema either succeeds or  *)
(* ends the process like any other failure of the start.                   *)
(***************************************************************************)
EXTENDS Integers, FiniteSets

CONSTANTS
    Replicas,
    Build,       \* last migration that a replica's binary embeds
    Versions,    \* last migration of all
    Unverified,  \* migrations that created nothing VerifySchema looks at (004)
    MaxFaults    \* bound: failures, crashes and lost sessions

ASSUME StartupAssumption ==
    /\ Versions \in Nat /\ Build \in [Replicas -> 1..Versions] /\ Unverified \subseteq 1..Versions
    /\ MaxFaults \in Nat /\ "nobody" \notin Replicas

VARIABLES
    pc,        \* where the start of each replica is
    holder,    \* the replica whose session holds the migration lock, or "nobody"
    pending,   \* migrations a replica is going to apply
    applied,   \* versions in goose_db_version, with their objects in the schema
    repeated,  \* ghost: migrations that were run again
    lostLock,  \* ghost: a session was lost under a running migration
    faults

vars == <<pc, holder, pending, applied, repeated, lostLock, faults>>

Init ==
    /\ pc = [r \in Replicas |-> "down"]
    /\ holder = "nobody"
    /\ pending = [r \in Replicas |-> {}]
    /\ applied \in {1..v : v \in 0..Versions}
    /\ repeated = {}
    /\ lostLock = FALSE
    /\ faults = 0

Fault == faults < MaxFaults /\ faults' = faults + 1
Goto(r, place) == pc' = [pc EXCEPT ![r] = place]

\* storage.Open and the connection for the lock.
Start(r) ==
    /\ pc[r] = "down"
    /\ Goto(r, "locking")
    /\ UNCHANGED <<holder, pending, applied, repeated, lostLock, faults>>

\* Variant with a mistake: the lock is only tried.
AcquireIfFree(r) ==
    /\ pc[r] = "locking"
    /\ holder' = IF holder = "nobody" THEN r ELSE holder
    /\ Goto(r, "locked")
    /\ UNCHANGED <<pending, applied, repeated, lostLock, faults>>

\* pg_advisory_lock waits for the replica that is migrating.
AcquireMigrationLock(r) ==
    /\ pc[r] = "locking" /\ holder = "nobody"
    /\ holder' = r
    /\ Goto(r, "locked")
    /\ UNCHANGED <<pending, applied, repeated, lostLock, faults>>

\* provider.Up reads goose_db_version; versions of a newer build are not its concern.
ListPending(r) ==
    /\ pc[r] = "locked"
    /\ pending' = [pending EXCEPT ![r] = (1..Build[r]) \ applied]
    /\ Goto(r, "migrating")
    /\ UNCHANGED <<holder, applied, repeated, lostLock, faults>>

\* The next pending migration commits.  One that another replica has applied since is either
\* run again (IF NOT EXISTS) or fails.
ApplyMigration(r, v) ==
    /\ pc[r] = "migrating" /\ v \in pending[r] /\ \A w \in pending[r] : v <= w
    /\ applied' = applied \cup {v}
    /\ repeated' = IF v \in applied THEN repeated \cup {v} ELSE repeated
    /\ pending' = [pending EXCEPT ![r] = @ \ {v}]
    /\ UNCHANGED <<pc, holder, lostLock, faults>>

LockAfter(r) == IF holder = r THEN "nobody" ELSE holder

\* Variant with a mistake: the connection goes back into the pool with its lock.
KeepsLock(r) ==
    /\ pc[r] = "migrating" /\ pending[r] = {}
    /\ Goto(r, "verifying")
    /\ UNCHANGED <<holder, pending, applied, repeated, lostLock, faults>>

\* ApplyMigrations returns; the deferred releaseMigrationLock ends the session or its lock.
MigrationsApplied(r) ==
    /\ pc[r] = "migrating" /\ pending[r] = {}
    /\ holder' = LockAfter(r)
    /\ Goto(r, "verifying")
    /\ UNCHANGED <<pending, applied, repeated, lostLock, faults>>

\* VerifySchema finds what the build needs, except for what it does not look at.
Verified(r) == (1..Build[r]) \ Unverified \subseteq applied

\* VerifySchema; then the process fails, or goes on until it serves.
VerifySchema(r) ==
    /\ pc[r] = "verifying"
    /\ Goto(r, IF Verified(r) THEN "serving" ELSE "down")
    /\ UNCHANGED <<holder, pending, applied, repeated, lostLock, faults>>

\* Variant with a mistake: a failed migration is only logged.
GoOnAfterFailure(r) ==
    /\ pc[r] = "migrating" /\ pending[r] # {}
    /\ (Fault \/ \E v \in pending[r] : v \in applied /\ UNCHANGED faults)
    /\ Goto(r, "verifying")
    /\ holder' = LockAfter(r)
    /\ pending' = [pending EXCEPT ![r] = {}]
    /\ UNCHANGED <<applied, repeated, lostLock>>

\* A migration rolls back: Run returns the error and the process ends.
MigrationFails(r) ==
    /\ pc[r] = "migrating" /\ pending[r] # {}
    /\ (Fault \/ \E v \in pending[r] : v \in applied /\ UNCHANGED faults)
    /\ Goto(r, "down")
    /\ holder' = LockAfter(r)
    /\ pending' = [pending EXCEPT ![r] = {}]
    /\ UNCHANGED <<applied, repeated, lostLock>>

\* Any other step of the start fails or times out, or the process dies.
Crash(r) ==
    /\ pc[r] # "down"
    /\ Fault
    /\ Goto(r, "down")
    /\ holder' = LockAfter(r)
    /\ pending' = [pending EXCEPT ![r] = {}]
    /\ UNCHANGED <<applied, repeated, lostLock>>

\* PostgreSQL ends the session of the lock, which provider.Up does not notice.
LoseLock(r) ==
    /\ holder = r
    /\ Fault
    /\ holder' = "nobody" /\ lostLock' = TRUE
    /\ UNCHANGED <<pc, pending, applied, repeated>>

StartStep(r) ==
    \/ Start(r) \/ AcquireMigrationLock(r) \/ ListPending(r) \/ MigrationsApplied(r) \/ VerifySchema(r)
    \/ \E v \in 1..Versions : ApplyMigration(r, v)

Next == \E r \in Replicas : StartStep(r) \/ MigrationFails(r) \/ Crash(r) \/ LoseLock(r)

Spec == Init /\ [][Next]_vars

\* The platform starts a replica that is down again; each step of a start has a timeout.
\* PostgreSQL grants the lock in the order it was asked for.
FairSpec == Spec /\ \A r \in Replicas : SF_vars(StartStep(r))

-----------------------------------------------------------------------------
(* Properties *)

\* The variables keep their types.
TypeOK ==
    /\ pc \in [Replicas -> {"down", "locking", "locked", "migrating", "verifying", "serving"}]
    /\ holder \in Replicas \cup {"nobody"}
    /\ pending \in [Replicas -> SUBSET (1..Versions)]
    /\ applied \in SUBSET (1..Versions)
    /\ repeated \in SUBSET (1..Versions)
    /\ lostLock \in BOOLEAN
    /\ faults \in 0..MaxFaults

\* README: the advisory lock serialises the migrations of the replicas.  Whatever starts, fails
\* and restarts at the same time, no migration is run a second time as long as no session of
\* the lock is lost.
NoMigrationRepeated == lostLock \/ repeated = {}

\* The applied versions are a prefix: no replica, of whatever build and with whatever session
\* lost, skips a migration.
AppliedInOrder == \E v \in 0..Versions : applied = 1..v

\* README: if a migration or the verification fails, the HTTP server does not start.  A replica
\* that serves finds every migration of its build applied, the ones VerifySchema cannot see too.
ServesItsSchema == \A r \in Replicas : pc[r] = "serving" => 1..Build[r] \subseteq applied

\* The lock never keeps a replica from starting for ever.
EveryReplicaServes == \A r \in Replicas : pc[r] = "locking" ~> pc[r] = "serving"
=============================================================================
