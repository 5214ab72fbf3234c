--------------------------- MODULE AdminBootstrap ---------------------------
(***************************************************************************)
(* API instances that start, together or one after the other: start of      *)
(* apps/api/src/server.ts with ensureInitialAdmin of                        *)
(* apps/api/src/lib/bootstrap-admin.ts.  Counting administrators, creating  *)
(* one and logging it are three statements without a transaction; an error  *)
(* ends the process, and docker-compose starts it again.                    *)
(***************************************************************************)
EXTENDS Integers, FiniteSets

CONSTANTS
    Instances,
    Emails,
    EmailOf,     \* INITIAL_ADMIN_EMAIL of an instance, or what it is told at the prompt
    MaxEvents    \* bound: crashes, errors and what the user of the portal asks for

ASSUME BootstrapAssumption ==
    /\ EmailOf \in [Instances -> Emails]
    /\ MaxEvents \in Nat

VARIABLES
    admins,      \* admin_users
    audits,      \* the "admin.bootstrap" audit logs, counted by administrator
    instance,    \* where each instance stands
    events       \* so far, at most MaxEvents

bootVars == <<admins, audits, instance>>

(* down; counting, creating, auditing: at these statements; searching: after *)
(* P2002, for the administrator that another instance has created            *)
Starting == {"counting", "creating", "auditing", "searching"}

BootTypeOK ==
    /\ admins \subseteq Emails
    /\ audits \in [Emails -> Nat]
    /\ instance \in [Instances -> {"down", "listening"} \cup Starting]
    /\ events \in 0..MaxEvents

BootInit ==
    /\ admins = {}
    /\ audits = [e \in Emails |-> 0]
    /\ instance = [i \in Instances |-> "down"]
    /\ events = 0

-----------------------------------------------------------------------------
Event ==
    /\ events < MaxEvents
    /\ events' = events + 1

Advance(i, step) == instance' = [instance EXCEPT ![i] = step]

(* loadEnv, the migrations (under Prisma's lock) and the plugins. *)
Launch(i) ==
    /\ instance[i] = "down"
    /\ Advance(i, "counting")
    /\ UNCHANGED <<admins, audits>>

CountAdmins(i) ==
    /\ instance[i] = "counting"
    /\ Advance(i, IF admins = {} THEN "creating" ELSE "listening")
    /\ UNCHANGED <<admins, audits>>

(* Variant of CreateAdmin: an upsert, which is logged whoever created. *)
UpsertAdmin(i) ==
    /\ instance[i] = "creating"
    /\ admins' = admins \cup {EmailOf[i]}
    /\ Advance(i, "auditing")
    /\ UNCHANGED audits

(* The unique key decides which of several instances creates. *)
CreateAdmin(i) ==
    /\ instance[i] = "creating"
    /\ admins' = admins \cup {EmailOf[i]}
    /\ Advance(i, IF EmailOf[i] \in admins THEN "searching" ELSE "auditing")
    /\ UNCHANGED audits

AuditBootstrap(i) ==
    /\ instance[i] = "auditing"
    /\ audits' = [audits EXCEPT ![EmailOf[i]] = @ + 1]
    /\ Advance(i, "listening")
    /\ UNCHANGED admins

FindAdmin(i) ==
    /\ instance[i] = "searching"
    /\ Advance(i, IF EmailOf[i] \in admins THEN "listening" ELSE "down")
    /\ UNCHANGED <<admins, audits>>

(* Variant of StartFails: the error is logged, and the server listens. *)
StartFailsSoftly(i) ==
    /\ Event
    /\ instance[i] \in Starting
    /\ Advance(i, "listening")
    /\ UNCHANGED <<admins, audits>>

(* Variant of StartFails: nobody starts the process again. *)
StartFailsForGood(i) ==
    /\ Event
    /\ instance[i] \in Starting
    /\ Advance(i, "exited")
    /\ UNCHANGED <<admins, audits>>

(* A statement fails and process.exit(1) follows, or the process is killed. *)
StartFails(i) ==
    /\ Event
    /\ instance[i] \in Starting
    /\ Advance(i, "down")
    /\ UNCHANGED <<admins, audits>>

BootStep(i) ==
    /\ Launch(i) \/ CountAdmins(i) \/ CreateAdmin(i) \/ AuditBootstrap(i) \/ FindAdmin(i)
    /\ UNCHANGED events

-----------------------------------------------------------------------------
(* Properties *)

(* An instance that serves requests has an administrator to log in, however  *)
(* instances race each other and fail on the way (bootstrap-admin.ts:111-162, *)
(* server.ts:44-53).                                                         *)
ListeningHasAdmin ==
    \A i \in Instances : instance[i] = "listening" => admins # {}

(* An administrator is logged as bootstrapped by the instance that created   *)
(* it, and once ("Needs idempotent bootstrap",                               *)
(* docs/stories/1.2.local-admin-authentication-setup.md:107).                *)
AuditedOnce ==
    \A e \in Emails : audits[e] <= 1 /\ (audits[e] > 0 => e \in admins)

=============================================================================
