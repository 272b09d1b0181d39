--------------------------------- MODULE Auth ---------------------------------
(* What decides whom to let in: refresh tokens of packages/auth, beside them *)
(* sessions, and roles of packages/rbac.  They share nothing: a behaviour    *)
(* uses one of them and leaves the others as they began.                     *)
EXTENDS TokenRefresh

CONSTANTS Touchers, Ttls, Second, Absent, NoKeyTtl, Nothing,
          Names, Permissions, Hierarchies, Conditions, Conditional,
          MaxGranted, MaxParents, MaxAttached, MaxSize

VARIABLES part,
          store, record, created, touching, written, destroyed, served,
          roles, conditions

session == INSTANCE Session

rbac == INSTANCE RoleManager

ASSUME SessionsAssumption == session!SessionAssumption

ASSUME RolesAssumption == rbac!RoleAssumption

sessionVars == <<store, record, created, touching, written, destroyed, served>>

rbacVars == <<roles, conditions>>

AccessInit ==
  /\ part \in {"tokens", "session", "roles"}
  /\ Init /\ session!Init /\ rbac!Init
  /\ part # "tokens" => ~blacklists
  /\ part # "session" => store = "memory"

AccessNext ==
  \/ part = "tokens" /\ Next /\ UNCHANGED <<sessionVars, rbacVars>>
  \/ part = "session" /\ session!Next /\ UNCHANGED <<vars, rbacVars>>
  \/ part = "roles" /\ rbac!Next /\ UNCHANGED <<vars, sessionVars>>

AccessSpec ==
  AccessInit /\ [][AccessNext /\ UNCHANGED part]_<<part, vars, sessionVars, rbacVars>>
-----------------------------------------------------------------------------
(* A session is served in time, and in memory with what was written to it.   *)
ServedInTime == session!ServedInTime

(* A destroyed session is gone, unless a touch() overlapped its end.         *)
DestroyedForGood == session!DestroyedForGood

(* Roles and guards grant what is inherited, and no more.                    *)
AccessAsInherited == part = "roles" => rbac!AccessAsInherited

(* Neither setInheritance() nor a builder closes a cycle.                    *)
NoCycleBySetting == rbac!NoCycleBySetting
=============================================================================
