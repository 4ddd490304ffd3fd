--------------------------- MODULE SupervisorRules ---------------------------
(***************************************************************************)
(* The rules the station supervisor applies to a plugin lifecycle          *)
(* (crates/station-supervisor): the eight runtime states, the transition   *)
(* table, and the check of a manifest's capability claims against the      *)
(* permissions of the run profile, made before Starting and Running.       *)
(* The module has no state of its own; KernelRuntime applies its rules.    *)
(***************************************************************************)
EXTENDS Naturals, Sequences

CONSTANTS
  Plugins,     \* the plugin ids the run can be asked about
  Permissions, \* the RuntimePermissions of the run profile
  Claims       \* Claims[p]: the capability_claims of p's manifest, in order

PermissionRecord ==
  [network : BOOLEAN, filesystem : BOOLEAN, gpu : BOOLEAN,
   projection_only : BOOLEAN, nondeterministic : BOOLEAN]

ClaimRecord ==
  [enabled : BOOLEAN, network : BOOLEAN, filesystem : BOOLEAN, gpu : BOOLEAN,
   projection_only : BOOLEAN, deterministic : BOOLEAN]

ASSUME RulesAssumption ==
  /\ Permissions \in PermissionRecord
  /\ Claims \in [Plugins -> Seq(ClaimRecord)]

\* "Unregistered" stands for a plugin the supervisor's map has no record of.
RuntimeStates ==
  {"Registered", "Admitted", "Starting", "Running", "Stopping", "Stopped",
   "Failed", "Quarantined"}

LifecycleStates == RuntimeStates \cup {"Unregistered"}

ValidTransitions ==
  {<<"Registered", "Admitted">>, <<"Admitted", "Starting">>,
   <<"Starting", "Running">>,    <<"Running", "Stopping">>,
   <<"Stopping", "Stopped">>,    <<"Stopping", "Failed">>,
   <<"Stopping", "Quarantined">>, <<"Starting", "Failed">>,
   <<"Running", "Failed">>,      <<"Failed", "Quarantined">>,
   <<"Failed", "Starting">>}

-----------------------------------------------------------------------------
(* Ordered checks: the code tests one condition after another and stops at *)
(* the first that fails.                                                   *)

FirstFailing(checks, i) ==
  /\ i \in DOMAIN checks
  /\ checks[i].fails
  /\ \A j \in 1 .. (i - 1) : ~checks[j].fails

AllPass(checks) == \A i \in DOMAIN checks : ~checks[i].fails

\* The permission checks of one enabled claim, in the order they are made.
ClaimChecks(claim) ==
  << [denial |-> "NetworkDenied",
      fails  |-> claim.network /\ ~Permissions.network],
     [denial |-> "FilesystemDenied",
      fails  |-> claim.filesystem /\ ~Permissions.filesystem],
     [denial |-> "GpuDenied",
      fails  |-> claim.gpu /\ ~Permissions.gpu],
     [denial |-> "ProjectionDenied",
      fails  |-> claim.projection_only /\ ~Permissions.projection_only],
     [denial |-> "NondeterministicDenied",
      fails  |-> ~claim.deterministic /\ ~Permissions.nondeterministic] >>

ClaimPermitted(claim) == claim.enabled => AllPass(ClaimChecks(claim))

\* Faulty variant: only the first claim of the manifest is looked at.
ManifestPermitted_FirstClaim(p) ==
  \A i \in DOMAIN Claims[p] : i = 1 => ClaimPermitted(Claims[p][i])

ManifestPermitted(p) ==
  \A i \in DOMAIN Claims[p] : ClaimPermitted(Claims[p][i])

\* denial is what the first claim that is not permitted is refused with.
ManifestDenied(p, denial) ==
  \E i \in DOMAIN Claims[p] :
    /\ ~ClaimPermitted(Claims[p][i])
    /\ \A j \in 1 .. (i - 1) : ClaimPermitted(Claims[p][j])
    /\ \E k \in 1 .. 5 :
         /\ FirstFailing(ClaimChecks(Claims[p][i]), k)
         /\ denial = ClaimChecks(Claims[p][i])[k].denial

\* StationSupervisor::transition(plugin, to), asked of a plugin in state from:
\* unknown plugin, then the transition table, then the permissions.
TransitionDenied(p, from, to, denial) ==
  \/ from = "Unregistered" /\ denial = "UnknownPlugin"
  \/ /\ from # "Unregistered"
     /\ <<from, to>> \notin ValidTransitions
     /\ denial = "InvalidTransition"
  \/ /\ <<from, to>> \in ValidTransitions
     /\ to \in {"Starting", "Running"}
     /\ ManifestDenied(p, denial)

\* Faulty variant: the transition table is not consulted.
TransitionAllowed_AnyMove(p, from, to) ==
  /\ from # "Unregistered"
  /\ to \in {"Starting", "Running"} => ManifestPermitted(p)

TransitionAllowed(p, from, to) ==
  /\ <<from, to>> \in ValidTransitions
  /\ to \in {"Starting", "Running"} => ManifestPermitted(p)

DenialKinds ==
  {"UnknownPlugin", "InvalidTransition", "NetworkDenied", "FilesystemDenied",
   "GpuDenied", "ProjectionDenied", "NondeterministicDenied"}
=============================================================================
