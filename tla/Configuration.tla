--------------------------- MODULE Configuration ---------------------------
(***************************************************************************)
(* internal/config: what a pool of the configuration file has to be, and   *)
(* internal/controller: which jobs it stands for.  A configuration is a    *)
(* sequence of pools.  Names, labels and images are taken to be well       *)
(* formed; the URLs, files and log options are left out.                   *)
(***************************************************************************)
EXTENDS Integers, Sequences

\* Defaults of config.go; the durations are in minutes.
DefaultMaxProvisioning == 2
DefaultAttemptLimit == 5
DefaultStartupTimeout == 10
DefaultMaxLifetime == 360

Or(value, default) == IF value = 0 THEN default ELSE value

\* applyDefaults: a field that is not given is zero.
WithDefaults(pool) ==
    [pool EXCEPT
        !.maxProvisioning = Or(pool.maxProvisioning, DefaultMaxProvisioning),
        !.attemptLimit = Or(pool.attemptLimit, DefaultAttemptLimit),
        !.startupTimeout = Or(pool.startupTimeout, DefaultStartupTimeout),
        !.maxLifetime = Or(pool.maxLifetime, DefaultMaxLifetime)]

Unique(s) == \A k, l \in DOMAIN s : s[k] = s[l] => k = l

\* A scope names what its type needs and nothing else.
ScopeAccepted(scope) ==
    CASE scope.type = "repository"   -> scope.owner # "" /\ scope.repository # ""
      [] scope.type = "organization" -> scope.owner # "" /\ scope.repository = ""
      [] scope.type \in {"user", "global"} -> scope.owner = "" /\ scope.repository = ""
      [] OTHER -> FALSE

\* Pool.validate
PoolAccepted(pool) ==
    /\ ScopeAccepted(pool.scope)
    /\ pool.labels # <<>> /\ Unique(pool.labels)
    /\ pool.minIdle >= 0
    /\ pool.maxInstances >= 1
    /\ pool.minIdle <= pool.maxInstances
    /\ pool.maxProvisioning >= 1
    /\ pool.attemptLimit >= 1
    /\ pool.startupTimeout > 0
    /\ pool.maxLifetime > 0

\* A slip: the primary labels are not compared.
AcceptedByName(pools) ==
    /\ pools # <<>>
    /\ \A k \in DOMAIN pools : PoolAccepted(pools[k])
    /\ Unique([k \in DOMAIN pools |-> pools[k].name])

\* Config.Validate: names are unique, and so are the labels that come first.
Accepted(pools) ==
    /\ pools # <<>>
    /\ \A k \in DOMAIN pools : PoolAccepted(pools[k])
    /\ Unique([k \in DOMAIN pools |-> pools[k].name])
    /\ Unique([k \in DOMAIN pools |-> pools[k].labels[1]])

\* matches: the pool's first label is the job's first, and the job asks for
\* every label of the pool.
Matches(labels, runsOn) ==
    /\ labels # <<>> /\ runsOn # <<>>
    /\ labels[1] = runsOn[1]
    /\ \A k \in DOMAIN labels : \E l \in DOMAIN runsOn : runsOn[l] = labels[k]
=============================================================================
