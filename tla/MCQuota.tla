---------------------------- MODULE MCQuota ----------------------------
(***************************************************************************)
(* The instance TLC checks: two sessions of a tenant whose limit two calls *)
(* reach; one session has a limit of its own and the other has none.       *)
(***************************************************************************)
EXTENDS Quota, TLC

CONSTANTS s1, s2, tenant

MCSession == {s1, s2}
MCLimit == (tenant :> 2) @@ (s1 :> 2) @@ (s2 :> 0)

============================================================================
