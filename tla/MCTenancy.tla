----------------------------- MODULE MCTenancy -----------------------------
(* Two tenants, one agent type tag: enough for a tenant to lose its store  *)
(* to RemoveAtomSpace while an agent or a sandbox of it lives, to get a    *)
(* second store, and for the other tenant to interleave.                   *)
EXTENDS Tenancy

CONSTANTS t1, t2, ty

MCTenants == {t1, t2}
MCAgentTypes == {ty}
=============================================================================
