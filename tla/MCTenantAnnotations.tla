-------------------------- MODULE MCTenantAnnotations --------------------------
(* TenantSpec for TLC: one update, that does not enable Prometheus. *)
EXTENDS TenantSpec

MCChanges == {[kind |-> "update", image |-> TRUE, registry |-> FALSE, prometheus |-> FALSE]}
=============================================================================
