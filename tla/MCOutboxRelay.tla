---------------------------- MODULE MCOutboxRelay ----------------------------
(* Two pods, a few events of which one or two are ones that NATS never takes.  *)
EXTENDS OutboxRelay, TLC
=============================================================================
