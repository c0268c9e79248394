---------------------------- MODULE SessionLease ----------------------------
(***************************************************************************)
(* What the lease on the durable row of a Routa Session promises to the    *)
(* instances that share it: one instance at a time acts for the session,   *)
(* the one the row names, and it acts only while its lease is active.  To  *)
(* act is to start a provider runtime in a recovery or to hand it a prompt *)
(* the lease check let through.  SessionRuntime implements this.           *)
(***************************************************************************)
CONSTANTS
  Instance,   \* the Routa instances
  NoOwner     \* no instance

VARIABLES
  owner,      \* the instance the lease names
  active,     \* the lease has not expired
  acting      \* the instances that act for the session

vars == <<owner, active, acting>>

Init ==
  /\ owner \in Instance /\ active = TRUE
  /\ acting = {}

Claimable(i) == owner \in {i, NoOwner} \/ ~active

(* An instance takes or renews the lease, and may start or stop to act. *)
Claim(i) ==
  /\ Claimable(i)
  /\ owner' = i /\ active' = TRUE
  /\ acting' \in {acting, acting \union {i}, acting \ {i}}

(* An instance stops: it is done, it gave up, or it crashed. *)
Stop(i) ==
  /\ acting' = acting \ {i}
  /\ UNCHANGED <<owner, active>>

(* The lease expires, but never under an instance that acts. *)
Expire ==
  /\ acting = {}
  /\ active' = FALSE
  /\ UNCHANGED <<owner, acting>>

Next == (\E i \in Instance : Claim(i) \/ Stop(i)) \/ Expire

Spec == Init /\ [][Next]_vars

(* Whoever acts is the owner of an active lease: two instances never do. *)
OnlyOwnerActs == acting \subseteq {owner} /\ (acting # {} => active)
=============================================================================
