--------------------------- MODULE GrantRegistry ---------------------------
(***************************************************************************)
(* The grant registry of a JOSH connection (crates/josh-host/src/grants.rs)*)
(* ties the grant ids a host chooses to the capability handles the runtime *)
(* issues, so that permission/revoke, which names the former, reaches the  *)
(* latter.  The execution thread calls allowed, issued and                 *)
(* take_revocations, the connection thread calls revoke: each call is      *)
(* atomic (one mutex), and a registry is a record every call is an         *)
(* operator on.  The id of a pending target and the handle issued for it   *)
(* correspond one to one and are one set, Target.                          *)
(***************************************************************************)
EXTENDS Naturals, FiniteSets

CONSTANTS
  Target,    \* pending targets, and the handles issued for them
  Grant,     \* grant ids a host may choose
  NoGrant    \* no grant id

ASSUME NoGrantIsFresh == NoGrant \notin Grant

Registries ==
  [pending_host_ids        : [Target -> Grant \cup {NoGrant}],
   revoked_pending_targets : SUBSET Target,
   runtime_ids             : [Grant -> SUBSET Target],
   revoked                 : SUBSET Target]

EmptyRegistry ==
  [pending_host_ids        |-> [t \in Target |-> NoGrant],
   revoked_pending_targets |-> {},
   runtime_ids             |-> [g \in Grant |-> {}],
   revoked                 |-> {}]

(* The host allowed the target under grant g.  The insertion happens even  *)
(* when allowed then reports that the target was already there.            *)
allowed(r, t, g) == [r EXCEPT !.pending_host_ids[t] = g]

allowed_again(r, t) == r.pending_host_ids[t] # NoGrant

(* Mutant: the handle of a grant revoked before its issue is not queued.   *)
issued_ForgetsRevoked(r, t) ==
  IF t \in r.revoked_pending_targets
  THEN [r EXCEPT !.revoked_pending_targets = @ \ {t}]
  ELSE IF r.pending_host_ids[t] # NoGrant
  THEN [r EXCEPT !.pending_host_ids[t] = NoGrant,
                 !.runtime_ids[r.pending_host_ids[t]] = {t}]
  ELSE r

(* The runtime issued the handle of the target.  A grant id the host used  *)
(* before is bound to the new handle and no longer to the old one.         *)
issued(r, t) ==
  IF t \in r.revoked_pending_targets
  THEN [r EXCEPT !.revoked_pending_targets = @ \ {t}, !.revoked = @ \cup {t}]
  ELSE IF r.pending_host_ids[t] # NoGrant
  THEN [r EXCEPT !.pending_host_ids[t] = NoGrant,
                 !.runtime_ids[r.pending_host_ids[t]] = {t}]
  ELSE r

(* The host revoked g: the issued handle if there is one, otherwise the    *)
(* first target waiting under that id, otherwise nothing.                  *)
revoke(r, g) ==
  LET waiting == {t \in Target : r.pending_host_ids[t] = g}
      first   == CHOOSE t \in waiting : TRUE
  IN  IF r.runtime_ids[g] # {}
      THEN [r EXCEPT !.runtime_ids[g] = {}, !.revoked = @ \cup r.runtime_ids[g]]
      ELSE IF waiting # {}
      THEN [r EXCEPT !.pending_host_ids[first] = NoGrant,
                     !.revoked_pending_targets = @ \cup {first}]
      ELSE r

take_revocations(r) == [r EXCEPT !.revoked = {}]

=============================================================================
