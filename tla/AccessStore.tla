---------------------------- MODULE AccessStore ----------------------------
(***************************************************************************)
(* What the handlers of accounts store, and the statements they run on it: *)
(* the rows of db/queries/{members,oauth,customer_otp}.sql, and the Redis  *)
(* counters and session keys of internal/cache/redis.go.  Operators on one *)
(* value; Access says who calls them and when.                             *)
(***************************************************************************)
EXTENDS Integers

CONSTANTS
  Emails, Sessions, \* addresses and session ids
  Nobody,           \* no address
  Ttl,              \* ticks a session key lives (sessionTTL)
  Second            \* ticks in a second

ASSUME StoreAssumption == {Ttl, Second} \subseteq Nat \ {0} /\ Nobody \notin Emails

Roles == {"owner", "developer"}

-----------------------------------------------------------------------------
(* Counters: INCR, and an EXPIRE of its own after the first. *)

Counter == [count : Nat, timed : BOOLEAN]

NoCounter == [count |-> 0, timed |-> FALSE]

Incremented(c) == [c EXCEPT !.count = @ + 1]

(* EXPIRE of a key that is gone does nothing. *)
Expiring(c) == [c EXCEPT !.timed = c.count > 0]

(* Mutant: the limit is never enforced.                                    *)
NeverAtLimit(c, limit) == FALSE

(* IsLoginLocked, IsOTPRequestRateLimited, IsOTPVerifyLocked: a missing    *)
(* key is below every limit.                                               *)
AtLimit(c, limit) == c.count >= limit

-----------------------------------------------------------------------------
(* Sessions: one key each, and a set of their ids. *)

Session == [until : Nat, role : Roles]

SessionIndex == [ids : SUBSET Sessions, until : Nat]

NoSession == [until |-> 0, role |-> "developer"]

IsActive(session, now) == session.until > now

SessionCreated(role, now) == [until |-> now + Ttl, role |-> role]

(* Mutant: the index keeps the expiry of its first session.                *)
NeverExtended(index, s, now) ==
  [ids |-> index.ids \cup {s},
   until |-> IF index.until > now THEN index.until ELSE now + Ttl]

(* SADD and EXPIRE.  An index whose time is over starts anew. *)
Indexed(index, s, now) ==
  [ids |-> (IF index.until > now THEN index.ids ELSE {}) \cup {s}, until |-> now + Ttl]

(* Mutant: only the id is taken out of the index.                          *)
StillThere(session) == session

(* DEL. *)
Gone(session) == [session EXCEPT !.until = 0]

Unindexed(index, s) == [index EXCEPT !.ids = @ \ {s}]

(* Mutant: a second is added whatever is left of it.                       *)
NextSecond(remaining) == Second * (remaining \div Second + 1)

(* What TTL answers: the remaining time in whole seconds, the nearest.     *)
InSeconds(remaining) == Second * ((remaining + Second \div 2) \div Second)

(* The SET of Touch, with the TTL that was read. *)
Touched(session, left, now) == [session EXCEPT !.until = now + left]

-----------------------------------------------------------------------------
(* Rows. *)

Member == [exists : BOOLEAN, role : Roles, id : Nat]

NoMember == [exists |-> FALSE, role |-> "developer", id |-> 0]

(* INSERT; the unique key (tenant_id, email) lets one row stand. *)
MemberCreated(row, role) == [exists |-> TRUE, role |-> role, id |-> row.id + 1]

(* DELETE ... WHERE id = $1: a row created since has another id. *)
MemberDeleted(row, id) == IF row.id = id THEN [row EXCEPT !.exists = FALSE] ELSE row

WithRole(row, role) == [row EXCEPT !.role = role]

InvitationStates == {"absent", "pending", "expired", "accepted", "deleted"}

Invitation == [state : InvitationStates, email : Emails \cup {Nobody}, role : Roles]

NoInvitation == [state |-> "absent", email |-> Nobody, role |-> "developer"]

InvitationCreated(email, role) == [state |-> "pending", email |-> email, role |-> role]

(* UPDATE ... WHERE token = $1: a deleted row stays deleted. *)
InvitationAccepted(inv) == IF inv.state = "deleted" THEN inv ELSE [inv EXCEPT !.state = "accepted"]

InvitationDeleted(inv) == [inv EXCEPT !.state = "deleted"]

CodeStates == {"absent", "issued", "expired", "used"}

(* Mutant: used_at is not set.                                             *)
NotMarked(code) == code

CodeUsed(code) == "used"

ClientStates == {"absent", "active", "revoked"}

(* CreateOAuthClient; RevokeOAuthClient, of a client that may be revoked.  *)
ClientCreated == "active"
ClientRevoked == "revoked"

=============================================================================
