------------------------------- MODULE Access -------------------------------
(***************************************************************************)
(* Who gets in: the accounts of one tenant (internal/api/handlers/auth.go  *)
(* and team.go), the login of a customer to the portal (portal_auth.go)    *)
(* and the OAuth clients of the platform API (oauth.go), over PostgreSQL   *)
(* rows and Redis keys.  Every call of a handler is a step: between two    *)
(* of them every other request runs.                                       *)
(*                                                                         *)
(* Left out: names, hashes and JWT signatures, e-mails, the audit log, the *)
(* lifetime of the access token itself, API keys (one row per mode,        *)
(* replaced in one statement) and UpdateMe.                                *)
(***************************************************************************)
EXTENDS AccessStore, FiniteSets

CONSTANTS
  Requests,     \* requests served at the same time
  Owner,        \* the address the tenant registered with
  Invitations, PortalCodes, VerificationCodes, Client,
  Nothing,
  LoginLimit, RequestLimit, VerifyLimit,
  MaxRequests, MaxClock, MaxFaults \* bounds

Codes == PortalCodes \cup VerificationCodes
Counters == Emails \cup {"otp_request", "otp_verify"}
Guarded == Sessions \cup Invitations \cup PortalCodes \cup Emails \cup {Client}
Objects == Guarded \cup VerificationCodes \cup Counters \cup {Nothing}

Limit == [k \in Counters |->
  IF k = "otp_request" THEN RequestLimit ELSE IF k = "otp_verify" THEN VerifyLimit ELSE LoginLimit]

ASSUME AccessAssumption ==
  /\ IsFiniteSet(Requests)
  /\ Owner \in Emails
  /\ Nothing \notin Guarded \cup VerificationCodes \cup Counters
  /\ Sessions \cap (Invitations \cup Codes \cup Counters \cup {Client}) = {}
  /\ Invitations \cap (Codes \cup Counters \cup {Client}) = {}
  /\ PortalCodes \cap (VerificationCodes \cup Counters \cup {Client}) = {}
  /\ Client \notin Counters \cup VerificationCodes
  /\ {LoginLimit, RequestLimit, VerifyLimit} \subseteq Nat \ {0}
  /\ {MaxRequests, MaxClock, MaxFaults} \subseteq Nat

VARIABLES
  tenant,      \* its row: exists, has a password, its address is verified
  members, invitations, codes,
  client,      \* the OAuth client
  late,        \* tokens issued for a client that was revoked
  counters,    \* Redis: failures and requests by key
  sessions, index, denied, \* Redis: session keys, their index, the denylist
  opened, closed, born,    \* sessions ever created, revoked; when created
  touched,     \* how often a session was written back
  taken,       \* how often an invitation or a portal code let somebody in
  requests,    \* where each request stands
  contested,   \* objects on which two requests overlapped
  started, clock, faults

vars == <<tenant, members, invitations, codes, client, late, counters, sessions, index,
          denied, opened, closed, born, touched, taken, requests, contested, started, clock, faults>>
team == <<members, invitations>>
redis == <<sessions, index, denied, opened, closed, born, touched>>
oauth == <<client, late>>
pace == <<contested, started, clock, faults>>

Steps == {"idle", "count", "window", "issue_code", "verified", "create_session",
          "set_password", "backfill", "drop_codes", "send_code", "create_tenant",
          "touch_read", "touch_write", "revoke", "invite", "join", "accept", "remove",
          "exchange", "mark_used", "mark_code", "mark_verified", "issue"}

Request == [at : Steps, on : Objects, role : Roles, read : Nat]

NoRequest == [at |-> "idle", on |-> Nothing, role |-> "developer", read |-> 0]

(* A tenant that has been at work for a while, or none. *)
Running ==
  /\ tenant = [exists |-> TRUE, password |-> TRUE, verified |-> FALSE]
  /\ members = [e \in Emails |-> IF e = Owner THEN MemberCreated(NoMember, "owner") ELSE NoMember]
  /\ codes \in [Codes -> {"absent", "issued"}]
  /\ client = "active"

Unregistered ==
  /\ tenant = [exists |-> FALSE, password |-> FALSE, verified |-> FALSE]
  /\ members = [e \in Emails |-> NoMember]
  /\ codes = [c \in Codes |-> "absent"]
  /\ client = "absent"

Init ==
  /\ \/ /\ Running
        /\ \E s \in Sessions, m \in Emails \ {Owner}, i \in Invitations :
             /\ sessions = [t \in Sessions |->
                  IF t = s THEN SessionCreated("owner", 0) ELSE NoSession]
             /\ index = [ids |-> {s}, until |-> Ttl]
             /\ opened = {s}
             /\ invitations = [j \in Invitations |->
                  IF j = i THEN InvitationCreated(m, "developer") ELSE NoInvitation]
     \/ /\ Unregistered
        /\ sessions = [t \in Sessions |-> NoSession]
        /\ index = [ids |-> {}, until |-> 0]
        /\ opened = {}
        /\ invitations = [j \in Invitations |-> NoInvitation]
  /\ late = 0
  /\ counters = [k \in Counters |-> NoCounter]
  /\ denied = {}
  /\ closed = {}
  /\ born = [s \in Sessions |-> 0]
  /\ touched = [s \in Sessions |-> 0]
  /\ taken = [x \in Invitations \cup PortalCodes |-> 0]
  /\ requests = [r \in Requests |-> NoRequest]
  /\ contested = {}
  /\ started = 0
  /\ clock = 0
  /\ faults = 0

-----------------------------------------------------------------------------

Busy(x) == \E r \in Requests : requests[r].at # "idle" /\ requests[r].on = x

(* A request arrives that works on x; another one is still at it. *)
Arrive(x) ==
  /\ started < MaxRequests
  /\ started' = started + 1
  /\ contested' = IF x \in Guarded /\ Busy(x) THEN contested \cup {x} ELSE contested
  /\ UNCHANGED <<clock, faults>>

Begin(r, at, x, role, read) ==
  /\ requests[r].at = "idle"
  /\ Arrive(x)
  /\ requests' = [requests EXCEPT ![r] = [at |-> at, on |-> x, role |-> role, read |-> read]]

Stands(r, at) == requests[r].at = at
Goto(r, at) == requests' = [requests EXCEPT ![r].at = at] /\ UNCHANGED pace
Answer(r) == requests' = [requests EXCEPT ![r] = NoRequest] /\ UNCHANGED pace

Active(s) == IsActive(sessions[s], clock)

(* JWTAuth: not on the denylist, and its session exists. *)
Authorised(s) == s \notin denied /\ Active(s)

(* RequireRole, over the claim of the token. *)
RequireRole(roles) == \E s \in Sessions : Authorised(s) /\ sessions[s].role \in roles

-----------------------------------------------------------------------------
(* Counted attempts. *)

AfterCount(k) == IF k = "otp_request" THEN "issue_code" ELSE "idle"

(* INCR. *)
Count(r) ==
  LET k == requests[r].on IN
  /\ Stands(r, "count")
  /\ counters' = [counters EXCEPT ![k] = Incremented(@)]
  /\ IF counters[k].count = 0 THEN Goto(r, "window")
     ELSE IF AfterCount(k) = "idle" THEN Answer(r) ELSE Goto(r, AfterCount(k))
  /\ UNCHANGED <<tenant, team, codes, oauth, redis, taken>>

(* EXPIRE, by the request whose INCR made the key. *)
Window(r) ==
  LET k == requests[r].on IN
  /\ Stands(r, "window")
  /\ counters' = [counters EXCEPT ![k] = Expiring(@)]
  /\ IF AfterCount(k) = "idle" THEN Answer(r) ELSE Goto(r, AfterCount(k))
  /\ UNCHANGED <<tenant, team, codes, oauth, redis, taken>>

WindowEnds(k) ==
  /\ counters[k].timed
  /\ counters' = [counters EXCEPT ![k] = NoCounter]
  /\ UNCHANGED <<tenant, team, codes, oauth, redis, taken, requests, pace>>

-----------------------------------------------------------------------------
(* Registration and login. *)

(* A password is known for the address: its tenant's, or an active         *)
(* member's.                                                               *)
HasPassword(e) ==
  IF e = Owner /\ tenant.exists THEN tenant.password ELSE members[e].exists

Login(r, e) ==
  /\ ~AtLimit(counters[e], Limit[e])
  /\ \/ HasPassword(e) /\ Begin(r, "verified", e, members[e].role, 0)
     \/ Begin(r, "count", e, "developer", 0)
  /\ UNCHANGED <<tenant, team, codes, oauth, counters, redis, taken>>

(* ClearLoginFailures; then the role of the owner's row, or "owner" when   *)
(* there is none.  loginAsMember has read the role before.                 *)
ClearLoginFailures(r) ==
  LET e == requests[r].on IN
  /\ Stands(r, "verified")
  /\ counters' = [counters EXCEPT ![e] = NoCounter]
  /\ requests' = [requests EXCEPT ![r].at = "create_session",
       ![r].role = IF e # Owner THEN @ ELSE IF members[e].exists THEN members[e].role ELSE "owner"]
  /\ UNCHANGED <<tenant, team, codes, oauth, redis, taken, pace>>

(* sessions.Create, one transaction.  When it fails, which is only logged, *)
(* the tokens that were handed out belong to no session: Abort.            *)
CreateSession(r) ==
  /\ Stands(r, "create_session")
  /\ \E s \in Sessions \ opened :
       /\ sessions' = [sessions EXCEPT ![s] = SessionCreated(requests[r].role, clock)]
       /\ index' = Indexed(index, s, clock)
       /\ opened' = opened \cup {s}
       /\ born' = [born EXCEPT ![s] = clock]
  /\ Answer(r)
  /\ UNCHANGED <<tenant, team, codes, oauth, counters, denied, closed, touched, taken>>

(* Register up to its first statement: nobody has the address. *)
Register(r) ==
  /\ ~tenant.exists
  /\ Begin(r, "create_tenant", Owner, "owner", 0)
  /\ UNCHANGED <<tenant, team, codes, oauth, counters, redis, taken>>

(* The unique key of tenants.email answers the second of two with an error. *)
CreateTenant(r) ==
  /\ Stands(r, "create_tenant")
  /\ IF tenant.exists THEN Answer(r) /\ UNCHANGED tenant
     ELSE Goto(r, "set_password") /\ tenant' = [tenant EXCEPT !.exists = TRUE]
  /\ UNCHANGED <<team, codes, oauth, counters, redis, taken>>

SetPassword(r) ==
  /\ Stands(r, "set_password")
  /\ tenant' = [tenant EXCEPT !.password = TRUE]
  /\ Goto(r, "backfill")
  /\ UNCHANGED <<team, codes, oauth, counters, redis, taken>>

BackfillOwner(r) ==
  /\ Stands(r, "backfill")
  /\ members' = IF members[Owner].exists THEN members
                ELSE [members EXCEPT ![Owner] = MemberCreated(@, "owner")]
  /\ Goto(r, "drop_codes")
  /\ UNCHANGED <<tenant, invitations, codes, oauth, counters, redis, taken>>

(* emailVerifications.Create: a DELETE of the unused codes ... *)
DropCodes(r) ==
  /\ Stands(r, "drop_codes")
  /\ codes' = [c \in Codes |-> IF c \in VerificationCodes /\ codes[c] # "used" THEN "absent" ELSE codes[c]]
  /\ Goto(r, "send_code")
  /\ UNCHANGED <<tenant, team, oauth, counters, redis, taken>>

(* ... and an INSERT. *)
SendCode(r) ==
  /\ Stands(r, "send_code")
  /\ \E c \in VerificationCodes : codes[c] = "absent" /\ codes' = [codes EXCEPT ![c] = "issued"]
  /\ IF requests[r].on = Owner THEN Goto(r, "create_session") ELSE Answer(r)
  /\ UNCHANGED <<tenant, team, oauth, counters, redis, taken>>

ResendVerification(r) ==
  /\ RequireRole(Roles)
  /\ ~tenant.verified
  /\ Begin(r, "drop_codes", Nothing, "developer", 0)
  /\ UNCHANGED <<tenant, team, codes, oauth, counters, redis, taken>>

VerifyEmail(r, c) ==
  /\ RequireRole(Roles)
  /\ codes[c] = "issued"
  /\ Begin(r, "mark_code", c, "developer", 0)
  /\ UNCHANGED <<tenant, team, codes, oauth, counters, redis, taken>>

MarkCode(r) ==
  LET c == requests[r].on IN
  /\ Stands(r, "mark_code")
  /\ codes' = IF codes[c] = "absent" THEN codes ELSE [codes EXCEPT ![c] = CodeUsed(@)]
  /\ Goto(r, "mark_verified")
  /\ UNCHANGED <<tenant, team, oauth, counters, redis, taken>>

MarkEmailVerified(r) ==
  /\ Stands(r, "mark_verified")
  /\ tenant' = [tenant EXCEPT !.verified = TRUE]
  /\ Answer(r)
  /\ UNCHANGED <<team, codes, oauth, counters, redis, taken>>

CodeExpires(c) ==
  /\ codes[c] = "issued"
  /\ codes' = [codes EXCEPT ![c] = "expired"]
  /\ UNCHANGED <<tenant, team, oauth, counters, redis, taken, requests, pace>>

-----------------------------------------------------------------------------
(* Sessions. *)

(* Mutant: Touch does not ask whether any time is left.                    *)
LeftOrLess(s) == InSeconds(sessions[s].until - clock)

(* The TTL of a session, zero when it is gone. *)
Left(s) == IF Active(s) THEN InSeconds(sessions[s].until - clock) ELSE 0

(* Refresh: a new access token, which is on no denylist; then Touch. *)
Refresh(r, s) ==
  /\ Active(s)
  /\ Begin(r, "touch_read", s, "developer", 0)
  /\ denied' = denied \ {s}
  /\ UNCHANGED <<tenant, team, codes, oauth, counters, sessions, index, opened, closed, born,
                 touched, taken>>

(* Touch reads the record and its TTL ... *)
TouchRead(r) ==
  LET left == Left(requests[r].on) IN
  /\ Stands(r, "touch_read")
  /\ IF left = 0 THEN Answer(r)
     ELSE /\ requests' = [requests EXCEPT ![r].at = "touch_write", ![r].read = left]
          /\ UNCHANGED pace
  /\ UNCHANGED <<tenant, team, codes, oauth, counters, redis, taken>>

(* ... and writes it, whatever became of the session. *)
TouchWrite(r) ==
  LET s == requests[r].on IN
  /\ Stands(r, "touch_write")
  /\ sessions' = [sessions EXCEPT ![s] = Touched(@, requests[r].read, clock)]
  /\ touched' = [touched EXCEPT ![s] = @ + 1]
  /\ Answer(r)
  /\ UNCHANGED <<tenant, team, codes, oauth, counters, index, denied, opened, closed, born, taken>>

(* tokens.RevokeSession, one transaction: DEL and SREM. *)
Revoked(s) ==
  /\ sessions' = [sessions EXCEPT ![s] = Gone(@)]
  /\ index' = Unindexed(index, s)
  /\ closed' = closed \cup {s}
  /\ UNCHANGED <<opened, born, touched>>

(* Logout denies the token it was called with ... *)
Logout(r, s) ==
  /\ Authorised(s)
  /\ Begin(r, "revoke", s, "developer", 0)
  /\ denied' = denied \cup {s}
  /\ UNCHANGED <<tenant, team, codes, oauth, counters, sessions, index, opened, closed, born,
                 touched, taken>>

(* ... and revokes the session.  When that fails it is only logged: Abort. *)
RevokeOnLogout(r) ==
  /\ Stands(r, "revoke")
  /\ Revoked(requests[r].on)
  /\ Answer(r)
  /\ UNCHANGED <<tenant, team, codes, oauth, counters, denied, taken>>

RevokeSession(s) ==
  /\ RequireRole({"owner"})
  /\ s \in opened
  /\ Arrive(s)
  /\ Revoked(s)
  /\ UNCHANGED <<tenant, team, codes, oauth, counters, denied, taken, requests>>

(* List drops the ids whose session is gone. *)
ListSessions ==
  /\ RequireRole(Roles)
  /\ index.until > clock
  /\ index' = [index EXCEPT !.ids = {s \in @ : Active(s)}]
  /\ UNCHANGED <<tenant, team, codes, oauth, counters, sessions, denied, opened, closed, born,
                 touched, taken, requests, pace>>

-----------------------------------------------------------------------------
(* The team. *)

InviteMember(r, e, role) ==
  /\ RequireRole({"owner"})
  /\ ~members[e].exists
  /\ Begin(r, "invite", e, role, 0)
  /\ UNCHANGED <<tenant, team, codes, oauth, counters, redis, taken>>

InsertInvitation(r) ==
  /\ Stands(r, "invite")
  /\ \E i \in Invitations :
       /\ invitations[i].state = "absent"
       /\ invitations' = [invitations EXCEPT ![i] = InvitationCreated(requests[r].on, requests[r].role)]
  /\ Answer(r)
  /\ UNCHANGED <<tenant, members, codes, oauth, counters, redis, taken>>

AcceptInvite(r, i) ==
  /\ invitations[i].state = "pending"
  /\ Begin(r, "join", i, "developer", 0)
  /\ UNCHANGED <<tenant, team, codes, oauth, counters, redis, taken>>

(* The unique key of members lets one of two INSERTs stand. *)
CreateMember(r) ==
  LET i == requests[r].on
      inv == invitations[i] IN
  /\ Stands(r, "join")
  /\ IF members[inv.email].exists THEN Answer(r) /\ UNCHANGED <<members, taken>>
     ELSE /\ members' = [members EXCEPT ![inv.email] = MemberCreated(@, inv.role)]
          /\ taken' = [taken EXCEPT ![i] = @ + 1]
          /\ Goto(r, "accept")
  /\ UNCHANGED <<tenant, invitations, codes, oauth, counters, redis>>

MarkAccepted(r) ==
  /\ Stands(r, "accept")
  /\ invitations' = [invitations EXCEPT ![requests[r].on] = InvitationAccepted(@)]
  /\ Answer(r)
  /\ UNCHANGED <<tenant, members, codes, oauth, counters, redis, taken>>

InvitationExpires(i) ==
  /\ invitations[i].state = "pending"
  /\ invitations' = [invitations EXCEPT ![i].state = "expired"]
  /\ UNCHANGED <<tenant, members, codes, oauth, counters, redis, taken, requests, pace>>

RevokeInvitation(i) ==
  /\ RequireRole({"owner"})
  /\ invitations[i].state \notin {"absent", "deleted"}
  /\ Arrive(i)
  /\ invitations' = [invitations EXCEPT ![i] = InvitationDeleted(@)]
  /\ UNCHANGED <<tenant, members, codes, oauth, counters, redis, taken, requests>>

(* Any member, the owner's row too. *)
UpdateMemberRole(e, role) ==
  /\ RequireRole({"owner"})
  /\ members[e].exists
  /\ Arrive(e)
  /\ members' = [members EXCEPT ![e] = WithRole(@, role)]
  /\ UNCHANGED <<tenant, invitations, codes, oauth, counters, redis, taken, requests>>

(* Mutant: the owner may be removed.                                       *)
AnyMember(e) == members[e].exists

Removable(e) == members[e].exists /\ members[e].role # "owner"

RemoveMember(r, e) ==
  /\ RequireRole({"owner"})
  /\ Removable(e)
  /\ Begin(r, "remove", e, "developer", members[e].id)
  /\ UNCHANGED <<tenant, team, codes, oauth, counters, redis, taken>>

DeleteMember(r) ==
  LET e == requests[r].on IN
  /\ Stands(r, "remove")
  /\ members' = [members EXCEPT ![e] = MemberDeleted(@, requests[r].read)]
  /\ Answer(r)
  /\ UNCHANGED <<tenant, invitations, codes, oauth, counters, redis, taken>>

-----------------------------------------------------------------------------
(* The login of a customer. *)

RequestOTP(r) ==
  /\ ~AtLimit(counters["otp_request"], Limit["otp_request"])
  /\ Begin(r, "count", "otp_request", "developer", 0)
  /\ UNCHANGED <<tenant, team, codes, oauth, counters, redis, taken>>

(* The address may be no customer's: the answer is the same. *)
IssueCode(r) ==
  /\ Stands(r, "issue_code")
  /\ \/ \E c \in PortalCodes : codes[c] = "absent" /\ codes' = [codes EXCEPT ![c] = "issued"]
     \/ UNCHANGED codes
  /\ Answer(r)
  /\ UNCHANGED <<tenant, team, oauth, counters, redis, taken>>

(* A code nobody issued, one that was used, one whose time is over. *)
GuessOTP(r) ==
  /\ ~AtLimit(counters["otp_verify"], Limit["otp_verify"])
  /\ Begin(r, "count", "otp_verify", "developer", 0)
  /\ UNCHANGED <<tenant, team, codes, oauth, counters, redis, taken>>

VerifyOTP(r, c) ==
  /\ ~AtLimit(counters["otp_verify"], Limit["otp_verify"])
  /\ codes[c] = "issued"
  /\ Begin(r, "exchange", c, "developer", 0)
  /\ UNCHANGED <<tenant, team, codes, oauth, counters, redis, taken>>

ClearVerifyFailures(r) ==
  /\ Stands(r, "exchange")
  /\ counters' = [counters EXCEPT !["otp_verify"] = NoCounter]
  /\ Goto(r, "mark_used")
  /\ UNCHANGED <<tenant, team, codes, oauth, redis, taken>>

(* MarkUsed, and the token. *)
MarkUsed(r) ==
  LET c == requests[r].on IN
  /\ Stands(r, "mark_used")
  /\ codes' = [codes EXCEPT ![c] = CodeUsed(@)]
  /\ taken' = [taken EXCEPT ![c] = @ + 1]
  /\ Answer(r)
  /\ UNCHANGED <<tenant, team, oauth, counters, redis>>

-----------------------------------------------------------------------------
(* OAuth clients. *)

CreateClient ==
  /\ RequireRole(Roles)
  /\ client = "absent"
  /\ Arrive(Client)
  /\ client' = ClientCreated
  /\ UNCHANGED <<tenant, team, codes, late, counters, redis, taken, requests>>

RevokeClient ==
  /\ RequireRole(Roles)
  /\ client # "absent"
  /\ Arrive(Client)
  /\ client' = ClientRevoked
  /\ UNCHANGED <<tenant, team, codes, late, counters, redis, taken, requests>>

ClientIsActive == client = "active"

IssueToken(r) ==
  /\ ClientIsActive
  /\ Begin(r, "issue", Client, "developer", 0)
  /\ UNCHANGED <<tenant, team, codes, oauth, counters, redis, taken>>

CreateToken(r) ==
  /\ Stands(r, "issue")
  /\ late' = IF client = "revoked" THEN late + 1 ELSE late
  /\ Answer(r)
  /\ UNCHANGED <<tenant, team, codes, client, counters, redis, taken>>

-----------------------------------------------------------------------------
(* Time and faults. *)

Tick ==
  /\ clock < MaxClock
  /\ clock' = clock + 1
  /\ contested' = contested \cup {requests[r].on : r \in {q \in Requests : Stands(q, "touch_write")}}
  /\ UNCHANGED <<tenant, team, codes, oauth, counters, redis, taken, requests, started, faults>>

(* The process stops, or the next statement fails and the handler returns. *)
Abort(r) ==
  /\ ~Stands(r, "idle")
  /\ faults < MaxFaults
  /\ faults' = faults + 1
  /\ requests' = [requests EXCEPT ![r] = NoRequest]
  /\ UNCHANGED <<tenant, team, codes, oauth, counters, redis, taken, contested, started, clock>>

(* The next statement fails and the handler goes on. *)
Skipped(r) ==
  CASE Stands(r, "backfill") -> "drop_codes"
    [] Stands(r, "drop_codes") -> "send_code"
    [] Stands(r, "send_code") /\ requests[r].on = Owner -> "create_session"
    [] Stands(r, "window") /\ requests[r].on = "otp_request" -> "issue_code"
    [] OTHER -> "idle"

IgnoredFailure(r) ==
  /\ faults < MaxFaults
  /\ faults' = faults + 1
  /\ \/ /\ Skipped(r) # "idle"
        /\ requests' = [requests EXCEPT ![r].at = Skipped(r)]
        /\ UNCHANGED taken
     \/ /\ Stands(r, "mark_used")
        /\ taken' = [taken EXCEPT ![requests[r].on] = @ + 1]
        /\ requests' = [requests EXCEPT ![r] = NoRequest]
  /\ UNCHANGED <<tenant, team, codes, oauth, counters, redis, contested, started, clock>>

-----------------------------------------------------------------------------

Accounts(r) ==
  \/ \E e \in Emails : Login(r, e)
  \/ ClearLoginFailures(r) \/ CreateSession(r)
  \/ Register(r) \/ CreateTenant(r) \/ SetPassword(r) \/ BackfillOwner(r)
  \/ DropCodes(r) \/ SendCode(r) \/ ResendVerification(r)
  \/ \E c \in VerificationCodes : VerifyEmail(r, c)
  \/ MarkCode(r) \/ MarkEmailVerified(r)
  \/ \E s \in Sessions : Refresh(r, s) \/ Logout(r, s)
  \/ TouchRead(r) \/ TouchWrite(r) \/ RevokeOnLogout(r)

Team(r) ==
  \/ \E e \in Emails : (\E role \in Roles : InviteMember(r, e, role)) \/ RemoveMember(r, e)
  \/ \E i \in Invitations : AcceptInvite(r, i)
  \/ InsertInvitation(r) \/ CreateMember(r) \/ MarkAccepted(r) \/ DeleteMember(r)

Grants(r) ==
  \/ Count(r) \/ Window(r)
  \/ RequestOTP(r) \/ IssueCode(r) \/ GuessOTP(r)
  \/ \E c \in PortalCodes : VerifyOTP(r, c)
  \/ ClearVerifyFailures(r) \/ MarkUsed(r)
  \/ IssueToken(r) \/ CreateToken(r)

AtOnce ==
  \/ \E s \in Sessions : RevokeSession(s)
  \/ ListSessions \/ CreateClient \/ RevokeClient
  \/ \E i \in Invitations : RevokeInvitation(i) \/ InvitationExpires(i)
  \/ \E e \in Emails, role \in Roles : UpdateMemberRole(e, role)
  \/ \E c \in Codes : CodeExpires(c)
  \/ \E k \in Counters : WindowEnds(k)

Next ==
  \/ \E r \in Requests : Accounts(r) \/ Team(r) \/ Grants(r) \/ Abort(r) \/ IgnoredFailure(r)
  \/ AtOnce
  \/ Tick

Spec == Init /\ [][Next]_vars

-----------------------------------------------------------------------------

(* Every variable holds what its Go type or key can hold.                  *)
TypeOK ==
  /\ tenant \in [exists : BOOLEAN, password : BOOLEAN, verified : BOOLEAN]
  /\ members \in [Emails -> Member]
  /\ invitations \in [Invitations -> Invitation]
  /\ codes \in [Codes -> CodeStates]
  /\ client \in ClientStates
  /\ late \in Nat
  /\ counters \in [Counters -> Counter]
  /\ sessions \in [Sessions -> Session]
  /\ index \in SessionIndex
  /\ {denied, opened, closed} \subseteq SUBSET Sessions
  /\ born \in [Sessions -> Nat]
  /\ touched \in [Sessions -> Nat]
  /\ taken \in [Invitations \cup PortalCodes -> Nat]
  /\ requests \in [Requests -> Request]
  /\ contested \subseteq Guarded
  /\ {started, clock, faults} \subseteq Nat

(* A session that was revoked lets nobody in again (auth.go:501, redis.go  *)
(* 274), unless a Touch was under way when it was revoked: redis.go:234    *)
(* writes the key back.                                                    *)
RevokedStaysRevoked == \A s \in closed \ contested : ~Active(s)

(* A session that lets somebody in is in the index, so the owner sees it   *)
(* and can revoke it: for sessionTTL after its login, the index outlives   *)
(* it (redis.go:209).                                                      *)
ActiveIsListed ==
  \A s \in Sessions \ contested :
    Active(s) /\ clock < born[s] + Ttl => s \in index.ids /\ index.until > clock

(* Refreshing prolongs a session by no more than Redis rounds: its key,    *)
(* and with it the role its tokens claim, ends sessionTTL after the login  *)
(* and half a second for each Touch (redis.go:226, which reads the TTL in  *)
(* whole seconds).                                                         *)
LoginsExpire ==
  \A s \in Sessions \ contested :
    Active(s) => clock < born[s] + Ttl + touched[s] * (Second \div 2)

(* Without a failed statement an invitation makes one member and a login   *)
(* code gives one token, unless two requests present it at the same time.  *)
CredentialsOpenOnce == faults = 0 => \A x \in DOMAIN taken \ contested : taken[x] <= 1

(* Reading the counter and raising it are two commands (auth.go:141,       *)
(* portal_auth.go:74 and 139): the limit is passed by at most the other    *)
(* requests that are being served.                                         *)
AttemptsAreCapped ==
  \A k \in Counters : counters[k].count < Limit[k] + Cardinality(Requests)

(* Without a lost EXPIRE a counter that counts ends by itself: no address  *)
(* stays locked for ever (redis.go:83).                                    *)
FailuresExpire ==
  faults = 0 =>
    \A k \in Counters : counters[k].count > 0 =>
      \/ counters[k].timed
      \/ \E r \in Requests : Stands(r, "window") /\ requests[r].on = k

(* After a client was revoked no token is issued for it (oauth.go:118      *)
(* promises no more than that), unless its issuing was already under way.  *)
NoTokenAfterRevocation == late > 0 => Client \in contested

(* No step deletes the row of an owner (team.go:213), unless the row was   *)
(* made an owner's between the check and the DELETE.                       *)
OwnersAreNotRemoved ==
  [][\A e \in Emails \ contested :
       members[e].exists /\ members[e].role = "owner" => members'[e].exists]_vars

=============================================================================
