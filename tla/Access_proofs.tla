---------------------------- MODULE Access_proofs ----------------------------
(***************************************************************************)
(* Proofs about Access, for any number of requests, addresses, sessions,   *)
(* codes and faults.  Three lemmas describe every step once: where its     *)
(* request stood and stands (Shape), which action may write which variable *)
(* (Writers), and that an object on which no requests overlapped is in the *)
(* hands of one request at most (Alone).  The invariants follow from them, *)
(* each by the few actions that write what it is about.                    *)
(***************************************************************************)
EXTENDS Access, FiniteSetTheorems, TLAPS

(* What a request at each step works on. *)
Belongs(at, on) ==
  /\ at \in {"touch_read", "touch_write", "revoke"} => on \in Sessions
  /\ at \in {"join", "accept"} => on \in Invitations
  /\ at \in {"exchange", "mark_used"} => on \in PortalCodes
  /\ at \in {"count", "window"} => on \in Counters
  /\ at = "issue_code" => on = "otp_request"
  /\ at \in {"verified", "invite", "remove"} => on \in Emails
  /\ at = "issue" => on = Client
  /\ at = "mark_code" => on \in VerificationCodes

Where == \A r \in Requests : Belongs(requests[r].at, requests[r].on)

Typed == TypeOK /\ Where

(* What TypeOK says of the requests and of their pace. *)
PaceOK ==
  /\ requests \in [Requests -> Request]
  /\ contested \subseteq Guarded
  /\ {started, clock, faults} \subseteq Nat

(* What it says of the rows and the keys. *)
StoreOK ==
  /\ tenant \in [exists : BOOLEAN, password : BOOLEAN, verified : BOOLEAN]
  /\ members \in [Emails -> Member]
  /\ invitations \in [Invitations -> Invitation]
  /\ codes \in [Codes -> CodeStates]
  /\ client \in ClientStates
  /\ late \in Nat
  /\ counters \in [Counters -> Counter]
  /\ sessions \in [Sessions -> Session]
  /\ index \in SessionIndex
  /\ {denied, opened, closed} \subseteq SUBSET Sessions
  /\ born \in [Sessions -> Nat]
  /\ touched \in [Sessions -> Nat]
  /\ taken \in [Invitations \cup PortalCodes -> Nat]

Others(r) == \A q \in Requests : q # r => requests'[q] = requests[q]

(* Request r is there and goes on to the step at. *)
Moves(r, at) ==
  /\ Others(r)
  /\ requests'[r] \in Request
  /\ requests'[r].at = at
  /\ requests'[r].on = requests[r].on
  /\ requests'[r].role = requests[r].role
  /\ requests'[r].read = requests[r].read

(* Request r is over. *)
Ends(r) == Others(r) /\ requests'[r] = NoRequest

(* Request r arrives and works on x. *)
Comes(r, at, x, role, read) ==
  /\ requests[r].at = "idle"
  /\ Others(r)
  /\ requests'[r] = [at |-> at, on |-> x, role |-> role, read |-> read]
  /\ contested' = IF x \in Guarded /\ Busy(x) THEN contested \cup {x} ELSE contested
  /\ UNCHANGED <<clock, faults>>

(* What is known of a request that arrives at a step, and which step comes *)
(* after which: the steps the invariants speak of.                         *)
AtStart(at, x, read) ==
  /\ at \notin {"touch_write", "accept", "mark_used", "window"}
  /\ at = "issue" => client = "active"
  /\ at = "touch_read" => Active(x)
  /\ at = "revoke" => Active(x)
  /\ at = "remove" => Removable(x) /\ read = members[x].id
  /\ at = "join" => invitations[x].state = "pending"
  /\ at = "exchange" => codes[x] = "issued"
  /\ at = "count" => ~AtLimit(counters[x], Limit[x])

Follows(from, to) ==
  /\ to \notin {"idle", "issue", "touch_read", "revoke", "remove", "join", "exchange", "count"}
  /\ to = "accept" => from = "join"
  /\ to = "mark_used" => from = "exchange"
  /\ to = "window" => from = "count"

Starts(r) ==
  LET q == requests'[r] IN
  /\ requests[r].at = "idle"
  /\ Others(r)
  /\ q.on \in Guarded /\ Busy(q.on) => q.on \in contested'
  /\ AtStart(q.at, q.on, q.read)

Continues(r) ==
  LET p == requests[r]
      q == requests'[r] IN
  /\ p.at # "idle"
  /\ Others(r)
  /\ q.on = p.on
  /\ Follows(p.at, q.at)
  /\ q.at = "touch_write" => p.at = "touch_read" /\ q.read = Left(p.on) /\ Left(p.on) # 0

(* How a step changes the requests. *)
Shape ==
  /\ contested \subseteq contested'
  /\ clock <= clock'
  /\ faults <= faults'
  /\ \/ UNCHANGED requests
     \/ \E r \in Requests : Starts(r) \/ Continues(r) \/ Ends(r)

-----------------------------------------------------------------------------

LEMMA TypeParts == (TypeOK <=> PaceOK /\ StoreOK) /\ (TypeOK' <=> PaceOK' /\ StoreOK')
BY DEF TypeOK, PaceOK, StoreOK

(* What each variable holds stays what it can hold.                        *)
LEMMA Untouched ==
  ASSUME StoreOK, UNCHANGED <<tenant, team, codes, oauth, counters, redis, taken>>
  PROVE  StoreOK'
BY DEF StoreOK, team, oauth, redis

LEMMA NoRequestIsOne ==
  NoRequest \in Request /\ NoRequest.at = "idle" /\ NoRequest.on = Nothing
BY DEF NoRequest, Request, Steps, Objects, Roles

LEMMA BeginDoes ==
  ASSUME PaceOK, NEW r \in Requests, NEW at \in Steps, NEW x \in Objects,
         NEW role \in Roles, NEW read \in Nat, Begin(r, at, x, role, read)
  PROVE  PaceOK' /\ Comes(r, at, x, role, read)
<1> DEFINE q == [at |-> at, on |-> x, role |-> role, read |-> read]
<1>1. q \in Request
  BY DEF Request
<1>2. requests' = [requests EXCEPT ![r] = q]
  BY DEF Begin
<1>3. requests[r].at = "idle"
  BY DEF Begin
<1>4. /\ started' = started + 1
      /\ contested' = IF x \in Guarded /\ Busy(x) THEN contested \cup {x} ELSE contested
      /\ UNCHANGED <<clock, faults>>
  BY DEF Begin, Arrive
<1> HIDE DEF q
<1>5. requests' \in [Requests -> Request] /\ Others(r) /\ requests'[r] = q
  BY <1>1, <1>2 DEF PaceOK, Others
<1>6. PaceOK'
  BY <1>4, <1>5 DEF PaceOK
<1> QED
  BY <1>3, <1>4, <1>5, <1>6 DEF Comes, q

LEMMA GotoDoes ==
  ASSUME PaceOK, NEW r \in Requests, NEW at \in Steps, Goto(r, at)
  PROVE  PaceOK' /\ Moves(r, at) /\ UNCHANGED pace
<1> DEFINE q == [requests[r] EXCEPT !.at = at]
<1>1. /\ q \in Request /\ q.at = at /\ q.on = requests[r].on
      /\ q.role = requests[r].role /\ q.read = requests[r].read
  BY DEF PaceOK, Request
<1>2. requests' = [requests EXCEPT ![r] = q] /\ UNCHANGED pace
  BY DEF Goto
<1> HIDE DEF q
<1>3. requests' \in [Requests -> Request] /\ Others(r) /\ requests'[r] = q
  BY <1>1, <1>2 DEF PaceOK, Others
<1> QED
  BY <1>1, <1>2, <1>3 DEF PaceOK, Moves, pace

LEMMA EndDoes ==
  ASSUME PaceOK, NEW r \in Requests, requests' = [requests EXCEPT ![r] = NoRequest]
  PROVE  requests' \in [Requests -> Request] /\ Ends(r)
BY NoRequestIsOne DEF PaceOK, Ends, Others

LEMMA AnswerDoes ==
  ASSUME PaceOK, NEW r \in Requests, Answer(r)
  PROVE  PaceOK' /\ Ends(r) /\ UNCHANGED pace
BY EndDoes DEF PaceOK, Answer, pace

LEMMA WhereKept ==
  ASSUME Where, NEW r \in Requests, Others(r), Belongs(requests'[r].at, requests'[r].on)
  PROVE  Where'
BY DEF Where, Others, Belongs

(* What Redis answers to TTL is at most half a second too much.            *)
LEMMA Quotient ==
  ASSUME NEW a \in Nat, NEW b \in Nat \ {0}
  PROVE  a \div b \in Nat /\ b * (a \div b) <= a
OBVIOUS

LEMMA Rounding ==
  ASSUME NEW t \in Nat
  PROVE  Second \div 2 \in Nat /\ InSeconds(t) \in Nat /\ InSeconds(t) <= t + Second \div 2
<1> DEFINE q == (t + Second \div 2) \div Second
<1>1. Second \div 2 \in Nat /\ Second \in Nat \ {0}
  BY StoreAssumption
<1>2. q \in Nat /\ Second * q <= t + Second \div 2
  BY <1>1, Quotient
<1>3. Second * q \in Nat
  BY <1>1, <1>2
<1> QED
  BY <1>1, <1>2, <1>3 DEF InSeconds

LEMMA LeftIsRounded ==
  ASSUME sessions \in [Sessions -> Session], clock \in Nat, NEW s \in Sessions
  PROVE  /\ Left(s) \in Nat
         /\ Left(s) # 0 => Active(s) /\ clock + Left(s) <= sessions[s].until + Second \div 2
<1>1. sessions[s].until \in Nat
  BY DEF Session
<1>2. CASE Active(s)
  <2>1. sessions[s].until - clock \in Nat
    BY <1>1, <1>2 DEF Active, IsActive
  <2>2. Left(s) = InSeconds(sessions[s].until - clock)
    BY <1>2 DEF Left
  <2> QED
    BY <1>1, <1>2, <2>1, <2>2, Rounding
<1>3. CASE ~Active(s)
  BY <1>3 DEF Left
<1> QED
  BY <1>2, <1>3

(* Five ways to keep the requests' types and the shape of a step.          *)
LEMMA Starting ==
  ASSUME Typed, NEW r \in Requests, NEW at \in Steps, NEW x \in Objects,
         NEW role \in Roles, NEW read \in Nat, Begin(r, at, x, role, read),
         Belongs(at, x), AtStart(at, x, read)
  PROVE  PaceOK' /\ Where' /\ Shape
<1>1. PaceOK
  BY TypeParts DEF Typed
<1>2. PaceOK' /\ Comes(r, at, x, role, read)
  BY <1>1, BeginDoes
<1>3. /\ Others(r) /\ requests[r].at = "idle"
      /\ requests'[r].at = at /\ requests'[r].on = x /\ requests'[r].read = read
      /\ contested' = IF x \in Guarded /\ Busy(x) THEN contested \cup {x} ELSE contested
      /\ clock' = clock /\ faults' = faults
  BY <1>2 DEF Comes
<1>4. Where'
  BY <1>3, WhereKept DEF Typed
<1>5. Starts(r)
  BY <1>3 DEF Starts
<1>6. contested \subseteq contested' /\ clock <= clock' /\ faults <= faults'
  BY <1>1, <1>3 DEF PaceOK
<1> QED
  BY <1>2, <1>4, <1>5, <1>6 DEF Shape

LEMMA Going ==
  ASSUME Typed, NEW r \in Requests, NEW at \in Steps, Goto(r, at),
         requests[r].at # "idle", Belongs(at, requests[r].on),
         Follows(requests[r].at, at), at # "touch_write"
  PROVE  PaceOK' /\ Where' /\ Shape
<1>1. PaceOK
  BY TypeParts DEF Typed
<1>2. PaceOK' /\ Moves(r, at) /\ UNCHANGED pace
  BY <1>1, GotoDoes
<1>3. Where'
  BY <1>2, WhereKept DEF Typed, Moves
<1>4. Continues(r)
  BY <1>2 DEF Continues, Moves
<1> QED
  BY <1>1, <1>2, <1>3, <1>4 DEF Shape, pace, PaceOK

LEMMA Ending ==
  ASSUME Typed, NEW r \in Requests, requests' = [requests EXCEPT ![r] = NoRequest],
         UNCHANGED <<contested, started, clock>>, faults' \in Nat, faults <= faults'
  PROVE  PaceOK' /\ Where' /\ Shape
<1>1. PaceOK
  BY TypeParts DEF Typed
<1>2. requests' \in [Requests -> Request] /\ Ends(r)
  BY <1>1, EndDoes
<1>3. Belongs("idle", Nothing)
  BY DEF Belongs
<1>4. Where'
  BY <1>2, <1>3, WhereKept, NoRequestIsOne DEF Typed, Ends
<1> QED
  BY <1>1, <1>2, <1>4 DEF Shape, PaceOK

LEMMA Answering ==
  ASSUME Typed, NEW r \in Requests, Answer(r)
  PROVE  PaceOK' /\ Where' /\ Shape
<1>1. UNCHANGED <<contested, started, clock, faults>> /\ faults \in Nat
  BY DEF Answer, pace, Typed, TypeOK
<1>2. faults' \in Nat /\ faults <= faults'
  BY <1>1
<1> QED
  BY <1>1, <1>2, Ending DEF Answer

LEMMA Arriving ==
  ASSUME Typed, NEW x \in Objects, Arrive(x), UNCHANGED requests
  PROVE  PaceOK' /\ Where' /\ Shape
BY TypeParts DEF Typed, Arrive, PaceOK, Where, Shape

LEMMA Staying ==
  ASSUME Typed, UNCHANGED <<requests, pace>>
  PROVE  PaceOK' /\ Where' /\ Shape
BY TypeParts DEF Typed, pace, PaceOK, Where, Shape

(* DEL and SREM keep the types. *)
LEMMA RevokedTypes ==
  ASSUME StoreOK, NEW s \in Sessions, Revoked(s)
  PROVE  /\ sessions' \in [Sessions -> Session] /\ index' \in SessionIndex
         /\ {opened', closed'} \subseteq SUBSET Sessions
         /\ born' \in [Sessions -> Nat] /\ touched' \in [Sessions -> Nat]
<1>1. \A x \in Session : Gone(x) \in Session
  BY DEF Gone, Session
<1>2. index' \in SessionIndex
  BY DEF Revoked, Unindexed, StoreOK, SessionIndex
<1> QED
  BY <1>1, <1>2 DEF Revoked, StoreOK

(* The steps of registration, login and sessions.                          *)
LEMMA AccountsDo ==
  ASSUME Typed, NEW r \in Requests, Accounts(r)
  PROVE  Typed' /\ Shape
<1> USE DEF Typed
<1>1. PaceOK /\ StoreOK
  BY TypeParts
<1>2. CASE \E e \in Emails : Login(r, e)
  <2>0. PICK e \in Emails : Login(r, e)
    BY <1>2
  <2>1. PaceOK' /\ Where' /\ Shape
    <3>1. ~AtLimit(counters[e], Limit[e])
      BY <2>0 DEF Login
    <3>2. /\ e \in Objects /\ {"verified", "count"} \subseteq Steps /\ 0 \in Nat
          /\ members[e].role \in Roles /\ "developer" \in Roles
      BY <1>1 DEF Objects, Guarded, Steps, StoreOK, Member, Roles
    <3>3. Belongs("verified", e) /\ Belongs("count", e)
      BY DEF Belongs, Counters
    <3>4. AtStart("verified", e, 0) /\ AtStart("count", e, 0)
      BY <3>1 DEF AtStart
    <3>5. CASE Begin(r, "verified", e, members[e].role, 0)
      BY <3>2, <3>3, <3>4, <3>5, Starting
    <3>6. CASE Begin(r, "count", e, "developer", 0)
      BY <3>2, <3>3, <3>4, <3>6, Starting
    <3> QED
      BY <2>0, <3>5, <3>6 DEF Login
  <2>2. StoreOK'
    BY <1>1, <2>0, Untouched DEF Login
  <2> QED
    BY <2>1, <2>2, TypeParts
<1>3. CASE ClearLoginFailures(r)
  <2>1. PaceOK' /\ Where' /\ Shape
    <3> DEFINE e == requests[r].on
               role == IF e # Owner THEN requests[r].role ELSE IF members[e].exists THEN members[e].role ELSE "owner"
               q == [requests[r] EXCEPT !.at = "create_session", !.role = role]
    <3>1. requests[r].at = "verified" /\ e \in Emails
      BY <1>3 DEF ClearLoginFailures, Stands, Where, Belongs
    <3>2. role \in Roles
      BY <1>1, <3>1 DEF PaceOK, StoreOK, Request, Member, Roles
    <3>3. requests' = [requests EXCEPT ![r] = q] /\ UNCHANGED pace
      BY <1>3 DEF ClearLoginFailures
    <3> HIDE DEF role
    <3>4. q \in Request /\ q.at = "create_session" /\ q.on = e
      BY <1>1, <3>2 DEF PaceOK, Request, Steps
    <3> HIDE DEF q
    <3>5. Others(r) /\ requests'[r] = q /\ requests' \in [Requests -> Request]
      BY <1>1, <3>3, <3>4 DEF PaceOK, Others
    <3>6. Where'
      BY <3>4, <3>5, WhereKept DEF Belongs
    <3>7. Continues(r)
      BY <3>1, <3>4, <3>5 DEF Continues, Follows
    <3> QED
      BY <1>1, <3>3, <3>5, <3>6, <3>7 DEF PaceOK, Shape, pace
  <2>2. StoreOK'
    BY <1>1, <1>3 DEF ClearLoginFailures, StoreOK, team, oauth, redis, NoCounter, Counter
  <2> QED
    BY <2>1, <2>2, TypeParts
<1>4. CASE CreateSession(r)
  <2>1. PaceOK' /\ Where' /\ Shape
    BY <1>4, Answering DEF CreateSession
  <2>2. StoreOK'
    <3>1. PICK s \in Sessions \ opened :
            /\ sessions' = [sessions EXCEPT ![s] = SessionCreated(requests[r].role, clock)]
            /\ index' = Indexed(index, s, clock)
            /\ opened' = opened \cup {s}
            /\ born' = [born EXCEPT ![s] = clock]
      BY <1>4 DEF CreateSession
    <3>2. SessionCreated(requests[r].role, clock) \in Session
      BY <1>1, StoreAssumption DEF PaceOK, Request, SessionCreated, Session
    <3>3. index' \in SessionIndex
      BY <1>1, <3>1, StoreAssumption DEF PaceOK, StoreOK, Indexed, SessionIndex
    <3>4. sessions' \in [Sessions -> Session] /\ opened' \in SUBSET Sessions /\ born' \in [Sessions -> Nat]
      BY <1>1, <3>1, <3>2 DEF PaceOK, StoreOK
    <3> QED
      BY <1>1, <1>4, <3>3, <3>4 DEF CreateSession, StoreOK, team, oauth
  <2> QED
    BY <2>1, <2>2, TypeParts
<1>5. CASE Register(r)
  <2>1. PaceOK' /\ Where' /\ Shape
    <3>1. Begin(r, "create_tenant", Owner, "owner", 0) /\ AtStart("create_tenant", Owner, 0) /\ Belongs("create_tenant", Owner)
      BY <1>5, AccessAssumption DEF Register, AtStart, Belongs
    <3>2. "create_tenant" \in Steps /\ Owner \in Objects /\ "owner" \in Roles /\ 0 \in Nat
      BY <1>5, AccessAssumption DEF Steps, Objects, Guarded, Counters, Roles
    <3> QED
      BY <3>1, <3>2, Starting
  <2>2. StoreOK'
    BY <1>1, <1>5, Untouched DEF Register
  <2> QED
    BY <2>1, <2>2, TypeParts
<1>6. CASE CreateTenant(r)
  <2>1. PaceOK' /\ Where' /\ Shape
    <3>1. CASE Answer(r)
      BY <3>1, Answering
    <3>2. CASE Goto(r, "set_password")
      <4>1. requests[r].at = "create_tenant"
        BY <1>6 DEF CreateTenant, Stands
      <4> QED
        BY <3>2, <4>1, Going DEF Follows, Belongs, Steps
    <3> QED
      BY <1>6, <3>1, <3>2 DEF CreateTenant
  <2>2. StoreOK'
    BY <1>1, <1>6 DEF CreateTenant, StoreOK, team, oauth, redis
  <2> QED
    BY <2>1, <2>2, TypeParts
<1>7. CASE SetPassword(r)
  <2>1. PaceOK' /\ Where' /\ Shape
    <3>1. Goto(r, "backfill") /\ requests[r].at = "set_password" /\ Follows("set_password", "backfill") /\ "backfill" \in Steps
      BY <1>7 DEF SetPassword, Stands, Follows, Steps
    <3>2. Belongs("backfill", requests[r].on)
      BY <3>1 DEF Where, Belongs
    <3> QED
      BY <3>1, <3>2, Going
  <2>2. StoreOK'
    BY <1>1, <1>7 DEF SetPassword, StoreOK, team, oauth, redis
  <2> QED
    BY <2>1, <2>2, TypeParts
<1>8. CASE BackfillOwner(r)
  <2>1. PaceOK' /\ Where' /\ Shape
    <3>1. Goto(r, "drop_codes") /\ requests[r].at = "backfill" /\ Follows("backfill", "drop_codes") /\ "drop_codes" \in Steps
      BY <1>8 DEF BackfillOwner, Stands, Follows, Steps
    <3>2. Belongs("drop_codes", requests[r].on)
      BY <3>1 DEF Where, Belongs
    <3> QED
      BY <3>1, <3>2, Going
  <2>2. StoreOK'
    <3>1. \A m \in Member : MemberCreated(m, "owner") \in Member
      BY DEF Member, MemberCreated, Roles
    <3> QED
      BY <1>1, <1>8, <3>1 DEF BackfillOwner, StoreOK, oauth, redis
  <2> QED
    BY <2>1, <2>2, TypeParts
<1>9. CASE DropCodes(r)
  <2>1. PaceOK' /\ Where' /\ Shape
    <3>1. Goto(r, "send_code") /\ requests[r].at = "drop_codes" /\ Follows("drop_codes", "send_code") /\ "send_code" \in Steps
      BY <1>9 DEF DropCodes, Stands, Follows, Steps
    <3>2. Belongs("send_code", requests[r].on)
      BY <3>1 DEF Where, Belongs
    <3> QED
      BY <3>1, <3>2, Going
  <2>2. StoreOK'
    BY <1>1, <1>9 DEF DropCodes, StoreOK, team, oauth, redis, CodeStates
  <2> QED
    BY <2>1, <2>2, TypeParts
<1>10. CASE SendCode(r)
  <2>1. PaceOK' /\ Where' /\ Shape
    <3>1. CASE Answer(r)
      BY <3>1, Answering
    <3>2. CASE Goto(r, "create_session")
      <4>1. requests[r].at = "send_code"
        BY <1>10 DEF SendCode, Stands
      <4> QED
        BY <3>2, <4>1, Going DEF Follows, Belongs, Steps
    <3> QED
      BY <1>10, <3>1, <3>2 DEF SendCode
  <2>2. StoreOK'
    BY <1>1, <1>10 DEF SendCode, StoreOK, team, oauth, redis, CodeStates, Codes
  <2> QED
    BY <2>1, <2>2, TypeParts
<1>11. CASE ResendVerification(r)
  <2>1. PaceOK' /\ Where' /\ Shape
    <3>1. Begin(r, "drop_codes", Nothing, "developer", 0) /\ AtStart("drop_codes", Nothing, 0) /\ Belongs("drop_codes", Nothing)
      BY <1>11, AccessAssumption DEF ResendVerification, AtStart, Belongs
    <3>2. "drop_codes" \in Steps /\ Nothing \in Objects /\ "developer" \in Roles /\ 0 \in Nat
      BY <1>11, AccessAssumption DEF Steps, Objects, Guarded, Counters, Roles
    <3> QED
      BY <3>1, <3>2, Starting
  <2>2. StoreOK'
    BY <1>1, <1>11, Untouched DEF ResendVerification
  <2> QED
    BY <2>1, <2>2, TypeParts
<1>12. CASE \E c \in VerificationCodes : VerifyEmail(r, c)
  <2>0. PICK c \in VerificationCodes : VerifyEmail(r, c)
    BY <1>12
  <2>1. PaceOK' /\ Where' /\ Shape
    <3>1. Begin(r, "mark_code", c, "developer", 0) /\ AtStart("mark_code", c, 0) /\ Belongs("mark_code", c)
      BY <2>0, AccessAssumption DEF VerifyEmail, AtStart, Belongs
    <3>2. "mark_code" \in Steps /\ c \in Objects /\ "developer" \in Roles /\ 0 \in Nat
      BY <2>0, AccessAssumption DEF Steps, Objects, Guarded, Counters, Roles
    <3> QED
      BY <3>1, <3>2, Starting
  <2>2. StoreOK'
    BY <1>1, <2>0, Untouched DEF VerifyEmail
  <2> QED
    BY <2>1, <2>2, TypeParts
<1>13. CASE MarkCode(r)
  <2>1. PaceOK' /\ Where' /\ Shape
    <3>1. Goto(r, "mark_verified") /\ requests[r].at = "mark_code" /\ Follows("mark_code", "mark_verified") /\ "mark_verified" \in Steps
      BY <1>13 DEF MarkCode, Stands, Follows, Steps
    <3>2. Belongs("mark_verified", requests[r].on)
      BY <3>1 DEF Where, Belongs
    <3> QED
      BY <3>1, <3>2, Going
  <2>2. StoreOK'
    BY <1>1, <1>13 DEF MarkCode, StoreOK, team, oauth, redis, CodeUsed, CodeStates
  <2> QED
    BY <2>1, <2>2, TypeParts
<1>14. CASE MarkEmailVerified(r)
  <2>1. PaceOK' /\ Where' /\ Shape
    BY <1>14, Answering DEF MarkEmailVerified
  <2>2. StoreOK'
    BY <1>1, <1>14 DEF MarkEmailVerified, StoreOK, team, oauth, redis
  <2> QED
    BY <2>1, <2>2, TypeParts
<1>15. CASE \E s \in Sessions : Refresh(r, s)
  <2>0. PICK s \in Sessions : Refresh(r, s)
    BY <1>15
  <2>1. PaceOK' /\ Where' /\ Shape
    <3>1. Begin(r, "touch_read", s, "developer", 0) /\ AtStart("touch_read", s, 0) /\ Belongs("touch_read", s)
      BY <2>0, AccessAssumption DEF Refresh, AtStart, Belongs
    <3>2. "touch_read" \in Steps /\ s \in Objects /\ "developer" \in Roles /\ 0 \in Nat
      BY <2>0, AccessAssumption DEF Steps, Objects, Guarded, Counters, Roles
    <3> QED
      BY <3>1, <3>2, Starting
  <2>2. StoreOK'
    BY <1>1, <2>0 DEF Refresh, StoreOK, team, oauth
  <2> QED
    BY <2>1, <2>2, TypeParts
<1>16. CASE \E s \in Sessions : Logout(r, s)
  <2>0. PICK s \in Sessions : Logout(r, s)
    BY <1>16
  <2>1. PaceOK' /\ Where' /\ Shape
    <3>1. Begin(r, "revoke", s, "developer", 0) /\ AtStart("revoke", s, 0) /\ Belongs("revoke", s)
      BY <2>0, AccessAssumption DEF Logout, AtStart, Belongs, Authorised
    <3>2. "revoke" \in Steps /\ s \in Objects /\ "developer" \in Roles /\ 0 \in Nat
      BY <2>0, AccessAssumption DEF Steps, Objects, Guarded, Counters, Roles, Authorised
    <3> QED
      BY <3>1, <3>2, Starting
  <2>2. StoreOK'
    BY <1>1, <2>0 DEF Logout, StoreOK, team, oauth
  <2> QED
    BY <2>1, <2>2, TypeParts
<1>17. CASE TouchRead(r)
  <2>1. PaceOK' /\ Where' /\ Shape
    <3> DEFINE s == requests[r].on
               q == [requests[r] EXCEPT !.at = "touch_write", !.read = Left(s)]
    <3>1. requests[r].at = "touch_read" /\ s \in Sessions
      BY <1>17 DEF TouchRead, Stands, Where, Belongs
    <3>2. Left(s) \in Nat
      BY <1>1, <3>1, LeftIsRounded DEF StoreOK, PaceOK
    <3>3. CASE Answer(r)
      BY <3>3, Answering
    <3>4. CASE Left(s) # 0 /\ requests' = [requests EXCEPT ![r] = q] /\ UNCHANGED pace
      <4>1. q \in Request /\ q.at = "touch_write" /\ q.on = s /\ q.read = Left(s)
        BY <1>1, <3>2 DEF PaceOK, Request, Steps
      <4>2. requests' = [requests EXCEPT ![r] = q] /\ UNCHANGED pace /\ Left(s) # 0
        BY <3>4
      <4> HIDE DEF q
      <4>3. Others(r) /\ requests'[r] = q /\ requests' \in [Requests -> Request]
        BY <1>1, <4>1, <4>2 DEF PaceOK, Others
      <4>4. Where'
        BY <3>1, <4>1, <4>3, WhereKept DEF Belongs
      <4>5. Continues(r)
        BY <3>1, <4>1, <4>2, <4>3 DEF Continues, Follows
      <4> QED
        BY <1>1, <4>2, <4>3, <4>4, <4>5 DEF PaceOK, Shape, pace
    <3> QED
      BY <1>17, <3>3, <3>4 DEF TouchRead
  <2>2. StoreOK'
    BY <1>1, <1>17, Untouched DEF TouchRead
  <2> QED
    BY <2>1, <2>2, TypeParts
<1>18. CASE TouchWrite(r)
  <2>1. PaceOK' /\ Where' /\ Shape
    BY <1>18, Answering DEF TouchWrite
  <2>2. StoreOK'
    <3>1. requests[r].read \in Nat /\ clock \in Nat
      BY <1>1 DEF PaceOK, Request
    <3>2. \A x \in Session : Touched(x, requests[r].read, clock) \in Session
      BY <3>1 DEF Touched, Session
    <3>3. touched' \in [Sessions -> Nat]
      <4>1. \A s \in Sessions : touched[s] + 1 \in Nat
        BY <1>1 DEF StoreOK
      <4> QED
        BY <1>1, <1>18, <4>1 DEF TouchWrite, StoreOK
    <3> QED
      BY <1>1, <1>18, <3>2, <3>3 DEF TouchWrite, StoreOK, team, oauth
  <2> QED
    BY <2>1, <2>2, TypeParts
<1>19. CASE RevokeOnLogout(r)
  <2>1. PaceOK' /\ Where' /\ Shape
    BY <1>19, Answering DEF RevokeOnLogout
  <2>2. StoreOK'
    <3>1. requests[r].on \in Sessions /\ Revoked(requests[r].on)
      BY <1>19 DEF RevokeOnLogout, Stands, Where, Belongs
    <3>2. /\ sessions' \in [Sessions -> Session] /\ index' \in SessionIndex
          /\ {opened', closed'} \subseteq SUBSET Sessions
          /\ born' \in [Sessions -> Nat] /\ touched' \in [Sessions -> Nat]
      BY <1>1, <3>1, RevokedTypes
    <3> QED
      BY <1>1, <1>19, <3>2 DEF RevokeOnLogout, StoreOK, team, oauth
  <2> QED
    BY <2>1, <2>2, TypeParts
<1> QED
  BY <1>2, <1>3, <1>4, <1>5, <1>6, <1>7, <1>8, <1>9, <1>10, <1>11, <1>12, <1>13, <1>14, <1>15, <1>16, <1>17, <1>18, <1>19 DEF Accounts

(* The steps of the team.                                                  *)
LEMMA TeamDoes ==
  ASSUME Typed, NEW r \in Requests, Team(r)
  PROVE  Typed' /\ Shape
<1> USE DEF Typed
<1>1. PaceOK /\ StoreOK
  BY TypeParts
<1>2. CASE \E e \in Emails, role \in Roles : InviteMember(r, e, role)
  <2>0. PICK e \in Emails, role \in Roles : InviteMember(r, e, role)
    BY <1>2
  <2>1. PaceOK' /\ Where' /\ Shape
    <3>1. Begin(r, "invite", e, role, 0) /\ AtStart("invite", e, 0) /\ Belongs("invite", e)
      BY <2>0, AccessAssumption DEF InviteMember, AtStart, Belongs
    <3>2. "invite" \in Steps /\ e \in Objects /\ role \in Roles /\ 0 \in Nat
      BY <2>0, AccessAssumption DEF Steps, Objects, Guarded, Counters, Roles
    <3> QED
      BY <3>1, <3>2, Starting
  <2>2. StoreOK'
    BY <1>1, <2>0, Untouched DEF InviteMember
  <2> QED
    BY <2>1, <2>2, TypeParts
<1>3. CASE \E e \in Emails : RemoveMember(r, e)
  <2>0. PICK e \in Emails : RemoveMember(r, e)
    BY <1>3
  <2>1. PaceOK' /\ Where' /\ Shape
    <3>1. Begin(r, "remove", e, "developer", members[e].id) /\ AtStart("remove", e, members[e].id) /\ Belongs("remove", e)
      BY <2>0, AccessAssumption, <1>1 DEF RemoveMember, AtStart, Belongs, StoreOK, Member
    <3>2. "remove" \in Steps /\ e \in Objects /\ "developer" \in Roles /\ members[e].id \in Nat
      BY <2>0, AccessAssumption, <1>1 DEF Steps, Objects, Guarded, Counters, Roles, StoreOK, Member
    <3> QED
      BY <3>1, <3>2, Starting
  <2>2. StoreOK'
    BY <1>1, <2>0, Untouched DEF RemoveMember
  <2> QED
    BY <2>1, <2>2, TypeParts
<1>4. CASE \E i \in Invitations : AcceptInvite(r, i)
  <2>0. PICK i \in Invitations : AcceptInvite(r, i)
    BY <1>4
  <2>1. PaceOK' /\ Where' /\ Shape
    <3>1. Begin(r, "join", i, "developer", 0) /\ AtStart("join", i, 0) /\ Belongs("join", i)
      BY <2>0, AccessAssumption DEF AcceptInvite, AtStart, Belongs
    <3>2. "join" \in Steps /\ i \in Objects /\ "developer" \in Roles /\ 0 \in Nat
      BY <2>0, AccessAssumption DEF Steps, Objects, Guarded, Counters, Roles
    <3> QED
      BY <3>1, <3>2, Starting
  <2>2. StoreOK'
    BY <1>1, <2>0, Untouched DEF AcceptInvite
  <2> QED
    BY <2>1, <2>2, TypeParts
<1>5. CASE InsertInvitation(r)
  <2>1. PaceOK' /\ Where' /\ Shape
    BY <1>5, Answering DEF InsertInvitation
  <2>2. StoreOK'
    <3>1. requests[r].on \in Emails /\ requests[r].role \in Roles
      BY <1>1, <1>5 DEF InsertInvitation, Stands, Where, Belongs, PaceOK, Request
    <3>2. InvitationCreated(requests[r].on, requests[r].role) \in Invitation
      BY <3>1 DEF InvitationCreated, Invitation, InvitationStates
    <3> QED
      BY <1>1, <1>5, <3>2 DEF InsertInvitation, StoreOK, oauth, redis
  <2> QED
    BY <2>1, <2>2, TypeParts
<1>6. CASE CreateMember(r)
  <2> DEFINE i == requests[r].on
  <2>0. requests[r].at = "join" /\ i \in Invitations
    BY <1>6 DEF CreateMember, Stands, Where, Belongs
  <2>1. PaceOK' /\ Where' /\ Shape
    <3>1. CASE Answer(r)
      BY <3>1, Answering
    <3>2. CASE Goto(r, "accept")
      BY <2>0, <3>2, Going DEF Follows, Belongs, Steps
    <3> QED
      BY <1>6, <3>1, <3>2 DEF CreateMember
  <2>2. StoreOK'
    <3>1. \A m \in Member : MemberCreated(m, invitations[i].role) \in Member
      BY <1>1, <2>0 DEF StoreOK, Invitation, Member, MemberCreated
    <3> QED
      BY <1>1, <1>6, <2>0, <3>1 DEF CreateMember, StoreOK, oauth, redis
  <2> QED
    BY <2>1, <2>2, TypeParts
<1>7. CASE MarkAccepted(r)
  <2>1. PaceOK' /\ Where' /\ Shape
    BY <1>7, Answering DEF MarkAccepted
  <2>2. StoreOK'
    <3>1. \A x \in Invitation : InvitationAccepted(x) \in Invitation
      BY DEF InvitationAccepted, Invitation, InvitationStates
    <3> QED
      BY <1>1, <1>7, <3>1 DEF MarkAccepted, StoreOK, oauth, redis
  <2> QED
    BY <2>1, <2>2, TypeParts
<1>8. CASE DeleteMember(r)
  <2>1. PaceOK' /\ Where' /\ Shape
    BY <1>8, Answering DEF DeleteMember
  <2>2. StoreOK'
    BY <1>1, <1>8 DEF DeleteMember, StoreOK, team, oauth, redis, MemberDeleted, Member
  <2> QED
    BY <2>1, <2>2, TypeParts
<1> QED
  BY <1>2, <1>3, <1>4, <1>5, <1>6, <1>7, <1>8 DEF Team

(* The steps of codes and tokens.                                          *)
LEMMA GrantsDo ==
  ASSUME Typed, NEW r \in Requests, Grants(r)
  PROVE  Typed' /\ Shape
<1> USE DEF Typed
<1>1. PaceOK /\ StoreOK
  BY TypeParts
<1>2. CASE Count(r)
  <2> DEFINE k == requests[r].on
  <2>0. requests[r].at = "count" /\ k \in Counters
    BY <1>2 DEF Count, Stands, Where, Belongs
  <2>1. PaceOK' /\ Where' /\ Shape
    <3>1. CASE Answer(r)
      BY <3>1, Answering
    <3>2. CASE Goto(r, "window")
      BY <2>0, <3>2, Going DEF Follows, Belongs, Steps
    <3>3. CASE AfterCount(k) # "idle" /\ Goto(r, AfterCount(k))
      BY <2>0, <3>3, Going DEF AfterCount, Follows, Belongs, Steps
    <3> QED
      BY <1>2, <3>1, <3>2, <3>3 DEF Count
  <2>2. StoreOK'
    <3>1. \A c \in Counter : Incremented(c) \in Counter
      BY DEF Incremented, Counter
    <3> QED
      BY <1>1, <1>2, <3>1 DEF Count, StoreOK, team, oauth, redis
  <2> QED
    BY <2>1, <2>2, TypeParts
<1>3. CASE Window(r)
  <2> DEFINE k == requests[r].on
  <2>0. requests[r].at = "window" /\ k \in Counters
    BY <1>3 DEF Window, Stands, Where, Belongs
  <2>1. PaceOK' /\ Where' /\ Shape
    <3>1. CASE Answer(r)
      BY <3>1, Answering
    <3>2. CASE AfterCount(k) # "idle" /\ Goto(r, AfterCount(k))
      BY <2>0, <3>2, Going DEF AfterCount, Follows, Belongs, Steps
    <3> QED
      BY <1>3, <3>1, <3>2 DEF Window
  <2>2. StoreOK'
    <3>1. \A c \in Counter : Expiring(c) \in Counter
      <4> SUFFICES ASSUME NEW c \in Counter PROVE Expiring(c) \in Counter
        OBVIOUS
      <4> DEFINE b == c.count > 0
      <4>1. b \in BOOLEAN
        OBVIOUS
      <4>2. Expiring(c) = [c EXCEPT !.timed = b]
        BY DEF Expiring
      <4> HIDE DEF b
      <4> QED
        BY <4>1, <4>2 DEF Counter
    <3> QED
      BY <1>1, <1>3, <3>1 DEF Window, StoreOK, team, oauth, redis
  <2> QED
    BY <2>1, <2>2, TypeParts
<1>4. CASE RequestOTP(r)
  <2>1. PaceOK' /\ Where' /\ Shape
    <3>1. Begin(r, "count", "otp_request", "developer", 0) /\ AtStart("count", "otp_request", 0) /\ Belongs("count", "otp_request")
      BY <1>4, AccessAssumption DEF RequestOTP, AtStart, Belongs, Counters
    <3>2. "count" \in Steps /\ "otp_request" \in Objects /\ "developer" \in Roles /\ 0 \in Nat
      BY <1>4, AccessAssumption DEF Steps, Objects, Guarded, Counters, Roles, Counters
    <3> QED
      BY <3>1, <3>2, Starting
  <2>2. StoreOK'
    BY <1>1, <1>4, Untouched DEF RequestOTP
  <2> QED
    BY <2>1, <2>2, TypeParts
<1>5. CASE IssueCode(r)
  <2>1. PaceOK' /\ Where' /\ Shape
    BY <1>5, Answering DEF IssueCode
  <2>2. StoreOK'
    BY <1>1, <1>5 DEF IssueCode, StoreOK, team, oauth, redis, CodeStates, Codes
  <2> QED
    BY <2>1, <2>2, TypeParts
<1>6. CASE GuessOTP(r)
  <2>1. PaceOK' /\ Where' /\ Shape
    <3>1. Begin(r, "count", "otp_verify", "developer", 0) /\ AtStart("count", "otp_verify", 0) /\ Belongs("count", "otp_verify")
      BY <1>6, AccessAssumption DEF GuessOTP, AtStart, Belongs, Counters
    <3>2. "count" \in Steps /\ "otp_verify" \in Objects /\ "developer" \in Roles /\ 0 \in Nat
      BY <1>6, AccessAssumption DEF Steps, Objects, Guarded, Counters, Roles, Counters
    <3> QED
      BY <3>1, <3>2, Starting
  <2>2. StoreOK'
    BY <1>1, <1>6, Untouched DEF GuessOTP
  <2> QED
    BY <2>1, <2>2, TypeParts
<1>7. CASE \E c \in PortalCodes : VerifyOTP(r, c)
  <2>0. PICK c \in PortalCodes : VerifyOTP(r, c)
    BY <1>7
  <2>1. PaceOK' /\ Where' /\ Shape
    <3>1. Begin(r, "exchange", c, "developer", 0) /\ AtStart("exchange", c, 0) /\ Belongs("exchange", c)
      BY <2>0, AccessAssumption DEF VerifyOTP, AtStart, Belongs
    <3>2. "exchange" \in Steps /\ c \in Objects /\ "developer" \in Roles /\ 0 \in Nat
      BY <2>0, AccessAssumption DEF Steps, Objects, Guarded, Counters, Roles
    <3> QED
      BY <3>1, <3>2, Starting
  <2>2. StoreOK'
    BY <1>1, <2>0, Untouched DEF VerifyOTP
  <2> QED
    BY <2>1, <2>2, TypeParts
<1>8. CASE ClearVerifyFailures(r)
  <2>1. PaceOK' /\ Where' /\ Shape
    <3>1. Goto(r, "mark_used") /\ requests[r].at = "exchange" /\ Follows("exchange", "mark_used") /\ "mark_used" \in Steps
      BY <1>8 DEF ClearVerifyFailures, Stands, Follows, Steps
    <3>2. Belongs("mark_used", requests[r].on)
      BY <3>1 DEF Where, Belongs
    <3> QED
      BY <3>1, <3>2, Going
  <2>2. StoreOK'
    BY <1>1, <1>8 DEF ClearVerifyFailures, StoreOK, team, oauth, redis, NoCounter, Counter
  <2> QED
    BY <2>1, <2>2, TypeParts
<1>9. CASE MarkUsed(r)
  <2>1. PaceOK' /\ Where' /\ Shape
    BY <1>9, Answering DEF MarkUsed
  <2>2. StoreOK'
    <3>1. requests[r].on \in PortalCodes
      BY <1>9 DEF MarkUsed, Stands, Where, Belongs
    <3>2. codes' \in [Codes -> CodeStates]
      BY <1>1, <1>9 DEF MarkUsed, StoreOK, CodeUsed, CodeStates
    <3>3. taken' \in [Invitations \cup PortalCodes -> Nat]
      BY <1>1, <1>9, <3>1 DEF MarkUsed, StoreOK
    <3> QED
      BY <1>1, <1>9, <3>2, <3>3 DEF MarkUsed, StoreOK, team, oauth, redis
  <2> QED
    BY <2>1, <2>2, TypeParts
<1>10. CASE IssueToken(r)
  <2>1. PaceOK' /\ Where' /\ Shape
    <3>1. Begin(r, "issue", Client, "developer", 0) /\ AtStart("issue", Client, 0) /\ Belongs("issue", Client)
      BY <1>10, AccessAssumption DEF IssueToken, AtStart, Belongs, ClientIsActive
    <3>2. "issue" \in Steps /\ Client \in Objects /\ "developer" \in Roles /\ 0 \in Nat
      BY <1>10, AccessAssumption DEF Steps, Objects, Guarded, Counters, Roles, ClientIsActive
    <3> QED
      BY <3>1, <3>2, Starting
  <2>2. StoreOK'
    BY <1>1, <1>10, Untouched DEF IssueToken
  <2> QED
    BY <2>1, <2>2, TypeParts
<1>11. CASE CreateToken(r)
  <2>1. PaceOK' /\ Where' /\ Shape
    BY <1>11, Answering DEF CreateToken
  <2>2. StoreOK'
    BY <1>1, <1>11 DEF CreateToken, StoreOK, team, oauth, redis, ClientStates
  <2> QED
    BY <2>1, <2>2, TypeParts
<1> QED
  BY <1>2, <1>3, <1>4, <1>5, <1>6, <1>7, <1>8, <1>9, <1>10, <1>11 DEF Grants

(* The steps that are one statement, and what passes by itself.            *)
LEMMA AtOnceDoes ==
  ASSUME Typed, AtOnce
  PROVE  Typed' /\ Shape
<1> USE DEF Typed
<1>1. PaceOK /\ StoreOK
  BY TypeParts
<1>2. CASE \E s \in Sessions : RevokeSession(s)
  <2>0. PICK s \in Sessions : RevokeSession(s)
    BY <1>2
  <2>1. PaceOK' /\ Where' /\ Shape
    <3>1. Arrive(s) /\ UNCHANGED requests /\ s \in Objects
      BY <2>0 DEF RevokeSession, Objects, Guarded
    <3> QED
      BY <3>1, Arriving
  <2>2. StoreOK'
    <3>1. /\ sessions' \in [Sessions -> Session] /\ index' \in SessionIndex
          /\ {opened', closed'} \subseteq SUBSET Sessions
          /\ born' \in [Sessions -> Nat] /\ touched' \in [Sessions -> Nat]
      BY <1>1, <2>0, RevokedTypes DEF RevokeSession
    <3> QED
      BY <1>1, <2>0, <3>1 DEF RevokeSession, StoreOK, team, oauth
  <2> QED
    BY <2>1, <2>2, TypeParts
<1>3. CASE ListSessions
  <2>1. PaceOK' /\ Where' /\ Shape
    BY <1>3, Staying DEF ListSessions
  <2>2. StoreOK'
    BY <1>1, <1>3 DEF ListSessions, StoreOK, team, oauth, redis, SessionIndex
  <2> QED
    BY <2>1, <2>2, TypeParts
<1>4. CASE CreateClient
  <2>1. PaceOK' /\ Where' /\ Shape
    <3>1. Arrive(Client) /\ UNCHANGED requests /\ Client \in Objects
      BY <1>4 DEF CreateClient, Objects, Guarded
    <3> QED
      BY <3>1, Arriving
  <2>2. StoreOK'
    BY <1>1, <1>4 DEF CreateClient, StoreOK, team, oauth, redis, ClientCreated, ClientStates
  <2> QED
    BY <2>1, <2>2, TypeParts
<1>5. CASE RevokeClient
  <2>1. PaceOK' /\ Where' /\ Shape
    <3>1. Arrive(Client) /\ UNCHANGED requests /\ Client \in Objects
      BY <1>5 DEF RevokeClient, Objects, Guarded
    <3> QED
      BY <3>1, Arriving
  <2>2. StoreOK'
    BY <1>1, <1>5 DEF RevokeClient, StoreOK, team, oauth, redis, ClientRevoked, ClientStates
  <2> QED
    BY <2>1, <2>2, TypeParts
<1>6. CASE \E i \in Invitations : RevokeInvitation(i)
  <2>0. PICK i \in Invitations : RevokeInvitation(i)
    BY <1>6
  <2>1. PaceOK' /\ Where' /\ Shape
    <3>1. Arrive(i) /\ UNCHANGED requests /\ i \in Objects
      BY <2>0 DEF RevokeInvitation, Objects, Guarded
    <3> QED
      BY <3>1, Arriving
  <2>2. StoreOK'
    BY <1>1, <2>0 DEF RevokeInvitation, StoreOK, team, oauth, redis, InvitationDeleted, Invitation, InvitationStates
  <2> QED
    BY <2>1, <2>2, TypeParts
<1>7. CASE \E i \in Invitations : InvitationExpires(i)
  <2>0. PICK i \in Invitations : InvitationExpires(i)
    BY <1>7
  <2>1. PaceOK' /\ Where' /\ Shape
    BY <2>0, Staying DEF InvitationExpires
  <2>2. StoreOK'
    BY <1>1, <2>0 DEF InvitationExpires, StoreOK, team, oauth, redis, Invitation, InvitationStates
  <2> QED
    BY <2>1, <2>2, TypeParts
<1>8. CASE \E e \in Emails, role \in Roles : UpdateMemberRole(e, role)
  <2>0. PICK e \in Emails, role \in Roles : UpdateMemberRole(e, role)
    BY <1>8
  <2>1. PaceOK' /\ Where' /\ Shape
    <3>1. Arrive(e) /\ UNCHANGED requests /\ e \in Objects
      BY <2>0 DEF UpdateMemberRole, Objects, Guarded
    <3> QED
      BY <3>1, Arriving
  <2>2. StoreOK'
    BY <1>1, <2>0 DEF UpdateMemberRole, StoreOK, team, oauth, redis, WithRole, Member
  <2> QED
    BY <2>1, <2>2, TypeParts
<1>9. CASE \E c \in Codes : CodeExpires(c)
  <2>0. PICK c \in Codes : CodeExpires(c)
    BY <1>9
  <2>1. PaceOK' /\ Where' /\ Shape
    BY <2>0, Staying DEF CodeExpires
  <2>2. StoreOK'
    BY <1>1, <2>0 DEF CodeExpires, StoreOK, team, oauth, redis, CodeStates
  <2> QED
    BY <2>1, <2>2, TypeParts
<1>10. CASE \E k \in Counters : WindowEnds(k)
  <2>0. PICK k \in Counters : WindowEnds(k)
    BY <1>10
  <2>1. PaceOK' /\ Where' /\ Shape
    BY <2>0, Staying DEF WindowEnds
  <2>2. StoreOK'
    BY <1>1, <2>0 DEF WindowEnds, StoreOK, team, oauth, redis, NoCounter, Counter
  <2> QED
    BY <2>1, <2>2, TypeParts
<1> QED
  BY <1>2, <1>3, <1>4, <1>5, <1>6, <1>7, <1>8, <1>9, <1>10 DEF AtOnce

(* Time, and requests that are cut off.                                    *)
LEMMA TickDoes ==
  ASSUME Typed, Tick
  PROVE  Typed' /\ Shape
<1>1. PaceOK /\ StoreOK
  BY TypeParts DEF Typed
<1>2. \A r \in Requests : Stands(r, "touch_write") => requests[r].on \in Guarded
  BY DEF Typed, Where, Belongs, Stands, Guarded
<1>3. PaceOK'
  BY <1>1, <1>2 DEF Tick, PaceOK
<1>4. Where' /\ Shape
  BY <1>1 DEF Typed, Tick, Where, Shape, PaceOK
<1>5. StoreOK'
  BY <1>1, Untouched DEF Tick
<1> QED
  BY <1>3, <1>4, <1>5, TypeParts DEF Typed

LEMMA AbortDoes ==
  ASSUME Typed, NEW r \in Requests, Abort(r)
  PROVE  Typed' /\ Shape
<1>1. PaceOK /\ StoreOK
  BY TypeParts DEF Typed
<1>2. UNCHANGED <<contested, started, clock>> /\ faults' \in Nat /\ faults <= faults'
  BY <1>1 DEF Abort, PaceOK
<1>3. PaceOK' /\ Where' /\ Shape
  BY <1>2, Ending DEF Abort
<1>4. StoreOK'
  BY <1>1, Untouched DEF Abort
<1> QED
  BY <1>3, <1>4, TypeParts DEF Typed

LEMMA IgnoredFailureDoes ==
  ASSUME Typed, NEW r \in Requests, IgnoredFailure(r)
  PROVE  Typed' /\ Shape
<1>1. PaceOK /\ StoreOK
  BY TypeParts DEF Typed
<1>2. UNCHANGED <<contested, started, clock>> /\ faults' \in Nat /\ faults <= faults'
  BY <1>1 DEF IgnoredFailure, PaceOK
<1>3. CASE Skipped(r) # "idle" /\ requests' = [requests EXCEPT ![r].at = Skipped(r)] /\ UNCHANGED taken
  <2> DEFINE at == Skipped(r)
             q == [requests[r] EXCEPT !.at = at]
  <2>1. /\ at \in Steps /\ requests[r].at # "idle" /\ at # "touch_write"
        /\ Follows(requests[r].at, at) /\ Belongs(at, requests[r].on)
    BY <1>1, <1>3 DEF Skipped, Stands, Steps, Follows, Belongs, PaceOK, Request
  <2>2. requests' = [requests EXCEPT ![r] = q]
    BY <1>3
  <2> HIDE DEF at
  <2>3. q \in Request /\ q.at = at /\ q.on = requests[r].on
    BY <1>1, <2>1 DEF PaceOK, Request
  <2> HIDE DEF q
  <2>4. Others(r) /\ requests'[r] = q /\ requests' \in [Requests -> Request]
    BY <1>1, <2>2, <2>3 DEF PaceOK, Others
  <2>5. Where'
    BY <2>1, <2>3, <2>4, WhereKept DEF Typed
  <2>6. Continues(r)
    BY <2>1, <2>3, <2>4 DEF Continues
  <2>7. PaceOK' /\ Shape
    BY <1>1, <1>2, <2>4, <2>6 DEF PaceOK, Shape
  <2>8. StoreOK'
    BY <1>1, <1>3, Untouched DEF IgnoredFailure
  <2> QED
    BY <2>5, <2>7, <2>8, TypeParts DEF Typed
<1>4. CASE /\ Stands(r, "mark_used")
           /\ taken' = [taken EXCEPT ![requests[r].on] = @ + 1]
           /\ requests' = [requests EXCEPT ![r] = NoRequest]
  <2>1. PaceOK' /\ Where' /\ Shape
    BY <1>2, <1>4, Ending
  <2>2. requests[r].on \in PortalCodes
    BY <1>4 DEF Typed, Stands, Where, Belongs
  <2>3. StoreOK'
    BY <1>1, <1>4, <2>2 DEF IgnoredFailure, StoreOK, team, oauth, redis
  <2> QED
    BY <2>1, <2>3, TypeParts DEF Typed
<1> QED
  BY <1>3, <1>4 DEF IgnoredFailure

LEMMA NextDoes ==
  ASSUME Typed, Next
  PROVE  Typed' /\ Shape
<1>1. CASE \E r \in Requests : Accounts(r) \/ Team(r) \/ Grants(r) \/ Abort(r) \/ IgnoredFailure(r)
  BY <1>1, AccountsDo, TeamDoes, GrantsDo, AbortDoes, IgnoredFailureDoes
<1> QED
  BY <1>1, AtOnceDoes, TickDoes DEF Next

LEMMA InitTyped == Init => Typed
<1> SUFFICES ASSUME Init PROVE Typed
  OBVIOUS
<1>1. PaceOK
  BY NoRequestIsOne DEF Init, PaceOK
<1>2. Where
  BY DEF Init, NoRequest, Where, Belongs
<1>3. \A role \in Roles : MemberCreated(NoMember, role) \in Member
  BY DEF MemberCreated, NoMember, Member, Roles
<1>4. NoMember \in Member /\ NoInvitation \in Invitation /\ NoSession \in Session
  BY DEF NoMember, Member, NoInvitation, Invitation, InvitationStates, NoSession, Session, Roles
<1>5. SessionCreated("owner", 0) \in Session
  BY StoreAssumption DEF SessionCreated, Session, Roles
<1>6. \A e \in Emails : InvitationCreated(e, "developer") \in Invitation
  BY DEF InvitationCreated, Invitation, InvitationStates, Roles
<1>7. /\ tenant \in [exists : BOOLEAN, password : BOOLEAN, verified : BOOLEAN]
      /\ members \in [Emails -> Member] /\ codes \in [Codes -> CodeStates]
      /\ client \in ClientStates
  <2>1. CASE Running
    <3>1. MemberCreated(NoMember, "owner") \in Member
      BY <1>3 DEF Roles
    <3> QED
      BY <1>4, <2>1, <3>1 DEF Running, CodeStates, ClientStates
  <2>2. CASE Unregistered
    BY <1>4, <2>2 DEF Unregistered, CodeStates, ClientStates
  <2> QED
    BY <2>1, <2>2 DEF Init
<1>8. /\ sessions \in [Sessions -> Session] /\ index \in SessionIndex /\ opened \in SUBSET Sessions
      /\ invitations \in [Invitations -> Invitation]
  BY <1>4, <1>5, <1>6, StoreAssumption DEF Init, SessionIndex
<1>9. StoreOK
  BY <1>7, <1>8 DEF Init, StoreOK, NoCounter, Counter
<1> QED
  BY <1>1, <1>2, <1>9, TypeParts DEF Typed

LEMMA TypedAlways == Spec => []Typed
<1>1. Typed /\ [Next]_vars => Typed'
  <2> SUFFICES ASSUME Typed, [Next]_vars PROVE Typed'
    OBVIOUS
  <2>1. CASE Next
    BY <2>1, NextDoes
  <2>2. CASE UNCHANGED vars
    BY <2>2 DEF Typed, TypeOK, Where, vars
  <2> QED
    BY <2>1, <2>2
<1> QED
  BY InitTyped, <1>1, PTL DEF Spec

(* The rows, the Redis keys and the requests keep their types (the Go      *)
(* types and columns of internal/cache/redis.go and db/queries).           *)
THEOREM TypeCorrect == Spec => []TypeOK
<1>1. Typed => TypeOK
  BY DEF Typed
<1> QED
  BY TypedAlways, <1>1, PTL

-----------------------------------------------------------------------------
(* Which actions write what.                                               *)

SessionsKept == UNCHANGED <<sessions, index, opened, closed, born, touched>>

Writers ==
  /\ \/ SessionsKept
     \/ \E r \in Requests : CreateSession(r) \/ TouchWrite(r) \/ RevokeOnLogout(r)
     \/ \E s \in Sessions : RevokeSession(s)
     \/ ListSessions
  /\ \/ UNCHANGED members
     \/ \E r \in Requests : BackfillOwner(r) \/ CreateMember(r) \/ DeleteMember(r)
     \/ \E e \in Emails, role \in Roles : UpdateMemberRole(e, role)
  /\ \/ UNCHANGED invitations
     \/ \E r \in Requests : InsertInvitation(r) \/ MarkAccepted(r)
     \/ \E i \in Invitations : RevokeInvitation(i) \/ InvitationExpires(i)
  /\ \/ UNCHANGED codes
     \/ \E r \in Requests : DropCodes(r) \/ SendCode(r) \/ MarkCode(r) \/ IssueCode(r) \/ MarkUsed(r)
     \/ \E c \in Codes : CodeExpires(c)
  /\ \/ UNCHANGED <<client, late>>
     \/ \E r \in Requests : CreateToken(r)
     \/ CreateClient \/ RevokeClient
  /\ \/ UNCHANGED counters
     \/ \E r \in Requests : Count(r) \/ Window(r) \/ ClearLoginFailures(r) \/ ClearVerifyFailures(r)
     \/ \E k \in Counters : WindowEnds(k)
  /\ \/ UNCHANGED taken
     \/ \E r \in Requests : CreateMember(r) \/ MarkUsed(r) \/ IgnoredFailure(r)
  /\ UNCHANGED clock \/ Tick
  /\ UNCHANGED faults \/ faults' = faults + 1

LEMMA WritersWrite ==
  ASSUME Next
  PROVE  Writers
<1>1. CASE \E r \in Requests : Accounts(r)
  <2>1. PICK r \in Requests : Accounts(r)
    BY <1>1
  <2> QED
    BY <2>1 DEF Accounts, Writers, SessionsKept, team, oauth, redis, pace, Login, ClearLoginFailures,
       CreateSession, Register, CreateTenant, SetPassword, BackfillOwner, DropCodes, SendCode,
       ResendVerification, VerifyEmail, MarkCode, MarkEmailVerified, Refresh, Logout, TouchRead,
       TouchWrite, RevokeOnLogout, Begin, Arrive, Goto, Answer
<1>2. CASE \E r \in Requests : Team(r)
  <2>1. PICK r \in Requests : Team(r)
    BY <1>2
  <2> QED
    BY <2>1 DEF Team, Writers, SessionsKept, team, oauth, redis, pace, InviteMember, RemoveMember,
       AcceptInvite, InsertInvitation, CreateMember, MarkAccepted, DeleteMember, Begin, Arrive,
       Goto, Answer
<1>3. CASE \E r \in Requests : Grants(r)
  <2>1. PICK r \in Requests : Grants(r)
    BY <1>3
  <2> QED
    BY <2>1 DEF Grants, Writers, SessionsKept, team, oauth, redis, pace, Count, Window, RequestOTP,
       IssueCode, GuessOTP, VerifyOTP, ClearVerifyFailures, MarkUsed, IssueToken, CreateToken,
       Begin, Arrive, Goto, Answer
<1>4. CASE \E r \in Requests : Abort(r) \/ IgnoredFailure(r)
  BY <1>4 DEF Writers, SessionsKept, team, oauth, redis, Abort, IgnoredFailure
<1>5. CASE AtOnce
  BY <1>5 DEF AtOnce, Writers, SessionsKept, team, oauth, redis, pace, RevokeSession, ListSessions,
     CreateClient, RevokeClient, RevokeInvitation, InvitationExpires, UpdateMemberRole,
     CodeExpires, WindowEnds, Arrive
<1>6. CASE Tick
  BY <1>6 DEF Tick, Writers, SessionsKept, team, oauth, redis
<1> QED
  BY <1>1, <1>2, <1>3, <1>4, <1>5, <1>6 DEF Next

-----------------------------------------------------------------------------
(* On what is not contested there is one request at most.                  *)

Alone ==
  \A q, r \in Requests :
    /\ requests[q].at # "idle" /\ requests[r].at # "idle"
    /\ requests[q].on = requests[r].on
    /\ requests[r].on \in Guarded \ contested
    => q = r

LEMMA AloneStep ==
  ASSUME Typed, Alone, Shape
  PROVE  Alone'
<1>1. contested \subseteq contested'
  BY DEF Shape
<1>2. CASE UNCHANGED requests
  BY <1>1, <1>2 DEF Alone
<1>3. ASSUME NEW r \in Requests, Ends(r)
      PROVE  Alone'
  BY <1>1, <1>3, NoRequestIsOne DEF Alone, Ends, Others
<1>4. ASSUME NEW r \in Requests, Continues(r)
      PROVE  Alone'
  BY <1>1, <1>4 DEF Alone, Continues, Others
<1>5. ASSUME NEW r \in Requests, Starts(r)
      PROVE  Alone'
  <2>1. \A q \in Requests : q # r /\ requests'[q].at # "idle" =>
          requests'[r].on \notin Guarded \ contested' \/ requests'[q].on # requests'[r].on
    BY <1>5 DEF Starts, Others, Busy
  <2>2. \A q \in Requests : q # r => requests'[q] = requests[q]
    BY <1>5 DEF Starts, Others
  <2> QED
    BY <1>1, <2>1, <2>2 DEF Alone
<1> QED
  BY <1>2, <1>3, <1>4, <1>5 DEF Shape

LEMMA InitAlone == Init => Alone
BY DEF Init, Alone, NoRequest

-----------------------------------------------------------------------------
(* Sessions.  The heart of it is Rewritten: where nobody interfered, the   *)
(* SET of Touch writes what is there, but for the rounding.                *)

HalfSecond == Second \div 2

Opened ==
  /\ closed \subseteq opened
  /\ \A s \in Sessions \ opened : sessions[s].until = 0
  /\ \A s \in Sessions : born[s] <= clock
  /\ \A r \in Requests :
       requests[r].at \in {"touch_read", "touch_write", "revoke"} => requests[r].on \in opened

Rewritten ==
  \A r \in Requests :
    requests[r].at = "touch_write" /\ requests[r].on \notin contested =>
      /\ sessions[requests[r].on].until > clock
      /\ clock + requests[r].read <= sessions[requests[r].on].until + HalfSecond

Bounded ==
  \A s \in Sessions \ contested :
    /\ s \in closed => sessions[s].until = 0
    /\ sessions[s].until <= born[s] + Ttl + touched[s] * HalfSecond
    /\ sessions[s].until > clock /\ clock < born[s] + Ttl =>
         s \in index.ids /\ born[s] + Ttl <= index.until

SessionInv == Opened /\ Rewritten /\ Bounded

LEMMA InitSessions == Init => SessionInv
<1> SUFFICES ASSUME Init PROVE SessionInv
  OBVIOUS
<1>1. \A r \in Requests : requests[r].at = "idle"
  BY DEF Init, NoRequest
<1>2. /\ closed = {} /\ clock = 0 /\ born = [s \in Sessions |-> 0]
      /\ touched = [s \in Sessions |-> 0] /\ 0 * HalfSecond = 0
  BY StoreAssumption DEF Init, HalfSecond
<1>3. CASE sessions = [t \in Sessions |-> NoSession]
  BY <1>1, <1>2, <1>3, StoreAssumption DEF SessionInv, Opened, Rewritten, Bounded, NoSession
<1>4. ASSUME NEW s \in Sessions,
             sessions = [t \in Sessions |-> IF t = s THEN SessionCreated("owner", 0) ELSE NoSession],
             index = [ids |-> {s}, until |-> Ttl],
             opened = {s}
      PROVE  SessionInv
  <2>1. sessions[s].until = Ttl /\ \A t \in Sessions : t # s => sessions[t].until = 0
    BY <1>4, StoreAssumption DEF SessionCreated, NoSession
  <2> QED
    BY <1>1, <1>2, <1>4, <2>1, StoreAssumption DEF SessionInv, Opened, Rewritten, Bounded
<1> QED
  BY <1>3, <1>4 DEF Init

(* What the steps on sessions do, key by key.                              *)
LEMMA CreateSessionDoes ==
  ASSUME Typed, NEW r \in Requests, CreateSession(r)
  PROVE  /\ Ends(r) /\ UNCHANGED <<pace, closed, touched>>
         /\ \E s \in Sessions \ opened :
              /\ sessions'[s].until = clock + Ttl /\ born'[s] = clock /\ opened' = opened \cup {s}
              /\ index'.until = clock + Ttl /\ s \in index'.ids
              /\ index.until > clock => index.ids \subseteq index'.ids
              /\ \A t \in Sessions : t # s => sessions'[t] = sessions[t] /\ born'[t] = born[t]
<1>1. PaceOK
  BY TypeParts DEF Typed
<1>2. Ends(r) /\ UNCHANGED <<pace, closed, touched>>
  BY <1>1, AnswerDoes DEF CreateSession
<1>3. PICK s \in Sessions \ opened :
        /\ sessions' = [sessions EXCEPT ![s] = SessionCreated(requests[r].role, clock)]
        /\ index' = Indexed(index, s, clock)
        /\ opened' = opened \cup {s}
        /\ born' = [born EXCEPT ![s] = clock]
  BY DEF CreateSession
<1>4. /\ sessions'[s].until = clock + Ttl /\ born'[s] = clock
      /\ \A t \in Sessions : t # s => sessions'[t] = sessions[t] /\ born'[t] = born[t]
  BY <1>3 DEF Typed, TypeOK, SessionCreated
<1>5. /\ index'.until = clock + Ttl /\ s \in index'.ids
      /\ index.until > clock => index.ids \subseteq index'.ids
  BY <1>3 DEF Indexed
<1> QED
  BY <1>2, <1>3, <1>4, <1>5

LEMMA TouchWriteDoes ==
  ASSUME Typed, NEW r \in Requests, TouchWrite(r)
  PROVE  /\ Ends(r) /\ UNCHANGED <<pace, index, opened, closed, born>>
         /\ requests[r].at = "touch_write" /\ requests[r].on \in Sessions
         /\ sessions'[requests[r].on].until = clock + requests[r].read
         /\ touched'[requests[r].on] = touched[requests[r].on] + 1
         /\ \A t \in Sessions : t # requests[r].on =>
              sessions'[t] = sessions[t] /\ touched'[t] = touched[t]
<1> DEFINE s == requests[r].on
<1>1. PaceOK
  BY TypeParts DEF Typed
<1>2. Ends(r) /\ UNCHANGED <<pace, index, opened, closed, born>>
  BY <1>1, AnswerDoes DEF TouchWrite
<1>3. requests[r].at = "touch_write" /\ s \in Sessions
  BY DEF Typed, TouchWrite, Stands, Where, Belongs
<1>4. sessions' = [sessions EXCEPT ![s] = Touched(sessions[s], requests[r].read, clock)]
  BY DEF TouchWrite
<1>5. sessions[s] \in Session /\ sessions \in [Sessions -> Session]
  BY <1>3 DEF Typed, TypeOK
<1>6. Touched(sessions[s], requests[r].read, clock).until = clock + requests[r].read
  BY <1>5 DEF Touched, Session
<1>7. touched' = [touched EXCEPT ![s] = touched[s] + 1] /\ touched \in [Sessions -> Nat]
  BY DEF TouchWrite, Typed, TypeOK
<1> QED
  BY <1>2, <1>3, <1>4, <1>5, <1>6, <1>7

LEMMA RevokedDoes ==
  ASSUME Typed, NEW s \in Sessions, Revoked(s)
  PROVE  /\ sessions'[s].until = 0 /\ closed' = closed \cup {s} /\ UNCHANGED <<opened, born, touched>>
         /\ index'.until = index.until /\ index'.ids = index.ids \ {s}
         /\ \A t \in Sessions : t # s => sessions'[t] = sessions[t]
<1>1. sessions \in [Sessions -> Session] /\ sessions[s] \in Session /\ index \in SessionIndex
  BY DEF Typed, TypeOK
<1>2. Gone(sessions[s]).until = 0
  BY <1>1 DEF Gone, Session
<1>3. index'.until = index.until /\ index'.ids = index.ids \ {s}
  BY <1>1 DEF Revoked, Unindexed, SessionIndex
<1> QED
  BY <1>1, <1>2, <1>3 DEF Revoked

LEMMA SessionStep ==
  ASSUME Typed, Alone, SessionInv, Next
  PROVE  SessionInv'
<1>1. Shape /\ Writers /\ Typed'
  BY NextDoes, WritersWrite
<1>2. /\ \A s \in Sessions : sessions[s].until \in Nat /\ born[s] \in Nat /\ touched[s] \in Nat
      /\ \A s \in Sessions : touched[s] * HalfSecond \in Nat
      /\ \A s \in Sessions : (touched[s] + 1) * HalfSecond = touched[s] * HalfSecond + HalfSecond
      /\ HalfSecond \in Nat /\ clock \in Nat /\ Ttl \in Nat \ {0} /\ index.until \in Nat
      /\ \A r \in Requests : requests[r].read \in Nat
      /\ closed \subseteq Sessions /\ opened \subseteq Sessions
  <2>1. HalfSecond \in Nat /\ \A s \in Sessions : touched[s] \in Nat
    BY StoreAssumption DEF HalfSecond, Typed, TypeOK
  <2>2. \A n, h \in Nat : n * h \in Nat /\ (n + 1) * h = n * h + h
    OBVIOUS
  <2> QED
    BY <2>1, <2>2, StoreAssumption DEF Typed, TypeOK, Session, SessionIndex, Request
<1>3. \A r \in Requests : requests[r].at \in {"touch_read", "touch_write", "revoke"} =>
        requests[r].on \in Sessions
  BY DEF Typed, Where, Belongs
<1>4. CASE SessionsKept /\ UNCHANGED clock
  <2>1. Bounded'
    BY <1>1, <1>4 DEF SessionInv, Bounded, SessionsKept, Shape
  <2>2. ASSUME NEW r \in Requests, Starts(r)
        PROVE  Opened' /\ Rewritten'
    <3>1. requests'[r].at \in {"touch_read", "touch_write", "revoke"} =>
            requests'[r].at # "touch_write" /\ Active(requests'[r].on)
      BY <2>2 DEF Starts, AtStart
    <3>2. requests'[r].at \in {"touch_read", "touch_write", "revoke"} =>
            requests'[r].on \in Sessions
      BY <1>1 DEF Typed, Where, Belongs
    <3>3. requests'[r].at \in {"touch_read", "touch_write", "revoke"} => requests'[r].on \in opened
      BY <1>2, <3>1, <3>2 DEF SessionInv, Opened, Active, IsActive
    <3> QED
      BY <1>1, <1>4, <2>2, <3>1, <3>3
      DEF Shape, Starts, Others, SessionInv, Opened, Rewritten, SessionsKept
  <2>3. ASSUME NEW r \in Requests, Continues(r)
        PROVE  Opened' /\ Rewritten'
    <3>1. requests'[r].at = "touch_write" =>
            /\ requests[r].at = "touch_read" /\ requests'[r].on = requests[r].on
            /\ requests[r].on \in Sessions
            /\ sessions[requests[r].on].until > clock
            /\ clock + requests'[r].read <= sessions[requests[r].on].until + HalfSecond
      <4> SUFFICES ASSUME requests'[r].at = "touch_write"
                   PROVE  /\ requests[r].at = "touch_read" /\ requests'[r].on = requests[r].on
                          /\ requests[r].on \in Sessions
                          /\ sessions[requests[r].on].until > clock
                          /\ clock + requests'[r].read <= sessions[requests[r].on].until + HalfSecond
        OBVIOUS
      <4>1. /\ requests[r].at = "touch_read" /\ requests'[r].on = requests[r].on
            /\ requests'[r].read = Left(requests[r].on) /\ Left(requests[r].on) # 0
        BY <2>3 DEF Continues
      <4>2. requests[r].on \in Sessions
        BY <1>3, <4>1
      <4> QED
        BY <4>1, <4>2, LeftIsRounded DEF Typed, TypeOK, Active, IsActive, HalfSecond
    <3>2. requests'[r].at \in {"touch_read", "touch_write", "revoke"} =>
            requests'[r].on \in opened
      BY <2>3, <3>1 DEF Continues, Follows, SessionInv, Opened
    <3> QED
      BY <1>1, <1>4, <2>3, <3>1, <3>2
      DEF Shape, Continues, Others, SessionInv, Opened, Rewritten, SessionsKept
  <2>4. ASSUME NEW r \in Requests, Ends(r)
        PROVE  Opened' /\ Rewritten'
    BY <1>1, <1>4, <2>4, NoRequestIsOne
    DEF Shape, Ends, Others, SessionInv, Opened, Rewritten, SessionsKept
  <2>5. CASE UNCHANGED requests
    <3>1. contested \subseteq contested'
      BY <1>1 DEF Shape
    <3>2. UNCHANGED <<sessions, opened, closed, born, clock, touched, requests>>
      BY <1>4, <2>5 DEF SessionsKept
    <3>3. Opened'
      BY <3>2 DEF SessionInv, Opened
    <3>4. Rewritten'
      BY <3>1, <3>2 DEF SessionInv, Rewritten
    <3> QED
      BY <2>1, <3>3, <3>4 DEF SessionInv
  <2> QED
    BY <1>1, <2>1, <2>2, <2>3, <2>4, <2>5 DEF Shape, SessionInv
<1>5. CASE SessionsKept /\ Tick
  <2>1. /\ clock' = clock + 1 /\ UNCHANGED requests /\ contested \subseteq contested'
        /\ \A r \in Requests : requests[r].at = "touch_write" => requests[r].on \in contested'
    BY <1>5 DEF Tick, Stands
  <2> QED
    BY <1>2, <1>5, <2>1 DEF SessionInv, Opened, Rewritten, Bounded, SessionsKept
<1>6. ASSUME NEW r \in Requests, CreateSession(r)
      PROVE  SessionInv'
  <2>1. /\ Others(r) /\ requests'[r].at = "idle" /\ UNCHANGED <<contested, clock, closed>>
    BY <1>6, CreateSessionDoes, NoRequestIsOne DEF Ends, pace
  <2>6. UNCHANGED touched
    BY <1>6, CreateSessionDoes
  <2>2. PICK s \in Sessions \ opened :
          /\ sessions'[s].until = clock + Ttl /\ born'[s] = clock /\ opened' = opened \cup {s}
          /\ index'.until = clock + Ttl /\ s \in index'.ids
          /\ index.until > clock => index.ids \subseteq index'.ids
          /\ \A t \in Sessions : t # s => sessions'[t] = sessions[t] /\ born'[t] = born[t]
    BY <1>6, CreateSessionDoes
  <2>3. Opened'
    BY <1>2, <2>1, <2>2 DEF SessionInv, Opened, Others
  <2>4. Rewritten'
    BY <1>3, <2>1, <2>2 DEF SessionInv, Opened, Rewritten, Others
  <2>5. Bounded'
    <3>1. \A t \in Sessions : touched'[t] = touched[t]
      BY <2>6
    <3>2. s \notin closed
      BY <2>2 DEF SessionInv, Opened
    <3> QED
      BY <1>2, <2>1, <2>2, <3>1, <3>2 DEF SessionInv, Opened, Bounded
  <2> QED
    BY <2>3, <2>4, <2>5 DEF SessionInv
<1>7. ASSUME NEW r \in Requests, TouchWrite(r)
      PROVE  SessionInv'
  <2> DEFINE s == requests[r].on
  <2>1. /\ Others(r) /\ requests'[r].at = "idle"
        /\ UNCHANGED <<contested, clock, index, opened, closed, born>>
        /\ requests[r].at = "touch_write" /\ s \in Sessions
        /\ sessions'[s].until = clock + requests[r].read /\ touched'[s] = touched[s] + 1
        /\ \A t \in Sessions : t # s => sessions'[t] = sessions[t] /\ touched'[t] = touched[t]
    BY <1>7, TouchWriteDoes, NoRequestIsOne DEF Ends, pace
  <2>2. s \notin contested =>
          /\ sessions[s].until > clock /\ s \notin closed
          /\ sessions'[s].until <= sessions[s].until + HalfSecond
    BY <1>2, <2>1 DEF SessionInv, Rewritten, Bounded
  <2>3. Opened'
    BY <2>1 DEF SessionInv, Opened, Others
  <2>4. Rewritten'
    <3> SUFFICES ASSUME NEW q \in Requests, requests'[q].at = "touch_write",
                        requests'[q].on \notin contested
                 PROVE  /\ sessions'[requests'[q].on].until > clock
                        /\ clock + requests'[q].read <= sessions'[requests'[q].on].until + HalfSecond
      BY <2>1 DEF Rewritten
    <3>1. q # r /\ requests'[q] = requests[q]
      BY <2>1 DEF Others
    <3>2. requests[q].on \in Sessions /\ requests[q].on # s
      BY <1>3, <2>1, <3>1 DEF Alone, Guarded
    <3> QED
      BY <2>1, <3>1, <3>2 DEF SessionInv, Rewritten
  <2>5. Bounded'
    <3> SUFFICES ASSUME NEW t \in Sessions \ contested
                 PROVE  /\ t \in closed => sessions'[t].until = 0
                        /\ sessions'[t].until <= born[t] + Ttl + touched'[t] * HalfSecond
                        /\ sessions'[t].until > clock /\ clock < born[t] + Ttl =>
                             t \in index.ids /\ born[t] + Ttl <= index.until
      BY <2>1 DEF Bounded
    <3>1. CASE t = s
      <4>1. /\ sessions[s].until \in Nat /\ sessions'[s].until \in Nat
            /\ sessions[s].until <= born[s] + Ttl + touched[s] * HalfSecond
        BY <1>2, <2>1, <3>1 DEF SessionInv, Bounded
      <4>2. touched'[s] * HalfSecond = touched[s] * HalfSecond + HalfSecond
        BY <1>2, <2>1
      <4> QED
        BY <1>2, <2>1, <2>2, <3>1, <4>1, <4>2 DEF SessionInv, Bounded
    <3>2. CASE t # s
      BY <2>1, <3>2 DEF SessionInv, Bounded
    <3> QED
      BY <3>1, <3>2
  <2> QED
    BY <2>3, <2>4, <2>5 DEF SessionInv
<1>8. ASSUME NEW s \in Sessions, Revoked(s), s \in opened, UNCHANGED clock,
             contested \subseteq contested',
             \A q \in Requests : requests'[q].at # "idle" => requests'[q] = requests[q],
             \A q \in Requests : requests'[q].at = "touch_write" /\ requests'[q].on = s =>
               s \in contested'
      PROVE  SessionInv'
  <2>1. /\ sessions'[s].until = 0 /\ closed' = closed \cup {s} /\ UNCHANGED <<opened, born, touched>>
        /\ index'.until = index.until /\ index'.ids = index.ids \ {s}
        /\ \A t \in Sessions : t # s => sessions'[t] = sessions[t]
    BY <1>8, RevokedDoes
  <2>2. Opened'
    BY <1>8, <2>1 DEF SessionInv, Opened
  <2>3. Rewritten'
    BY <1>3, <1>8, <2>1 DEF SessionInv, Rewritten
  <2>4. Bounded'
    BY <1>2, <1>8, <2>1 DEF SessionInv, Bounded
  <2> QED
    BY <2>2, <2>3, <2>4 DEF SessionInv
<1>9. ASSUME NEW r \in Requests, RevokeOnLogout(r)
      PROVE  SessionInv'
  <2> DEFINE s == requests[r].on
  <2>1. PaceOK
    BY TypeParts DEF Typed
  <2>2. Ends(r) /\ UNCHANGED <<contested, clock>> /\ Revoked(s) /\ requests[r].at = "revoke"
    BY <1>9, <2>1, AnswerDoes DEF RevokeOnLogout, Stands, pace
  <2>3. s \in Sessions /\ s \in opened /\ s \in Guarded
    BY <1>3, <2>2 DEF SessionInv, Opened, Guarded
  <2>4. \A q \in Requests : requests'[q].at # "idle" => q # r /\ requests'[q] = requests[q]
    BY <2>2, NoRequestIsOne DEF Ends, Others
  <2>5. \A q \in Requests : requests'[q].at = "touch_write" /\ requests'[q].on = s => s \in contested'
    BY <2>2, <2>3, <2>4 DEF Alone
  <2> QED
    BY <1>8, <2>2, <2>3, <2>4, <2>5
<1>10. ASSUME NEW s \in Sessions, RevokeSession(s)
       PROVE  SessionInv'
  <2>1. Revoked(s) /\ s \in opened /\ UNCHANGED <<clock, requests>> /\ Arrive(s)
    BY <1>10 DEF RevokeSession, Arrive
  <2>2. \A q \in Requests : requests'[q].at = "touch_write" /\ requests'[q].on = s => s \in contested'
    BY <2>1 DEF Arrive, Busy, Guarded
  <2> QED
    BY <1>1, <1>8, <2>1, <2>2 DEF Shape
<1>11. CASE ListSessions
  <2>1. index \in SessionIndex
    BY DEF Typed, TypeOK
  <2>2. /\ UNCHANGED <<sessions, opened, closed, born, touched, requests, contested, clock>>
        /\ index'.until = index.until /\ index'.ids = {s \in index.ids : Active(s)}
    BY <1>11, <2>1 DEF ListSessions, SessionIndex, pace
  <2> QED
    BY <2>2 DEF SessionInv, Opened, Rewritten, Bounded, Active, IsActive
<1> QED
  BY <1>1, <1>4, <1>5, <1>6, <1>7, <1>9, <1>10, <1>11 DEF Writers

LEMMA StutterKeeps ==
  ASSUME UNCHANGED vars
  PROVE  (Typed => Typed') /\ (Alone => Alone') /\ (SessionInv => SessionInv')
<1> USE DEF vars
<1>1. Typed => Typed'
  BY DEF Typed, TypeOK, Where
<1>2. Alone => Alone'
  BY DEF Alone
<1>3. SessionInv => SessionInv'
  BY DEF SessionInv, Opened, Rewritten, Bounded
<1> QED
  BY <1>1, <1>2, <1>3

LEMMA AloneAlways == Spec => []Alone
<1>1. Typed /\ Alone /\ [Next]_vars => Alone'
  BY NextDoes, AloneStep, StutterKeeps
<1> QED
  BY InitAlone, TypedAlways, <1>1, PTL DEF Spec

LEMMA SessionsAlways == Spec => []SessionInv
<1>1. Typed /\ Alone /\ SessionInv /\ [Next]_vars => SessionInv'
  BY SessionStep, StutterKeeps
<1> QED
  BY InitSessions, TypedAlways, AloneAlways, <1>1, PTL DEF Spec

(* A revoked session lets nobody in again, unless a Touch was under way    *)
(* (internal/cache/redis.go:234).                                          *)
THEOREM RevocationHolds == Spec => []RevokedStaysRevoked
<1>1. Typed /\ SessionInv => RevokedStaysRevoked
  BY DEF Typed, TypeOK, SessionInv, Bounded, RevokedStaysRevoked, Active, IsActive
<1> QED
  BY TypedAlways, SessionsAlways, <1>1, PTL

(* For sessionTTL after its login the index holds every session that lets  *)
(* somebody in: the owner sees it and can revoke it (redis.go:209).        *)
THEOREM IndexIsComplete == Spec => []ActiveIsListed
<1>1. Typed /\ SessionInv => ActiveIsListed
  BY StoreAssumption
  DEF Typed, TypeOK, Session, SessionIndex, SessionInv, Bounded, ActiveIsListed, Active, IsActive
<1> QED
  BY TypedAlways, SessionsAlways, <1>1, PTL

(* Refreshing prolongs a session by half a second at most, each time       *)
(* (internal/cache/redis.go:226).                                          *)
THEOREM SessionsEnd == Spec => []LoginsExpire
<1>1. Typed /\ SessionInv => LoginsExpire
  <2> SUFFICES ASSUME Typed, SessionInv, NEW s \in Sessions \ contested, Active(s)
               PROVE  clock < born[s] + Ttl + touched[s] * HalfSecond
    BY DEF LoginsExpire, HalfSecond
  <2>1. sessions[s].until > clock /\ sessions[s].until <= born[s] + Ttl + touched[s] * HalfSecond
    BY DEF Active, IsActive, SessionInv, Bounded
  <2>2. /\ {sessions[s].until, clock, born[s], Ttl, HalfSecond, touched[s]} \subseteq Nat
        /\ touched[s] * HalfSecond \in Nat
    BY StoreAssumption DEF Typed, TypeOK, Session, HalfSecond
  <2> QED
    BY <2>1, <2>2
<1> QED
  BY TypedAlways, SessionsAlways, <1>1, PTL

-----------------------------------------------------------------------------
(* OAuth clients.                                                          *)

ClientInv ==
  /\ \A r \in Requests : requests[r].at = "issue" /\ client # "active" => Client \in contested
  /\ NoTokenAfterRevocation

LEMMA ClientStep ==
  ASSUME Typed, ClientInv, Next
  PROVE  ClientInv'
<1>1. Shape /\ Writers
  BY NextDoes, WritersWrite
<1>2. contested \subseteq contested'
  BY <1>1 DEF Shape
<1>3. CASE UNCHANGED <<client, late>>
  <2>1. \A r \in Requests : requests'[r].at = "issue" => requests[r].at = "issue" \/ client = "active"
    BY <1>1, NoRequestIsOne DEF Shape, Starts, AtStart, Continues, Follows, Ends, Others
  <2> QED
    BY <1>2, <1>3, <2>1 DEF ClientInv, NoTokenAfterRevocation
<1>4. ASSUME NEW r \in Requests, CreateToken(r)
      PROVE  ClientInv'
  <2>1. PaceOK
    BY TypeParts DEF Typed
  <2>2. /\ Ends(r) /\ UNCHANGED <<contested, client>> /\ requests[r].at = "issue"
        /\ late' = IF client = "revoked" THEN late + 1 ELSE late
    BY <1>4, <2>1, AnswerDoes DEF CreateToken, Stands, pace
  <2> QED
    BY <2>2, NoRequestIsOne DEF ClientInv, NoTokenAfterRevocation, Ends, Others
<1>5. CASE CreateClient
  BY <1>2, <1>5 DEF CreateClient, ClientCreated, ClientInv, NoTokenAfterRevocation
<1>6. CASE RevokeClient
  <2>1. \A r \in Requests : requests[r].at = "issue" => requests[r].on = Client
    BY DEF Typed, Where, Belongs
  <2>2. UNCHANGED <<late, requests>> /\ Arrive(Client)
    BY <1>6 DEF RevokeClient
  <2>3. \A r \in Requests : requests'[r].at = "issue" => Client \in contested'
    BY <2>1, <2>2 DEF Arrive, Busy, Guarded
  <2> QED
    BY <1>2, <2>2, <2>3 DEF ClientInv, NoTokenAfterRevocation
<1> QED
  BY <1>1, <1>3, <1>4, <1>5, <1>6 DEF Writers

(* No token is issued for a client that was revoked, unless its issuing    *)
(* was under way (internal/api/handlers/oauth.go:118).                     *)
THEOREM NoLateTokens == Spec => []NoTokenAfterRevocation
<1>1. Init => ClientInv
  BY DEF Init, NoRequest, ClientInv, NoTokenAfterRevocation
<1>2. Typed /\ ClientInv /\ [Next]_vars => ClientInv'
  BY ClientStep DEF vars, ClientInv, NoTokenAfterRevocation
<1>3. ClientInv => NoTokenAfterRevocation
  BY DEF ClientInv
<1> QED
  BY TypedAlways, <1>1, <1>2, <1>3, PTL DEF Spec

-----------------------------------------------------------------------------
(* The owner's row.  A removal under way knows the id of a row that was    *)
(* not an owner's; a row created since has another id.                     *)

RemovalInv ==
  \A r \in Requests :
    LET e == requests[r].on IN
    requests[r].at = "remove" =>
      /\ requests[r].read <= members[e].id
      /\ e \notin contested /\ requests[r].read = members[e].id /\ members[e].exists =>
           members[e].role # "owner"

(* How a member's row may change, as far as a removal cares.               *)
RowKept(e) ==
  /\ members[e].id <= members'[e].id
  /\ \/ members'[e].id > members[e].id
     \/ members'[e].exists => members[e].exists /\ members'[e].role = members[e].role

RowsKept == \A e \in Emails : RowKept(e)

LEMMA RemovalFrame ==
  ASSUME Typed, Typed', RemovalInv, Shape, RowsKept
  PROVE  RemovalInv'
<1>1. contested \subseteq contested'
  BY DEF Shape
<1>2. \A r \in Requests : /\ requests[r].at = "remove" => requests[r].on \in Emails
                          /\ requests'[r].at = "remove" => requests'[r].on \in Emails
                          /\ requests[r].read \in Nat
  BY DEF Typed, TypeOK, Request, Where, Belongs
<1>3. \A e \in Emails : members[e].id \in Nat /\ members'[e].id \in Nat
  BY DEF Typed, TypeOK, Member
<1>4. \A r \in Requests : requests'[r].at = "remove" =>
        \/ requests'[r] = requests[r]
        \/ requests[r].at = "idle" /\ Removable(requests'[r].on) /\ requests'[r].read = members[requests'[r].on].id
  BY NoRequestIsOne DEF Shape, Starts, AtStart, Continues, Follows, Ends, Others
<1> SUFFICES ASSUME NEW r \in Requests, requests'[r].at = "remove"
             PROVE  LET e == requests'[r].on IN
                    /\ requests'[r].read <= members'[e].id
                    /\ e \notin contested' /\ requests'[r].read = members'[e].id /\ members'[e].exists =>
                         members'[e].role # "owner"
  BY DEF RemovalInv
<1> DEFINE e == requests'[r].on
<1>5. e \in Emails
  BY <1>2
<1>6. /\ requests'[r].read <= members[e].id
      /\ e \notin contested' /\ requests'[r].read = members[e].id /\ members[e].exists =>
           members[e].role # "owner"
  BY <1>1, <1>3, <1>4, <1>5 DEF RemovalInv, Removable
<1>7. requests'[r].read \in Nat
  BY DEF Typed, TypeOK, Request
<1> QED
  BY <1>3, <1>5, <1>6, <1>7 DEF RowsKept, RowKept

LEMMA RemovalStep ==
  ASSUME Typed, RemovalInv, Next
  PROVE  /\ RemovalInv'
         /\ \A e \in Emails \ contested :
              members[e].exists /\ members[e].role = "owner" => members'[e].exists
<1>1. Shape /\ Writers /\ Typed'
  BY NextDoes, WritersWrite
<1>2. members \in [Emails -> Member] /\ \A e \in Emails : members[e].id \in Nat
  BY DEF Typed, TypeOK, Member
<1>3. ASSUME NEW x, NEW role, members' = [members EXCEPT ![x] = MemberCreated(members[x], role)]
      PROVE  RowsKept /\ \A e \in Emails : members[e].exists => members'[e].exists
  <2>1. \A e \in Emails : IF e = x THEN members'[e].exists /\ members'[e].id = members[e].id + 1
                           ELSE members'[e] = members[e]
    BY <1>2, <1>3 DEF MemberCreated
  <2> QED
    BY <1>2, <2>1 DEF RowsKept, RowKept
<1>12. ASSUME members' = members
       PROVE  RowsKept /\ \A e \in Emails : members[e].exists => members'[e].exists
  BY <1>2, <1>12 DEF RowsKept, RowKept
<1>4. CASE UNCHANGED members
  <2>1. RowsKept
    BY <1>2, <1>4 DEF RowsKept, RowKept
  <2> QED
    BY <1>1, <1>4, <2>1, RemovalFrame
<1>5. ASSUME NEW r \in Requests, BackfillOwner(r)
      PROVE  /\ RemovalInv'
             /\ \A e \in Emails : members[e].exists => members'[e].exists
  <2>1. members' = members \/ members' = [members EXCEPT ![Owner] = MemberCreated(members[Owner], "owner")]
    BY <1>5 DEF BackfillOwner
  <2>2. RowsKept /\ \A e \in Emails : members[e].exists => members'[e].exists
    BY <1>3, <1>12, <2>1
  <2> QED
    BY <1>1, <2>2, RemovalFrame
<1>6. ASSUME NEW r \in Requests, CreateMember(r)
      PROVE  /\ RemovalInv'
             /\ \A e \in Emails : members[e].exists => members'[e].exists
  <2> DEFINE inv == invitations[requests[r].on]
  <2>1. members' = members \/ members' = [members EXCEPT ![inv.email] = MemberCreated(members[inv.email], inv.role)]
    BY <1>6 DEF CreateMember
  <2>2. RowsKept /\ \A e \in Emails : members[e].exists => members'[e].exists
    BY <1>3, <1>12, <2>1
  <2> QED
    BY <1>1, <2>2, RemovalFrame
<1>7. ASSUME NEW x \in Emails, NEW role \in Roles, UpdateMemberRole(x, role)
      PROVE  /\ RemovalInv'
             /\ \A e \in Emails : members[e].exists => members'[e].exists
  <2>1. members' = [members EXCEPT ![x] = WithRole(members[x], role)] /\ Arrive(x) /\ UNCHANGED requests
    BY <1>7 DEF UpdateMemberRole
  <2>2. /\ members'[x].id = members[x].id /\ members'[x].exists = members[x].exists
        /\ \A e \in Emails : e # x => members'[e] = members[e]
    BY <1>2, <2>1 DEF WithRole, Member
  <2>3. \A e \in Emails : e # x => RowKept(e)
    BY <1>2, <2>2 DEF RowKept
  <2>4. \A r \in Requests : requests'[r].at = "remove" /\ requests'[r].on = x => x \in contested'
    BY <2>1 DEF Arrive, Busy, Guarded
  <2>5. RemovalInv'
    <3>1. \A r \in Requests : requests'[r] = requests[r] /\ (requests[r].at = "remove" => requests[r].on \in Emails)
      BY <2>1 DEF Typed, Where, Belongs
    <3>2. contested \subseteq contested'
      BY <1>1 DEF Shape
    <3> QED
      BY <2>2, <2>4, <3>1, <3>2 DEF RemovalInv
  <2> QED
    BY <2>2, <2>5
<1>8. ASSUME NEW r \in Requests, DeleteMember(r)
      PROVE  /\ RemovalInv'
             /\ \A e \in Emails \ contested :
                  members[e].exists /\ members[e].role = "owner" => members'[e].exists
  <2> DEFINE x == requests[r].on
  <2>1. requests[r].at = "remove" /\ x \in Emails
    BY <1>8 DEF DeleteMember, Stands, Typed, Where, Belongs
  <2>2. members' = [members EXCEPT ![x] = MemberDeleted(members[x], requests[r].read)]
    BY <1>8 DEF DeleteMember
  <2>3. /\ \A e \in Emails : e # x => members'[e] = members[e]
        /\ members'[x].id = members[x].id /\ members'[x].role = members[x].role
        /\ members'[x].exists => members[x].exists
        /\ members[x].exists /\ ~members'[x].exists => requests[r].read = members[x].id
    BY <1>2, <2>1, <2>2 DEF MemberDeleted, Member
  <2>4. RowsKept
    BY <1>2, <2>3 DEF RowsKept, RowKept
  <2>5. RemovalInv'
    BY <1>1, <2>4, RemovalFrame
  <2> QED
    BY <2>1, <2>3, <2>5 DEF RemovalInv
<1> QED
  BY <1>1, <1>4, <1>5, <1>6, <1>7, <1>8 DEF Writers

(* No step deletes an owner's row, unless it became one between the check  *)
(* and the DELETE (internal/api/handlers/team.go:213).                     *)
THEOREM OwnersStay == Spec => OwnersAreNotRemoved
<1>1. Init => RemovalInv
  BY DEF Init, NoRequest, RemovalInv
<1>2. Typed /\ RemovalInv /\ [Next]_vars =>
        /\ RemovalInv'
        /\ [\A e \in Emails \ contested :
              members[e].exists /\ members[e].role = "owner" => members'[e].exists]_vars
  BY RemovalStep DEF vars, RemovalInv
<1> QED
  BY TypedAlways, <1>1, <1>2, PTL DEF Spec, OwnersAreNotRemoved

-----------------------------------------------------------------------------
(* Counters.                                                               *)

(* Key k alone is written, and counts n from now on. *)
CountsNow(k, n) ==
  /\ counters'[k].count = n
  /\ \A j \in Counters : j # k => counters'[j] = counters[j]

LEMMA CountDoes ==
  ASSUME Typed, NEW r \in Requests, Count(r)
  PROVE  LET k == requests[r].on IN
         /\ k \in Counters /\ requests[r].at = "count" /\ Others(r) /\ UNCHANGED faults
         /\ CountsNow(k, counters[k].count + 1) /\ counters'[k].timed = counters[k].timed
         /\ requests'[r].at # "count"
         /\ counters[k].count = 0 => requests'[r].at = "window" /\ requests'[r].on = k
<1> DEFINE k == requests[r].on
<1>1. PaceOK
  BY TypeParts DEF Typed
<1>2. requests[r].at = "count" /\ k \in Counters
  BY DEF Count, Stands, Typed, Where, Belongs
<1>3. counters \in [Counters -> Counter] /\ counters[k] \in Counter
  BY <1>2 DEF Typed, TypeOK
<1>4. counters' = [counters EXCEPT ![k] = Incremented(counters[k])]
  BY DEF Count
<1>5. /\ Incremented(counters[k]).count = counters[k].count + 1
      /\ Incremented(counters[k]).timed = counters[k].timed
  BY <1>3 DEF Incremented, Counter
<1>6. CountsNow(k, counters[k].count + 1) /\ counters'[k].timed = counters[k].timed
  BY <1>2, <1>3, <1>4, <1>5 DEF CountsNow
<1>7. CASE Goto(r, "window") /\ counters[k].count = 0
  <2>1. "window" \in Steps
    BY DEF Steps
  <2>2. Moves(r, "window") /\ UNCHANGED pace
    BY <1>1, <1>7, <2>1, GotoDoes
  <2> QED
    BY <1>2, <1>6, <2>2 DEF Moves, pace
<1>8. CASE Goto(r, AfterCount(k)) /\ counters[k].count # 0
  <2>1. AfterCount(k) \in Steps /\ AfterCount(k) # "count"
    BY DEF Steps, AfterCount
  <2>2. Moves(r, AfterCount(k)) /\ UNCHANGED pace
    BY <1>1, <1>8, <2>1, GotoDoes
  <2> QED
    BY <1>2, <1>6, <1>8, <2>1, <2>2 DEF Moves, pace
<1>9. CASE Answer(r) /\ counters[k].count # 0
  BY <1>1, <1>2, <1>6, <1>9, AnswerDoes, NoRequestIsOne DEF Ends, pace
<1> QED
  BY <1>7, <1>8, <1>9 DEF Count

LEMMA WindowDoes ==
  ASSUME Typed, NEW r \in Requests, Window(r)
  PROVE  LET k == requests[r].on IN
         /\ k \in Counters /\ requests[r].at = "window" /\ Others(r)
         /\ CountsNow(k, counters[k].count)
         /\ counters[k].count > 0 => counters'[k].timed
         /\ requests'[r].at \notin {"count", "window"}
<1> DEFINE k == requests[r].on
           b == counters[k].count > 0
           c == [counters[k] EXCEPT !.timed = b]
<1>1. PaceOK
  BY TypeParts DEF Typed
<1>2. requests[r].at = "window" /\ k \in Counters
  BY DEF Window, Stands, Typed, Where, Belongs
<1>3. counters \in [Counters -> Counter] /\ counters[k] \in Counter
  BY <1>2 DEF Typed, TypeOK
<1>4. counters' = [counters EXCEPT ![k] = c]
  BY DEF Window, Expiring
<1>5. b => counters[k].count > 0
  OBVIOUS
<1>6. counters[k].count > 0 => b
  OBVIOUS
<1> HIDE DEF b
<1>7. c.count = counters[k].count /\ c.timed = b
  BY <1>3 DEF Counter
<1> HIDE DEF c
<1>8. CountsNow(k, counters[k].count) /\ counters'[k].timed = b
  BY <1>2, <1>3, <1>4, <1>7 DEF CountsNow
<1>9. CASE Answer(r)
  BY <1>1, <1>2, <1>6, <1>8, <1>9, AnswerDoes, NoRequestIsOne DEF Ends
<1>10. CASE Goto(r, AfterCount(k))
  <2>1. AfterCount(k) \in Steps /\ AfterCount(k) \notin {"count", "window"}
    BY DEF Steps, AfterCount
  <2>2. Moves(r, AfterCount(k))
    BY <1>1, <1>10, <2>1, GotoDoes
  <2> QED
    BY <1>2, <1>6, <1>8, <2>1, <2>2 DEF Moves
<1> QED
  BY <1>9, <1>10 DEF Window

(* The key of a counter is gone, and no request counts or waits for it. *)
Cleared(k) ==
  /\ k \in Counters
  /\ CountsNow(k, 0)
  /\ \A q \in Requests :
       requests[q].at \in {"count", "window"} \/ requests'[q].at \in {"count", "window"} =>
         requests'[q] = requests[q]

LEMMA ClearsDo ==
  ASSUME Typed, NEW r \in Requests, ClearLoginFailures(r) \/ ClearVerifyFailures(r)
  PROVE  \E k : Cleared(k)
<1>1. PaceOK /\ counters \in [Counters -> Counter]
  BY TypeParts DEF Typed, TypeOK
<1>2. NoCounter.count = 0
  BY DEF NoCounter
<1>3. CASE ClearLoginFailures(r)
  <2> DEFINE e == requests[r].on
             role == IF e # Owner THEN requests[r].role ELSE IF members[e].exists THEN members[e].role ELSE "owner"
             q == [requests[r] EXCEPT !.at = "create_session", !.role = role]
  <2>1. requests[r].at = "verified" /\ e \in Counters
    BY <1>3 DEF ClearLoginFailures, Stands, Typed, Where, Belongs, Counters
  <2>2. requests' = [requests EXCEPT ![r] = q]
    BY <1>3 DEF ClearLoginFailures
  <2> HIDE DEF role
  <2>3. q.at = "create_session"
    BY <1>1 DEF PaceOK, Request
  <2> HIDE DEF q
  <2>4. Others(r) /\ requests'[r].at = "create_session"
    BY <1>1, <2>2, <2>3 DEF PaceOK, Others
  <2>5. CountsNow(e, 0)
    BY <1>1, <1>2, <1>3, <2>1 DEF ClearLoginFailures, CountsNow
  <2>6. Cleared(e)
    BY <2>1, <2>4, <2>5 DEF Cleared, Others
  <2> QED
    BY <2>6
<1>4. CASE ClearVerifyFailures(r)
  <2>1. requests[r].at = "exchange" /\ Goto(r, "mark_used") /\ "mark_used" \in Steps
    BY <1>4 DEF ClearVerifyFailures, Stands, Steps
  <2>2. Moves(r, "mark_used")
    BY <1>1, <2>1, GotoDoes
  <2>3. "otp_verify" \in Counters
    BY DEF Counters
  <2>4. CountsNow("otp_verify", 0)
    BY <1>1, <1>2, <1>4, <2>3 DEF ClearVerifyFailures, CountsNow
  <2>5. Cleared("otp_verify")
    BY <2>1, <2>2, <2>3, <2>4 DEF Cleared, Moves, Others
  <2> QED
    BY <2>5
<1> QED
  BY <1>3, <1>4

LEMMA WindowEndsDoes ==
  ASSUME Typed, NEW k \in Counters, WindowEnds(k)
  PROVE  Cleared(k)
<1>1. counters \in [Counters -> Counter] /\ NoCounter.count = 0
  BY DEF Typed, TypeOK, NoCounter
<1> QED
  BY <1>1 DEF WindowEnds, Cleared, CountsNow

(* A request leaves the steps that other requests rely on by the statement *)
(* it stands before, or by a fault.                                        *)
LEMMA Leaving ==
  ASSUME Typed, Next, NEW q \in Requests, requests[q].at \in {"window", "accept"}
  PROVE  requests'[q] = requests[q] \/ Window(q) \/ MarkAccepted(q) \/ faults' = faults + 1
<1>1. requests \in [Requests -> Request]
  BY DEF Typed, TypeOK
<1>2. CASE \E r \in Requests : Accounts(r)
  <2>1. PICK r \in Requests : Accounts(r)
    BY <1>2
  <2>2. q = r \/ requests'[q] = requests[q]
    BY <1>1, <2>1 DEF Accounts, Login, ClearLoginFailures,
       CreateSession, Register, CreateTenant, SetPassword, BackfillOwner, DropCodes, SendCode,
       ResendVerification, VerifyEmail, MarkCode, MarkEmailVerified, Refresh, Logout, TouchRead,
       TouchWrite, RevokeOnLogout, Begin, Goto, Answer
  <2>3. requests[r].at \notin {"window", "accept"}
    BY <2>1 DEF Accounts, Login, ClearLoginFailures, Stands,
       CreateSession, Register, CreateTenant, SetPassword, BackfillOwner, DropCodes, SendCode,
       ResendVerification, VerifyEmail, MarkCode, MarkEmailVerified, Refresh, Logout, TouchRead,
       TouchWrite, RevokeOnLogout, Begin
  <2> QED
    BY <2>2, <2>3
<1>3. CASE \E r \in Requests : Team(r)
  <2>1. PICK r \in Requests : Team(r)
    BY <1>3
  <2>2. q = r \/ requests'[q] = requests[q]
    BY <1>1, <2>1 DEF Team, InviteMember, RemoveMember, AcceptInvite, InsertInvitation,
       CreateMember, MarkAccepted, DeleteMember, Begin, Goto, Answer
  <2>3. requests[r].at \notin {"window", "accept"} \/ MarkAccepted(r)
    BY <2>1 DEF Team, InviteMember, RemoveMember, AcceptInvite, InsertInvitation,
       CreateMember, DeleteMember, Begin, Stands
  <2> QED
    BY <2>2, <2>3
<1>4. CASE \E r \in Requests : Grants(r)
  <2>1. PICK r \in Requests : Grants(r)
    BY <1>4
  <2>2. q = r \/ requests'[q] = requests[q]
    BY <1>1, <2>1 DEF Grants, Count, Window, RequestOTP, IssueCode, GuessOTP, VerifyOTP,
       ClearVerifyFailures, MarkUsed, IssueToken, CreateToken, Begin, Goto, Answer
  <2>3. requests[r].at \notin {"window", "accept"} \/ Window(r)
    BY <2>1 DEF Grants, Count, RequestOTP, IssueCode, GuessOTP, VerifyOTP,
       ClearVerifyFailures, MarkUsed, IssueToken, CreateToken, Begin, Stands
  <2> QED
    BY <2>2, <2>3
<1>5. CASE \E r \in Requests : Abort(r) \/ IgnoredFailure(r)
  BY <1>5 DEF Abort, IgnoredFailure
<1>6. CASE AtOnce
  BY <1>6 DEF AtOnce, pace, RevokeSession, ListSessions, CreateClient, RevokeClient,
     RevokeInvitation, InvitationExpires, UpdateMemberRole, CodeExpires, WindowEnds
<1>7. CASE Tick
  BY <1>7 DEF Tick
<1> QED
  BY <1>2, <1>3, <1>4, <1>5, <1>6, <1>7 DEF Next

LEMMA ExpiryStep ==
  ASSUME Typed, FailuresExpire, Next
  PROVE  FailuresExpire'
<1>1. Shape /\ Writers
  BY NextDoes, WritersWrite
<1>2. faults \in Nat /\ \A k \in Counters : counters[k].count \in Nat
  BY DEF Typed, TypeOK, Counter
<1> SUFFICES ASSUME faults' = 0, NEW k \in Counters, counters'[k].count > 0
             PROVE  counters'[k].timed \/ \E r \in Requests : requests'[r].at = "window" /\ requests'[r].on = k
  BY DEF FailuresExpire, Stands
<1>3. faults = 0 /\ faults' # faults + 1
  BY <1>1, <1>2 DEF Writers
<1>4. counters[k].count > 0 =>
        counters[k].timed \/ \E r \in Requests : requests[r].at = "window" /\ requests[r].on = k
  BY <1>3 DEF FailuresExpire, Stands
<1>5. ASSUME NEW q \in Requests, requests[q].at = "window"
      PROVE  requests'[q] = requests[q] \/ Window(q)
  <2>1. requests'[q] = requests[q] \/ Window(q) \/ MarkAccepted(q)
    BY <1>3, <1>5, Leaving
  <2> QED
    BY <1>5, <2>1 DEF MarkAccepted, Stands
<1>6. ASSUME NEW r \in Requests, Window(r)
      PROVE  counters'[k].timed \/ \E q \in Requests : requests'[q].at = "window" /\ requests'[q].on = k
  <2> DEFINE x == requests[r].on
  <2>1. /\ x \in Counters /\ Others(r) /\ CountsNow(x, counters[x].count)
        /\ counters[x].count > 0 => counters'[x].timed
    BY <1>6, WindowDoes
  <2>2. CASE k = x
    BY <2>1, <2>2 DEF CountsNow
  <2>3. CASE k # x
    BY <1>4, <2>1, <2>3 DEF CountsNow, Others
  <2> QED
    BY <2>2, <2>3
<1>7. ASSUME NEW r \in Requests, Count(r)
      PROVE  counters'[k].timed \/ \E q \in Requests : requests'[q].at = "window" /\ requests'[q].on = k
  <2> DEFINE x == requests[r].on
  <2>1. /\ x \in Counters /\ requests[r].at = "count" /\ Others(r)
        /\ CountsNow(x, counters[x].count + 1) /\ counters'[x].timed = counters[x].timed
        /\ counters[x].count = 0 => requests'[r].at = "window" /\ requests'[r].on = x
    BY <1>7, CountDoes
  <2>2. CASE k = x
    BY <1>2, <1>4, <2>1, <2>2 DEF Others
  <2>3. CASE k # x
    BY <1>4, <2>1, <2>3 DEF CountsNow, Others
  <2> QED
    BY <2>2, <2>3
<1>8. ASSUME NEW x, Cleared(x)
      PROVE  counters'[k].timed \/ \E q \in Requests : requests'[q].at = "window" /\ requests'[q].on = k
  BY <1>4, <1>8 DEF Cleared, CountsNow
<1>9. CASE UNCHANGED counters
  BY <1>4, <1>5, <1>6, <1>9
<1> QED
  BY <1>1, <1>6, <1>7, <1>8, <1>9, ClearsDo, WindowEndsDoes DEF Writers

(* Unless an EXPIRE is lost, a counter that counts has an end              *)
(* (internal/cache/redis.go:83).                                           *)
THEOREM LocksEnd == Spec => []FailuresExpire
<1>1. Init => FailuresExpire
  BY DEF Init, FailuresExpire, NoCounter
<1>2. Typed /\ FailuresExpire /\ [Next]_vars => FailuresExpire'
  BY ExpiryStep DEF vars, FailuresExpire, Stands
<1> QED
  BY TypedAlways, <1>1, <1>2, PTL DEF Spec

-----------------------------------------------------------------------------
(* The limits.  What was counted, and those who are about to be.           *)

Counting(k) == {r \in Requests : requests[r].at = "count" /\ requests[r].on = k}

CapInv ==
  \A k \in Counters :
    counters[k].count + Cardinality(Counting(k)) < Limit[k] + Cardinality(Requests)

LEMMA CountingIsFinite ==
  ASSUME NEW k
  PROVE  /\ Cardinality(Requests) \in Nat
         /\ Cardinality(Counting(k)) \in Nat /\ Cardinality(Counting(k))' \in Nat
         /\ Cardinality(Counting(k)) <= Cardinality(Requests)
         /\ Cardinality(Counting(k))' <= Cardinality(Requests)
         /\ Counting(k)' \subseteq Counting(k) =>
              Cardinality(Counting(k))' <= Cardinality(Counting(k))
         /\ \A r \in Counting(k) : Counting(k)' = Counting(k) \ {r} =>
              Cardinality(Counting(k))' = Cardinality(Counting(k)) - 1
<1>1. Counting(k) \subseteq Requests /\ Counting(k)' \subseteq Requests
  BY DEF Counting
<1>2. IsFiniteSet(Requests)
  BY AccessAssumption
<1>3. IsFiniteSet(Counting(k)) /\ IsFiniteSet(Counting(k)')
  BY <1>1, <1>2, FS_Subset
<1>4. Cardinality(Requests) \in Nat /\ Cardinality(Counting(k)) \in Nat /\ Cardinality(Counting(k)') \in Nat
  BY <1>2, <1>3, FS_CardinalityType
<1>5. /\ Cardinality(Counting(k)) <= Cardinality(Requests)
      /\ Cardinality(Counting(k)') <= Cardinality(Requests)
  BY <1>1, <1>2, FS_Subset
<1>6. Counting(k)' \subseteq Counting(k) => Cardinality(Counting(k)') <= Cardinality(Counting(k))
  BY <1>3, FS_Subset
<1>7. ASSUME NEW r \in Counting(k), Counting(k)' = Counting(k) \ {r}
      PROVE  Cardinality(Counting(k)') = Cardinality(Counting(k)) - 1
  BY <1>3, <1>7, FS_RemoveElement
<1> QED
  BY <1>4, <1>5, <1>6, <1>7

LEMMA CapStep ==
  ASSUME Typed, CapInv, Next
  PROVE  CapInv'
<1>1. Shape /\ Writers
  BY NextDoes, WritersWrite
<1>2. \A k \in Counters : counters[k].count \in Nat /\ counters'[k].count \in Nat /\ Limit[k] \in Nat \ {0}
  BY NextDoes, AccessAssumption DEF Typed, TypeOK, Counter, Limit
<1> SUFFICES ASSUME NEW k \in Counters
             PROVE  counters'[k].count + Cardinality(Counting(k))' < Limit[k] + Cardinality(Requests)
  BY DEF CapInv, Limit
<1>3. counters[k].count + Cardinality(Counting(k)) < Limit[k] + Cardinality(Requests)
  BY DEF CapInv
<1>4. /\ Cardinality(Requests) \in Nat
      /\ Cardinality(Counting(k)) \in Nat /\ Cardinality(Counting(k))' \in Nat
      /\ Cardinality(Counting(k))' <= Cardinality(Requests)
      /\ Counting(k)' \subseteq Counting(k) => Cardinality(Counting(k))' <= Cardinality(Counting(k))
  BY CountingIsFinite
<1>5. ASSUME counters'[k].count < Limit[k]
      PROVE  counters'[k].count + Cardinality(Counting(k))' < Limit[k] + Cardinality(Requests)
  BY <1>2, <1>4, <1>5
<1>6. ASSUME counters'[k].count <= counters[k].count, Counting(k)' \subseteq Counting(k)
      PROVE  counters'[k].count + Cardinality(Counting(k))' < Limit[k] + Cardinality(Requests)
  BY <1>2, <1>3, <1>4, <1>6
<1>7. ASSUME NEW r \in Requests, Count(r)
      PROVE  counters'[k].count + Cardinality(Counting(k))' < Limit[k] + Cardinality(Requests)
  <2> DEFINE x == requests[r].on
  <2>1. /\ x \in Counters /\ requests[r].at = "count" /\ Others(r)
        /\ CountsNow(x, counters[x].count + 1) /\ requests'[r].at # "count"
    BY <1>7, CountDoes
  <2>2. CASE k = x
    <3>1. r \in Counting(k) /\ Counting(k)' = Counting(k) \ {r}
      BY <2>1, <2>2 DEF Counting, Others
    <3>2. Cardinality(Counting(k))' = Cardinality(Counting(k)) - 1
      BY <3>1, CountingIsFinite
    <3>3. counters'[k].count = counters[k].count + 1
      BY <2>1, <2>2 DEF CountsNow
    <3> QED
      BY <1>2, <1>3, <1>4, <3>2, <3>3
  <2>3. CASE k # x
    <3>1. Counting(k)' \subseteq Counting(k)
      BY <2>1 DEF Counting, Others
    <3>2. counters'[k] = counters[k]
      BY <2>1, <2>3 DEF CountsNow
    <3> QED
      BY <1>2, <1>6, <3>1, <3>2
  <2> QED
    BY <2>2, <2>3
<1>8. ASSUME NEW r \in Requests, Window(r)
      PROVE  counters'[k].count + Cardinality(Counting(k))' < Limit[k] + Cardinality(Requests)
  <2> DEFINE x == requests[r].on
  <2>1. x \in Counters /\ Others(r) /\ CountsNow(x, counters[x].count) /\ requests'[r].at # "count"
    BY <1>8, WindowDoes
  <2>2. Counting(k)' \subseteq Counting(k)
    BY <2>1 DEF Counting, Others
  <2>3. counters'[k].count = counters[k].count
    BY <2>1 DEF CountsNow
  <2> QED
    BY <1>2, <1>6, <2>2, <2>3
<1>9. ASSUME NEW x, Cleared(x)
      PROVE  counters'[k].count + Cardinality(Counting(k))' < Limit[k] + Cardinality(Requests)
  <2>1. Counting(k)' \subseteq Counting(k)
    BY <1>9 DEF Cleared, Counting
  <2>2. counters'[k].count <= counters[k].count
    BY <1>2, <1>9 DEF Cleared, CountsNow
  <2> QED
    BY <1>6, <2>1, <2>2
<1>10. CASE UNCHANGED counters
  <2>1. CASE \E r \in Requests : Starts(r) /\ requests'[r].at = "count" /\ requests'[r].on = k
    <3>1. counters[k].count < Limit[k]
      BY <1>2, <2>1 DEF Starts, AtStart, AtLimit
    <3> QED
      BY <1>5, <1>10, <3>1
  <2>2. CASE ~\E r \in Requests : Starts(r) /\ requests'[r].at = "count" /\ requests'[r].on = k
    <3>1. Counting(k)' \subseteq Counting(k)
      BY <1>1, <2>2, NoRequestIsOne DEF Shape, Starts, Continues, Follows, Ends, Others, Counting
    <3> QED
      BY <1>2, <1>6, <1>10, <3>1
  <2> QED
    BY <2>1, <2>2
<1> QED
  BY <1>1, <1>7, <1>8, <1>9, <1>10, ClearsDo, WindowEndsDoes DEF Writers

(* Checking a counter and raising it are two commands: the limit is passed *)
(* by the other requests at most (internal/api/handlers/auth.go:141,       *)
(* portal_auth.go:74 and 139).                                             *)
THEOREM LimitsHold == Spec => []AttemptsAreCapped
<1>1. Init => CapInv
  <2> SUFFICES ASSUME Init, NEW k \in Counters
               PROVE  counters[k].count + Cardinality(Counting(k)) < Limit[k] + Cardinality(Requests)
    BY DEF CapInv
  <2>1. counters[k].count = 0 /\ Limit[k] \in Nat \ {0}
    BY AccessAssumption DEF Init, NoCounter, Counters, Limit
  <2> QED
    BY <2>1, CountingIsFinite
<1>2. Typed /\ CapInv /\ [Next]_vars => CapInv'
  BY CapStep DEF vars, CapInv, Counting
<1>3. Typed /\ CapInv => AttemptsAreCapped
  <2> SUFFICES ASSUME Typed, CapInv, NEW k \in Counters
               PROVE  counters[k].count < Limit[k] + Cardinality(Requests)
    BY DEF AttemptsAreCapped
  <2>1. counters[k].count + Cardinality(Counting(k)) < Limit[k] + Cardinality(Requests)
    BY DEF CapInv
  <2>2. counters[k].count \in Nat /\ Limit[k] \in Nat
    BY AccessAssumption DEF Typed, TypeOK, Counter, Limit
  <2> QED
    BY <2>1, <2>2, CountingIsFinite
<1> QED
  BY TypedAlways, <1>1, <1>2, <1>3, PTL DEF Spec

-----------------------------------------------------------------------------
(* Invitations and portal codes.  Where requests did not overlap and no    *)
(* statement failed, what let somebody in is marked, or about to be.       *)

Done == {"accepted", "deleted"}

OpenInv ==
  faults = 0 =>
    /\ \A c \in PortalCodes \ contested : taken[c] <= 1 /\ (taken[c] # 0 => codes[c] = "used")
    /\ \A i \in Invitations \ contested :
         /\ taken[i] <= 1
         /\ taken[i] # 0 =>
              \/ invitations[i].state \in Done
              \/ \E r \in Requests : requests[r].at = "accept" /\ requests[r].on = i
    /\ \A r \in Requests :
         requests[r].at \in {"join", "exchange", "mark_used"} /\ requests[r].on \notin contested =>
           taken[requests[r].on] = 0

(* A mark stays: no statement takes it back. *)
LEMMA MarksStay ==
  ASSUME Typed, Next
  PROVE  /\ \A c \in PortalCodes : codes[c] = "used" => codes'[c] = "used"
         /\ \A i \in Invitations : invitations[i].state \in Done => invitations'[i].state \in Done
         /\ \A r \in Requests : MarkAccepted(r) => invitations'[requests[r].on].state \in Done
<1>1. Writers
  BY WritersWrite
<1>2. codes \in [Codes -> CodeStates] /\ PortalCodes \subseteq Codes
  BY DEF Typed, TypeOK, Codes
<1>3. /\ invitations \in [Invitations -> Invitation]
      /\ \A i \in Invitations : invitations[i] \in Invitation
  BY DEF Typed, TypeOK
<1>4. PortalCodes \cap VerificationCodes = {}
  BY AccessAssumption
<1>5. ASSUME NEW c \in PortalCodes, codes[c] = "used"
      PROVE  codes'[c] = "used"
  <2>1. c \in Codes /\ c \notin VerificationCodes
    BY <1>2, <1>4
  <2> QED
    BY <1>1, <1>2, <1>5, <2>1
    DEF Writers, DropCodes, SendCode, MarkCode, IssueCode, MarkUsed, CodeExpires, CodeUsed
<1>6. \A inv \in Invitation :
        /\ InvitationAccepted(inv).state \in Done /\ InvitationDeleted(inv).state \in Done
  BY DEF Invitation, InvitationAccepted, InvitationDeleted, Done
<1>7. ASSUME NEW r \in Requests, MarkAccepted(r)
      PROVE  /\ invitations'[requests[r].on].state \in Done
             /\ \A j \in Invitations : j # requests[r].on => invitations'[j] = invitations[j]
  <2>1. requests[r].on \in Invitations
    BY <1>7 DEF MarkAccepted, Stands, Typed, Where, Belongs
  <2> QED
    BY <1>3, <1>6, <1>7, <2>1 DEF MarkAccepted
<1>8. ASSUME NEW i \in Invitations, invitations[i].state \in Done
      PROVE  invitations'[i].state \in Done
  <2>1. ASSUME NEW r \in Requests, InsertInvitation(r)
        PROVE  invitations'[i].state \in Done
    BY <1>3, <1>8, <2>1 DEF InsertInvitation, Done
  <2>2. ASSUME NEW j \in Invitations, RevokeInvitation(j)
        PROVE  invitations'[i].state \in Done
    BY <1>3, <1>6, <1>8, <2>2 DEF RevokeInvitation
  <2>3. ASSUME NEW j \in Invitations, InvitationExpires(j)
        PROVE  invitations'[i].state \in Done
    <3>1. i # j
      BY <1>8, <2>3 DEF InvitationExpires, Done
    <3> QED
      BY <1>3, <1>8, <2>3, <3>1 DEF InvitationExpires
  <2>4. CASE UNCHANGED invitations
    BY <1>8, <2>4
  <2> QED
    BY <1>1, <1>7, <1>8, <2>1, <2>2, <2>3, <2>4 DEF Writers
<1> QED
  BY <1>5, <1>7, <1>8

LEMMA CreateMemberDoes ==
  ASSUME Typed, NEW r \in Requests, CreateMember(r)
  PROVE  LET i == requests[r].on IN
         /\ i \in Invitations /\ requests[r].at = "join" /\ Others(r) /\ UNCHANGED contested
         /\ \/ UNCHANGED taken
            \/ /\ requests'[r].at = "accept" /\ requests'[r].on = i
               /\ taken' = [taken EXCEPT ![i] = taken[i] + 1]
<1> DEFINE i == requests[r].on
<1>1. PaceOK
  BY TypeParts DEF Typed
<1>2. requests[r].at = "join" /\ i \in Invitations
  BY DEF CreateMember, Stands, Typed, Where, Belongs
<1>3. CASE Answer(r) /\ UNCHANGED taken
  BY <1>1, <1>2, <1>3, AnswerDoes DEF Ends, pace
<1>4. CASE Goto(r, "accept") /\ taken' = [taken EXCEPT ![i] = taken[i] + 1]
  <2>1. "accept" \in Steps
    BY DEF Steps
  <2>2. Moves(r, "accept") /\ UNCHANGED pace
    BY <1>1, <1>4, <2>1, GotoDoes
  <2> QED
    BY <1>2, <1>4, <2>2 DEF Moves, pace
<1> QED
  BY <1>3, <1>4 DEF CreateMember

LEMMA MarkUsedDoes ==
  ASSUME Typed, NEW r \in Requests, MarkUsed(r)
  PROVE  LET c == requests[r].on IN
         /\ c \in PortalCodes /\ requests[r].at = "mark_used" /\ Ends(r) /\ UNCHANGED contested
         /\ taken' = [taken EXCEPT ![c] = taken[c] + 1] /\ codes'[c] = "used"
<1>1. PaceOK
  BY TypeParts DEF Typed
<1>2. requests[r].at = "mark_used" /\ requests[r].on \in PortalCodes
  BY DEF MarkUsed, Stands, Typed, Where, Belongs
<1>3. codes \in [Codes -> CodeStates] /\ PortalCodes \subseteq Codes
  BY DEF Typed, TypeOK, Codes
<1> QED
  BY <1>1, <1>2, <1>3, AnswerDoes DEF MarkUsed, CodeUsed, pace

LEMMA OpenStep ==
  ASSUME Typed, Alone, OpenInv, Next
  PROVE  OpenInv'
<1>1. Shape /\ Writers /\ Typed'
  BY NextDoes, WritersWrite
<1> SUFFICES ASSUME faults' = 0 PROVE OpenInv'
  BY DEF OpenInv
<1>2. faults = 0 /\ faults' # faults + 1
  BY <1>1 DEF Writers, Typed, TypeOK
<1>3. contested \subseteq contested'
  BY <1>1 DEF Shape
<1>4. /\ \A c \in PortalCodes : codes[c] = "used" => codes'[c] = "used"
      /\ \A i \in Invitations : invitations[i].state \in Done => invitations'[i].state \in Done
  BY MarksStay
<1>5. ASSUME NEW q \in Requests, requests[q].at = "accept"
      PROVE  requests'[q] = requests[q] \/ invitations'[requests[q].on].state \in Done
  <2>1. requests'[q] = requests[q] \/ Window(q) \/ MarkAccepted(q)
    BY <1>2, <1>5, Leaving
  <2> QED
    BY <1>5, <2>1, MarksStay DEF Window, Stands
<1>6. \A r \in Requests :
        /\ requests[r].at \in {"join", "accept"} => requests[r].on \in Invitations
        /\ requests[r].at \in {"exchange", "mark_used"} => requests[r].on \in PortalCodes
        /\ requests'[r].at = "join" => requests'[r].on \in Invitations
        /\ requests'[r].at = "exchange" => requests'[r].on \in PortalCodes
  BY <1>1 DEF Typed, Where, Belongs
<1>7. /\ taken \in [Invitations \cup PortalCodes -> Nat]
      /\ Invitations \subseteq Guarded /\ PortalCodes \subseteq Guarded
      /\ Invitations \cap PortalCodes = {}
  BY AccessAssumption DEF Typed, TypeOK, Guarded, Codes
<1>8. /\ \A c \in PortalCodes \ contested : taken[c] <= 1 /\ (taken[c] # 0 => codes[c] = "used")
      /\ \A i \in Invitations \ contested :
           /\ taken[i] <= 1
           /\ taken[i] # 0 =>
                \/ invitations[i].state \in Done
                \/ \E r \in Requests : requests[r].at = "accept" /\ requests[r].on = i
      /\ \A r \in Requests :
           requests[r].at \in {"join", "exchange", "mark_used"} /\ requests[r].on \notin contested =>
             taken[requests[r].on] = 0
  BY <1>2 DEF OpenInv
(* Who stands before a credential's use knows that nobody used it. *)
<1>9. ASSUME NEW r \in Requests, requests'[r].at \in {"join", "exchange", "mark_used"},
             requests'[r].on \notin contested'
      PROVE  /\ taken[requests'[r].on] = 0
             /\ \A q \in Requests : q # r /\ requests[q].at # "idle" => requests[q].on # requests'[r].on
  <2>1. CASE requests'[r] = requests[r]
    BY <1>3, <1>6, <1>7, <1>8, <1>9, <2>1 DEF Alone
  <2>2. CASE Continues(r)
    BY <1>3, <1>6, <1>7, <1>8, <1>9, <2>2 DEF Alone, Continues, Follows
  <2>3. CASE Starts(r)
    <3> DEFINE x == requests'[r].on
    <3>1. requests'[r].at # "mark_used" /\ requests[r].at = "idle"
      BY <2>3 DEF Starts, AtStart
    <3>2. x \in Invitations \cup PortalCodes /\ x \notin contested
      BY <1>3, <1>6, <1>9, <3>1
    <3>3. \A q \in Requests : requests[q].at # "idle" => requests[q].on # x
      BY <1>7, <1>9, <2>3, <3>2 DEF Starts, Busy
    <3>4. CASE requests'[r].at = "join"
      <4>1. invitations[x].state = "pending" /\ x \in Invitations
        BY <1>6, <2>3, <3>4 DEF Starts, AtStart
      <4> QED
        BY <1>8, <3>2, <3>3, <4>1 DEF Done
    <3>5. CASE requests'[r].at = "exchange"
      <4>1. codes[x] = "issued" /\ x \in PortalCodes
        BY <1>6, <2>3, <3>5 DEF Starts, AtStart
      <4> QED
        BY <1>8, <3>2, <3>3, <4>1
    <3> QED
      BY <1>9, <3>1, <3>4, <3>5
  <2> QED
    BY <1>1, <1>9, <2>1, <2>2, <2>3, NoRequestIsOne DEF Shape, Starts, Continues, Ends, Others
<1>10. CASE UNCHANGED taken
  <2>1. \A c \in PortalCodes \ contested' : taken'[c] <= 1 /\ (taken'[c] # 0 => codes'[c] = "used")
    BY <1>3, <1>4, <1>8, <1>10
  <2>2. ASSUME NEW i \in Invitations \ contested'
        PROVE  /\ taken'[i] <= 1
               /\ taken'[i] # 0 =>
                    \/ invitations'[i].state \in Done
                    \/ \E r \in Requests : requests'[r].at = "accept" /\ requests'[r].on = i
    BY <1>3, <1>4, <1>5, <1>8, <1>10, <2>2
  <2>3. \A r \in Requests :
          requests'[r].at \in {"join", "exchange", "mark_used"} /\ requests'[r].on \notin contested' =>
            taken'[requests'[r].on] = 0
    BY <1>9, <1>10
  <2> QED
    BY <2>1, <2>2, <2>3 DEF OpenInv
<1>11. ASSUME NEW r \in Requests, CreateMember(r), ~UNCHANGED taken
       PROVE  OpenInv'
  <2> DEFINE x == requests[r].on
  <2>1. /\ x \in Invitations /\ requests[r].at = "join" /\ Others(r) /\ UNCHANGED contested
        /\ requests'[r].at = "accept" /\ requests'[r].on = x
        /\ taken' = [taken EXCEPT ![x] = taken[x] + 1]
    BY <1>11, CreateMemberDoes
  <2>2. \A c \in PortalCodes \ contested' : taken'[c] <= 1 /\ (taken'[c] # 0 => codes'[c] = "used")
    BY <1>3, <1>4, <1>7, <1>8, <2>1
  <2>3. x \notin contested => taken'[x] = 1
    BY <1>7, <1>8, <2>1
  <2>4. ASSUME NEW i \in Invitations \ contested', i # x
        PROVE  /\ taken'[i] <= 1
               /\ taken'[i] # 0 =>
                    \/ invitations'[i].state \in Done
                    \/ \E q \in Requests : requests'[q].at = "accept" /\ requests'[q].on = i
    <3>1. taken'[i] = taken[i]
      BY <1>7, <2>1, <2>4
    <3> QED
      BY <1>3, <1>4, <1>5, <1>8, <2>4, <3>1
  <2>5. ASSUME NEW q \in Requests, requests'[q].at \in {"join", "exchange", "mark_used"},
               requests'[q].on \notin contested'
        PROVE  taken'[requests'[q].on] = 0
    <3>1. q # r /\ requests[r].at # "idle"
      BY <2>1, <2>5
    <3>2. taken[requests'[q].on] = 0 /\ requests'[q].on # x
      BY <1>9, <2>5, <3>1
    <3> QED
      BY <1>7, <2>1, <3>2
  <2> QED
    BY <2>1, <2>2, <2>3, <2>4, <2>5 DEF OpenInv
<1>12. ASSUME NEW r \in Requests, MarkUsed(r)
       PROVE  OpenInv'
  <2> DEFINE x == requests[r].on
  <2>1. /\ x \in PortalCodes /\ requests[r].at = "mark_used" /\ Ends(r) /\ UNCHANGED contested
        /\ taken' = [taken EXCEPT ![x] = taken[x] + 1] /\ codes'[x] = "used"
    BY <1>12, MarkUsedDoes
  <2>2. x \notin contested => taken'[x] = 1
    BY <1>7, <1>8, <2>1
  <2>3. \A c \in PortalCodes \ contested' : taken'[c] <= 1 /\ (taken'[c] # 0 => codes'[c] = "used")
    BY <1>3, <1>4, <1>7, <1>8, <2>1, <2>2
  <2>4. ASSUME NEW i \in Invitations \ contested'
        PROVE  /\ taken'[i] <= 1
               /\ taken'[i] # 0 =>
                    \/ invitations'[i].state \in Done
                    \/ \E q \in Requests : requests'[q].at = "accept" /\ requests'[q].on = i
    <3>1. taken'[i] = taken[i]
      BY <1>7, <2>1, <2>4
    <3> QED
      BY <1>3, <1>4, <1>5, <1>8, <2>4, <3>1
  <2>5. ASSUME NEW q \in Requests, requests'[q].at \in {"join", "exchange", "mark_used"},
               requests'[q].on \notin contested'
        PROVE  taken'[requests'[q].on] = 0
    <3>1. q # r /\ requests[r].at # "idle"
      BY <2>1, <2>5, NoRequestIsOne DEF Ends
    <3>2. taken[requests'[q].on] = 0 /\ requests'[q].on # x
      BY <1>9, <2>5, <3>1
    <3> QED
      BY <1>7, <2>1, <3>2
  <2> QED
    BY <2>3, <2>4, <2>5 DEF OpenInv
<1>13. ASSUME NEW r \in Requests, IgnoredFailure(r)
       PROVE  FALSE
  BY <1>2, <1>13 DEF IgnoredFailure
<1> QED
  BY <1>1, <1>10, <1>11, <1>12, <1>13 DEF Writers

(* An invitation makes one member and a login code gives one token, unless *)
(* two requests present it at once or a statement fails                    *)
(* (internal/api/handlers/team.go:138, portal_auth.go:150).                *)
THEOREM OneUseEach == Spec => []CredentialsOpenOnce
<1>1. Init => OpenInv
  BY DEF Init, NoRequest, OpenInv
<1>2. Typed /\ Alone /\ OpenInv /\ [Next]_vars => OpenInv'
  BY OpenStep DEF vars, OpenInv
<1>3. Typed /\ OpenInv => CredentialsOpenOnce
  BY DEF Typed, TypeOK, OpenInv, CredentialsOpenOnce
<1> QED
  BY TypedAlways, AloneAlways, <1>1, <1>2, <1>3, PTL DEF Spec

=============================================================================
