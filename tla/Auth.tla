-------------------------------- MODULE Auth ---------------------------------
(***************************************************************************)
(* Who is let in again without a password: the TokenManager of auth/token.go *)
(* in several processes whose clocks differ, while a signing key is        *)
(* replaced, and the RedisSessionManager of auth/session.go, whose sessions *)
(* live in one process.  Neither uses a variable of the other.             *)
(***************************************************************************)
EXTENDS Integers, FiniteSets, Sequences

-----------------------------------------------------------------------------
(* Tokens: those that one process issues are verified by all.  Times in a  *)
(* token are whole seconds; clocks tick twice a second.  Tokens of the     *)
(* format before v1.11 are accepted for a while.                           *)

CONSTANTS
    Managers,      \* processes with a TokenManager
    Offsets,       \* what a clock may differ from the time
    MaxTTLs,       \* TokenConfig.MaxTTL, in ticks
    ClockSkew,     \* TokenConfig.ClockSkew, in ticks
    AcceptUntil,   \* LegacyTokenConfig.AcceptUntil
    MaxTime,       \* bound: the time
    MaxTokens      \* bound: tokens

ASSUME TokensAssumption ==
    Offsets \subseteq Int /\ MaxTTLs \subseteq Int /\ ClockSkew \in Nat /\ MaxTime \in Nat

Second == 2

\* TokenConfig in the four releases that replace key 1 by key 2: a key is known
\* everywhere before it is used, and used nowhere before it is dropped.
SigningKeys == << {1}, {1, 2}, {1, 2}, {2} >>
ActiveKeyID == << 1, 1, 2, 2 >>

VARIABLES
    time,       \* the time, in ticks
    offset,     \* [Managers -> its clock minus the time]
    maxTTL,     \* MaxTTL of every release
    release,    \* [Managers -> 1 .. 4]
    tokens      \* tokens issued

tokenVars == <<time, offset, maxTTL, release, tokens>>

Unix(t) == t \div Second
Now(p) == time + offset[p]

TokensInit ==
    /\ time = 2 * Second
    /\ offset \in [Managers -> Offsets]
    /\ maxTTL \in MaxTTLs
    /\ release = [p \in Managers |-> 1]
    /\ tokens = {}

ClockTick ==
    /\ time < MaxTime
    /\ time' = time + 1
    /\ UNCHANGED <<offset, maxTTL, release, tokens>>

\* Mutant: the lifetime is rounded up.
ClaimsRoundedUp(p, ttl) ==
    [iat |-> Unix(Now(p)), nbf |-> Unix(Now(p)), exp |-> Unix(Now(p) + ttl + 1), kid |-> ActiveKeyID[release[p]]]

Claims(p, ttl) ==
    [iat |-> Unix(Now(p)), nbf |-> Unix(Now(p)), exp |-> Unix(Now(p) + ttl), kid |-> ActiveKeyID[release[p]]]

\* IssueUser refuses less than a second and more than MaxTTL.
IssueUser(p, ttl) ==
    /\ ttl >= Second /\ ttl <= maxTTL
    /\ Cardinality(tokens) < MaxTokens
    /\ tokens' = tokens \cup {[format |-> "jwt", claims |-> Claims(p, ttl), by |-> p, at |-> time, ttl |-> ttl]}
    /\ UNCHANGED <<time, offset, maxTTL, release>>

\* A token of an old process: signed, with an expiry and nothing else.
OldToken(ttl) ==
    /\ Cardinality(tokens) < MaxTokens
    /\ \E p \in Managers :
          tokens' = tokens \cup {[format |-> "legacy", claims |-> Claims(p, ttl), by |-> p, at |-> time, ttl |-> ttl]}
    /\ UNCHANGED <<time, offset, maxTTL, release>>

\* Processes are upgraded one after another, and the old key is dropped when
\* its tokens are out of date everywhere.
Upgrade(p) ==
    /\ release[p] < 4 /\ \A q \in Managers : release[q] >= release[p]
    /\ release[p] = 3 => \A t \in tokens, q \in Managers :
          t.claims.kid = 1 => Now(q) >= t.claims.exp * Second + ClockSkew
    /\ release' = [release EXCEPT ![p] = @ + 1]
    /\ UNCHANGED <<time, offset, maxTTL, tokens>>

TokensNext ==
    \/ ClockTick
    \/ \E p \in Managers : Upgrade(p) \/ \E ttl \in 1 .. MaxTime : IssueUser(p, ttl)
    \/ \E ttl \in 1 .. MaxTime : OldToken(ttl)

-----------------------------------------------------------------------------
\* validateClaims
ValidClaims(p, c) ==
    /\ c.iat * Second <= Now(p) + ClockSkew /\ c.nbf >= c.iat
    /\ Now(p) < c.exp * Second + ClockSkew
    /\ Now(p) + ClockSkew >= c.nbf * Second
    /\ c.exp - c.iat > 0 /\ c.exp - c.iat <= Unix(maxTTL)

VerifyJWT(p, t) == t.claims.kid \in SigningKeys[release[p]] /\ ValidClaims(p, t.claims)

\* The verifier of the old format knows no skew, and bounds what is left of a lifetime.
VerifyLegacy(p, t) ==
    /\ Now(p) < t.claims.exp * Second
    /\ t.claims.exp * Second <= Now(p) + maxTTL

\* verifyCompatible: a format decides who verifies; an invalid token of a format
\* that is recognized goes to no other verifier.
Accepted(p, t) ==
    \/ t.format = "jwt" /\ VerifyJWT(p, t)
    \/ t.format = "legacy" /\ Now(p) < AcceptUntil /\ VerifyLegacy(p, t)

-----------------------------------------------------------------------------
\* A process accepts the tokens of every process, throughout the replacement of
\* a key, as long as their lifetime says by its own clock, give or take the skew
\* and the part of a second that is cut off, and never longer. A lifetime that
\* is no whole number of seconds needs a MaxTTL that is.
TokensHonoured ==
    \A p \in Managers, t \in tokens :
        LET ahead == offset[p] - offset[t.by]
            age == time - t.at + ahead
        IN  /\ Accepted(p, t) => age < t.ttl + ClockSkew
            /\ /\ t.format = "jwt" /\ -ahead <= ClockSkew
               /\ t.ttl % Second = 0 \/ maxTTL % Second = 0
               /\ age + 1 < t.ttl + ClockSkew
               => Accepted(p, t)
            /\ t.format = "legacy" /\ Accepted(p, t) => Now(p) < AcceptUntil /\ age < t.ttl

-----------------------------------------------------------------------------
(* Sessions, and the identity that their middlewares and those of          *)
(* auth/token.go install in a request (auth/identity.go).                  *)

CONSTANTS
    Visits,            \* requests: logins, logouts and pages
    Users,
    SessionIDs,        \* session identifiers, drawn at random
    TTL,               \* SessionConfig.TTL
    MaxSessions,       \* SessionConfig.MaxSessions
    MaxSessionTime,    \* bound: the time
    Anonymous          \* no session, no identity

\* NewRedisSessionManager gives MaxSessions a value of at least 1.
ASSUME SessionsAssumption ==
    /\ Anonymous \notin SessionIDs \cup Users
    /\ IsFiniteSet(SessionIDs) /\ TTL \in Nat /\ MaxSessions \in Nat \ {0}

VARIABLES
    now,
    store,      \* [SessionIDs -> [user, expiresAt], or Anonymous]
    revoked,    \* identifiers that were revoked or replaced
    jar,        \* [Users -> the cookie their browser has]
    visit       \* [Visits -> what it does and where it is]

sessionVars == <<now, store, revoked, jar, visit>>

\* dead: there was no live session for the cookie when the request came.
\* A request of a user carries the cookie of its start and, for some, a bearer token.
Idle == [at |-> "idle", user |-> Anonymous, cookie |-> Anonymous, dead |-> FALSE, bearer |-> Anonymous, chain |-> "none",
         found |-> Anonymous, identity |-> Anonymous]

Guards == {"SessionMiddleware", "UniversalAuth", "OptionalAuthenticate"}

SessionsInit ==
    /\ now = 1
    /\ revoked = {}
    /\ \E logged \in {<<>>} \cup (SessionIDs \X Users) :    \* at most one is logged in
          /\ store = [i \in SessionIDs |->
                IF logged # <<>> /\ i = logged[1] THEN [user |-> logged[2], expiresAt |-> 1 + TTL] ELSE Anonymous]
          /\ jar = [u \in Users |-> IF logged # <<>> /\ u = logged[2] THEN logged[1] ELSE Anonymous]
    /\ visit = [r \in Visits |-> Idle]

TimePasses ==
    /\ now < MaxSessionTime
    /\ now' = now + 1
    /\ UNCHANGED <<store, revoked, jar, visit>>

Live(record) == record # Anonymous /\ now < record.expiresAt

Arrive(r, to, user, bearer, chain) ==
    /\ visit[r] = Idle
    /\ visit' = [visit EXCEPT ![r] =
           [Idle EXCEPT !.at = to, !.user = user, !.cookie = jar[user], !.bearer = bearer, !.chain = chain,
                        !.dead = jar[user] = Anonymous \/ jar[user] \in revoked \/ ~Live(store[jar[user]])]]
    /\ UNCHANGED <<now, store, revoked, jar>>

Reaches(r, to) == visit' = [visit EXCEPT ![r].at = to]

Login(r, user) == Arrive(r, "creating", user, Anonymous, "none")
Logout(r, user) == Arrive(r, "revoking", user, Anonymous, "none")
Page(r, user, bearer, chain) == Arrive(r, "reading", user, bearer, chain)

\* Mutant: a login leaves the session that was presented.
KeepsPresented(r) == store

\* CreateSession revokes the session that was presented ...
Rotated(r) == IF visit[r].cookie = Anonymous THEN store ELSE [store EXCEPT ![visit[r].cookie] = Anonymous]

RevokePresented(r) ==
    /\ visit[r].at = "creating"
    /\ store' = Rotated(r)
    /\ revoked' = revoked \cup ({visit[r].cookie} \ {Anonymous})
    /\ Reaches(r, "inserting")
    /\ UNCHANGED <<now, jar>>

\* ... and then makes a new one, if there is room when the expired ones are gone.
\* One clock serves both, read before the lock.  The identifier is one that neither
\* a browser nor a request has: 256 random bits are not drawn twice.
Purged == [i \in SessionIDs |-> IF Live(store[i]) THEN store[i] ELSE Anonymous]
Room == Cardinality({i \in SessionIDs : Live(store[i])}) < MaxSessions

Insert(r, i) ==
    /\ visit[r].at = "inserting" /\ Room
    /\ store[i] = Anonymous /\ i \notin revoked
    /\ (\A u \in Users : jar[u] # i) /\ \A q \in Visits : visit[q].cookie # i
    /\ store' = [Purged EXCEPT ![i] = [user |-> visit[r].user, expiresAt |-> now + TTL]]
    /\ jar' = [jar EXCEPT ![visit[r].user] = i]
    /\ Reaches(r, "ended")
    /\ UNCHANGED <<now, revoked>>

NoRoom(r) ==
    /\ visit[r].at = "inserting" /\ ~Room
    /\ store' = Purged
    /\ Reaches(r, "ended")
    /\ UNCHANGED <<now, revoked, jar>>

RevokeSession(r) ==
    /\ visit[r].at = "revoking"
    /\ store' = Rotated(r)
    /\ revoked' = revoked \cup ({visit[r].cookie} \ {Anonymous})
    /\ Reaches(r, "ended")
    /\ UNCHANGED <<now, jar>>

\* claimsForRequest reads the record under the lock ...
ReadRecord(r) ==
    /\ visit[r].at = "reading"
    /\ visit' = [visit EXCEPT ![r].at = "checking",
           ![r].found = IF visit[r].cookie = Anonymous THEN Anonymous ELSE store[visit[r].cookie]]
    /\ UNCHANGED <<now, store, revoked, jar>>

\* Who a middleware lets the request be: a session goes before a bearer token.
Identity(r, session) ==
    CASE visit[r].chain = "SessionMiddleware" -> session
      [] visit[r].chain = "UniversalAuth" -> IF session # Anonymous THEN session ELSE visit[r].bearer
      [] OTHER -> visit[r].bearer

\* installVerifiedIdentity: who the request is from here on.
Installed(r, who) == [visit EXCEPT ![r].identity = who, ![r].at = "authenticated"]

\* ... and tests its lifetime later; an expired one is revoked.
\* SessionMiddleware and UniversalAuth refuse a request without an identity.
Authenticate(r) ==
    /\ visit[r].at = "checking"
    /\ LET record == visit[r].found
           session == IF Live(record) THEN record.user ELSE Anonymous
           expired == record # Anonymous /\ ~Live(record) /\ visit[r].chain # "OptionalAuthenticate"
           refuses == Identity(r, session) = Anonymous /\ visit[r].chain # "OptionalAuthenticate"
       IN  /\ store' = IF expired THEN Rotated(r) ELSE store
           /\ IF refuses THEN Reaches(r, "refused") ELSE visit' = Installed(r, Identity(r, session))
    /\ UNCHANGED <<now, revoked, jar>>

SessionsNext ==
    \/ TimePasses
    \/ \E r \in Visits :
          \/ \E user \in Users :
                \/ Login(r, user) \/ Logout(r, user)
                \/ \E bearer \in Users \cup {Anonymous}, chain \in Guards : Page(r, user, bearer, chain)
          \/ RevokePresented(r) \/ NoRoom(r) \/ RevokeSession(r) \/ ReadRecord(r) \/ Authenticate(r)
          \/ \E i \in SessionIDs : Insert(r, i)

-----------------------------------------------------------------------------
\* There are never more sessions than MaxSessions, and none that a logout, a
\* login or its lifetime ended; a request whose session was over when it came is
\* nobody, or who its own token says, whatever logins and logouts of the same
\* browser run beside it, and any other is nobody but its user or that one.
SessionsSound ==
    /\ Cardinality({i \in SessionIDs : store[i] # Anonymous}) <= MaxSessions
    /\ \A i \in revoked : store[i] = Anonymous
    /\ \A r \in Visits : visit[r].at = "authenticated" =>
          visit[r].identity \in {visit[r].bearer, Anonymous} \cup (IF visit[r].dead THEN {} ELSE {visit[r].user})
=============================================================================
