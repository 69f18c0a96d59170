------------------------------ MODULE HttpAuth ------------------------------
(* Sessions of the http frontend (auth.rs): login with one of two           *)
(* passphrases, the limit of attempts of an address, requests that show a   *)
(* cookie, logout, and the periodic removal of expired sessions (server.rs). *)
EXTENDS Integers, Sequences, FiniteSets

CONSTANTS Peers,       \* addresses of browsers
          Ttl,         \* ticks a session lives
          MaxAttempts, \* logins of an address in a window (10)
          Window,      \* ticks of a window (60 s)
          RxOpen,      \* no passphrase for reading is configured
          MaxLogins, MaxFailures, MaxHour  \* bounds: logins, failures, ticks

ASSUME HttpAuthAssumption ==
    /\ {MaxAttempts, MaxLogins} \subseteq Nat \ {0}
    /\ {Ttl, Window, MaxFailures, MaxHour} \subseteq Nat /\ RxOpen \in BOOLEAN

VARIABLES
    hour,      \* ticks
    sessions,  \* the store: [id, role, expires]
    jar,       \* the cookie of each browser: a session number, or 0
    attempts,  \* the limiter: [count, since] of each address, count 0 when it has none
    logins,    \* history: the sessions created, in order: [role, expires]
    failed,    \* history: times of each address's failures since its last success
    closed,    \* history: sessions that were logged out
    request    \* history: the last request: [route, id, at, fine, closed]

authVars == <<hour, sessions, jar, attempts, logins, failed, closed, request>>

Routes == {"public", "read", "control"}
Roles == {"rx", "control"}
NoRole == "none"
Record == [id : 1..MaxLogins, role : Roles, expires : 0..MaxHour + Ttl]

AuthTypeOK ==
    /\ hour \in 0..MaxHour /\ sessions \subseteq Record
    /\ jar \in [Peers -> 0..MaxLogins]
    /\ attempts \in [Peers -> [count : 0..MaxAttempts, since : 0..MaxHour]]
    /\ Len(logins) <= MaxLogins /\ failed \in [Peers -> Seq(0..hour)] /\ closed \subseteq 1..MaxLogins
    /\ \A s, t \in sessions : s.id = t.id => s = t

AuthInit ==
    /\ hour = 0 /\ sessions = {} /\ jar = [p \in Peers |-> 0]
    /\ attempts = [p \in Peers |-> [count |-> 0, since |-> 0]]
    /\ logins = <<>> /\ failed = [p \in Peers |-> <<>>] /\ closed = {}
    /\ request = [route |-> "public", id |-> 0, at |-> 0, fine |-> TRUE, closed |-> FALSE]

HourPasses ==
    /\ hour < MaxHour /\ hour' = hour + 1
    /\ UNCHANGED <<sessions, jar, attempts, logins, failed, closed, request>>

\* LoginRateLimiter::check
Allowed(p) ==
    LET a == attempts[p] IN
    \/ a.count = 0 \/ hour - a.since > Window \/ a.count < MaxAttempts
\* Mutant: the window moves along with every attempt.
Counted_Restarts(p) ==
    LET a == attempts[p] IN
    IF a.count = 0 \/ hour - a.since >= 0 THEN [count |-> 1, since |-> hour]
    ELSE [a EXCEPT !.count = @ + 1]

Counted(p) ==
    LET a == attempts[p] IN
    IF a.count = 0 \/ hour - a.since > Window THEN [count |-> 1, since |-> hour]
    ELSE [a EXCEPT !.count = @ + 1]

\* The right passphrase clears the count; the cookie of the browser is replaced, its older
\* session stays in the store.
LoginAs(p, role) ==
    LET id == Len(logins) + 1 IN
    /\ Allowed(p) /\ id <= MaxLogins
    /\ attempts' = [attempts EXCEPT ![p] = [count |-> 0, since |-> 0]]
    /\ failed' = [failed EXCEPT ![p] = <<>>]
    /\ logins' = Append(logins, [role |-> role, expires |-> hour + Ttl])
    /\ sessions' = sessions \cup {[id |-> id, role |-> role, expires |-> hour + Ttl]}
    /\ jar' = [jar EXCEPT ![p] = id]
    /\ UNCHANGED <<hour, closed, request>>

WrongPassphrase(p) ==
    /\ Allowed(p) /\ Len(failed[p]) < MaxFailures
    /\ attempts' = [attempts EXCEPT ![p] = Counted(p)]
    /\ failed' = [failed EXCEPT ![p] = Append(@, hour)]
    /\ UNCHANGED <<hour, sessions, jar, logins, closed, request>>

Logout(p) ==
    /\ sessions' = {s \in sessions : s.id # jar[p]}
    /\ closed' = IF jar[p] = 0 THEN closed ELSE closed \cup {jar[p]}
    /\ jar' = [jar EXCEPT ![p] = 0]
    /\ UNCHANGED <<hour, attempts, logins, failed, request>>

\* SessionStore::get drops a session that has expired.
Shown(p) == {s \in sessions : s.id = jar[p]}
Live(p) == {s \in Shown(p) : hour <= s.expires}
RoleOf(p) == IF Live(p) = {} THEN NoRole ELSE (CHOOSE s \in Live(p) : TRUE).role

\* RouteAccess::allows
Allows(route, role) ==
    CASE route = "public" -> TRUE
      [] route = "read" -> RxOpen \/ role # NoRole
      [] OTHER -> role = "control"

\* AuthMiddleware
Request(p, route) ==
    /\ request' = [route |-> route, id |-> jar[p], at |-> hour,
                   fine |-> Allows(route, RoleOf(p)), closed |-> jar[p] \in closed]
    /\ sessions' = IF route = "public" THEN sessions ELSE sessions \ (Shown(p) \ Live(p))
    /\ UNCHANGED <<hour, jar, attempts, logins, failed, closed>>

CleanUp ==
    /\ sessions' = {s \in sessions : s.expires > hour}
    /\ sessions' # sessions
    /\ UNCHANGED <<hour, jar, attempts, logins, failed, closed, request>>

AuthNext ==
    \/ HourPasses \/ CleanUp
    \/ \E p \in Peers :
          \/ WrongPassphrase(p) \/ Logout(p)
          \/ \E role \in Roles : LoginAs(p, role)
          \/ \E route \in Routes : Request(p, route)

AuthSpec == AuthInit /\ [][AuthNext]_authVars

-----------------------------------------------------------------------------
(* Properties.                                                              *)

\* Wherever the windows begin, an address has fewer than twice the attempts of a window in
\* any span of its length, counted from its last login that succeeded.
AttemptsBounded ==
    \A p \in Peers : \A t \in 0..hour :
        Cardinality({i \in 1..Len(failed[p]) : failed[p][i] \in t..t + Window})
            < 2 * MaxAttempts

\* What only a login with the second passphrase opens is served to the cookie of such a
\* login, before it has expired or logged out and never for another one's session.
SessionsEnd ==
    /\ (request.fine /\ request.route = "control") =>
          /\ request.id \in 1..Len(logins) /\ ~request.closed
          /\ logins[request.id].role = "control" /\ request.at <= logins[request.id].expires
    /\ \A s \in sessions : s.id \notin closed
    /\ \A i \in 1..Len(logins) :
          (hour < logins[i].expires /\ i \notin closed) => \E s \in sessions : s.id = i

\* What holds of the sessions at every moment.
AuthInv == AuthTypeOK /\ AttemptsBounded /\ SessionsEnd
-----------------------------------------------------------------------------
(* The inductive invariant behind it (HttpAuthProofs).                      *)

Clock == hour \in 0..MaxHour

\* The failures of an address are in the order of time. Those of the current window are
\* counted, and the one before the last full window began is older than this window.
Orderly(f, a) ==
    LET n == Len(f) IN
    /\ a.count <= n /\ (a.count = 0 => n = 0)
    /\ \A i, j \in 1..n : i <= j => f[i] <= f[j]
    /\ \A i \in 1..n : i > n - a.count => f[i] \in a.since..a.since + Window
    /\ a.count > 0 => f[n - a.count + 1] = a.since
    /\ \A i \in 1..n : i <= n - a.count - MaxAttempts + 1 => f[i] + Window < a.since
    /\ \A i, j \in 1..n : j >= i + 2 * MaxAttempts - 1 => f[i] + Window < f[j]
Failures ==
    /\ attempts \in [Peers -> [count : 0..MaxAttempts, since : 0..MaxHour]]
    /\ failed \in [Peers -> Seq(0..hour)]
    /\ \A p \in Peers : Orderly(failed[p], attempts[p]) /\ attempts[p].since <= hour

\* Every session is one that a login created, with its role and its end.
Created ==
    /\ logins \in Seq([role : Roles, expires : 0..MaxHour + Ttl]) /\ Len(logins) <= MaxLogins
    /\ closed \subseteq 1..Len(logins)
    /\ jar \in [Peers -> 0..MaxLogins] /\ \A p \in Peers : jar[p] <= Len(logins)
    /\ sessions \subseteq Record
    /\ \A s \in sessions :
          /\ s.id \in 1..Len(logins) /\ s.id \notin closed
          /\ s.role = logins[s.id].role /\ s.expires = logins[s.id].expires

AuthInd == Clock /\ Failures /\ Created /\ SessionsEnd
=============================================================================
