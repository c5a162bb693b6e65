------------------------------- MODULE Sessions -------------------------------
(***************************************************************************)
(* Who is signed in (application/auth.py, tokens.py, account.py,            *)
(* api/deps.py): sessions that end by signing out, by being idle and after  *)
(* their lifetime; the limit on sign-in attempts; access tokens.            *)
(*                                                                          *)
(* Every request is one transaction.  It resolves its session first, with   *)
(* values it writes when it gets the row's lock, and commits at its end.    *)
(* Logging in shares nothing with the requests of others but the sessions   *)
(* it makes: it happens while no request is under way (a bound).  The       *)
(* guesses are at one account: the limit per address, five times as high,   *)
(* is left out.                                                             *)
(***************************************************************************)
EXTENDS Naturals, FiniteSets

CONSTANTS
  Logins,    \* sessions that may be made
  Requests,  \* requests that may be under way at once
  Guessers,  \* sign-in attempts that may be under way at once
  MaxTokens,           \* of a user
  IdleTime, Lifetime,  \* session_idle_hours, session_absolute_days
  LoginLimit,          \* login_rate_limit_per_minute
  NoLogin,
  MaxTime              \* bound: of the clock, which moves by more than a minute

VARIABLES
  now,
  session,  \* sessions
  served,   \* the requests under way
  attempts, \* login_attempts of the last minute that failed, as committed
  guesses,  \* passwords tried in the last minute that were wrong
  login,    \* sign-ins under way
  tokens    \* personal_access_tokens: how many are not revoked

sessionVars == <<now, session, served, attempts, guesses, login, tokens>>

NoSession == [here |-> FALSE, revoked |-> FALSE, seen |-> 0, idle |-> 0, expires |-> 0]
NoRequest == [at |-> "none", of |-> NoLogin, kind |-> "work", copy |-> NoSession]

SessionsTypeOK ==
  /\ now \in 0..MaxTime
  /\ \A s \in Logins : session[s].idle <= session[s].expires
  /\ \A q \in Requests : /\ served[q].at \in {"none", "resolved", "locked"}
                         /\ served[q].of \in Logins \cup {NoLogin}
  /\ attempts \in Nat /\ guesses \in Nat
  /\ login \in [Guessers -> {"none", "checks"}]
  /\ tokens \in Nat

SessionsInit ==
  /\ now = 0
  /\ session = [s \in Logins |-> NoSession]
  /\ served = [q \in Requests |-> NoRequest]
  /\ attempts = 0 /\ guesses = 0
  /\ login = [g \in Guessers |-> "none"]
  /\ tokens = 0

clientVars == <<attempts, guesses, login, tokens>>

Min2(a, b) == IF a < b THEN a ELSE b

\* More than a minute passes: nobody is held back by old attempts any more
Tick ==
  /\ now < MaxTime
  /\ \A g \in Guessers : login[g] = "none"
  /\ now' = now + 1
  /\ attempts' = 0 /\ guesses' = 0
  /\ UNCHANGED <<session, served, login, tokens>>

-----------------------------------------------------------------------------
(* Signing in *)

Quiet == \A q \in Requests : served[q].at = "none"

\* _check_rate_limit counts what is committed, before the password is looked at
LoginBegin(g) ==
  /\ Quiet /\ login[g] = "none"
  /\ attempts < LoginLimit
  /\ login' = [login EXCEPT ![g] = "checks"]
  /\ UNCHANGED <<now, session, served, attempts, guesses, tokens>>

\* Mutant of Kept: the transaction of a request that failed is rolled back
MutantKept(n) == n
\* The endpoint commits the attempt before it answers with the error
Kept(n) == n + 1

WrongPassword(g) ==
  /\ login[g] = "checks"
  /\ attempts' = Kept(attempts)
  /\ guesses' = guesses + 1
  /\ login' = [login EXCEPT ![g] = "none"]
  /\ UNCHANGED <<now, session, served, tokens>>

\* login, and register, which logs in
LoggedIn(g, s) ==
  /\ login[g] = "checks" /\ ~session[s].here /\ session[s].expires = 0
  /\ session' = [session EXCEPT ![s] =
       [here |-> TRUE, revoked |-> FALSE, seen |-> now, idle |-> now + IdleTime,
        expires |-> now + Lifetime]]
  /\ login' = [login EXCEPT ![g] = "none"]
  /\ UNCHANGED <<now, served, attempts, guesses, tokens>>

-----------------------------------------------------------------------------
(* Requests of those who are signed in *)

Valid(s) ==
  LET row == session[s] IN
  row.here /\ ~row.revoked /\ now < row.idle /\ now < row.expires

\* resolve_session, and what the request goes on to check
Resolve(q, s, kind) ==
  /\ served[q].at = "none" /\ Valid(s)
  /\ kind = "create token" => tokens < MaxTokens
  /\ kind = "revoke token" => tokens > 0
  /\ \A g \in Guessers : login[g] = "none"
  /\ served' = [served EXCEPT ![q] =
       [at |-> "resolved", of |-> s, kind |-> kind,
        copy |-> IF now > session[s].seen
                   THEN [session[s] EXCEPT !.seen = now,
                           !.idle = Min2(now + IdleTime, session[s].expires)]
                   ELSE session[s]]]
  /\ UNCHANGED <<now, session, clientVars>>

\* Who writes the row at its end.  The code knows by the columns the request set; a copy
\* that was overtaken counts here as well, so more requests write than really do.
Writes(q) == served[q].kind \in {"logout", "delete account"} \/ served[q].copy # session[served[q].of]

\* Mutant of Touched: the row is written as it was read
MutantTouched(row, copy) == [copy EXCEPT !.here = row.here]
\* Only the columns that were changed are written
Touched(row, copy) == [row EXCEPT !.seen = copy.seen, !.idle = copy.idle]

\* The row's lock, for a request that writes it; held until its transaction ends
LockSession(q) ==
  /\ served[q].at = "resolved" /\ Writes(q)
  /\ \A r \in Requests : served[r].at = "locked" => served[r].of # served[q].of
  /\ served' = [served EXCEPT ![q].at = "locked"]
  /\ UNCHANGED <<now, session, clientVars>>

\* The end of a request, of logout and of delete_account as well; what it was to
\* write of a row that is gone is an error
RequestEnds(q) ==
  LET r == served[q] row == session[r.of] IN
  /\ r.at = "locked" \/ (r.at = "resolved" /\ ~Writes(q))
  /\ session' = IF ~row.here THEN session ELSE
       CASE r.kind = "delete account" -> [s \in Logins |-> [session[s] EXCEPT !.here = FALSE]]
         [] r.kind # "delete account" /\ r.at = "locked" -> [session EXCEPT ![r.of] =
              [Touched(row, r.copy) EXCEPT !.revoked = @ \/ r.kind = "logout"]]
         [] OTHER -> session
  /\ tokens' = IF ~row.here THEN tokens ELSE
       CASE r.kind = "delete account" -> 0
         [] r.kind = "create token" -> tokens + 1
         [] r.kind = "revoke token" /\ tokens > 0 -> tokens - 1
         [] OTHER -> tokens
  /\ served' = [served EXCEPT ![q] = NoRequest]
  /\ UNCHANGED <<now, attempts, guesses, login>>

\* The request fails, and its transaction is rolled back
RequestFails(q) ==
  /\ served[q].at # "none"
  /\ served' = [served EXCEPT ![q] = NoRequest]
  /\ UNCHANGED <<now, session, clientVars>>

-----------------------------------------------------------------------------
Kinds == {"work", "logout", "create token", "revoke token", "delete account"}

SignIn == \E g \in Guessers :
  LoginBegin(g) \/ WrongPassword(g) \/ \E s \in Logins : LoggedIn(g, s)

ServeRequest == \E q \in Requests :
  \/ \E s \in Logins, kind \in Kinds : Resolve(q, s, kind)
  \/ LockSession(q) \/ RequestEnds(q) \/ RequestFails(q)

SessionsNext == SignIn \/ ServeRequest \/ Tick

SessionsSpec == SessionsInit /\ [][SessionsNext]_sessionVars

-----------------------------------------------------------------------------
(* Properties *)

\* Who signed out stays out, and no session outlives its lifetime: one that is not
\* valid is so again only by a request that began while it was, when it had merely
\* been idle for too long.
SignedOutStaysOut ==
  [][<<session, now>>' # <<session, now>> => \A s \in Logins :
       session[s].here /\ ~Valid(s) /\ Valid(s)' =>
         /\ ~session[s].revoked /\ now < session[s].expires
         /\ \E q \in Requests : served[q].of = s /\ served[q].copy.idle > now]_sessionVars

\* In a minute no more wrong passwords are tried than the limit, and those that were
\* looked at together with the last of them.
GuessesBounded == guesses < LoginLimit + Cardinality(Guessers)
=============================================================================
