------------------------------ MODULE Accounts ------------------------------
(***************************************************************************)
(* Registration and login (src/server/store.ts createUser, verifyLogin,    *)
(* load; db.ts insertUser; index.ts /v1/auth/register and /v1/auth/login). *)
(* The cache answers every read; with PostgreSQL the users table decides   *)
(* who gets a name.  Hashing a password and checking one run in a thread   *)
(* pool, so both suspend their request, with a pool of connections or      *)
(* without.                                                                *)
(*                                                                         *)
(* The invite code, the form of names and passwords and the lock after     *)
(* failed logins are left out.                                             *)
(***************************************************************************)
EXTENDS Naturals, FiniteSets

CONSTANTS
    Names,          \* usernames
    Tokens,         \* registration requests, named by the token each may issue
    Logins,         \* login requests that may be in flight
    Null,
    InsertMayFail,  \* the INSERT of an account may be rejected
    MaxRestarts     \* bound: restarts of the server

ASSUME AccountsAssumption ==
    /\ Null \notin Names /\ Null \notin Tokens
    /\ InsertMayFail \in BOOLEAN
    /\ MaxRestarts \in Nat

VARIABLES
    pool,      \* a PostgreSQL pool is configured
    users,     \* token of each account in the cache
    byToken,   \* the cache's way back
    table,     \* token of each row of the users table
    register,  \* where each registration is
    login,     \* the row each login found and checks the password of
    issued,    \* tokens ever handed out for a name
    restarts

vars == <<pool, users, byToken, table, register, login, issued, restarts>>

Registration == [step : {"new", "hashing", "inserting", "inserted", "over"},
                 name : Names \cup {Null}]
Row == [name : Names, token : Tokens]

TypeOK ==
    /\ pool \in BOOLEAN
    /\ users \in [Names -> Tokens \cup {Null}]
    /\ byToken \in [Tokens -> Names \cup {Null}]
    /\ table \in [Names -> Tokens \cup {Null}]
    /\ register \in [Tokens -> Registration]
    /\ \A t \in Tokens :
          register[t].step \in {"hashing", "inserting", "inserted"} => register[t].name \in Names
    /\ login \in [Logins -> Row \cup {Null}]
    /\ issued \in [Names -> SUBSET Tokens]
    /\ restarts \in 0 .. MaxRestarts

Init ==
    /\ pool \in BOOLEAN
    /\ users = [n \in Names |-> Null]
    /\ byToken = [t \in Tokens |-> Null]
    /\ table = [n \in Names |-> Null]
    /\ register = [t \in Tokens |-> [step |-> "new", name |-> Null]]
    /\ login = [l \in Logins |-> Null]
    /\ issued = [n \in Names |-> {}]
    /\ restarts = 0

-----------------------------------------------------------------------------
Step(t, step) == [register EXCEPT ![t].step = step]

\* Mutant of NameFree: the INSERT without ON CONFLICT DO NOTHING.
AlwaysFree(n) == TRUE
NameFree(n) == table[n] = Null

\* Mutants of Loaded: the way back is not rebuilt; it leads to the row.
LoadedNothing == [t \in Tokens |-> Null]
LoadedRows == [t \in Tokens |-> t]

\* byToken as load() rebuilds it.
Loaded == [t \in Tokens |->
    IF \E n \in Names : table[n] = t THEN CHOOSE n \in Names : table[n] = t ELSE Null]

\* Mutant of Enter: the way back is forgotten.
EnterUser(t, n) ==
    /\ users' = [users EXCEPT ![n] = t]
    /\ issued' = [issued EXCEPT ![n] = @ \cup {t}]
    /\ UNCHANGED byToken

\* The account enters the cache and its token is handed out.
Enter(t, n) ==
    /\ users' = [users EXCEPT ![n] = t]
    /\ byToken' = [byToken EXCEPT ![t] = n]
    /\ issued' = [issued EXCEPT ![n] = @ \cup {t}]

\* createUser, up to the hash: a name the cache knows is refused.
Register(t, n) ==
    /\ register[t].step = "new"
    /\ register' = [register EXCEPT ![t] =
          [step |-> IF users[n] = Null THEN "hashing" ELSE "over", name |-> n]]
    /\ UNCHANGED <<users, byToken, table, login, issued, restarts, pool>>

\* From the hash to the INSERT or, without a pool, to the end.
Hashed(t) ==
    /\ register[t].step = "hashing"
    /\ \/ /\ pool
          /\ register' = Step(t, "inserting")
          /\ UNCHANGED <<users, byToken, issued>>
       \/ /\ ~pool
          /\ register' = Step(t, "over")
          /\ Enter(t, register[t].name)
    /\ UNCHANGED <<table, login, restarts, pool>>

\* insertUser: a name that has a row is refused.
Insert(t) ==
    LET n == register[t].name
    IN  /\ register[t].step = "inserting"
        /\ \/ /\ NameFree(n)
              /\ table' = [table EXCEPT ![n] = t]
              /\ register' = Step(t, "inserted")
           \/ /\ ~NameFree(n)
              /\ register' = Step(t, "over")
              /\ UNCHANGED table
        /\ UNCHANGED <<users, byToken, login, issued, restarts, pool>>

\* The INSERT is rejected, before the row is written or after.
InsertRejected(t) ==
    LET n == register[t].name
    IN  /\ InsertMayFail
        /\ register[t].step = "inserting"
        /\ \/ NameFree(n) /\ table' = [table EXCEPT ![n] = t]
           \/ UNCHANGED table
        /\ register' = Step(t, "over")
        /\ UNCHANGED <<users, byToken, login, issued, restarts, pool>>

\* The INSERT is answered.
Registered(t) ==
    /\ register[t].step = "inserted"
    /\ register' = Step(t, "over")
    /\ Enter(t, register[t].name)
    /\ UNCHANGED <<table, login, restarts, pool>>

\* verifyLogin, up to the check of the password.
Login(l, n) ==
    /\ login[l] = Null /\ users[n] # Null
    /\ login' = [login EXCEPT ![l] = [name |-> n, token |-> users[n]]]
    /\ UNCHANGED <<users, byToken, table, register, issued, restarts, pool>>

\* The password is right, or it is not.
Checked(l) ==
    /\ login[l] # Null
    /\ login' = [login EXCEPT ![l] = Null]
    /\ \/ issued' = [issued EXCEPT ![login[l].name] = @ \cup {login[l].token}]
       \/ UNCHANGED issued
    /\ UNCHANGED <<users, byToken, table, register, restarts, pool>>

\* The process dies, orderly or not, and another loads the table.
Restart ==
    /\ pool /\ restarts < MaxRestarts
    /\ restarts' = restarts + 1
    /\ users' = table
    /\ byToken' = Loaded
    /\ register' = [t \in Tokens |->
          IF register[t].step = "new" THEN register[t]
          ELSE [register[t] EXCEPT !.step = "over"]]
    /\ login' = [l \in Logins |-> Null]
    /\ UNCHANGED <<table, issued, pool>>

RegisterStep(t) ==
    \/ \E n \in Names : Register(t, n)
    \/ Hashed(t) \/ Insert(t) \/ InsertRejected(t) \/ Registered(t)

LoginStep(l) == (\E n \in Names : Login(l, n)) \/ Checked(l)

Next ==
    \/ \E t \in Tokens : RegisterStep(t)
    \/ \E l \in Logins : LoginStep(l)
    \/ Restart

Spec == Init /\ [][Next]_vars

-----------------------------------------------------------------------------
\* "login returns the same one forever" (auth.test.ts): with a pool, whatever
\* registrations and logins of a name race or are cut short, one token is ever
\* handed out for it.
SameTokenForever == pool => \A n \in Names : \A t, u \in issued[n] : t = u

\* The token "is fixed at registration" and lets a user "paste it into a second
\* device" (auth.test.ts): one that was handed out opens its account's doors
\* from then on, across restarts.
TokensAccepted == \A n \in Names : \A t \in issued[n] : byToken[t] = n

=============================================================================
