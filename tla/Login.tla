-------------------------------- MODULE Login --------------------------------
(***************************************************************************)
(* Logging in and staying so: internal/api/handler/auth.go, passkey.go,    *)
(* internal/auth/secret.go, jwt.go, pubkey.go and                          *)
(* internal/api/middleware/ratelimit.go.                                   *)
(*                                                                         *)
(* The limiter looks at an address before a login and counts after it; a   *)
(* challenge is put into a map under the name of its user and taken out    *)
(* again; an account is read in one statement and its token made later;    *)
(* tokens are sealed under a key that a restart reads from a file.  A      *)
(* token holds the role its account had; nobody looks that up again.       *)
(***************************************************************************)
EXTENDS Integers, FiniteSets

CONSTANTS
    Logins,        \* goroutines that serve logins
    Users, Ips, Roles,
    Threshold,     \* failed logins that block an address, 5 in the code
    Duration,      \* seconds a token is valid
    Life,          \* seconds a challenge is valid, 300 in the code
    Budgets,       \* bounds: how often each thing may happen in one behaviour
    MaxTime        \* bound on the clock

ASSUME LoginAssumption ==
    /\ Threshold \in Nat \ {0} /\ {Duration, Life, MaxTime} \subseteq Nat
    /\ IsFiniteSet(Logins)
    /\ Budgets \subseteq [{"logins", "challenges", "edits", "crashes", "faults"} -> Nat]

VARIABLES
    secret,        \* config: auth.jwt_secret is set
    up,            \* the process: "down", "writing" the key, or "up"
    key, file,     \* TokenService.key, and secret.key on the disk
    account,       \* accounts: role ("gone" when deleted), default password or not
    entry,         \* rateLimiter.data
    pending,       \* challengeStore.cs and passkeySessions.m, by user
    attempt,       \* logins and ceremonies under way
    tokens,        \* the tokens clients hold
    clock, keys,
    left,          \* what is left of the budget
    \* history
    tries,         \* guesses let through since the address was blocked or cleared
    redeemed,      \* what each challenge has been good for, and how often
    misread,       \* a whole key file was not read
    changed        \* when the role of an account last changed

limiter == <<entry, tries>>
disk    == <<secret, up, key, file, keys, misread>>
people  == <<account, changed>>
loginVars == <<disk, people, limiter, pending, attempt, tokens, redeemed, clock, left>>

Kinds == {"pubkey", "passkey"}
Nothing == [n |-> 0]
NoKey == 0           \* in file: nothing, or not 32 bytes
Configured == 0      \* in key: auth.jwt_secret
Resting == [at |-> "idle"]
Unread == [role |-> "gone", default |-> FALSE]    \* no account has been read yet
Fresh == [count |-> 0, blocked |-> 0]
Spend(x) == left[x] > 0 /\ left' = [left EXCEPT ![x] = @ - 1]

-----------------------------------------------------------------------------
\* The key of the tokens: NewTokenService, loadOrGenerateKey.

Load ==
    /\ up = "down"
    /\ \/ secret /\ key' = Configured /\ up' = "up" /\ UNCHANGED <<file, keys, misread, left>>
       \/ /\ ~secret /\ file # NoKey
          /\ key' = file /\ up' = "up"
          /\ UNCHANGED <<file, keys, misread, left>>
       \/ /\ ~secret
          /\ \/ file = NoKey /\ UNCHANGED <<misread, left>>
             \/ file # NoKey /\ Spend("faults") /\ misread' = TRUE
          /\ keys' = keys + 1
          /\ key' = keys + 1 /\ file' = NoKey /\ up' = "writing"
    /\ UNCHANGED <<secret, people, limiter, pending, attempt, tokens, redeemed, clock>>

Written ==
    /\ up = "writing"
    /\ file' = key /\ up' = "up"
    /\ UNCHANGED <<secret, key, keys, misread, people, limiter, pending, attempt, tokens, redeemed, clock, left>>

\* os.WriteFile fails and main gives up.
WriteFails ==
    /\ up = "writing" /\ Spend("faults")
    /\ up' = "down"
    /\ UNCHANGED <<secret, key, file, keys, misread, people, limiter, pending, attempt, tokens, redeemed, clock>>

\* What the process had in memory is gone; clients keep their tokens.
LoginCrash ==
    /\ up # "down" /\ Spend("crashes")
    /\ up' = "down"
    /\ entry' = [i \in Ips |-> Fresh] /\ tries' = [i \in Ips |-> 0]
    /\ pending' = [k \in Kinds |-> [u \in Users |-> Nothing]]
    /\ attempt' = [r \in Logins |-> Resting]
    /\ UNCHANGED <<secret, key, file, keys, misread, people, tokens, redeemed, clock>>

-----------------------------------------------------------------------------
\* Tokens.

Valid(t) == t.key = key /\ clock <= t.exp

\* GenerateToken for an account as it was read; late tells that its role
\* has changed since, refreshed that the claims come from a token.
Token(u, role, refreshed) ==
    [user |-> u, role |-> role, key |-> key, exp |-> clock + Duration,
     refreshed |-> refreshed, late |-> role # account[u].role]

Grant(r) ==
    tokens' = tokens \cup {Token(attempt[r].user, attempt[r].row.role, FALSE)}

\* RefreshToken asks the old token alone.
Refresh ==
    /\ up = "up" /\ Spend("logins")
    /\ \E t \in tokens :
          /\ Valid(t)
          /\ tokens' = tokens \cup {Token(t.user, t.role, TRUE)}
    /\ UNCHANGED <<disk, people, limiter, pending, attempt, redeemed, clock>>

-----------------------------------------------------------------------------
\* Requests that take more than one step.

Go(r, x) == attempt' = [attempt EXCEPT ![r] = x]
LoginAt(r, at) == up = "up" /\ attempt[r].at = at

\* LoginRateLimit lets a login through; a blocked address gets a 429.
EnterLogin(r) ==
    /\ LoginAt(r, "idle") /\ Spend("logins")
    /\ \E i \in Ips, u \in Users :
          /\ clock >= entry[i].blocked
          /\ tries' = [tries EXCEPT ![i] = @ + 1]
          /\ Go(r, [at |-> "read", by |-> "password", ip |-> i, user |-> u, row |-> Unread])
    /\ UNCHANGED <<disk, people, entry, pending, tokens, redeemed, clock>>

\* A body that does not parse is answered 400, before anything is read.
Malformed(r) ==
    /\ LoginAt(r, "read") /\ attempt[r].by = "password"
    /\ Go(r, [at |-> "count", ip |-> attempt[r].ip, status |-> 400])
    /\ UNCHANGED <<disk, people, limiter, pending, tokens, redeemed, clock, left>>

\* store.GetUser; an account that is not there fails the login.
ReadAccount(r) ==
    /\ LoginAt(r, "read")
    /\ Go(r, IF account[attempt[r].user].role # "gone"
             THEN [attempt[r] EXCEPT !.at = "check", !.row = account[attempt[r].user]]
             ELSE IF attempt[r].by = "password" THEN [at |-> "count", ip |-> attempt[r].ip, status |-> 401]
             ELSE Resting)
    /\ UNCHANGED <<disk, people, limiter, pending, tokens, redeemed, clock, left>>

\* CheckPassword, and the default password of admin is not good enough.
CheckPassword(r) ==
    /\ LoginAt(r, "check") /\ attempt[r].by = "password"
    /\ \E s \in {200, 401, 403} :
          /\ s # 401 => (s = 403) = attempt[r].row.default
          /\ IF s = 200 THEN Grant(r) ELSE UNCHANGED tokens
          /\ Go(r, [at |-> "count", ip |-> attempt[r].ip, status |-> s])
    /\ UNCHANGED <<disk, people, limiter, pending, redeemed, clock, left>>

\* The limiter after the handler: 401 counts, any other answer clears.
Count(r) ==
    /\ LoginAt(r, "count")
    /\ LET i == attempt[r].ip  n == entry[i].count + 1 IN
          IF attempt[r].status = 401
          THEN /\ entry' = [entry EXCEPT ![i] =
                    [count |-> n,
                     blocked |-> IF n >= Threshold THEN clock + n - (Threshold - 1) ELSE @.blocked]]
               /\ UNCHANGED tries
          ELSE /\ entry' = [entry EXCEPT ![i] = Fresh]
               /\ tries' = [tries EXCEPT ![i] = 0]
    /\ Go(r, Resting)
    /\ UNCHANGED <<disk, people, pending, tokens, redeemed, clock, left>>

-----------------------------------------------------------------------------
\* Challenges: nonces of LoginPubKey and sessions of passkey registration.

\* A token of the user, which AuthMiddleware asks for.
SignedIn(u) == \E t \in tokens : Valid(t) /\ t.user = u

\* Challenge answers anyone; PasskeyRegisterBegin reads the account first.
\* A user has one challenge of each kind: a new one replaces the old.
Put(k, u) ==
    /\ up = "up" /\ Spend("challenges")
    /\ k = "passkey" => SignedIn(u) /\ account[u].role # "gone"
    /\ pending' = [pending EXCEPT ![k][u] = [n |-> left.challenges, exp |-> clock + Life]]
    /\ UNCHANGED <<disk, people, limiter, attempt, tokens, redeemed, clock>>

\* Mutation: the challenge stays in the map.
TakeKeeps(r, k, u) ==
    /\ LoginAt(r, "idle") /\ pending[k][u] # Nothing
    /\ k = "passkey" => SignedIn(u) /\ account[u].role # "gone"
    /\ LET c == pending[k][u] IN
          Go(r, IF k = "pubkey" /\ c.exp < clock THEN Resting
                ELSE [at |-> IF k = "pubkey" THEN "read" ELSE "save", by |-> k, n |-> c.n, user |-> u, row |-> Unread])
    /\ UNCHANGED <<disk, people, limiter, pending, tokens, redeemed, clock, left>>

\* LoginPubKey and PasskeyRegisterFinish take the challenge out, whatever
\* comes of it.
Take(r, k, u) ==
    /\ LoginAt(r, "idle") /\ pending[k][u] # Nothing
    /\ k = "passkey" => SignedIn(u) /\ account[u].role # "gone"
    /\ pending' = [pending EXCEPT ![k][u] = Nothing]
    /\ LET c == pending[k][u] IN
          Go(r, IF k = "pubkey" /\ c.exp < clock THEN Resting
                ELSE [at |-> IF k = "pubkey" THEN "read" ELSE "save", by |-> k, n |-> c.n, user |-> u, row |-> Unread])
    /\ UNCHANGED <<disk, people, limiter, tokens, redeemed, clock, left>>

Redeem(n) == redeemed' = [redeemed EXCEPT ![n] = @ + 1]

\* VerifyChallenge against the public key of the account that was read.
VerifyChallenge(r) ==
    /\ LoginAt(r, "check") /\ attempt[r].by = "pubkey"
    /\ \/ Grant(r) /\ Redeem(attempt[r].n)
       \/ UNCHANGED <<tokens, redeemed>>
    /\ Go(r, Resting)
    /\ UNCHANGED <<disk, people, limiter, pending, clock, left>>

\* FinishRegistration and SavePasskey.
SavePasskey(r) ==
    /\ LoginAt(r, "save")
    /\ Redeem(attempt[r].n) \/ UNCHANGED redeemed
    /\ Go(r, Resting)
    /\ UNCHANGED <<disk, people, limiter, pending, tokens, clock, left>>

-----------------------------------------------------------------------------
\* UpdateUser and DeleteUser of admin.go, as far as a login sees them.
EditAccount ==
    /\ up = "up" /\ Spend("edits")
    /\ \E u \in Users, x \in Roles \cup {"gone"} :
          /\ account[u].role \notin {x, "gone"}
          /\ account' = [account EXCEPT ![u].role = x]
          /\ changed' = [changed EXCEPT ![u] = clock]
    /\ UNCHANGED <<disk, limiter, pending, attempt, tokens, redeemed, clock>>

\* The end of a block starts the count of guesses anew.
LoginTick ==
    /\ clock < MaxTime
    /\ clock' = clock + 1
    /\ tries' = [i \in Ips |-> IF entry[i].blocked = clock + 1 THEN 0 ELSE tries[i]]
    /\ UNCHANGED <<disk, people, entry, pending, attempt, tokens, redeemed, left>>

LoginInit ==
    /\ secret \in BOOLEAN /\ up = "down" /\ key = Configured /\ file = NoKey /\ keys = 0
    /\ account \in [Users -> [role : Roles, default : BOOLEAN]]
    /\ entry = [i \in Ips |-> Fresh]
    /\ pending = [k \in Kinds |-> [u \in Users |-> Nothing]]
    /\ attempt = [r \in Logins |-> Resting]
    /\ tokens = {} /\ clock = 0
    /\ left \in Budgets
    /\ tries = [i \in Ips |-> 0] /\ redeemed = [n \in 1..left.challenges |-> 0]
    /\ misread = FALSE /\ changed = [u \in Users |-> 0]

Start == Load \/ Written \/ WriteFails \/ LoginCrash

ServeLogin(r) ==
    \/ EnterLogin(r) \/ Malformed(r) \/ ReadAccount(r) \/ CheckPassword(r) \/ Count(r)
    \/ VerifyChallenge(r) \/ SavePasskey(r)
    \/ \E k \in Kinds, u \in Users : Take(r, k, u)

LoginNext ==
    \/ Start \/ Refresh \/ EditAccount \/ LoginTick
    \/ \E k \in Kinds, u \in Users : Put(k, u)
    \/ \E r \in Logins : ServeLogin(r)

LoginSpec == LoginInit /\ [][LoginNext]_loginVars

-----------------------------------------------------------------------------
(***************************************************************************)
(* Properties.                                                             *)
(***************************************************************************)

\* A challenge is good for one login or one passkey, however many requests
\* bring the same signature at once (the put and take of both stores).
RedeemedOnce == \A n \in DOMAIN redeemed : redeemed[n] <= 1

\* A token outlives every restart: whoever is served finds its token valid
\* until it expires, wherever the process died between making a key and
\* writing it, unless a whole key file could not be read (loadOrGenerateKey
\* then makes another key, over it).
TokensSurvive ==
    up = "up" /\ ~misread => \A t \in tokens : clock <= t.exp => Valid(t)

\* A role that was changed or taken away is in use for Duration more, no
\* longer, but for a login that had read the account before and for tokens
\* that were refreshed (RefreshToken copies the claims).
RolesCatchUp ==
    \A t \in tokens :
        Valid(t) /\ ~t.late /\ ~t.refreshed /\ t.role # account[t.user].role
            => clock - changed[t.user] <= Duration

\* Logins are counted after they are answered, so those under way are not:
\* between two blocks of an address, or a block and an answer other than
\* 401, no more guesses get through than the limit and one for each request.
GuessesBounded == \A i \in Ips : tries[i] <= Threshold - 1 + Cardinality(Logins)

LoginTypeOK ==
    /\ up \in {"down", "writing", "up"} /\ key \in Nat
    /\ \A r \in Logins : attempt[r].at \in {"idle", "read", "check", "count", "save"}
    /\ \A i \in Ips : entry[i].count \in Nat /\ entry[i].blocked \in Nat
    /\ \A k \in Kinds, u \in Users : pending[k][u].n \in {0} \cup DOMAIN redeemed

LoginInv == LoginTypeOK /\ RedeemedOnce /\ TokensSurvive /\ RolesCatchUp /\ GuessesBounded

=============================================================================
