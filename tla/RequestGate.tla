----------------------------- MODULE RequestGate -----------------------------
(***************************************************************************)
(* The way of one request with a statement in it through the middleware    *)
(* and the handlers that run statements: routes.go, middleware/auth.go,    *)
(* middleware/dbaccess.go, handler/connections.go, handler/suggest.go,     *)
(* handler/dbtype.go and executor/executor.go.                             *)
(*                                                                         *)
(* Each check is a step that may answer and end the request.  The checks   *)
(* load roles from the internal database one after the other, and another  *)
(* request may edit a role in between (EditRole).                          *)
(***************************************************************************)
EXTENDS Permissions, SqlRisk

CONSTANTS
    Tokens,      \* what the Authorization header may hold
    Texts,       \* statements sent
    RoleTables,  \* what the table of roles may hold
    Conn         \* the connection asked for

\* DBAccessMiddleware: the entries of a key are not where it looks.
ScopeOf(tk) == IF tk.kind = "key" THEN <<>> ELSE tk.access

\* Tables of roles are sound and without cycles, and lists hold permissions,
\* entries and words.
ASSUME GateAssumption ==
    /\ \A table \in RoleTables : SoundTable(table) /\ NoCycles(table)
    /\ \A tk \in Tokens :
          \/ tk.kind = "none"
          \/ tk.kind \in {"login", "key"} /\ tk.perm \in Seq(Perms) /\ ScopeOf(tk) \in Seq(Entries)
    /\ Texts \subseteq Seq(STRING)
    /\ Conn \in Entries

VARIABLES
    token, route, text, confirm,   \* the request
    roles,     \* the stored roles
    edited,    \* roles have been edited since the request came
    stage,     \* the check that is next, or "done"
    perms,     \* effective_perm in the context
    status,    \* the answer
    ran        \* what was called on the manager: "nothing", "Query" or "Execute"

gateVars == <<token, route, text, confirm, roles, edited, stage, perms, status, ran>>
request == <<token, route, text, confirm>>

\* SetupRoutes: the permission a route needs, whether it has the connection
\* in its path behind DBAccessMiddleware, and which handler serves it.
Routes ==
    [query   |-> [need |-> Query, scoped |-> TRUE,  handler |-> "QueryConnection"],
     execute |-> [need |-> Exec,  scoped |-> TRUE,  handler |-> "ExecuteConnection"],
     safe    |-> [need |-> Query, scoped |-> FALSE, handler |-> "ExecuteSafe"],
     dbquery |-> [need |-> Query, scoped |-> FALSE, handler |-> "QueryConnection"],
     dbexec  |-> [need |-> Exec,  scoped |-> FALSE, handler |-> "ExecuteConnection"]]

Of == Routes[route]

Answer(code) == /\ status' = code
                /\ stage' = "done"

\* AuthMiddleware: a token of a login carries the role and the extras as
\* they were then; a key is a role of its own, "apikey", which no table has,
\* and its connections go where DBAccessMiddleware does not look.
Auth ==
    /\ stage = "auth"
    /\ IF token.kind = "none" THEN Answer(401)
       ELSE /\ stage' = IF Of.scoped THEN "access" ELSE "perm"
            /\ UNCHANGED status
    /\ UNCHANGED <<request, roles, edited, perms, ran>>

DBAccess ==
    /\ stage = "access"
    /\ IF CheckDBAccess(GetEffectivePerms(roles, token.role, token.perm),
                        GetEffectiveDBAccess(roles, token.role, ScopeOf(token)), Conn)
       THEN stage' = "perm" /\ UNCHANGED status
       ELSE Answer(403)
    /\ UNCHANGED <<request, roles, edited, perms, ran>>

PermissionCheck ==
    /\ stage = "perm"
    /\ perms' = GetEffectivePerms(roles, token.role, token.perm)
    /\ IF HasPermission(perms', Of.need) THEN stage' = "guard" /\ UNCHANGED status
       ELSE Answer(403)
    /\ UNCHANGED <<request, roles, edited, ran>>

\* The manager runs it; whether the database takes it is not told apart.
Run(call) == ran' = call /\ Answer(200)

\* QueryConnection and DBTypeQuery run what the guard lets through.
QueryConnection ==
    /\ stage = "guard" /\ Of.handler = "QueryConnection"
    /\ IF CheckCommand(text, perms) THEN Run("Query") ELSE Answer(403) /\ UNCHANGED ran
    /\ UNCHANGED <<request, roles, edited, perms>>

\* ExecuteConnection and DBTypeExecute also take what is no command, from
\* those who may execute anything.
ExecuteConnection ==
    /\ stage = "guard" /\ Of.handler = "ExecuteConnection"
    /\ IF \/ CheckCommand(text, perms)
          \/ detectCommand(text) = Unknown /\ HasResourcePermission(perms, "execute", "*")
       THEN Run("Execute") ELSE Answer(403) /\ UNCHANGED ran
    /\ UNCHANGED <<request, roles, edited, perms>>

\* ExecuteSafe asks the guard with the extra permissions of the token alone.
ExecuteSafe ==
    /\ stage = "guard" /\ Of.handler = "ExecuteSafe"
    /\ IF CheckCommand(text, token.perm) THEN stage' = "risk" /\ UNCHANGED status
       ELSE Answer(403)
    /\ UNCHANGED <<request, roles, edited, perms, ran>>

\* estimateAffected asks "SELECT COUNT(*) AS estimate FROM FROM ...", which
\* no database answers, so there never is an estimate.
Estimate == "none"

\* Executor.Execute: of high risk, or of medium risk with an estimate of
\* more than a hundred rows, a statement is run when it is confirmed.
Execute ==
    /\ stage = "risk"
    /\ LET risk  == Classify(text)
           query == Starts(trimSQL(text), {"SELECT", "SHOW"})
       IN  IF ~confirm /\ (risk = "HIGH" \/ (risk = "MEDIUM" /\ Estimate = "many"))
           THEN Answer(409) /\ UNCHANGED ran
           ELSE Run(IF query THEN "Query" ELSE "Execute")
    /\ UNCHANGED <<request, roles, edited, perms>>

\* UpdateRole or DeleteRole of another request.
EditRole ==
    /\ stage \in {"access", "perm"} /\ ~edited
    /\ roles' \in RoleTables
    /\ edited' = TRUE
    /\ UNCHANGED <<request, stage, perms, status, ran>>

GateInit ==
    /\ token \in Tokens /\ route \in DOMAIN Routes /\ text \in Texts
    /\ confirm \in (IF route = "safe" THEN BOOLEAN ELSE {FALSE})
    /\ roles \in RoleTables
    /\ edited = FALSE /\ stage = "auth" /\ perms = <<>> /\ status = 0 /\ ran = "nothing"

GateNext == \/ Auth \/ DBAccess \/ PermissionCheck
            \/ QueryConnection \/ ExecuteConnection \/ ExecuteSafe \/ Execute
            \/ EditRole

GateSpec == GateInit /\ [][GateNext]_gateVars

-----------------------------------------------------------------------------
(***************************************************************************)
(* Properties.                                                             *)
(***************************************************************************)

\* An answer ends the request, and statements run in answered requests only.
GateTypeOK ==
    /\ status \in {0, 200, 401, 403, 409}
    /\ (status # 0) <=> (stage = "done")
    /\ (ran # "nothing") <=> (status = 200)

\* What the checks amount to: the account has, along its chain of roles or
\* by itself, the permission of the route, and reaches the connection.
Held == EffectiveSet(roles, token.role, token.perm)
Has(p) == {Admin, p} \cap Held # {}
Own  == OwnAccess(roles, token.role)
Reaches ==
    \/ {Admin, List, Query, Exec} \cap Held # {}
    \/ /\ ~Stands(Own, ScopeOf(token), Opposite[Conn])
       /\ \E e \in {Conn, "*"} : Stands(Own, ScopeOf(token), e)
Entitled == token.kind # "none" /\ Has(Of.need) /\ (Of.scoped => Reaches)

\* The permissions the guard is given: on /execute/safe only the extras.
Granted == IF route = "safe" THEN ToSet(token.perm) ELSE Held
Sent    == HeadWords(text) \cap Commands

\* The checks of a request take its roles one after the other.  When nobody
\* edits a role meanwhile, and there is no comment but in front, nothing runs
\* for an account that lacks the route, the connection, or the permission of
\* one of the commands in the text.
RunsWhatIsPermitted ==
    ran # "nothing" /\ ~edited /\ PlainAfterTrim(text) =>
        /\ Entitled
        /\ Sent \ {"SELECT"} # {} => Exec \in Granted
        /\ Sent = {"SELECT"} => Query \in Granted
        /\ Sent = {} => Of.handler = "ExecuteConnection" /\ {Admin, "execute:*"} \cap Held # {}

\* And whoever holds all permissions of the route and of the text by name is
\* not refused; "*" is not a name to the guard.
PermittedIsRun ==
    status = 403 /\ ~edited /\ PlainAfterTrim(text) =>
        ~Entitled \/ Sent = {} \/ \E c \in Sent : Needed(c) \notin Granted

\* On /execute/safe no single statement that drops, truncates or alters, or
\* updates or deletes without a condition, runs unconfirmed.
HighIsConfirmed ==
    LET Drastic == \/ Starts(text, {"DROP", "TRUNCATE", "ALTER"})
                   \/ Starts(text, {"UPDATE", "DELETE"}) /\ ~Contains(text, "WHERE")
    IN  route = "safe" /\ ran # "nothing" /\ Drastic => confirm

\* What the answer of a request says of its text.
GateInv == GateTypeOK /\ PermittedIsRun /\ HighIsConfirmed

=============================================================================
