------------------------------ MODULE MCRequests ------------------------------
\* A request on its way for TLC: the gate, the plugins it ends at, and, on all
\* short inputs, the operators the gate is built from.  The parts share no
\* state, so each is run by itself: "bench" says which, or holds the input.
EXTENDS RequestGate, DatabasePlugin

CONSTANTS MaxText, MaxList    \* bounds: lengths of texts and lists

ASSUME MCAssumption == MaxText \in Nat /\ MaxList \in Nat

VARIABLE bench

Role(p, a, up) == [perms |-> p, access |-> a, parent |-> up]

MCRoleTables ==
    {[r \in {} |-> Role(<<>>, <<>>, "")],
     [team |-> Role(<<Query>>, <<"c1">>, "")],
     [team |-> Role(<<Query>>, <<>>, "base"), base |-> Role(<<Exec>>, <<"c1", "-c2">>, "")],
     [team |-> Role(<<"jobs:list">>, <<"*">>, "readonly")],
     [team |-> Role(<<Exec>>, <<"-c1">>, "admin")],
     [team |-> Role(<<"execute:*">>, <<"c1">>, "")]}

Login(r, p, a) == [kind |-> "login", role |-> r, perm |-> p, access |-> a]
MCTokens ==
    {[kind |-> "none"]}
    \cup {Login(r, p, a) : r \in {"admin", "readonly", "team", "gone"},
            p \in {<<>>, <<Exec>>, <<Query, "jobs:list">>, <<Query, Exec>>},
            a \in {<<>>, <<"c1">>, <<"-c1">>, <<"c1", "-c1">>}}
    \cup {[kind |-> "key", role |-> "apikey", perm |-> p, access |-> <<"c1">>] :
            p \in {<<>>, <<Query>>, <<Exec, Query>>, <<"execute:*", Exec>>}}

MCTexts ==
    {<<"SELECT", "x">>, <<"SELECT", ";", "DROP", "x">>, <<"SELECT", "sq", ";", "DROP", "sq">>,
     <<"--", "SELECT", "nl", "DELETE", "x">>, <<"DELETE", "x", "WHERE", "=">>,
     <<"UPDATE", "x">>, <<"UPDATE", "WHERE", "x">>, <<"INSERT", "x">>, <<"DROP">>, <<"x", "x">>,
     <<"INSERT", ";", "TRUNCATE">>, <<"ALTER", "x">>}

Words == {"SELECT", "DELETE", "DROP", ";", "sq", "dq", "--", "/*", "*/", "nl", "x"}
ListsUpTo(S, n) == UNION {[1..k -> S] : k \in 0..n}

Probes ==
    {[of |-> "text", s |-> s] : s \in ListsUpTo(Words, MaxText)}
    \cup {[of |-> "perms", s |-> s, on |-> x] :
             s \in ListsUpTo(Perms, MaxList), x \in {"*", "connection.c1", "c1", "jobs.j1"}}
    \cup {[of |-> "roles", s |-> s, table |-> t, id |-> i] :
             s \in ListsUpTo(Entries, MaxList), t \in MCRoleTables, i \in {"team", "base"}}
    \cup {[of |-> "extras", s |-> s, table |-> t, id |-> i] :
             s \in ListsUpTo({Admin, Query, Exec, "jobs:list"}, MaxList), t \in MCRoleTables,
             i \in {"team", "readonly", "admin"}}

On(x) == bench = [of |-> x]

NoRequest ==
    /\ token = [kind |-> "none"] /\ route = "query" /\ text = <<>> /\ confirm = FALSE
    /\ roles = <<>> /\ edited = FALSE /\ perms = <<>>
    /\ stage = "done" /\ status = 401 /\ ran = "nothing"
NoPlugin == PluginInit /\ kind = "sqlite" /\ tables = {}

MCInit ==
    \/ On("gate") /\ GateInit /\ NoPlugin
    \/ On("plugin") /\ NoRequest /\ PluginInit
    \/ bench \in Probes /\ NoRequest /\ NoPlugin
MCNext ==
    /\ UNCHANGED bench
    /\ \/ On("gate") /\ GateNext /\ UNCHANGED pluginVars
       \/ On("plugin") /\ PluginNext /\ UNCHANGED gateVars
MCSpec == MCInit /\ [][MCNext]_<<gateVars, pluginVars, bench>> /\ PluginFairness

\* The guard's reading of a text against a lexer's (detectCommand).
ProbeText == bench.of = "text" => GuardSeesWorst(bench.s)

\* The order of grants and denies does not matter (HasResourcePermission).
ProbePerms == bench.of = "perms" =>
    \A a \in {"execute", "query", "list"} : DenyWins(bench.s, a, bench.on)

\* Inherited and extra access (GetEffectiveDBAccess, CheckDBAccess).
ProbeAccess == bench.of = "roles" => AccessExact(bench.table, bench.id, bench.s)

\* Inherited and extra permissions (GetEffectivePerms).
ProbeEffective == bench.of = "extras" => EffectiveExact(bench.table, bench.id, bench.s)

\* The operators of the gate do what their references say, on every input.
OperatorsMatch == ProbeText /\ ProbePerms /\ ProbeAccess /\ ProbeEffective

=============================================================================
