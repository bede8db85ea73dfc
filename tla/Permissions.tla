----------------------------- MODULE Permissions -----------------------------
(***************************************************************************)
(* What an account may do: internal/auth/permission.go and                 *)
(* internal/auth/resourceperm.go, as operators on sequences (Go slices).   *)
(*                                                                         *)
(* A role table is a function from the ids of stored roles to records      *)
(* [perms, access, parent]; parent "" is none.  Permissions and entries of *)
(* access lists are members of small sets; Text tells what they are made   *)
(* of.  The references at the end say what the loops are for.              *)
(***************************************************************************)
EXTENDS Integers, Sequences, SequencesExt, FiniteSets, TLC

Admin == "*"
List  == "connections:list"
Query == "connections:query"
Exec  == "connections:execute"

\* A permission by its parts: denied ("-" in front), action and resource;
\* flat permissions stand for those flatPermToResource maps them to.
Part(denied, action, resource) == [deny |-> denied, action |-> action, res |-> resource]

Text == [p \in {List, "list:connection.*", Query, Exec, "-connections:execute",
                "execute:*", "-execute:c1", "-*", "*:c1", "jobs:list"} |->
    CASE p \in {List, "list:connection.*"} -> Part(FALSE, "list", "connection.*")
      [] p = Query                  -> Part(FALSE, "query", "connection.*")
      [] p = Exec                   -> Part(FALSE, "execute", "connection.*")
      [] p = "-connections:execute" -> Part(TRUE, "execute", "connection.*")
      [] p = "execute:*"            -> Part(FALSE, "execute", "*")
      [] p = "-execute:c1"          -> Part(TRUE, "execute", "c1")
      [] p = "-*"                   -> Part(TRUE, "*", "*")
      [] p = "*:c1"                 -> Part(FALSE, "*", "c1")
      [] p = "jobs:list"            -> Part(FALSE, "list", "jobs.*")]

Perms == DOMAIN Text \cup {Admin}

\* "prefix.*" matches what begins with the prefix; the resources that occur.
Covers == [pattern \in {"connection.*", "jobs.*", "c1"} |->
              CASE pattern = "connection.*" -> {"connection.c1", "connection.c2"}
                [] pattern = "jobs.*"       -> {"jobs.j1"}
                [] pattern = "c1"           -> {"c1"}]

matchPattern(pattern, resource) == pattern = "*" \/ resource \in Covers[pattern]

matchesResource(p, action, resource) ==
    /\ Text[p].action \in {"*", action}
    /\ matchPattern(Text[p].res, resource)

\* The first entry that decides: the admin permission, or a deny that
\* matches; without one, any grant that matches.
HasResourcePermission(perms, action, resource) ==
    LET Decides(p) == p = Admin \/ (Text[p].deny /\ matchesResource(p, action, resource))
        first == SelectInSeq(perms, Decides)
    IN  IF first # 0 THEN perms[first] = Admin
        ELSE \E i \in DOMAIN perms : matchesResource(perms[i], action, resource)

HasPermission(perms, required) ==
    \E i \in DOMAIN perms : perms[i] \in {Admin, required}

-----------------------------------------------------------------------------
\* Roles.

Builtin ==
    [admin     |-> [perms |-> <<Admin>>,                          access |-> <<>>, parent |-> ""],
     developer |-> [perms |-> <<List, Query, Exec, "jobs:list">>, access |-> <<>>, parent |-> ""],
     readonly  |-> [perms |-> <<List, Query>>,                    access |-> <<>>, parent |-> ""]]

\* The stored role, else the built-in one, else none: a sequence of 0 or 1.
Lookup(roles, id) ==
    IF id \in DOMAIN roles THEN <<roles[id]>>
    ELSE IF id \in DOMAIN Builtin THEN <<Builtin[id]>> ELSE <<>>

\* One step up: the role is met, and its parent is next; no role is called "".
Climb(roles, st) ==
    LET r == Lookup(roles, st.next) IN
    IF r = <<>> THEN st ELSE [met |-> st.met \o r, next |-> r[1].parent]

\* The role and its ancestors.  The code follows parents without looking for
\* a cycle; no handler sets a parent, so tables here have none (NoCycles), and
\* the walk has ended when it has gone up as often as there are roles.
Walk(roles, id) ==
    LET n == Cardinality(DOMAIN roles \cup DOMAIN Builtin)
        walk[i \in 0..n] ==
            IF i = 0 THEN [met |-> <<>>, next |-> id] ELSE Climb(roles, walk[i - 1])
    IN  walk[n]
Chain(roles, id) == Walk(roles, id).met

NoCycles(roles) ==
    \A id \in DOMAIN roles : Lookup(roles, Walk(roles, id).next) = <<>>

\* append(result, x) unless x was appended before.
AddNew(st, x) ==
    IF x \in st.seen THEN st
    ELSE [seen |-> st.seen \cup {x}, out |-> Append(st.out, x)]
AddAll(st, xs) ==
    LET add[i \in 0..Len(xs)] == IF i = 0 THEN st ELSE AddNew(add[i - 1], xs[i])
    IN  add[Len(xs)]

\* What one list of each role holds, each once.
Collect(chain, list) ==
    LET got[i \in 0..Len(chain)] ==
            IF i = 0 THEN [seen |-> {}, out |-> <<>>] ELSE AddAll(got[i - 1], chain[i][list])
    IN  got[Len(chain)]

\* The walk: a role with the admin permission replaces what was collected
\* and ends it; the extra permissions of the user come last.
GetEffectivePerms(roles, id, extra) ==
    LET chain  == Chain(roles, id)
        top    == SelectInSeq(chain, LAMBDA r : Contains(r.perms, Admin))
        walked == IF top = 0 THEN chain ELSE SubSeq(chain, 1, top - 1)
        own    == Collect(walked, "perms")
    IN  AddAll(IF top = 0 THEN own ELSE [own EXCEPT !.out = <<Admin>>], extra).out

\* "-c" denies c: the two are each other's opposite.
Opposite == [e \in {"c1", "-c1", "c2", "-c2", "*", "-*"} |->
    CASE e = "c1" -> "-c1" [] e = "-c1" -> "c1" [] e = "c2" -> "-c2"
      [] e = "-c2" -> "c2" [] e = "*" -> "-*"   [] e = "-*" -> "*"]

Entries  == DOMAIN Opposite

\* What the internal database holds of roles: finitely many, with lists of
\* permissions and of entries.
SoundTable(roles) ==
    /\ IsFiniteSet(DOMAIN roles)
    /\ \A id \in DOMAIN roles : roles[id].perms \in Seq(Perms) /\ roles[id].access \in Seq(Entries)

\* Mutation: the opposite stays.
AppendOnly(st, e) == AddNew(st, e)

\* An extra entry takes its opposite out and goes in, unless it was ever in.
Override(st, e) == AddNew([st EXCEPT !.out = RemoveFirst(@, Opposite[e])], e)

GetEffectiveDBAccess(roles, id, extra) ==
    LET own == Collect(Chain(roles, id), "access")
        laid[i \in 0..Len(extra)] == IF i = 0 THEN own ELSE Override(laid[i - 1], extra[i])
    IN  laid[Len(extra)].out

CheckDBAccess(perms, access, conn) ==
    \/ \E i \in DOMAIN perms : perms[i] \in {Admin, List, Query, Exec}
    \/ /\ ~Contains(access, Opposite[conn])
       /\ Contains(access, conn) \/ Contains(access, "*")

-----------------------------------------------------------------------------
\* What the loops are for, said without them.

\* Everything along the chain and the extras; above an admin role nothing is
\* needed, and below it nothing is left but the extras not met on the way.
EffectiveSet(roles, id, extra) ==
    LET chain == Chain(roles, id)
        Below == {i \in DOMAIN chain : \A j \in 1..i : ~Contains(chain[j].perms, Admin)}
        met   == UNION {ToSet(chain[i].perms) : i \in Below}
    IN  IF Below = DOMAIN chain THEN met \cup ToSet(extra)
        ELSE {Admin} \cup (ToSet(extra) \ met)

\* What the roles of the chain say of connections.
OwnAccess(roles, id) == UNION {ToSet(r.access) : r \in ToSet(Chain(roles, id))}

\* An entry stands in the end when it occurs, and no extra entry after its
\* first occurrence says the opposite.
Stands(own, extra, e) ==
    \/ e \in own /\ ~Contains(extra, Opposite[e])
    \/ /\ e \notin own
       /\ \E i \in DOMAIN extra :
             /\ extra[i] = e
             /\ \A j \in 1..(i - 1) : extra[j] # e
             /\ \A j \in (i + 1)..Len(extra) : extra[j] # Opposite[e]

\* The walk over the roles yields just what the chain and the extras hold.
EffectiveExact(roles, id, extra) ==
    ToSet(GetEffectivePerms(roles, id, extra)) = EffectiveSet(roles, id, extra)

\* The overrides leave just the entries that stand, each once; in particular
\* a deny after every grant denies, unless it was said before: taken out by
\* a grant, it is not put in again.
AccessExact(roles, id, extra) ==
    LET access == GetEffectiveDBAccess(roles, id, extra)
        own    == OwnAccess(roles, id)
    IN  /\ ToSet(access) = {e \in Entries : Stands(own, extra, e)}
        /\ IsInjective(access)
        /\ extra # <<>> /\ Last(extra) = "-c1" /\ "-c1" \notin own \cup ToSet(Front(extra))
              => ~CheckDBAccess(<<>>, access, "c1")

\* Among permissions without "*" a deny that matches wins in any order.
DenyWins(ps, action, resource) ==
    ~Contains(ps, Admin) =>
        (HasResourcePermission(ps, action, resource) <=>
            /\ \E p \in ToSet(ps) : matchesResource(p, action, resource)
            /\ ~\E p \in ToSet(ps) : Text[p].deny /\ matchesResource(p, action, resource))

=============================================================================
