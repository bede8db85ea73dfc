------------------------------- MODULE SqlRisk -------------------------------
(***************************************************************************)
(* How a text of SQL is judged before it runs: the command guard           *)
(* (internal/guard/rbac.go) and the risk evaluator                         *)
(* (internal/suggest/risk.go).  Neither parses; both look for words.       *)
(*                                                                         *)
(* A text is a sequence of tokens: command words, the words a condition is *)
(* recognised by, quotes, semicolons, comment marks, ends of lines, and    *)
(* "x" for any other word.  White space and case, which the code trims and *)
(* raises, are left out.                                                   *)
(***************************************************************************)
EXTENDS Integers, Sequences, SequencesExt, FiniteSets

Commands == {"SELECT", "INSERT", "UPDATE", "DELETE", "CREATE", "DROP", "ALTER", "TRUNCATE"}
Quotes   == {"sq", "dq"}
Unknown  == "UNKNOWN"

\* strings.Index and strings.HasPrefix of one token.
IndexOf(s, t) == SelectInSeq(s, LAMBDA u : u = t)
Starts(s, ts) == s # <<>> /\ Head(s) \in ts
After(s, i)   == SubSeq(s, i + 1, Len(s))

\* trimSQL: comments and ends of lines in front go, one in each round; a
\* comment without an end takes everything with it.
Cut(s) ==
    LET Past(t) == IF IndexOf(s, t) = 0 THEN <<>> ELSE After(s, IndexOf(s, t))
    IN  CASE Starts(s, {"nl"}) -> Tail(s)
          [] Starts(s, {"--"}) -> Past("nl")
          [] Starts(s, {"/*"}) -> Past("*/")
          [] OTHER -> s
trimSQL(s) ==
    LET cut[i \in 0..Len(s)] == IF i = 0 THEN s ELSE Cut(cut[i - 1])
    IN  cut[Len(s)]

\* splitStatements: at semicolons, but not between a quote and the next of
\* its kind; the last piece only when there is one.
SplitAt(st, t) ==
    CASE st.quote # "" -> [st EXCEPT !.cur = Append(@, t), !.quote = IF t = @ THEN "" ELSE @]
      [] st.quote = "" /\ t \in Quotes -> [st EXCEPT !.cur = Append(@, t), !.quote = t]
      [] st.quote = "" /\ t = ";" -> [st EXCEPT !.out = Append(@, st.cur), !.cur = <<>>]
      [] OTHER -> [st EXCEPT !.cur = Append(@, t)]
splitStatements(s) ==
    LET split[i \in 0..Len(s)] ==
            IF i = 0 THEN [out |-> <<>>, cur |-> <<>>, quote |-> ""] ELSE SplitAt(split[i - 1], s[i])
        end == split[Len(s)]
    IN  IF end.cur = <<>> THEN end.out ELSE Append(end.out, end.cur)

riskLevel(c) ==
    CASE c \in {"DROP", "TRUNCATE"} -> 5
      [] c \in {"DELETE", "ALTER"}  -> 4
      [] c \in {"CREATE", "UPDATE"} -> 3
      [] c = "INSERT" -> 2
      [] c = "SELECT" -> 1
      [] OTHER -> 0

\* TrimSpace of a statement: ends of lines in front are white space.
TrimSpace(s) ==
    LET first == SelectInSeq(s, LAMBDA t : t # "nl")
    IN  IF first = 0 THEN <<>> ELSE After(s, first - 1)

prefixCommand(stmt) == IF Starts(TrimSpace(stmt), Commands) THEN Head(TrimSpace(stmt)) ELSE Unknown

\* Mutation: the first statement stands for all.
FirstCommand(s) ==
    LET stmts == splitStatements(trimSQL(s)) IN IF stmts = <<>> THEN Unknown ELSE prefixCommand(stmts[1])

\* The first of the statements of the highest risk.
Worse(worst, stmt) ==
    IF riskLevel(prefixCommand(stmt)) > riskLevel(worst) THEN prefixCommand(stmt) ELSE worst
WorstOf(stmts) ==
    LET worst[i \in 0..Len(stmts)] == IF i = 0 THEN Unknown ELSE Worse(worst[i - 1], stmts[i])
    IN  worst[Len(stmts)]
detectCommand(s) == WorstOf(splitStatements(trimSQL(s)))

\* CheckCommand: SELECT needs the query permission, all else the execute
\* permission; what is no command is refused, and "*" stands for nothing.
Needed(c) == IF c = "SELECT" THEN "connections:query" ELSE "connections:execute"
CheckCommand(s, perms) ==
    detectCommand(s) # Unknown /\ Contains(perms, Needed(detectCommand(s)))

\* FilterSuggestions keeps what is no command, or what the caller may run.
FilterSuggestions(texts, perms) ==
    SelectSeq(texts, LAMBDA s : detectCommand(s) = Unknown \/ CheckCommand(s, perms))

-----------------------------------------------------------------------------
\* RiskEvaluator.Classify of a text of one or more statements, by its first
\* word and by words anywhere in it.

hasSpecificCondition(s) ==
    LET tail == After(s, IndexOf(s, "WHERE")) IN Contains(tail, "=") \/ Contains(tail, "IN (")

evaluateUpdate(s) == IF Contains(s, "WHERE") THEN "MEDIUM" ELSE "HIGH"
evaluateDelete(s) == IF Contains(s, "WHERE") /\ hasSpecificCondition(s) THEN "MEDIUM" ELSE "HIGH"
evaluateSelect(s) == IF Contains(s, "INTO") THEN "MEDIUM" ELSE "LOW"

\* Mutation: ALTER is missing among the words of high risk.
ClassifyWithoutAlter(text) ==
    LET s == TrimSpace(text) IN
    CASE Starts(s, {"SELECT"}) -> evaluateSelect(s)
      [] Starts(s, {"SHOW"})   -> "LOW"
      [] Starts(s, {"UPDATE"}) -> evaluateUpdate(s)
      [] Starts(s, {"DELETE"}) -> evaluateDelete(s)
      [] Starts(s, {"TRUNCATE", "DROP", "GRANT"}) -> "HIGH"
      [] OTHER -> "MEDIUM"

Classify(text) ==
    LET s == TrimSpace(text) IN
    CASE Starts(s, {"SELECT"}) -> evaluateSelect(s)
      [] Starts(s, {"SHOW"})   -> "LOW"
      [] Starts(s, {"UPDATE"}) -> evaluateUpdate(s)
      [] Starts(s, {"DELETE"}) -> evaluateDelete(s)
      [] Starts(s, {"TRUNCATE", "DROP", "ALTER", "GRANT"}) -> "HIGH"
      [] OTHER -> "MEDIUM"

-----------------------------------------------------------------------------
\* What a database makes of a text: comments are dropped wherever they
\* stand outside of quotes, and statements end at semicolons outside both.

LexAt(st, t) ==
    CASE st.mode \in Quotes -> [st EXCEPT !.mode = IF t = @ THEN "" ELSE @]
      [] st.mode = "--" -> [st EXCEPT !.mode = IF t = "nl" THEN "" ELSE @]
      [] st.mode = "/*" -> [st EXCEPT !.mode = IF t = "*/" THEN "" ELSE @]
      [] st.mode = "" /\ t \in Quotes -> [mode |-> t, fresh |-> FALSE,
                                          heads |-> st.heads \cup (IF st.fresh THEN {"x"} ELSE {})]
      [] st.mode = "" /\ t \in {"--", "/*"} -> [st EXCEPT !.mode = t]
      [] st.mode = "" /\ t = ";"  -> [st EXCEPT !.fresh = TRUE]
      [] st.mode = "" /\ t = "nl" -> st
      [] OTHER -> [st EXCEPT !.heads = @ \cup (IF st.fresh THEN {t} ELSE {}), !.fresh = FALSE]
Lexed(s) ==
    LET lex[i \in 0..Len(s)] ==
            IF i = 0 THEN [mode |-> "", fresh |-> TRUE, heads |-> {}] ELSE LexAt(lex[i - 1], s[i])
    IN  lex[Len(s)]

\* The first words of the statements of a text.
HeadWords(s) == Lexed(s).heads

\* No comment but in front of the first statement.
PlainAfterTrim(s) == ToSet(trimSQL(s)) \cap {"--", "/*", "*/"} = {}

\* The guard sees the worst command a database will find in the text.
GuardSeesWorst(s) ==
    LET found == HeadWords(s) \cap Commands IN
    PlainAfterTrim(s) =>
        IF found = {} THEN detectCommand(s) = Unknown
        ELSE /\ detectCommand(s) \in found
             /\ \A c \in found : riskLevel(c) <= riskLevel(detectCommand(s))

=============================================================================
