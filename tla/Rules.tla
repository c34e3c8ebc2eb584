-------------------------------- MODULE Rules --------------------------------
(***************************************************************************)
(* The rules users write: WHERE expressions (internal/output/row_filter.go), *)
(* table globs and match rules (internal/routing), and an API key's ACL    *)
(* (internal/mcp).                                                         *)
(*                                                                         *)
(* A WHERE expression is a sequence of tokens; a name is a sequence of     *)
(* characters, since where a pattern's prefix and suffix meet matters.     *)
(***************************************************************************)
EXTENDS Integers, Sequences, FiniteSets, SequencesExt

-----------------------------------------------------------------------------
(* Values and rows.                                                         *)

\* A value as toFloat64 and anyToString see it: its number, if it is one, and the
\* rank of its string form.  "10" sorts before "2" as a string.
Val(isNum, num, rank) == [isNum |-> isNum, num |-> num, rank |-> rank]
Null == Val(FALSE, 0, 0)                        \* anyToString(nil) is ""
Literal == [t \in {"1", "2", "10", "x"} |->
    CASE t = "1"  -> Val(TRUE, 1, 1)
      [] t = "10" -> Val(TRUE, 10, 2)
      [] t = "2"  -> Val(TRUE, 2, 3)
      [] OTHER    -> Val(FALSE, 0, 4)]

Compare(l, op, r) ==
    CASE op = "="  -> l = r
      [] op = "!=" -> l # r
      [] op = ">"  -> l > r
      [] op = "<"  -> l < r
      [] op = ">=" -> l >= r
      [] OTHER     -> l <= r

\* compareValues: as numbers when both are, otherwise as strings.
CompareValues(col, op, lit) ==
    IF col.isNum /\ lit.isNum THEN Compare(col.num, op, lit.num)
    ELSE Compare(col.rank, op, lit.rank)

\* A row side is a function from column names to values, or Nil.
Nil == [nil |-> Null]

NoRow == [before |-> Nil, after |-> Nil]

\* rowContext.resolveColumn: the side a column token speaks of; no prefix means
\* After, or Before when there is no After.
SideOf(ev, col) ==
    CASE col.side = "before" -> ev.before
      [] col.side = "after"  -> ev.after
      [] OTHER               -> IF ev.after = Nil THEN ev.before ELSE ev.after

ColumnValue(row, name) == IF name \in DOMAIN row THEN row[name] ELSE Null

\* compareNode, inNode and isNullNode
TestCompare(ev, col, op, lit) ==
    SideOf(ev, col) # Nil /\ CompareValues(ColumnValue(SideOf(ev, col), col.value), op, lit)
TestIn(ev, col, lits) == \E i \in DOMAIN lits : TestCompare(ev, col, "=", lits[i])
TestNull(ev, col) ==
    SideOf(ev, col) = Nil \/ ColumnValue(SideOf(ev, col), col.value) = Null

-----------------------------------------------------------------------------
(* The recursive-descent parser.  Parsing and testing are folded into one:   *)
(* a result is the position after the expression and its value for ev.       *)

Tok(kind, value) == [kind |-> kind, value |-> value, side |-> ""]
Word(w)      == Tok("ident", w)
ColTok(s, c) == [kind |-> "ident", value |-> c, side |-> s]
EOF          == Tok("eof", "")

Reserved == {"LIKE", "BETWEEN", "SELECT"}                  \* isReservedClause

Peek(ts, pos) == IF pos <= Len(ts) THEN ts[pos] ELSE EOF
IsKeyword(ts, pos, kw) == Peek(ts, pos).kind = "ident" /\ Peek(ts, pos).value = kw

Fail == [ok |-> FALSE, pos |-> 0, val |-> FALSE]
Got(pos, val) == [ok |-> TRUE, pos |-> pos, val |-> val]

RECURSIVE ParseOr(_, _, _), OrRest(_, _, _), ParseAnd(_, _, _), AndRest(_, _, _),
          ParseNot(_, _, _), ParsePrimary(_, _, _), ParseList(_, _)

\* What a parse makes of its parts; an error of a part is an error of the whole.
OrOf(l, r)  == IF r.ok THEN Got(r.pos, l.val \/ r.val) ELSE Fail
AndOf(l, r) == IF r.ok THEN Got(r.pos, l.val /\ r.val) ELSE Fail
NotOf(c)    == IF c.ok THEN Got(c.pos, ~c.val) ELSE Fail
Closed(ts, e) == IF e.ok /\ Peek(ts, e.pos).kind = ")" THEN Got(e.pos + 1, e.val) ELSE Fail
Ended(ts, e)  == IF e.ok /\ Peek(ts, e.pos).kind = "eof" THEN e ELSE Fail

ParseOr(ts, pos, ev) == OrRest(ts, ParseAnd(ts, pos, ev), ev)

OrRest(ts, l, ev) ==
    IF ~l.ok \/ ~IsKeyword(ts, l.pos, "OR") THEN l
    ELSE OrRest(ts, OrOf(l, ParseAnd(ts, l.pos + 1, ev)), ev)

ParseAnd(ts, pos, ev) == AndRest(ts, ParseNot(ts, pos, ev), ev)

AndRest(ts, l, ev) ==
    IF ~l.ok \/ ~IsKeyword(ts, l.pos, "AND") THEN l
    ELSE AndRest(ts, AndOf(l, ParseNot(ts, l.pos + 1, ev)), ev)

\* Mutant: NOT reaches over the ANDs that follow.
ParseNotFar(ts, pos, ev) ==
    IF IsKeyword(ts, pos, "NOT") THEN NotOf(ParseAnd(ts, pos + 1, ev))
    ELSE ParsePrimary(ts, pos, ev)

ParseNot(ts, pos, ev) ==
    IF IsKeyword(ts, pos, "NOT") THEN NotOf(ParseNot(ts, pos + 1, ev))
    ELSE ParsePrimary(ts, pos, ev)

IsValue(t) == t.kind = "lit" \/ (t.kind = "ident" /\ t.value = "NULL")
ValueOf(t) == IF t.kind = "lit" THEN Literal[t.value] ELSE Null

\* "v, v, ... )": the values up to the closing parenthesis.
ParseList(ts, pos) ==
    IF ~IsValue(Peek(ts, pos)) THEN [ok |-> FALSE, pos |-> 0, vals |-> <<>>]
    ELSE CASE Peek(ts, pos + 1).kind = ")" ->
                 [ok |-> TRUE, pos |-> pos + 2, vals |-> <<ValueOf(ts[pos])>>]
           [] Peek(ts, pos + 1).kind = "," ->
                 LET r == ParseList(ts, pos + 2) IN [r EXCEPT !.vals = <<ValueOf(ts[pos])>> \o @]
           [] OTHER -> [ok |-> FALSE, pos |-> 0, vals |-> <<>>]

ParsePrimary(ts, pos, ev) ==
    LET col == Peek(ts, pos) IN
    CASE col.kind = "(" -> Closed(ts, ParseOr(ts, pos + 1, ev))
      [] col.kind # "(" /\ (col.kind # "ident" \/ col.value \in Reserved) -> Fail
      [] OTHER ->
         CASE IsKeyword(ts, pos + 1, "IS") ->
                  LET not == IsKeyword(ts, pos + 2, "NOT")
                      p   == IF not THEN pos + 3 ELSE pos + 2
                  IN  IF IsKeyword(ts, p, "NULL") THEN Got(p + 1, TestNull(ev, col) # not) ELSE Fail
           [] IsKeyword(ts, pos + 1, "IN") ->
                  LET l == ParseList(ts, pos + 3)
                  IN  IF Peek(ts, pos + 2).kind = "(" /\ l.ok
                      THEN Got(l.pos, TestIn(ev, col, l.vals)) ELSE Fail
           [] OTHER ->
                  IF Peek(ts, pos + 1).kind = "op" /\ IsValue(Peek(ts, pos + 2))
                  THEN Got(pos + 3, TestCompare(ev, col, ts[pos + 1].value, ValueOf(ts[pos + 2])))
                  ELSE Fail

\* ParseRowFilter: nothing may follow the expression; an empty one always matches.
ParseRowFilter(ts, ev) ==
    IF ts = <<>> THEN Got(1, TRUE) ELSE Ended(ts, ParseOr(ts, 1, ev))

\* RowFilter.Match, for an expression that compiled: no row at all matches.
RowMatches(ts, ev) ==
    ts = <<>> \/ (ev.before = Nil /\ ev.after = Nil) \/ ParseRowFilter(ts, ev).val

-----------------------------------------------------------------------------
(* Table globs and match rules.                                             *)

CompileTableGlob(pat) ==
    LET stars == {i \in DOMAIN pat : pat[i] = "*"}
        at    == CHOOSE i \in stars : TRUE
    IN  CASE pat = <<>> \/ Cardinality(stars) > 1 -> [kind |-> "error"]
          [] pat = <<"*">>                        -> [kind |-> "all"]
          [] pat # <<>> /\ stars = {}             -> [kind |-> "exact", name |-> pat]
          [] OTHER -> [kind |-> "affix", prefix |-> SubSeq(pat, 1, at - 1),
                       suffix |-> SubSeq(pat, at + 1, Len(pat))]

GlobMatch(g, name) ==
    CASE g.kind = "all"   -> TRUE
      [] g.kind = "exact" -> name = g.name
      [] g.kind = "affix" -> /\ Len(name) >= Len(g.prefix) + Len(g.suffix)
                             /\ IsPrefix(g.prefix, name) /\ IsSuffix(g.suffix, name)
      [] OTHER            -> FALSE

\* Compile refuses a rule with a bad glob, an unknown operation or a bad WHERE.
Operations == {"insert", "update", "delete", "read"}
Compiles(mc) ==
    /\ \A pat \in mc.tables : CompileTableGlob(pat).kind # "error"
    /\ mc.operations \subseteq Operations
    /\ ParseRowFilter(mc.where, NoRow).ok

MatchTable(pats, name) == \E pat \in pats : GlobMatch(CompileTableGlob(pat), name)

\* Matcher.Match: control events match no rule.
Matches(mc, ev) ==
    /\ ev.op \in (IF mc.operations = {} THEN Operations ELSE mc.operations)
    /\ mc.tables = {} \/ MatchTable(mc.tables, ev.table)
    /\ RowMatches(mc.where, ev)

-----------------------------------------------------------------------------
(* An API key's ACL: table globs, and redact rules [tables, columns].        *)

AllowTable(acl, name) == MatchTable(acl.tables, name)

FilterTables(acl, names) == {n \in names : AllowTable(acl, n)}

\* columnsFor: a redact rule without tables covers every table.
RedactedColumns(acl, name) ==
    UNION {r.columns : r \in {x \in acl.redact : x.tables = {} \/ MatchTable(x.tables, name)}}

\* The columns of Before and After, whichever are there.
RowColumns(ev) == UNION {DOMAIN r : r \in {ev.before, ev.after} \ {Nil}}

\* Mutant: Apply masks the rows and leaves the context.
ShownWithContext(acl, ev) ==
    [rows |-> RowColumns(ev) \ RedactedColumns(acl, ev.table), key |-> ev.key, context |-> TRUE]

\* Apply, for an event of an allowed table: the columns whose values stay in Before
\* and After; those in Key and, as part of it, IdempotencyKey, which are left alone;
\* and whether the AI context stays.
Shown(acl, ev) ==
    LET masked == RedactedColumns(acl, ev.table) IN
    [rows |-> RowColumns(ev) \ masked, key |-> ev.key, context |-> masked = {}]

-----------------------------------------------------------------------------
(* Reference definitions, over whole token and character sequences.          *)

\* The values of ts as an OR, AND, NOT and primary expression of the grammar in
\* row_filter.go's header: at most one value, none when ts is not a sentence.
RECURSIVE OrValues(_, _), AndValues(_, _), NotValues(_, _)

Split(ts, kw) == {i \in 2..(Len(ts) - 1) : ts[i] = Word(kw)}
Before(ts, i) == SubSeq(ts, 1, i - 1)
After(ts, i)  == SubSeq(ts, i + 1, Len(ts))

OrValues(ts, ev) ==
    AndValues(ts, ev) \cup
    UNION {{l \/ r : l \in OrValues(Before(ts, i), ev), r \in AndValues(After(ts, i), ev)} :
               i \in Split(ts, "OR")}

AndValues(ts, ev) ==
    NotValues(ts, ev) \cup
    UNION {{l /\ r : l \in AndValues(Before(ts, i), ev), r \in NotValues(After(ts, i), ev)} :
               i \in Split(ts, "AND")}

Shape(ts) == [i \in DOMAIN ts |-> IF ts[i].kind = "ident" THEN ts[i].value ELSE ts[i].kind]

NotValues(ts, ev) ==
    LET n == Len(ts)
        s == Shape(ts)
        isCol == n > 0 /\ ts[1].kind = "ident" /\ s[1] \notin Reserved
        odd == {i \in 4..(n - 1) : i % 2 = 0}
    IN  CASE n > 1 /\ s[1] = "NOT" -> {~v : v \in NotValues(Tail(ts), ev)}
          [] n > 2 /\ s[1] = "(" /\ s[n] = ")" -> OrValues(SubSeq(ts, 2, n - 1), ev)
          [] isCol /\ n = 3 /\ s[2] = "op" /\ IsValue(ts[3]) ->
                 {TestCompare(ev, ts[1], ts[2].value, ValueOf(ts[3]))}
          [] isCol /\ n = 3 /\ SubSeq(s, 2, 3) = <<"IS", "NULL">> -> {TestNull(ev, ts[1])}
          [] isCol /\ n = 4 /\ SubSeq(s, 2, 4) = <<"IS", "NOT", "NULL">> -> {~TestNull(ev, ts[1])}
          [] isCol /\ n > 4 /\ n % 2 = 1 /\ s[2] = "IN" /\ s[3] = "(" /\ s[n] = ")"
             /\ (\A i \in odd : IsValue(ts[i])) /\ (\A i \in (4..(n - 1)) \ odd : s[i] = ",") ->
                 {\E i \in odd : TestCompare(ev, ts[1], "=", ValueOf(ts[i]))}
          [] OTHER -> {}

\* A name matches a pattern when the star can be replaced by some run of it.
GlobReference(pat, name) ==
    \/ pat = name /\ "*" \notin ToSet(pat) /\ pat # <<>>
    \/ \E i \in DOMAIN pat :
        /\ pat[i] = "*" /\ \A j \in DOMAIN pat \ {i} : pat[j] # "*"
        /\ \E a, b \in 0..Len(name) :
            Before(pat, i) \o SubSeq(name, a + 1, b) \o After(pat, i) = name
=============================================================================
