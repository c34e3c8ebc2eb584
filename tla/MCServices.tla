----------------------------- MODULE MCServices -----------------------------
(***************************************************************************)
(* Instances for TLC of the services around the pipeline, which share no   *)
(* state: the MCP server's subscriptions, recent-event index and audit     *)
(* log, the match rules, client streams and enrichment.  "focus" picks one *)
(* of them per behaviour, so that their state spaces add up instead of     *)
(* multiplying; a behaviour about the rules is one probe.                  *)
(***************************************************************************)
EXTENDS MCP, RecentIndex, Audit, Streams, Enrich

CONSTANTS ka, kb, p1, p2, s1, s2, MaxGroups

VARIABLES focus, probe
edgeVars == <<streamVars, enrichVars>>
mcpVars == <<vars, indexVars, auditVars>>
mcVars == <<mcpVars, edgeVars, focus, probe>>

\* Tables q.a, q.b and r; rows with columns "id" and "pw".
qa == <<"q", ".", "a">>
qb == <<"q", ".", "b">>
Row(id) == [id |-> Literal[id], pw |-> Literal["x"]]
Ev(t, op, id) == [table |-> t, op |-> op, key |-> {"id"}, before |-> Nil, after |-> Row(id)]
MCEvent == [e1 |-> Ev(qa, "insert", "1"), e2 |-> Ev(qb, "insert", "2"), e3 |-> Ev(qa, "update", "10")]
MCLog == [p \in Partition |-> IF p = p1 THEN <<"e1", "e2">> ELSE <<"e3">>]

\* ka sees q.* with both columns of q.b redacted, the key too; kb sees only q.a.
MCAcl == [k \in {ka, kb} |->
    IF k = ka THEN [tables |-> {<<"q", ".", "*">>}, redact |-> {[tables |-> {qb}, columns |-> {"id", "pw"}]}]
    ELSE [tables |-> {qa}, redact |-> {}]]
MCSessionKey == [ss \in Session |-> ka]

\* Every row of q and r, of which the ACL leaves q, and the inserts of q with id > 1.
Above1 == <<ColTok("", "id"), Tok("op", ">"), Tok("lit", "1")>>
MCMatchConfigs ==
    {[tables |-> {<<"q", ".", "*">>, <<"r">>}, operations |-> {}, where |-> <<>>],
     [tables |-> {<<"q", ".", "*">>}, operations |-> {"insert", "read"}, where |-> Above1]}

\* A stream of tables q and r with column pw of q filtered out; in partition 2 a
\* row that the row filter cannot read and an event that the table filter drops.
Streamed(t, op, row) == [table |-> t, op |-> op, columns |-> {"id", "pw"}, row |-> row]
MCStreamLog ==
    <<<<Streamed("q", "insert", "yes"), Streamed("r", "update", "yes")>>,
      <<Streamed("q", "insert", "error"), Streamed("s", "insert", "yes"), Streamed("q", "insert", "yes")>>>>
MCStreamFilter == [tables |-> {"q", "r"}, operations |-> {"insert", "update"}]
MCColFilterSets == [q |-> {"id"}]

\* A batch of two events and, at the same time, one of another caller.
MCCallerOf == <<"m", "m", "n">>

-----------------------------------------------------------------------------
(* Probes.                                                                  *)

Seqs(S, n) == UNION {[1..m -> S] : m \in 0..n}

a == ColTok("", "a")
eq == Tok("op", "=")
\* In an update, a = 1 holds now and did not before; b is null.
Update == [before |-> [a |-> Literal["2"], b |-> Null], after |-> [a |-> Literal["1"], b |-> Null]]
Insert == [before |-> Nil, after |-> [a |-> Literal["1"]]]

Groups == {<<a, eq, Tok("lit", "1")>>, <<a, Tok("op", "<"), Tok("lit", "1")>>,
           <<Word("AND")>>, <<Word("OR")>>, <<Word("NOT")>>, <<Tok("(", "")>>, <<Tok(")", "")>>}
Rest == {Word("IS"), Word("NOT"), Word("NULL"), Word("IN"), Word("LIKE"), Tok("(", ""),
         Tok(")", ""), Tok(",", ""), Tok("lit", "1"), eq}

NoProbe == [kind |-> "none"]

FilterProbe(ts, ev) == probe' = [kind |-> "filter", ts |-> ts, ev |-> ev]

\* Every probe is one behaviour of its own.
Probe ==
    /\ focus = "start" /\ focus' = "rules" /\ proto = "sse"
    /\ \/ \E g \in Seqs(Groups, MaxGroups) : FilterProbe(FlattenSeq(g), Update)
       \/ \E s \in {"", "before"}, r \in Seqs(Rest, 4) :
              FilterProbe(<<ColTok(s, "a")>> \o r, Insert)
       \/ \E p \in Seqs({"q", ".", "*"}, 4), n \in Seqs({"q", "."}, 4) \ {<<>>} :
              probe' = [kind |-> "glob", pattern |-> p, name |-> n]
    /\ UNCHANGED <<mcpVars, edgeVars>>

\* Of the two initial states, the one with a gRPC stream is for that part only.
Focus(part) ==
    /\ focus \in {"start", part} /\ focus' = part
    /\ proto = "grpc" => part = "stream"
    /\ UNCHANGED probe

\* Both sessions have the same key; the second one stays.
ServerMoves ==
    /\ Focus("server") /\ Next /\ session'["two"] = "open"
    /\ UNCHANGED <<indexVars, auditVars, edgeVars>>
IndexMoves  == Focus("index") /\ IndexNext /\ UNCHANGED <<vars, auditVars, edgeVars>>
AuditMoves  == Focus("audit") /\ AuditNext /\ UNCHANGED <<vars, indexVars, edgeVars>>
StreamMoves == Focus("stream") /\ StreamNext /\ UNCHANGED <<mcpVars, enrichVars>>
EnrichMoves == Focus("enrich") /\ EnrichNext /\ UNCHANGED <<mcpVars, streamVars>>

MCInit ==
    /\ Init /\ IndexInit /\ AuditInit /\ StreamInit /\ EnrichInit
    /\ focus = "start" /\ probe = NoProbe

MCNext == ServerMoves \/ IndexMoves \/ AuditMoves \/ StreamMoves \/ EnrichMoves \/ Probe

\* The goroutines of a partition and of a handler, whose client reads and whose
\* ticker runs; the retry goroutine, which visits every group; the goroutines of each
\* caller's batch, and time.
MCFairness ==
    /\ WF_mcVars(focus = "stream" /\ StreamHandler /\ UNCHANGED <<mcpVars, enrichVars, focus, probe>>)
    /\ \A p \in Parts :
         /\ WF_mcVars(focus = "stream" /\ StreamPartition(p) /\ UNCHANGED <<mcpVars, enrichVars, focus, probe>>)
         /\ WF_mcVars(focus = "stream" /\ StreamRetry(p) /\ UNCHANGED <<mcpVars, enrichVars, focus, probe>>)
    /\ \A c \in Caller :
         WF_mcVars(focus = "enrich" /\ EnrichStep(c) /\ UNCHANGED <<mcpVars, streamVars, focus, probe>>)
    /\ WF_mcVars(focus = "enrich" /\ CoolDown /\ UNCHANGED <<mcpVars, streamVars, focus, probe>>)

MCSpec == MCInit /\ [][MCNext]_mcVars /\ MCFairness

-----------------------------------------------------------------------------
(* Properties.                                                              *)

\* The recursive-descent parser accepts exactly the sentences of the grammar that
\* row_filter.go documents, and gives each the value its derivation has: AND binds
\* tighter than OR, NOT tighter than both.
FilterAgrees ==
    probe.kind = "filter" =>
        LET r == ParseRowFilter(probe.ts, probe.ev) IN
        IF probe.ts = <<>> THEN r.ok /\ r.val
        ELSE OrValues(probe.ts, probe.ev) = IF r.ok THEN {r.val} ELSE {}

\* tableGlob.match answers TRUE exactly when some run of characters can stand for
\* the star, and compileTableGlob refuses every other pattern.
GlobAgrees ==
    probe.kind = "glob" =>
        GlobMatch(CompileTableGlob(probe.pattern), probe.name)
            = GlobReference(probe.pattern, probe.name)

\* The rules users write mean what their grammar says.
RulesAgree == FilterAgrees /\ GlobAgrees

\* The events of the tables that a key's patterns name.
AclReference == [k \in ApiKey |->
    {e \in DOMAIN Event : \E t \in Acl[k].tables : GlobReference(t, Event[e].table)}]

\* MCP-01, as far as ACL.Apply goes: whichever tool it used, a key was shown only
\* events of its tables; a column that its rules redact for the table appears in no
\* row and takes the AI context with it, and is visible at all only if it belongs to
\* the primary key.
ShownOnlyAllowed ==
    LET covers(r, t) == r.tables = {} \/ \E g \in r.tables : GlobReference(g, t)
        fine(k, e, s) ==
            /\ e \in AclReference[k]
            /\ \A r \in Acl[k].redact : covers(r, Event[e].table) /\ r.columns # {} =>
                   s.rows \cap r.columns = {} /\ ~s.context
            /\ s.key \subseteq Event[e].key
    IN  /\ \A x \in shown : fine(x.key, x.event, x.shows)
        /\ \A k \in DOMAIN lookup : lookup[k].event # "" => fine(k, lookup[k].event, lookup[k].shows)

\* What the MCP tools answer is what the index and the key's rules say.
ToolsAnswerRight == RecentIndexExact /\ ShownOnlyAllowed

\* A slow client gets everything in the end (Deliver, FlushBatch and the handlers of
\* SSE and gRPC): unless it leaves or its connection breaks, which is for good, each
\* event its filters admit arrives or is dead-lettered.
StreamsDeliver == (focus = "stream") ~> (closed \/ sticky \/ StreamSettled)
=============================================================================
