--------------------------------- MODULE MCP ---------------------------------
(***************************************************************************)
(* internal/mcp: subscriptions with ring buffers, debounced nudges and     *)
(* session cleanup.                                                        *)
(*                                                                         *)
(* The router's partition goroutines call Deliver concurrently with the    *)
(* tool handlers and the nudge timers.  s.subsMu makes a handler's change  *)
(* of the subscription table one step; sub.mu does so for a ring.  The     *)
(* audit log is in module Audit, the recent-event index in RecentIndex,    *)
(* match rules and ACLs in Rules.                                          *)
(***************************************************************************)
EXTENDS Rules

CONSTANTS
    ApiKey, Acl,                     \* each key's compiled ACL
    Session, SessionKey,             \* SessionKey[s]: the key a session presented
    SubId,                           \* bound: ids that ulid.Make will hand out
    MatchConfigs,                    \* what clients ask to subscribe to
    Partition, Log, Event,           \* Log[p]: the partition's ids; Event[id]: the event
    RingSize, MaxSubscriptions, DrainMax

ASSUME MCPAssumption ==
    /\ SessionKey \in [Session -> ApiKey] /\ Log \in [Partition -> Seq(DOMAIN Event)]
    /\ RingSize \in Nat \ {0} /\ MaxSubscriptions \in Nat \ {0} /\ DrainMax \in Nat \ {0}

VARIABLES
    up,              \* the server has not been closed
    session,         \* "open", "gone" (disconnected), "cleaned"
    sub,             \* every subscription made: session, match, ring, closed flag
    subs,            \* s.subs
    sessionSubs,     \* s.sessionSubs
    registered,      \* subscriptions that are consumers of the router
    next,            \* the router's cursor of each of them per partition
    job,             \* the Deliver call each partition goroutine is in
    pending, timer,  \* nudgePending; the AfterFunc timer is armed
    firing,          \* timer callbacks that have yet to send
    pushed, answered, unannounced,   \* history: see the properties
    shown            \* what the tool call of this step has answered, if it is one

tableVars == <<up, session, subs, sessionSubs, registered>>
history   == <<pushed, answered, unannounced>>
vars == <<tableVars, sub, next, job, pending, timer, firing, history, shown>>

NoSub == [session |-> "none"]
Made == {s \in SubId : sub[s] # NoSub}
KeyOf(s) == SessionKey[sub[s].session]
Open(k) == up /\ \E ss \in Session : session[ss] = "open" /\ SessionKey[ss] = k

-----------------------------------------------------------------------------
(* The ring buffer and the ACL.                                             *)

NewRing == [slots |-> [i \in 0..(RingSize - 1) |-> "empty"], start |-> 0, length |-> 0,
            dropped |-> 0]

\* Mutant: eviction forgets to move start.
RingPushStuck(r, e) ==
    LET full == r.length = RingSize
        len  == IF full THEN r.length - 1 ELSE r.length
    IN  [r EXCEPT !.slots[(r.start + len) % RingSize] = e, !.length = len + 1,
                  !.dropped = IF full THEN @ + 1 ELSE @]

\* ringBuffer.push: a full ring evicts its oldest event and counts it.
RingPush(r, e) ==
    LET full  == r.length = RingSize
        start == IF full THEN (r.start + 1) % RingSize ELSE r.start
        len   == IF full THEN r.length - 1 ELSE r.length
    IN  [slots   |-> [r.slots EXCEPT ![(start + len) % RingSize] = e],
         start   |-> start, length |-> len + 1,
         dropped |-> IF full THEN r.dropped + 1 ELSE r.dropped]

RingEvents(r) == [i \in 1..r.length |-> r.slots[(r.start + i - 1) % RingSize]]

\* ringBuffer.drain: the oldest n leave, and the dropped counter starts again.
RingDrain(r, n) ==
    [slots   |-> [i \in DOMAIN r.slots |->
                     IF (i - r.start) % RingSize < n THEN "empty" ELSE r.slots[i]],
     start   |-> (r.start + n) % RingSize, length |-> r.length - n, dropped |-> 0]

\* The matchers that subscriptions hold, compiled: the events each one matches.
\* A key's ACL narrows the table patterns that are asked for.
Valid == {mc \in MatchConfigs : Compiles(mc)}
Narrowed(k, mc) == [mc EXCEPT !.tables = FilterTables(Acl[k], @)]
Matched == [m \in {Narrowed(k, mc) : k \in ApiKey, mc \in MatchConfigs} |->
               {e \in DOMAIN Event : Matches(m, Event[e])}]

\* The events of the tables that a key's ACL allows, and what a tool call shows the
\* key of each: ACL.Apply.
Allowed == [k \in ApiKey |-> {e \in DOMAIN Event : AllowTable(Acl[k], Event[e].table)}]
Sight == [k \in ApiKey |-> [e \in DOMAIN Event |->
    [key |-> k, event |-> e, shows |-> Shown(Acl[k], Event[e])]]]
Sights(k, es) == {Sight[k][e] : e \in es \cap Allowed[k]}

-----------------------------------------------------------------------------
(* Sessions and the subscription table.                                     *)

\* The goroutine of onSessionInitialized waits for this.  External: Wait returns
\* once the session's calls have returned.
SessionEnds(ss) ==
    /\ session[ss] = "open"
    /\ session' = [session EXCEPT ![ss] = "gone"]
    /\ UNCHANGED <<up, sub, subs, sessionSubs, registered, next, job, pending, timer, firing, history>>

\* ulid.Make: a fresh id, which carries no meaning.
NewId == CHOOSE s \in SubId : s \notin Made

OwnedBy(k) == {s \in subs : KeyOf(s) = k}

\* subscribeToChanges.  The key's ACL filters the table patterns asked for; a call
\* refused by it, by Compile or by the key's limit changes nothing.
Subscribe(ss, mc) ==
    LET k  == SessionKey[ss]
        ok == FilterTables(Acl[k], mc.tables)
    IN
    /\ up /\ session[ss] = "open" /\ mc \in Valid
    /\ mc.tables = {} \/ ok # {}
    /\ Cardinality(OwnedBy(k)) < MaxSubscriptions
    /\ Made # SubId
    /\ LET s == NewId IN
        /\ sub' = [sub EXCEPT ![s] = [session |-> ss, match |-> Narrowed(k, mc),
                                      ring |-> NewRing, closed |-> FALSE]]
        /\ subs' = subs \cup {s}
        /\ sessionSubs' = [sessionSubs EXCEPT ![ss] = @ \cup {s}]
        /\ registered' = registered \cup {s}
    /\ UNCHANGED <<up, session, next, job, pending, timer, firing, history>>

\* The router's Unregister drops the cursors of a consumer; its history ends too.
Forget(S) ==
    /\ next' = [s \in SubId |-> IF s \in S THEN [p \in Partition |-> 1] ELSE next[s]]
    /\ pushed' = [s \in SubId |-> IF s \in S THEN <<>> ELSE pushed[s]]
    /\ answered' = [s \in SubId |-> IF s \in S THEN 0 ELSE answered[s]]
    /\ unannounced' = unannounced \ S

\* Mutant: the consumer stays registered with the router.
RemoveKeepsConsumer(S) ==
    /\ subs' = subs \ S
    /\ sessionSubs' = [ss \in Session |-> sessionSubs[ss] \ S]
    /\ sub' = [s \in SubId |-> IF s \in S THEN [sub[s] EXCEPT !.closed = TRUE, !.ring = NewRing]
                               ELSE sub[s]]
    /\ pending' = [s \in SubId |-> pending[s] /\ s \notin S]
    /\ timer' = [s \in SubId |-> timer[s] /\ s \notin S]
    /\ Forget(S) /\ UNCHANGED registered

\* removeSubscriptionLocked for each of S: out of both tables, ring closed, timer
\* cancelled, unregistered from the router.
RemoveSubs(S) ==
    /\ subs' = subs \ S
    /\ sessionSubs' = [ss \in Session |-> sessionSubs[ss] \ S]
    /\ sub' = [s \in SubId |-> IF s \in S THEN [sub[s] EXCEPT !.closed = TRUE, !.ring = NewRing]
                               ELSE sub[s]]
    /\ pending' = [s \in SubId |-> pending[s] /\ s \notin S]
    /\ timer' = [s \in SubId |-> timer[s] /\ s \notin S]
    /\ registered' = registered \ S
    /\ Forget(S)

Unsubscribe(k, s) ==
    /\ Open(k) /\ s \in subs /\ KeyOf(s) = k
    /\ RemoveSubs({s})
    /\ UNCHANGED <<up, session, job, firing>>

\* cleanupSession, in the goroutine that waited for the session.
CleanupSession(ss) ==
    /\ session[ss] = "gone"
    /\ session' = [session EXCEPT ![ss] = "cleaned"]
    /\ RemoveSubs(sessionSubs[ss])
    /\ UNCHANGED <<up, job, firing>>

\* Close, after Run has shut the listener: cleanupAllSubscriptions.
ServerCloses ==
    /\ up /\ up' = FALSE
    /\ RemoveSubs(subs)
    /\ UNCHANGED <<session, job, firing>>

-----------------------------------------------------------------------------
(* Deliver, in the partition goroutines.                                    *)

Idle == [stage |-> "idle"]

\* The subscription's matcher and the key's table ACL.
Wants(s, e) == e \in Matched[sub[s].match] /\ e \in Allowed[KeyOf(s)]

\* The router hands the next event to a consumer that is registered now; it may
\* be closed by the time Deliver takes its lock.
DeliverStarts(p, s) ==
    LET e == Log[p][next[s][p]] IN
    /\ job[p] = Idle /\ s \in registered /\ next[s][p] <= Len(Log[p])
    /\ next' = [next EXCEPT ![s][p] = @ + 1]
    /\ job' = IF Wants(s, e) THEN [job EXCEPT ![p] = [stage |-> "push", sub |-> s, event |-> e]]
              ELSE job
    /\ UNCHANGED <<tableVars, sub, pending, timer, firing, history>>

DeliverPushes(p) ==
    LET s == job[p].sub
        e == job[p].event
    IN
    /\ job[p].stage = "push"
    /\ IF sub[s].closed
       THEN job' = [job EXCEPT ![p] = Idle] /\ UNCHANGED <<sub, pushed, unannounced>>
       ELSE /\ sub' = [sub EXCEPT ![s].ring = RingPush(@, e)]
            /\ pushed' = [pushed EXCEPT ![s] = Append(@, e)]
            /\ unannounced' = unannounced \cup {s}
            /\ job' = [job EXCEPT ![p].stage = "nudge"]
    /\ UNCHANGED <<tableVars, next, pending, timer, firing, answered>>

\* scheduleNudge: one timer at a time.
ScheduleNudge(p) ==
    LET s == job[p].sub IN
    /\ job[p].stage = "nudge"
    /\ pending' = [pending EXCEPT ![s] = TRUE]
    /\ timer' = IF pending[s] THEN timer ELSE [timer EXCEPT ![s] = TRUE]
    /\ job' = [job EXCEPT ![p] = Idle]
    /\ UNCHANGED <<tableVars, sub, next, firing, history>>

\* Mutant: the flag is not cleared.
NudgeFiresKeepsFlag(s) ==
    /\ timer[s]
    /\ timer' = [timer EXCEPT ![s] = FALSE]
    /\ firing' = [firing EXCEPT ![s] = @ + 1]
    /\ UNCHANGED <<tableVars, sub, next, job, pending, history>>

\* The timer's callback clears the flag first ...
NudgeFires(s) ==
    /\ timer[s]
    /\ timer' = [timer EXCEPT ![s] = FALSE]
    /\ pending' = [pending EXCEPT ![s] = FALSE]
    /\ firing' = [firing EXCEPT ![s] = @ + 1]
    /\ UNCHANGED <<tableVars, sub, next, job, history>>

\* ... and then, unless the ring was closed, sends resources/updated.
NudgeSends(s) ==
    /\ firing[s] > 0
    /\ firing' = [firing EXCEPT ![s] = @ - 1]
    /\ unannounced' = IF sub[s].closed THEN unannounced ELSE unannounced \ {s}
    /\ UNCHANGED <<tableVars, sub, next, job, pending, timer, pushed, answered>>

\* getRecentEvents by the owning key.
Drain(k, s) ==
    LET r == sub[s].ring
        n == IF r.length < DrainMax THEN r.length ELSE DrainMax
        got == SubSeq(RingEvents(r), 1, n)
    IN
    /\ Open(k) /\ s \in subs /\ KeyOf(s) = k /\ r.length + r.dropped > 0
    /\ sub' = [sub EXCEPT ![s].ring = RingDrain(r, n)]
    /\ answered' = [answered EXCEPT ![s] = @ + n + r.dropped]
    /\ shown' = Sights(k, ToSet(got))
    /\ UNCHANGED <<tableVars, next, job, pending, timer, firing, pushed, unannounced>>

-----------------------------------------------------------------------------
Init ==
    /\ up = TRUE /\ session = [ss \in Session |-> "open"]
    /\ sub = [s \in SubId |-> NoSub] /\ subs = {} /\ sessionSubs = [ss \in Session |-> {}]
    /\ registered = {} /\ next = [s \in SubId |-> [p \in Partition |-> 1]]
    /\ job = [p \in Partition |-> Idle]
    /\ pending = [s \in SubId |-> FALSE] /\ timer = pending /\ firing = [s \in SubId |-> 0]
    /\ pushed = [s \in SubId |-> <<>>] /\ answered = [s \in SubId |-> 0]
    /\ unannounced = {} /\ shown = {}

\* Client requests that show no event, the end of sessions and of the server.
Client ==
    \/ ServerCloses
    \/ \E ss \in Session :
        SessionEnds(ss) \/ \E mc \in MatchConfigs : Subscribe(ss, mc)
    \/ \E k \in ApiKey, s \in SubId : Unsubscribe(k, s)

Goroutine(p) ==
    \/ DeliverPushes(p) \/ ScheduleNudge(p)
    \/ \E s \in SubId : DeliverStarts(p, s)

Background ==
    \/ \E ss \in Session : CleanupSession(ss)
    \/ \E p \in Partition : Goroutine(p)
    \/ \E s \in SubId : NudgeFires(s) \/ NudgeSends(s)

Next ==
    \/ \E k \in ApiKey, s \in SubId : Drain(k, s)
    \/ (Client \/ Background) /\ shown' = {}

Spec == Init /\ [][Next]_vars

-----------------------------------------------------------------------------
(* Properties.                                                              *)

TypeOK ==
    /\ up \in BOOLEAN /\ session \in [Session -> {"open", "gone", "cleaned"}]
    /\ subs \subseteq Made /\ registered \subseteq SubId
    /\ sessionSubs \in [Session -> SUBSET SubId]
    /\ \A s \in Made : /\ sub[s].ring.start \in 0..(RingSize - 1)
                       /\ sub[s].ring.length \in 0..RingSize /\ sub[s].ring.dropped \in Nat
    /\ \A s \in SubId, p \in Partition : next[s][p] \in 1..(Len(Log[p]) + 1)
    /\ pending \in [SubId -> BOOLEAN] /\ timer \in [SubId -> BOOLEAN] /\ firing \in [SubId -> Nat]

\* The client of a live subscription can account for every event that was pushed:
\* received, counted in a reported or a still unreported drop count, or still in
\* the ring, whatever goroutines and drains interleave; and the ring holds exactly
\* the newest ones in the order they were pushed.
RingAccounts ==
    \A s \in subs :
        LET r == sub[s].ring
            n == Len(pushed[s])
        IN  /\ n = answered[s] + r.dropped + r.length
            /\ RingEvents(r) = SubSeq(pushed[s], n - r.length + 1, n)

\* MCP-02, MCP-04: the router delivers to exactly the subscriptions of the table,
\* none of which belongs to a session that was cleaned up; each is listed under
\* its session, so cleanup will find it, and no key has more than its limit.
SubscriptionHygiene ==
    /\ registered = subs
    /\ \A s \in subs : ~sub[s].closed /\ session[sub[s].session] # "cleaned"
    /\ \A ss \in Session : sessionSubs[ss] = {s \in subs : sub[s].session = ss}
    /\ \A k \in ApiKey : Cardinality(OwnedBy(k)) <= MaxSubscriptions

\* An event put into a ring is announced by a nudge sent after it: as long as the
\* newest event of a live subscription is unannounced, its timer is set, a callback
\* has yet to send, or a Deliver call has yet to schedule.  The debounce never
\* swallows the last nudge.
NudgeIsOnItsWay ==
    \A s \in unannounced \cap subs :
        \/ timer[s] \/ firing[s] > 0
        \/ \E p \in Partition : job[p].stage = "nudge" /\ job[p].sub = s
=============================================================================
