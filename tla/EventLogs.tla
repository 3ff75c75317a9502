----------------------------- MODULE EventLogs -----------------------------
(***************************************************************************)
(* The append-only event logs and the cursors they are read with. A row's  *)
(* number is drawn when it is inserted and the row is seen when its        *)
(* transaction commits. Agent and tool events are written under a mutation *)
(* lock, network events by the proxy's handler threads under none. The app *)
(* backends' pages follow a thread's events forward from the last number   *)
(* they have, the audit logs are walked backward.                          *)
(***************************************************************************)
EXTENDS Naturals, Sequences, FiniteSets, FiniteSetsExt

CONSTANTS
    Admins, Proxies,        \* threads that write the agent log, and the network log
    Pages,                  \* "conversation" and "chat", the pages that follow a thread
    Polls,                  \* a page's polls in flight at once
    MAX_EVENTS, PRUNE_EVERY,
    PageLimit,              \* EVENT_PAGE_LIMIT
    MaxSeq,                 \* bound: numbers a log draws
    MaxShows                \* bound: how often the chat page opens its thread again

ASSUME LogsAssumption ==
    /\ Admins \cap Proxies = {} /\ IsFiniteSet(Admins \cup Proxies) /\ IsFiniteSet(Polls)
    /\ Pages \subseteq {"conversation", "chat"}
    /\ {MAX_EVENTS, PRUNE_EVERY, PageLimit} \subseteq Nat \ {0}
    /\ MaxSeq \in Nat /\ MaxShows \in Nat

Logs == {"agent", "network"}
Appenders == Admins \cup Proxies
LogOf(w) == IF w \in Admins THEN "agent" ELSE "network"

VARIABLES
    drawn,     \* per log: the last number its serial gave out
    rows,      \* per log: the numbers of its committed rows
    append,    \* per thread: its place, its row's number and what its prune deletes
    mutating,  \* the admin threads inside mutation()
    view,      \* per page: the cursor and the events it shows
    poll,      \* per page and poll: its place, the cursor it sent and the page it got
    walk,      \* an audit log being walked: its cursor, what was there, what was shown
    shows      \* how often the chat page opened its thread again

logVars == <<drawn, rows, append, mutating, view, poll, walk, shows>>

IdleAppend == [at |-> "idle", seq |-> 0, drops |-> {}]
IdlePoll == [at |-> "idle", since |-> 0, page |-> <<>>]
NoWalk == [at |-> "none", log |-> "agent", before |-> 0, there |-> {}, shown |-> {}]

LogsInit ==
    /\ drawn = [l \in Logs |-> 0]
    /\ rows = [l \in Logs |-> {}]
    /\ append = [w \in Appenders |-> IdleAppend]
    /\ mutating = {}
    /\ view = [p \in Pages |-> [seq |-> 0, events |-> {}]]
    /\ poll = [p \in Pages |-> [k \in Polls |-> IdlePoll]]
    /\ walk = NoWalk
    /\ shows = 0

-----------------------------------------------------------------------------
(* Writing.                                                                *)

\* Wrong: events are appended in any transaction.
MutatesFreely(w) == mutating' = mutating \cup {w}
\* mutation(): one at a time; the proxy writes in a plain transaction.
Mutates(w) ==
    IF w \in Admins THEN mutating = {} /\ mutating' = {w} ELSE UNCHANGED mutating

\* _prune_events: everything below the newest MAX_EVENTS numbers, as the transaction
\* sees the table: the rows committed before and its own.
Pruned(l, seq) ==
    IF seq % PRUNE_EVERY # 0 THEN {}
    ELSE {s \in rows[l] : s + MAX_EVENTS <= Max(rows[l] \cup {seq})}

\* append_agent_event, append_network_event, record_tool_event: the number is drawn, and
\* every PRUNE_EVERY numbers the log is pruned.
Appends(w) ==
    /\ append[w].at = "idle" /\ drawn[LogOf(w)] < MaxSeq
    /\ Mutates(w)
    /\ drawn' = [drawn EXCEPT ![LogOf(w)] = @ + 1]
    /\ LET seq == drawn[LogOf(w)] + 1
       IN append' = [append EXCEPT ![w] =
              [at |-> "open", seq |-> seq, drops |-> Pruned(LogOf(w), seq)]]
    /\ UNCHANGED <<rows, view, poll, walk, shows>>

\* The transaction ends; when it fails, or its process does, the number is a gap.
AppendEnds(w) ==
    /\ append[w].at = "open"
    /\ \/ rows' = [rows EXCEPT ![LogOf(w)] = (@ \cup {append[w].seq}) \ append[w].drops]
       \/ UNCHANGED rows
    /\ append' = [append EXCEPT ![w] = IdleAppend]
    /\ mutating' = mutating \ {w}
    /\ UNCHANGED <<drawn, view, poll, walk, shows>>

-----------------------------------------------------------------------------
(* Following a thread's events: drainConversationEvents, drainThreadEvents. *)

\* The LIMIT of a page's query, from the lowest number on and from the highest.
FirstOf(s) == {x \in s : Cardinality({y \in s : y < x}) < PageLimit}
LastOf(s) == {x \in s : Cardinality({y \in s : y > x}) < PageLimit}

Sends(p, k, cursor) ==
    poll' = [poll EXCEPT ![p][k] = [at |-> "sent", since |-> cursor, page |-> <<>>]]

\* A timer or an answered request starts another poll, whatever others are under way.
PollStarts(p, k) ==
    /\ poll[p][k].at = "idle"
    /\ \E s \in rows["agent"] : s > view[p].seq
    /\ Sends(p, k, view[p].seq)
    /\ UNCHANGED <<drawn, rows, append, mutating, view, walk, shows>>

\* page_thread_events: the oldest rows after the cursor the request carried.
PageThreadEvents(p, k) ==
    /\ poll[p][k].at = "sent"
    /\ poll' = [poll EXCEPT ![p][k].at = "answered",
          ![p][k].page = <<FirstOf({s \in rows["agent"] : s > poll[p][k].since})>>]
    /\ UNCHANGED <<drawn, rows, append, mutating, view, walk, shows>>

\* Only what lies past the cursor of now is taken; a page full of it asks for the next.
TakesPage(p, k) ==
    /\ poll[p][k].at = "answered"
    /\ LET fresh == {s \in poll[p][k].page[1] : s > view[p].seq}
           seq == Max(fresh \cup {view[p].seq})
       IN /\ view' = [view EXCEPT ![p] = [seq |-> seq, events |-> @.events \cup fresh]]
          /\ IF Cardinality(fresh) < PageLimit
             THEN poll' = [poll EXCEPT ![p][k] = IdlePoll]
             ELSE Sends(p, k, seq)
    /\ UNCHANGED <<drawn, rows, append, mutating, walk, shows>>

\* The request fails; the next poll asks again.
PollFails(p, k) ==
    /\ poll[p][k].at \in {"sent", "answered"}
    /\ poll' = [poll EXCEPT ![p][k] = IdlePoll]
    /\ UNCHANGED <<drawn, rows, append, mutating, view, walk, shows>>

\* showThread: the chat page opens its thread again and starts over. Polls in flight
\* for the same thread are not told from its own.
ShowThread ==
    /\ "chat" \in Pages /\ shows < MaxShows
    /\ shows' = shows + 1
    /\ view' = [view EXCEPT !["chat"] = [seq |-> 0, events |-> {}]]
    /\ UNCHANGED <<drawn, rows, append, mutating, poll, walk>>

-----------------------------------------------------------------------------
(* Walking a log backward: page_*_events_before.                           *)

WalkStarts ==
    /\ walk.at = "none"
    /\ \E l \in Logs :
          walk' = [NoWalk EXCEPT !.at = "first", !.log = l, !.there = rows[l]]
    /\ UNCHANGED <<drawn, rows, append, mutating, view, poll, shows>>

\* _page_before: the newest rows before the cursor.
PageBefore(s) == LastOf(s)

WalksOn ==
    /\ walk.at \in {"first", "on"}
    /\ LET page == PageBefore({s \in rows[walk.log] : walk.at = "first" \/ s < walk.before})
       IN walk' = [walk EXCEPT
              !.at = IF page = {} THEN "done" ELSE "on",
              !.before = IF page = {} THEN @ ELSE Min(page),
              !.shown = @ \cup page]
    /\ UNCHANGED <<drawn, rows, append, mutating, view, poll, shows>>

LogsNext ==
    \/ \E w \in Appenders : Appends(w) \/ AppendEnds(w)
    \/ \E p \in Pages, k \in Polls :
          PollStarts(p, k) \/ PageThreadEvents(p, k) \/ TakesPage(p, k) \/ PollFails(p, k)
    \/ ShowThread \/ WalkStarts \/ WalksOn

LogsSpec == LogsInit /\ [][LogsNext]_logVars

-----------------------------------------------------------------------------
(* Properties.                                                             *)

HasNoGap(p) ==
    p \in Pages => \A s \in rows["agent"] : s <= view[p].seq => s \in view[p].events

\* The conversation's page shows every event up to its cursor that is still kept: no
\* event is committed under a number its reader has already passed, also when polls
\* overlap, transactions roll back and the log is pruned.
ConversationHasNoGap == HasNoGap("conversation")

\* A log walked to its end has shown every row that was there at the start and is still
\* kept, and pruning never takes one of the newest MAX_EVENTS numbers.
WalkShowsAll ==
    /\ walk.at = "done" => walk.there \cap rows[walk.log] \subseteq walk.shown
    /\ \A w \in Appenders : \A s \in append[w].drops : s + MAX_EVENTS <= drawn[LogOf(w)]
=============================================================================
