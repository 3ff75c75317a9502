----------------------------- MODULE AppRecords -----------------------------
(***************************************************************************)
(* What two app backends keep in their own schemas, and the requests that  *)
(* change it: the bundle of the Personal Web App Builder, one row under a  *)
(* revision, and the posts of the Social Marketer, rows with a lifecycle.  *)
(* The operator's browser and the agent's actions write both; every        *)
(* request is a transaction on a handler thread of its own, and its answer *)
(* may be lost and the request sent again.                                 *)
(***************************************************************************)
EXTENDS Naturals, Sequences, FiniteSets

CONSTANTS
    Writers,           \* requests to the bundle's app, each on a thread of its own
    MAX_DATA,          \* length of the longest list (MAX_DATA_BYTES)
    MaxSends,          \* bound: how often one request is sent
    Editors,           \* requests to the posts' app
    Posts, Bodies,
    MAX_POSTS

ASSUME RecordsAssumption ==
    /\ IsFiniteSet(Writers) /\ IsFiniteSet(Editors)
    /\ MAX_DATA \in Nat /\ MaxSends \in Nat /\ MAX_POSTS \in Nat

VARIABLES
    bundle,   \* app_state: revision, ui, and data with one list at its path
    writer,   \* per request: where it stands, its action, what it read, times sent
    rowLock,  \* writers that hold the bundle's row
    posts,    \* posts: status ("none" without a row) and body
    editor,   \* per request: where it stands, its action and what it found
    postLock  \* (editor, post) pairs: row locks held

bundleVars == <<bundle, writer, rowLock>>
postVars == <<posts, editor, postLock>>
recordVars == <<bundleVars, postVars>>

-----------------------------------------------------------------------------
(* The bundle.                                                             *)

NoList == <<"absent">>
Fresh == [revision |-> 0, ui |-> "seed", list |-> <<>>]

IdleWriter == [at |-> "idle", action |-> "none", read |-> Fresh, sent |-> 0]

BundleInit ==
    /\ bundle = Fresh
    /\ writer = [w \in Writers |-> IdleWriter]
    /\ rowLock = {}

AtWrite(w, place) == writer[w].at = place
WriterGoes(w, place) == writer' = [writer EXCEPT ![w].at = place]

\* What the page or the agent may ask for: a runtime action, on the list at the path
\* or in it, or an agent action that replaces the page, the data or both.
RuntimeActions == {"set", "setItem", "delete", "deleteItem", "append"}
AgentActions == {"replace_app", "replace_ui", "replace_data"}

\* GET /state; the revision read is the one the request will name.
ReadBundle(w) ==
    /\ AtWrite(w, "idle")
    /\ \E a \in RuntimeActions \cup AgentActions :
          writer' = [writer EXCEPT ![w] = [at |-> "send", action |-> a, read |-> bundle, sent |-> 0]]
    /\ UNCHANGED <<bundle, rowLock>>

\* SELECT ... FOR UPDATE: the row is this transaction's until it ends.
RowTaken(w) == rowLock \cup {w}

\* Wrong: any revision will do.
AnyRevision(w) == TRUE

\* Another revision is a conflict: reload and retry.
SameRevision(w) == bundle.revision = writer[w].read.revision

SendWrite(w) ==
    /\ AtWrite(w, "send") /\ writer[w].sent < MaxSends
    /\ rowLock = {}
    /\ IF SameRevision(w)
         THEN /\ rowLock' = RowTaken(w)
              /\ writer' = [writer EXCEPT ![w].at = "apply", ![w].sent = @ + 1]
         ELSE /\ UNCHANGED rowLock
              /\ WriterGoes(w, "conflict")
    /\ UNCHANGED bundle

\* _mutate_data: whether the path fits the stored shape.
PathFits(action, list) ==
    CASE action \in {"setItem", "deleteItem"} -> list # NoList /\ list # <<>>
      [] action = "append" -> list # NoList
      [] action = "delete" -> list # NoList
      [] OTHER -> TRUE

Mutated(w, action, list) ==
    CASE action = "set" -> <<>>
      [] action = "delete" -> NoList
      [] action = "append" -> Append(list, w)
      [] action = "setItem" -> [list EXCEPT ![1] = w]
      [] action = "deleteItem" -> Tail(list)

\* _validated_data, _require_state_response_fits.
DataFits(list) == Len(list) <= MAX_DATA

\* The row the request leaves: a replacement writes what its author made of what it read.
Rewritten(w) ==
    LET a == writer[w].action
    IN  [revision |-> bundle.revision + 1,
         ui |-> IF a \in {"replace_app", "replace_ui"} THEN w ELSE bundle.ui,
         list |-> CASE a \in RuntimeActions -> Mutated(w, a, bundle.list)
                    [] a \in {"replace_app", "replace_data"} -> <<w>>
                    [] OTHER -> bundle.list]

Accepts(w) ==
    /\ writer[w].action \in RuntimeActions => PathFits(writer[w].action, bundle.list)
    /\ DataFits(Rewritten(w).list)

\* The answer may be lost: the request is then sent once more as it was.
CommitWrite(w) ==
    /\ AtWrite(w, "apply")
    /\ Accepts(w)
    /\ bundle' = Rewritten(w)
    /\ rowLock' = rowLock \ {w}
    /\ WriterGoes(w, "done") \/ WriterGoes(w, "send")

\* A shape or a size that does not fit, or the database: rolled back.
RollBackWrite(w) ==
    /\ AtWrite(w, "apply")
    /\ rowLock' = rowLock \ {w}
    /\ WriterGoes(w, "refused") \/ WriterGoes(w, "send")
    /\ UNCHANGED bundle

BundleNext ==
    \E w \in Writers : ReadBundle(w) \/ SendWrite(w) \/ CommitWrite(w) \/ RollBackWrite(w)

-----------------------------------------------------------------------------
(* The posts.                                                              *)

NoPost == [status |-> "none", body |-> "none"]
IdleEditor == [at |-> "idle", action |-> "none", post |-> "none", body |-> "none", found |-> FALSE]

PostInit ==
    /\ posts = [p \in Posts |-> NoPost]
    /\ editor = [e \in Editors |-> IdleEditor]
    /\ postLock = {}

Statuses == <<"draft", "approved", "posted">>
Rank(s) == CHOOSE i \in DOMAIN Statuses : Statuses[i] = s
Stored == {p \in Posts : posts[p].status # "none"}
Free(p) == \A e \in Editors : <<e, p>> \notin postLock
EndEdit(e) ==
    /\ editor' = [editor EXCEPT ![e] = IdleEditor]
    /\ postLock' = {l \in postLock : l[1] # e}

Begins(e, action, p, body) ==
    editor' = [editor EXCEPT ![e] = [at |-> "write", action |-> action, post |-> p, body |-> body,
                                     found |-> p \in Stored]]

\* Wrong: the status is read without FOR UPDATE.
NoLocks(e, p) == postLock

\* A row that is not there cannot be locked.
Locks(e, p) == IF p \in Stored THEN postLock \cup {<<e, p>>} ELSE postLock

\* upsert_post, from the agent or the operator's composer: only a draft is edited, a
\* new one needs room. The table is not locked while it is counted.
BeginUpsert(e, p) ==
    /\ editor[e].at = "idle" /\ Free(p)
    /\ IF p \in Stored THEN posts[p].status = "draft" ELSE Cardinality(Stored) < MAX_POSTS
    /\ \E b \in Bodies : Begins(e, "upsert", p, b)
    /\ postLock' = Locks(e, p)
    /\ UNCHANGED posts

\* set_post_status: forward only, and a posted record stays as it is.
BeginStatus(e, p, s) ==
    /\ editor[e].at = "idle" /\ Free(p)
    /\ p \in Stored /\ posts[p].status # "posted"
    /\ Rank(s) >= Rank(posts[p].status)
    /\ Begins(e, s, p, "none")
    /\ postLock' = Locks(e, p)
    /\ UNCHANGED posts

\* The operator deletes a draft.
BeginDelete(e, p) ==
    /\ editor[e].at = "idle" /\ Free(p)
    /\ posts[p].status = "draft"
    /\ Begins(e, "delete", p, "none")
    /\ postLock' = Locks(e, p)
    /\ UNCHANGED posts

\* An insert that finds the key taken fails with its transaction; an update or a
\* delete of a row that has gone does nothing.
Rewrites(e) ==
    LET p == editor[e].post
        a == editor[e].action
    IN  CASE a = "upsert" /\ ~editor[e].found ->
                IF p \in Stored THEN posts
                ELSE [posts EXCEPT ![p] = [status |-> "draft", body |-> editor[e].body]]
          [] a = "upsert" /\ editor[e].found ->
                IF p \in Stored THEN [posts EXCEPT ![p].body = editor[e].body] ELSE posts
          [] a = "delete" -> [posts EXCEPT ![p] = NoPost]
          [] OTHER -> IF p \in Stored THEN [posts EXCEPT ![p].status = a] ELSE posts

CommitEdit(e) ==
    /\ editor[e].at = "write"
    /\ posts' = Rewrites(e)
    /\ EndEdit(e)

\* The database, or the event's insert, fails: rolled back.
RollBackEdit(e) ==
    /\ editor[e].at = "write"
    /\ EndEdit(e)
    /\ UNCHANGED posts

PostNext ==
    \E e \in Editors :
        \/ CommitEdit(e) \/ RollBackEdit(e)
        \/ \E p \in Posts :
              \/ BeginUpsert(e, p) \/ BeginDelete(e, p)
              \/ \E s \in {Statuses[i] : i \in DOMAIN Statuses} : BeginStatus(e, p, s)

-----------------------------------------------------------------------------
(* Properties.                                                             *)

\* No change is lost and none is made twice: whatever a request commits, it commits
\* to the bundle its author had read. Nothing another request has written since is
\* overwritten or built upon unseen, and a request sent again after its answer was
\* lost is a conflict instead of a second append.
BuildsOnWhatWasRead ==
    [][bundle' # bundle => \E w \in Writers : AtWrite(w, "apply") /\ writer'[w].at # "apply"
                                              /\ writer[w].read = bundle]_bundleVars

\* The body of an approved or posted post is the one that was approved: nobody
\* rewrites, deletes or takes back such a post, however edits, deletions and status
\* changes of the same post overlap.
ApprovedIsPinned ==
    [][\A p \in Posts : posts[p].status \in {"approved", "posted"} =>
          /\ posts'[p].body = posts[p].body
          /\ posts'[p].status \in {posts[p].status, "posted"}]_postVars
=============================================================================
