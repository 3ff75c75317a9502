------------------------ MODULE AgentServicesProofs ------------------------
(***************************************************************************)
(* What holds of the app builder's record, the social posts, the uploaded  *)
(* files, the chats, the event logs and the media bridge for any number of *)
(* requests, posts, files, threads, log writers and tool shims. Each part  *)
(* has an invariant of its own, kept by one lemma per action; they share   *)
(* no state.                                                               *)
(***************************************************************************)
EXTENDS AgentChat, AppRecords, UserFiles, EventLogs, MediaBridge, FiniteSetTheorems,
        WellFoundedInduction, NaturalsInduction, TLAPS

-----------------------------------------------------------------------------
(* The bundle of the app builder                                           *)

BundleSpec == BundleInit /\ [][BundleNext]_bundleVars

Place == {"idle", "send", "apply", "conflict", "done", "refused"}

(* Every request has its four fields, whatever the bundles in them hold.   *)
WriterShape ==
    /\ writer = [w \in Writers |-> [at |-> writer[w].at, action |-> writer[w].action,
                                    read |-> writer[w].read, sent |-> writer[w].sent]]
    /\ \A w \in Writers : writer[w].at \in Place

(* Only the request that holds the row writes it, and it holds the bundle  *)
(* it read: a revision names one bundle.                                   *)
BundleInv ==
    /\ WriterShape
    /\ bundle.revision \in Nat
    /\ \A w \in Writers : AtWrite(w, "apply") <=> w \in rowLock
    /\ rowLock \subseteq Writers
    /\ \A v, w \in rowLock : v = w
    /\ \A w \in Writers : ~AtWrite(w, "idle") =>
          /\ writer[w].read.revision \in Nat
          /\ writer[w].read.revision <= bundle.revision
          /\ writer[w].read.revision = bundle.revision => writer[w].read = bundle
    /\ \A w \in rowLock : writer[w].read.revision = bundle.revision

LEMMA BundleInvInit == BundleInit => BundleInv
BY DEF BundleInit, BundleInv, WriterShape, IdleWriter, Fresh, AtWrite, Place

LEMMA ReadBundleKeeps ==
    ASSUME BundleInv, NEW w \in Writers, ReadBundle(w)
    PROVE  BundleInv'
<1>. USE DEF BundleInv, WriterShape, AtWrite, Place
<1>1. PICK a : writer' = [writer EXCEPT ![w] = [at |-> "send", action |-> a, read |-> bundle, sent |-> 0]]
    BY DEF ReadBundle
<1>2. UNCHANGED <<bundle, rowLock>> /\ w \notin rowLock
    BY DEF ReadBundle
<1>3. writer'[w].at = "send" /\ writer'[w].read = bundle
      /\ \A v \in Writers : v # w => writer'[v] = writer[v]
    BY <1>1
<1>4. WriterShape'
    BY <1>1
<1>5. \A v \in Writers : ~AtWrite(v, "idle")' =>
          /\ writer'[v].read.revision \in Nat
          /\ writer'[v].read.revision <= bundle.revision
          /\ writer'[v].read.revision = bundle.revision => writer'[v].read = bundle
    <2>1. ASSUME NEW v \in Writers, v # w, ~AtWrite(v, "idle")'
          PROVE  /\ writer'[v].read.revision \in Nat
                 /\ writer'[v].read.revision <= bundle.revision
                 /\ writer'[v].read.revision = bundle.revision => writer'[v].read = bundle
        BY <1>3, <2>1
    <2>. QED BY <1>3, <2>1
<1>6. /\ \A v \in Writers : AtWrite(v, "apply")' <=> v \in rowLock
      /\ \A v \in rowLock : writer'[v].read.revision = bundle.revision
    BY <1>2, <1>3
<1>. QED BY <1>2, <1>4, <1>5, <1>6

LEMMA SendWriteKeeps ==
    ASSUME BundleInv, NEW w \in Writers, SendWrite(w)
    PROVE  BundleInv'
<1>. USE DEF AtWrite
<1>1. UNCHANGED bundle /\ AtWrite(w, "send") /\ rowLock = {}
    BY DEF SendWrite
<1>2. CASE SameRevision(w)
    <2>1. rowLock' = {w} /\ writer' = [writer EXCEPT ![w].at = "apply", ![w].sent = @ + 1]
        BY <1>1, <1>2 DEF SendWrite, RowTaken
    <2>2. writer'[w].at = "apply" /\ writer'[w].read = writer[w].read
        BY <2>1 DEF BundleInv, WriterShape, Place
    <2>3. \A v \in Writers : v # w => writer'[v] = writer[v]
        BY <2>1 DEF BundleInv, WriterShape, Place
    <2>4. WriterShape'
        <3>. DEFINE f == [writer EXCEPT ![w].at = "apply"]
        <3>1. f = [v \in Writers |-> [at |-> f[v].at, action |-> f[v].action,
                                     read |-> f[v].read, sent |-> f[v].sent]]
            BY DEF BundleInv, WriterShape
        <3>2. writer' = [f EXCEPT ![w].sent = f[w].sent + 1]
            BY <2>1
        <3>. HIDE DEF f
        <3>4. writer' = [v \in Writers |-> [at |-> writer'[v].at, action |-> writer'[v].action,
                                           read |-> writer'[v].read, sent |-> writer'[v].sent]]
            BY <3>1, <3>2
        <3>3. \A v \in Writers : writer'[v].at \in Place
            BY <2>2, <2>3 DEF BundleInv, WriterShape, Place
        <3>. QED BY <3>3, <3>4 DEF WriterShape
    <2>5. \A v \in Writers : AtWrite(v, "apply")' <=> v \in rowLock'
        BY <1>1, <2>1, <2>2, <2>3 DEF BundleInv
    <2>6. \A v \in Writers : writer'[v].read = writer[v].read
        BY <2>2, <2>3
    <2>7. \A v \in Writers : writer'[v].at # "idle" => writer[v].at # "idle"
        BY <1>1, <2>2, <2>3
    <2>8. writer[w].read.revision = bundle.revision
        BY <1>2 DEF SameRevision
    <2>. QED BY <1>1, <2>1, <2>4, <2>5, <2>6, <2>7, <2>8 DEF BundleInv
<1>3. CASE ~SameRevision(w)
    <2>1. UNCHANGED rowLock /\ writer' = [writer EXCEPT ![w].at = "conflict"]
        BY <1>3 DEF SendWrite, WriterGoes
    <2>2. writer'[w].at = "conflict" /\ writer'[w].read = writer[w].read
        BY <2>1 DEF BundleInv, WriterShape, Place
    <2>3. \A v \in Writers : v # w => writer'[v] = writer[v]
        BY <2>1 DEF BundleInv, WriterShape, Place
    <2>4. WriterShape'
        BY <2>1 DEF BundleInv, WriterShape, Place
    <2>5. \A v \in Writers : AtWrite(v, "apply")' <=> v \in rowLock'
        BY <1>1, <2>1, <2>2, <2>3 DEF BundleInv
    <2>6. \A v \in Writers : writer'[v].read = writer[v].read
        BY <2>2, <2>3
    <2>7. \A v \in Writers : writer'[v].at # "idle" => writer[v].at # "idle"
        BY <1>1, <2>2, <2>3
    <2>. QED BY <1>1, <2>1, <2>4, <2>5, <2>6, <2>7 DEF BundleInv
<1>. QED BY <1>2, <1>3

(* The transaction ends one way or the other.                              *)
LEMMA EndWriteKeeps ==
    ASSUME BundleInv, NEW w \in Writers, CommitWrite(w) \/ RollBackWrite(w)
    PROVE  BundleInv' /\ AtWrite(w, "apply") /\ writer'[w].at # "apply" /\ writer[w].read = bundle
<1>. USE DEF BundleInv, WriterShape, AtWrite, Place
<1>1. AtWrite(w, "apply") /\ w \in rowLock /\ rowLock = {w} /\ rowLock' = {}
    BY DEF CommitWrite, RollBackWrite
<1>2. writer[w].read = bundle
    BY <1>1
<1>3. PICK place \in {"done", "send", "refused"} : writer' = [writer EXCEPT ![w].at = place]
    BY DEF CommitWrite, RollBackWrite, WriterGoes
<1>4. writer'[w].at \in {"done", "send", "refused"} /\ writer'[w].read = writer[w].read
      /\ \A v \in Writers : v # w => writer'[v] = writer[v]
    BY <1>3
<1>5. WriterShape'
    BY <1>3
<1>6. bundle' = bundle \/ bundle'.revision = bundle.revision + 1
    BY DEF CommitWrite, RollBackWrite, Rewritten
<1>. QED BY <1>1, <1>2, <1>4, <1>5, <1>6

LEMMA BundleStep == BundleInv /\ [BundleNext]_bundleVars => BundleInv'
<1>. SUFFICES ASSUME BundleInv, [BundleNext]_bundleVars PROVE BundleInv'
    OBVIOUS
<1>1. CASE UNCHANGED bundleVars
    BY <1>1 DEF bundleVars, BundleInv, WriterShape, AtWrite
<1>. QED BY <1>1, ReadBundleKeeps, SendWriteKeeps, EndWriteKeeps DEF BundleNext

(* No change is lost and none is made twice: what a request commits, it    *)
(* commits to the bundle its author had read.                              *)
THEOREM BuildsOnTheRead == BundleSpec => BuildsOnWhatWasRead
<1>1. ASSUME BundleInv, [BundleNext]_bundleVars, bundle' # bundle
      PROVE  \E w \in Writers : AtWrite(w, "apply") /\ writer'[w].at # "apply" /\ writer[w].read = bundle
    <2>1. PICK w \in Writers : CommitWrite(w)
        BY <1>1 DEF BundleNext, bundleVars, ReadBundle, SendWrite, RollBackWrite
    <2>. QED BY <1>1, <2>1, EndWriteKeeps
<1>. QED BY <1>1, BundleInvInit, BundleStep, PTL DEF BundleSpec, BuildsOnWhatWasRead

-----------------------------------------------------------------------------
(* The posts of the Social Marketer                                        *)

PostSpec == PostInit /\ [][PostNext]_postVars

Status == {"draft", "approved", "posted"}
PostRecord == [status : {"none"} \cup Status, body : Bodies \cup {"none"}]
EditRecord == [at : {"idle", "write"}, action : {"none", "upsert", "delete"} \cup Status,
               post : Posts \cup {"none"}, body : Bodies \cup {"none"}, found : BOOLEAN]

PostTypeOK ==
    /\ posts \in [Posts -> PostRecord]
    /\ editor \in [Editors -> EditRecord]
    /\ postLock \subseteq Editors \X Posts

(* A lock belongs to one request that found the row and is still writing. *)
LocksOK ==
    /\ \A e \in Editors, p \in Posts : <<e, p>> \in postLock =>
          editor[e].at = "write" /\ editor[e].post = p /\ editor[e].found
    /\ \A d, e \in Editors, p \in Posts :
          <<d, p>> \in postLock /\ <<e, p>> \in postLock => d = e

(* What a request checked of the row it found is still so when it writes. *)
EditOK(e) ==
    editor[e].at = "write" =>
        /\ editor[e].post \in Posts
        /\ editor[e].action # "none"
        /\ ~editor[e].found => editor[e].action = "upsert"
        /\ editor[e].found => <<e, editor[e].post>> \in postLock
        /\ editor[e].found /\ editor[e].action \in {"upsert", "delete"}
              => posts[editor[e].post].status = "draft"
        /\ editor[e].action \in Status =>
              /\ posts[editor[e].post].status \in {"draft", "approved"}
              /\ posts[editor[e].post].status = "approved" => editor[e].action # "draft"

PostInv == PostTypeOK /\ LocksOK /\ \A e \in Editors : EditOK(e)

LEMMA RankValues == Rank("draft") = 1 /\ Rank("approved") = 2 /\ Rank("posted") = 3
<1>1. DOMAIN Statuses = 1 .. 3 /\ Statuses[1] = "draft" /\ Statuses[2] = "approved"
      /\ Statuses[3] = "posted"
    BY DEF Statuses
<1>2. \A i \in DOMAIN Statuses : i = 1 \/ i = 2 \/ i = 3
    BY <1>1
<1>. QED BY <1>1, <1>2 DEF Rank

LEMMA PostInvInit == PostInit => PostInv
BY DEF PostInit, PostInv, PostTypeOK, LocksOK, EditOK, NoPost, IdleEditor, PostRecord, EditRecord

(* A request begins with what it read of a row nobody holds.               *)
LEMMA BeginKeeps ==
    ASSUME PostInv, NEW e \in Editors, NEW p \in Posts, NEW b \in Bodies \cup {"none"},
           NEW a \in {"upsert", "delete"} \cup Status,
           editor[e].at = "idle", Free(p), Begins(e, a, p, b), postLock' = Locks(e, p),
           UNCHANGED posts,
           p \notin Stored => a = "upsert",
           p \in Stored /\ a \in {"upsert", "delete"} => posts[p].status = "draft",
           a \in Status => /\ posts[p].status \in {"draft", "approved"}
                           /\ posts[p].status = "approved" => a # "draft"
    PROVE  PostInv'
<1>1. editor'[e] = [at |-> "write", action |-> a, post |-> p, body |-> b, found |-> p \in Stored]
    BY DEF Begins, PostInv, PostTypeOK
<1>2. \A d \in Editors : d # e => editor'[d] = editor[d]
    BY DEF Begins, PostInv, PostTypeOK
<1>3. editor'[e].at = "write" /\ editor'[e].action = a /\ editor'[e].post = p
    BY <1>1
<1>4. editor'[e].found = (p \in Stored)
    BY <1>1
<1>5. PostTypeOK'
    <2>1. editor'[e] \in EditRecord
        BY <1>1 DEF EditRecord
    <2>2. editor' \in [Editors -> EditRecord]
        BY <1>1, <2>1 DEF Begins, PostInv, PostTypeOK
    <2>3. postLock' \subseteq Editors \X Posts
        BY DEF Locks, PostInv, PostTypeOK
    <2>. QED BY <2>2, <2>3 DEF PostInv, PostTypeOK
<1>6. \A d \in Editors, q \in Posts :
          <<d, q>> \in postLock' <=> <<d, q>> \in postLock \/ (p \in Stored /\ d = e /\ q = p)
    BY DEF Locks
<1>7. \A d \in Editors, q \in Posts : <<d, q>> \in postLock => d # e
    BY DEF PostInv, LocksOK
<1>8. LocksOK'
    <2>1. \A d \in Editors, q \in Posts : <<d, q>> \in postLock' =>
              editor'[d].at = "write" /\ editor'[d].post = q /\ editor'[d].found
        <3>1. \A q \in Posts : <<e, q>> \in postLock' =>
                  editor'[e].at = "write" /\ editor'[e].post = q /\ editor'[e].found
            BY <1>3, <1>4, <1>6, <1>7
        <3>2. ASSUME NEW d \in Editors, d # e, NEW q \in Posts, <<d, q>> \in postLock'
              PROVE  editor'[d].at = "write" /\ editor'[d].post = q /\ editor'[d].found
            BY <1>2, <1>6, <3>2 DEF PostInv, LocksOK
        <3>. QED BY <3>1, <3>2
    <2>2. \A c, d \in Editors, q \in Posts : <<c, q>> \in postLock' /\ <<d, q>> \in postLock' => c = d
        BY <1>6 DEF PostInv, LocksOK, Free
    <2>. QED BY <2>1, <2>2 DEF LocksOK
<1>9. EditOK(e)'
    BY <1>3, <1>4, <1>6 DEF EditOK, Stored, Status
<1>10. ASSUME NEW d \in Editors, d # e PROVE EditOK(d)'
    BY <1>2, <1>6, <1>10 DEF PostInv, EditOK
<1>. QED BY <1>5, <1>8, <1>9, <1>10 DEF PostInv

(* A request ends, and gives its lock back.                                *)
LEMMA EndKeeps ==
    ASSUME PostInv, NEW e \in Editors, EndEdit(e), posts' \in [Posts -> PostRecord],
           \A p \in Posts : posts'[p] # posts[p] => \A d \in Editors : d # e => <<d, p>> \notin postLock
    PROVE  PostInv'
<1>1. editor'[e] = IdleEditor /\ \A d \in Editors : d # e => editor'[d] = editor[d]
    BY DEF EndEdit, PostInv, PostTypeOK
<1>2. PostTypeOK'
    BY DEF EndEdit, PostInv, PostTypeOK, IdleEditor, EditRecord
<1>3. \A d \in Editors, q \in Posts : <<d, q>> \in postLock' <=> <<d, q>> \in postLock /\ d # e
    BY DEF EndEdit
<1>4. LocksOK'
    BY <1>1, <1>3 DEF PostInv, LocksOK
<1>5. EditOK(e)'
    BY <1>1 DEF EditOK, IdleEditor
<1>6. ASSUME NEW d \in Editors, d # e, editor[d].at = "write" PROVE EditOK(d)'
    <2>1. EditOK(d) /\ editor'[d] = editor[d]
        BY <1>1, <1>6 DEF PostInv
    <2>2. CASE editor[d].found
        <3>1. posts'[editor[d].post] = posts[editor[d].post]
            BY <1>6, <2>1, <2>2 DEF EditOK
        <3>. QED BY <1>3, <1>6, <2>1, <2>2, <3>1 DEF EditOK
    <2>3. CASE ~editor[d].found
        BY <1>6, <2>1, <2>3 DEF EditOK, Status
    <2>. QED BY <2>2, <2>3
<1>7. \A d \in Editors : EditOK(d)'
    BY <1>1, <1>5, <1>6 DEF EditOK
<1>. QED BY <1>2, <1>4, <1>7 DEF PostInv

(* What a commit leaves of the row it writes; the other rows stay.         *)
LEMMA RewritesKeeps ==
    ASSUME PostInv, NEW e \in Editors, editor[e].at = "write", posts' = Rewrites(e)
    PROVE  /\ posts' \in [Posts -> PostRecord]
           /\ \A p \in Posts : posts'[p] # posts[p] =>
                 /\ \A d \in Editors : d # e => <<d, p>> \notin postLock
                 /\ posts[p].status # "posted"
                 /\ posts[p].status = "approved" =>
                       posts'[p].body = posts[p].body /\ posts'[p].status \in {"approved", "posted"}
<1>. DEFINE p == editor[e].post
            a == editor[e].action
<1>1. EditOK(e) /\ p \in Posts /\ posts[p] \in PostRecord /\ editor[e] \in EditRecord
    BY DEF PostInv, PostTypeOK, EditOK
<1>2. posts \in [Posts -> PostRecord] /\ NoPost \in PostRecord
    BY DEF PostInv, PostTypeOK, NoPost, PostRecord
<1>3. \A q \in Posts : q # p => posts'[q] = posts[q]
    BY <1>1, <1>2 DEF Rewrites
<1>4. editor[e].found => \A d \in Editors : d # e => <<d, p>> \notin postLock
    BY <1>1 DEF EditOK, PostInv, LocksOK
<1>5. p \notin Stored => \A d \in Editors : <<d, p>> \notin postLock
    <2>1. SUFFICES ASSUME NEW d \in Editors, <<d, p>> \in postLock PROVE p \in Stored
        OBVIOUS
    <2>2. editor[d].at = "write" /\ editor[d].post = p /\ editor[d].found /\ EditOK(d)
        BY <1>1, <2>1 DEF PostInv, LocksOK
    <2>3. posts[p].status \in {"draft", "approved"}
        <3>1. editor[d] \in EditRecord
            BY DEF PostInv, PostTypeOK
        <3>. QED BY <2>2, <3>1 DEF EditOK, EditRecord
    <2>. QED BY <1>1, <2>3 DEF Stored
<1>6. CASE a = "upsert" /\ ~editor[e].found
    <2>1. CASE p \in Stored
        <3>1. posts' = posts
            BY <1>6, <2>1 DEF Rewrites
        <3>. QED BY <1>2, <3>1
    <2>2. CASE p \notin Stored
        <3>1. posts' = [posts EXCEPT ![p] = [status |-> "draft", body |-> editor[e].body]]
            BY <1>6, <2>2 DEF Rewrites
        <3>2. [status |-> "draft", body |-> editor[e].body] \in PostRecord
            BY <1>1 DEF EditRecord, PostRecord, Status
        <3>3. posts[p].status = "none"
            BY <1>1, <2>2 DEF Stored
        <3>. QED BY <1>2, <1>3, <1>5, <2>2, <3>1, <3>2, <3>3
    <2>. QED BY <2>1, <2>2
<1>7. CASE a = "upsert" /\ editor[e].found
    <2>1. posts[p].status = "draft" /\ p \in Stored
        BY <1>1, <1>7 DEF EditOK, Stored
    <2>2. posts' = [posts EXCEPT ![p].body = editor[e].body]
        BY <1>7, <2>1 DEF Rewrites
    <2>3. posts' \in [Posts -> PostRecord]
        BY <1>1, <1>2, <2>2 DEF EditRecord, PostRecord
    <2>. QED BY <1>3, <1>4, <1>7, <2>1, <2>3
<1>8. CASE a = "delete"
    <2>1. editor[e].found /\ posts[p].status = "draft"
        BY <1>1, <1>8 DEF EditOK
    <2>2. posts' = [posts EXCEPT ![p] = NoPost]
        BY <1>8 DEF Rewrites
    <2>. QED BY <1>2, <1>3, <1>4, <2>1, <2>2
<1>9. CASE a \in Status
    <2>1. /\ editor[e].found /\ p \in Stored
          /\ posts[p].status \in {"draft", "approved"}
          /\ posts[p].status = "approved" => a \in {"approved", "posted"}
        BY <1>1, <1>9 DEF EditOK, Stored, Status
    <2>2. posts' = [posts EXCEPT ![p].status = a]
        BY <1>9, <2>1 DEF Rewrites, Status
    <2>3. posts' \in [Posts -> PostRecord]
        <3>1. [posts[p] EXCEPT !.status = a] \in PostRecord
            BY <1>1, <1>9 DEF PostRecord
        <3>. QED BY <1>1, <1>2, <2>2, <3>1
    <2>4. posts'[p].status = a /\ posts'[p].body = posts[p].body
        BY <1>1, <1>2, <2>2 DEF PostRecord
    <2>. QED BY <1>3, <1>4, <2>1, <2>3, <2>4
<1>. QED BY <1>1, <1>6, <1>7, <1>8, <1>9 DEF EditOK, EditRecord

LEMMA BeginUpsertKeeps ==
    ASSUME PostInv, NEW e \in Editors, NEW p \in Posts, BeginUpsert(e, p)
    PROVE  PostInv'
<1>1. PICK b \in Bodies : Begins(e, "upsert", p, b)
    BY DEF BeginUpsert
<1>2. p \in Stored => posts[p].status = "draft"
    BY DEF BeginUpsert
<1>. QED BY <1>1, <1>2, BeginKeeps DEF BeginUpsert, Status

LEMMA BeginDeleteKeeps ==
    ASSUME PostInv, NEW e \in Editors, NEW p \in Posts, BeginDelete(e, p)
    PROVE  PostInv'
<1>1. p \in Stored
    BY DEF BeginDelete, Stored
<1>. QED BY <1>1, BeginKeeps DEF BeginDelete, Status

LEMMA BeginStatusKeeps ==
    ASSUME PostInv, NEW e \in Editors, NEW p \in Posts, NEW s \in Status, BeginStatus(e, p, s)
    PROVE  PostInv'
<1>1. posts[p].status \in {"draft", "approved"}
    BY DEF BeginStatus, Stored, PostInv, PostTypeOK, PostRecord, Status
<1>2. posts[p].status = "approved" => s # "draft"
    BY RankValues DEF BeginStatus
<1>3. Begins(e, s, p, "none") /\ p \in Stored /\ postLock' = Locks(e, p) /\ UNCHANGED posts
      /\ editor[e].at = "idle" /\ Free(p)
    BY DEF BeginStatus
<1>4. s \notin {"upsert", "delete"}
    BY DEF Status
<1>. QED BY <1>1, <1>2, <1>3, <1>4, BeginKeeps

LEMMA PostStep == PostInv /\ [PostNext]_postVars => PostInv'
<1>. SUFFICES ASSUME PostInv, [PostNext]_postVars PROVE PostInv'
    OBVIOUS
<1>1. CASE UNCHANGED postVars
    BY <1>1 DEF postVars, PostInv, PostTypeOK, LocksOK, EditOK
<1>2. ASSUME NEW e \in Editors, CommitEdit(e) PROVE PostInv'
    BY <1>2, RewritesKeeps, EndKeeps DEF CommitEdit
<1>3. ASSUME NEW e \in Editors, RollBackEdit(e) PROVE PostInv'
    BY <1>3, EndKeeps DEF RollBackEdit, PostInv, PostTypeOK
<1>4. {Statuses[i] : i \in DOMAIN Statuses} \subseteq Status
    BY DEF Statuses, Status
<1>. QED BY <1>1, <1>2, <1>3, <1>4, BeginUpsertKeeps, BeginDeleteKeeps, BeginStatusKeeps DEF PostNext

(* The body of an approved post is the one that was approved.              *)
THEOREM ApprovedStays == PostSpec => ApprovedIsPinned
<1>1. ASSUME PostInv, [PostNext]_postVars, NEW p \in Posts, posts[p].status \in {"approved", "posted"}
      PROVE  posts'[p].body = posts[p].body /\ posts'[p].status \in {posts[p].status, "posted"}
    <2>1. CASE posts' = posts
        BY <1>1, <2>1
    <2>2. CASE posts' # posts
        <3>1. PICK e \in Editors : CommitEdit(e)
            BY <1>1, <2>2
               DEF PostNext, postVars, RollBackEdit, BeginUpsert, BeginDelete, BeginStatus
        <3>2. editor[e].at = "write" /\ posts' = Rewrites(e)
            BY <3>1 DEF CommitEdit
        <3>. QED BY <1>1, <3>2, RewritesKeeps
    <2>. QED BY <2>1, <2>2
<1>2. ASSUME PostInv, [PostNext]_postVars
      PROVE  \A p \in Posts : posts[p].status \in {"approved", "posted"} =>
                /\ posts'[p].body = posts[p].body
                /\ posts'[p].status \in {posts[p].status, "posted"}
    BY <1>1, <1>2
<1>. QED BY <1>2, PostInvInit, PostStep, PTL DEF PostSpec, ApprovedIsPinned

-----------------------------------------------------------------------------
(* The operator's uploads                                                  *)

Published(u) == [by |-> u, name |-> helper[u].name, chunks |-> put[u].size]
PutPlaces == {"idle", "forwards", "waits", "aborts", "done"}
HelperEnds4 == {"ok", "refused", "failed", "killed"}
HelperPlaces == {"none", "starts", "reads", "published"} \cup HelperEnds4

PutAnswers == {"none", "ok", "bad request", "error", "timeout", "lost"}
PutRecord == [at : PutPlaces, file : FileNames \cup {"none"}, size : Nat, fed : Nat, answer : PutAnswers]
PutShape == put \in [Uploads -> PutRecord]
HelperShape ==
    /\ helper = [u \in Uploads |-> [at |-> helper[u].at, got |-> helper[u].got, name |-> helper[u].name]]
    /\ \A u \in Uploads : helper[u].at \in HelperPlaces

(* A file that has its name is its helper's, whole, and the helper can     *)
(* only end; an answer is given when the helper has.                       *)
FilesInv ==
    /\ PutShape
    /\ HelperShape
    /\ \A u \in Uploads : Handling(u, "idle") => Helping(u, "none")
    /\ \A f \in NamesFile : f.by \in Uploads /\ f = Published(f.by)
                            /\ helper[f.by].at \in {"published", "ok", "failed", "killed"}
    /\ \A u \in Uploads : helper[u].at \in {"published", "ok"} => Published(u) \in NamesFile
    /\ \A u \in Uploads : put[u].answer = "ok" => Helping(u, "ok")

LEMMA FilesInvInit == FilesInit => FilesInv
BY FilesAssumption
   DEF FilesInit, FilesInv, PutShape, HelperShape, NoPut, NoHelper, Handling, Helping, NamesFile,
       PutPlaces, PutAnswers, PutRecord, HelperPlaces

(* The handler changes its own record only: not the announced length, once *)
(* the helper is there, and not its answer before the helper's end.        *)
LEMMA HandlerKeeps ==
    ASSUME FilesInv, PutShape', UNCHANGED <<helper, uploaded>>,
           \A u \in Uploads : put'[u].size = put[u].size,
           \A u \in Uploads : Handling(u, "idle")' => Handling(u, "idle"),
           \A u \in Uploads : put'[u].answer = "ok" => put[u].answer = "ok" \/ Helping(u, "ok")
    PROVE  FilesInv'
<1>1. \A u \in Uploads : Published(u)' = Published(u)
    BY DEF Published
<1>2. NamesFile' = NamesFile /\ HelperShape'
    BY DEF NamesFile, FilesInv, HelperShape
<1>. QED BY <1>1, <1>2 DEF FilesInv, Handling, Helping

(* The helper's own step: what it publishes is whole, and nothing that has *)
(* a name is taken away.                                                   *)
LEMMA HelperKeeps ==
    ASSUME FilesInv, NEW u \in Uploads, HelperShape', UNCHANGED put, ~Handling(u, "idle"),
           helper[u].at \notin {"none", "ok"},
           \A v \in Uploads : v # u => helper'[v] = helper[v],
           \/ /\ NamesFile' = NamesFile
              /\ helper'[u].name = helper[u].name
              /\ helper[u].at \in {"published", "failed", "killed"}
                     => helper'[u].at \in {"published", "ok", "failed", "killed"}
              /\ helper'[u].at \in {"published", "ok"} => helper[u].at = "published"
           \/ /\ helper[u].at = "reads" /\ helper'[u].at = "published"
              /\ NamesFile' = NamesFile \cup {Published(u)'}
    PROVE  FilesInv'
<1>1. \A v \in Uploads : v # u => Published(v)' = Published(v)
    BY DEF Published
<1>2. \A v \in Uploads : put[v].answer = "ok" => v # u
    BY DEF FilesInv, Helping
<1>3. PutShape'
    BY DEF FilesInv, PutShape
<1>4. CASE NamesFile' = NamesFile /\ helper'[u].name = helper[u].name
           /\ (helper[u].at \in {"published", "failed", "killed"}
                  => helper'[u].at \in {"published", "ok", "failed", "killed"})
           /\ (helper'[u].at \in {"published", "ok"} => helper[u].at = "published")
    <2>1. Published(u)' = Published(u)
        BY <1>4 DEF Published
    <2>2. \A f \in NamesFile' : f.by \in Uploads /\ f = Published(f.by)'
                                /\ helper'[f.by].at \in {"published", "ok", "failed", "killed"}
        BY <1>1, <1>4, <2>1 DEF FilesInv
    <2>3. \A v \in Uploads : helper'[v].at \in {"published", "ok"} => Published(v)' \in NamesFile'
        BY <1>1, <1>4, <2>1 DEF FilesInv
    <2>. QED BY <1>2, <1>3, <2>2, <2>3 DEF FilesInv, Handling, Helping
<1>5. CASE helper[u].at = "reads" /\ helper'[u].at = "published"
           /\ NamesFile' = NamesFile \cup {Published(u)'}
    <2>1. \A f \in NamesFile : f.by # u
        BY <1>5 DEF FilesInv
    <2>2. \A f \in NamesFile' : f.by \in Uploads /\ f = Published(f.by)'
                                /\ helper'[f.by].at \in {"published", "ok", "failed", "killed"}
        <3>1. Published(u)'.by = u
            BY DEF Published
        <3>. QED BY <1>1, <1>5, <2>1, <3>1 DEF FilesInv
    <2>3. \A v \in Uploads : helper'[v].at \in {"published", "ok"} => Published(v)' \in NamesFile'
        BY <1>1, <1>5 DEF FilesInv
    <2>. QED BY <1>2, <1>3, <2>2, <2>3 DEF FilesInv, Handling, Helping
<1>. QED BY <1>4, <1>5

(* A handler's step on its own record, on a request already begun.         *)
LEMMA OwnRequest ==
    ASSUME FilesInv, NEW u \in Uploads, ~Handling(u, "idle"), UNCHANGED <<helper, uploaded>>,
           \A v \in Uploads : v # u => put'[v] = put[v],
           put' \in [Uploads -> PutRecord],
           put'[u].at # "idle", put'[u].size = put[u].size,
           put'[u].answer = "ok" => put[u].answer = "ok" \/ Helping(u, "ok")
    PROVE  FilesInv'
BY HandlerKeeps DEF Handling, PutShape

LEMMA HandlerStep ==
    ASSUME FilesInv, NEW u \in Uploads,
           Forwards(u) \/ ClosesInput(u) \/ BrowserStops(u) \/ PipeBreaks(u)
           \/ AnswersAsHelped(u) \/ AnswersAborted(u)
    PROVE  FilesInv'
<1>1. put \in [Uploads -> PutRecord] /\ put[u] \in PutRecord
    BY DEF FilesInv, PutShape
<1>2. ASSUME Forwards(u) PROVE FilesInv'
    <2>1. [put[u] EXCEPT !.fed = @ + 1] \in PutRecord
        BY <1>1 DEF PutRecord
    <2>2. put' \in [Uploads -> PutRecord] /\ \A v \in Uploads : v # u => put'[v] = put[v]
        BY <1>1, <1>2, <2>1 DEF Forwards
    <2>3. /\ put'[u].at = put[u].at /\ put'[u].size = put[u].size
          /\ put'[u].answer = put[u].answer
        BY <1>1, <1>2 DEF Forwards, PutRecord
    <2>. QED BY <1>2, <2>2, <2>3, OwnRequest DEF Forwards, Handling
<1>3. ASSUME NEW a \in {"waits", "aborts"}, put' = [put EXCEPT ![u].at = a],
             ~Handling(u, "idle"), UNCHANGED <<helper, uploaded>>
      PROVE  FilesInv'
    <2>1. [put[u] EXCEPT !.at = a] \in PutRecord
        BY <1>1 DEF PutRecord, PutPlaces
    <2>2. put' \in [Uploads -> PutRecord] /\ \A v \in Uploads : v # u => put'[v] = put[v]
        BY <1>1, <1>3, <2>1
    <2>3. /\ put'[u].at = a /\ put'[u].size = put[u].size /\ put'[u].answer = put[u].answer
        BY <1>1, <1>3 DEF PutRecord
    <2>. QED BY <1>3, <2>2, <2>3, OwnRequest
<1>4. ASSUME NEW x \in {"ok", "bad request", "error"}, AnswersPut(u, x),
             ~Handling(u, "idle"), UNCHANGED <<helper, uploaded>>, x = "ok" => Helping(u, "ok")
      PROVE  FilesInv'
    <2>1. [put[u] EXCEPT !.at = "done", !.answer = x] \in PutRecord
        BY <1>1 DEF PutRecord, PutPlaces, PutAnswers
    <2>2. put' \in [Uploads -> PutRecord] /\ \A v \in Uploads : v # u => put'[v] = put[v]
        BY <1>1, <1>4, <2>1 DEF AnswersPut
    <2>3. /\ put'[u].at = "done" /\ put'[u].size = put[u].size /\ put'[u].answer = x
        BY <1>1, <1>4 DEF AnswersPut, PutRecord
    <2>. QED BY <1>4, <2>2, <2>3, OwnRequest
<1>5. ASSUME AnswersAsHelped(u) PROVE FilesInv'
    BY <1>4, <1>5 DEF AnswersAsHelped, Helping, Handling
<1>6. ASSUME AnswersAborted(u) PROVE FilesInv'
    BY <1>4, <1>6 DEF AnswersAborted, Handling
<1>7. ASSUME ClosesInput(u) \/ BrowserStops(u) \/ PipeBreaks(u) PROVE FilesInv'
    BY <1>3, <1>7 DEF ClosesInput, BrowserStops, PipeBreaks, Handling
<1>. QED BY <1>2, <1>5, <1>6, <1>7

LEMMA BeginPutKeeps ==
    ASSUME FilesInv, NEW u \in Uploads, BeginPut(u)
    PROVE  FilesInv'
<1>1. PICK file \in FileNames, size \in 0 .. MaxSize : put' = [put EXCEPT ![u] =
          [at |-> "forwards", file |-> file, size |-> size, fed |-> 0, answer |-> "none"]]
    BY DEF BeginPut
<1>2. Helping(u, "none") /\ helper' = [helper EXCEPT ![u].at = "starts"] /\ UNCHANGED uploaded
    BY DEF BeginPut, FilesInv, HelperGoes
<1>3. size \in Nat
    BY FilesAssumption
<1>4. put[u] \in PutRecord /\ put \in [Uploads -> PutRecord]
    BY DEF FilesInv, PutShape
<1>5. [at |-> "forwards", file |-> file, size |-> size, fed |-> 0, answer |-> "none"] \in PutRecord
    BY <1>3 DEF PutRecord, PutPlaces, PutAnswers
<1>6. PutShape' /\ \A v \in Uploads : v # u => put'[v] = put[v]
    BY <1>1, <1>4, <1>5 DEF PutShape
<1>7. put'[u].at = "forwards" /\ put'[u].answer = "none"
    BY <1>1, <1>4
<1>8. HelperShape'
    BY <1>2 DEF FilesInv, HelperShape, HelperPlaces
<1>9. helper'[u].at = "starts" /\ \A v \in Uploads : v # u => helper'[v] = helper[v]
    BY <1>2 DEF FilesInv, HelperShape
<1>10. \A v \in Uploads : v # u => Published(v)' = Published(v)
    BY <1>6, <1>9 DEF Published
<1>11. NamesFile' = NamesFile /\ \A f \in NamesFile : f.by # u
    BY <1>2 DEF NamesFile, FilesInv, Helping
<1>12. \A f \in NamesFile' : f.by \in Uploads /\ f = Published(f.by)'
                            /\ helper'[f.by].at \in {"published", "ok", "failed", "killed"}
    BY <1>9, <1>10, <1>11 DEF FilesInv
<1>13. \A v \in Uploads : helper'[v].at \in {"published", "ok"} => Published(v)' \in NamesFile'
    BY <1>9, <1>10, <1>11 DEF FilesInv
<1>14. \A v \in Uploads : /\ Handling(v, "idle")' => Helping(v, "none")'
                          /\ put'[v].answer = "ok" => Helping(v, "ok")'
    BY <1>6, <1>7, <1>9 DEF FilesInv, Handling, Helping
<1>. QED BY <1>6, <1>8, <1>12, <1>13, <1>14 DEF FilesInv

(* The wait ends before the helper does: whether it is killed or goes on.  *)
LEMMA HelperTimeoutKeeps ==
    ASSUME FilesInv, NEW u \in Uploads, HelperTimeout(u)
    PROVE  FilesInv'
<1>. DEFINE x == IF Handling(u, "waits") THEN "timeout" ELSE "bad request"
<1>1. put \in [Uploads -> PutRecord] /\ put[u] \in PutRecord /\ put[u].at # "idle"
    BY DEF FilesInv, PutShape, HelperTimeout
<1>2. put' = [put EXCEPT ![u].at = "done", ![u].answer = x]
    BY DEF HelperTimeout, AnswersPut
<1>3. [put[u] EXCEPT !.at = "done", !.answer = x] \in PutRecord
    BY <1>1 DEF PutRecord, PutPlaces, PutAnswers
<1>4. PutShape' /\ \A v \in Uploads : v # u => put'[v] = put[v]
    BY <1>1, <1>2, <1>3 DEF PutShape
<1>5. put'[u].at = "done" /\ put'[u].size = put[u].size /\ put'[u].answer # "ok"
    BY <1>1, <1>2 DEF PutRecord
<1>6. CASE UNCHANGED helper
    BY <1>1, <1>4, <1>5, <1>6, OwnRequest DEF HelperTimeout, PutShape, Handling
<1>7. CASE HelperGoes(u, "killed")
    <2>1. HelperShape'
        BY <1>7 DEF FilesInv, HelperShape, HelperPlaces, HelperEnds4, HelperGoes
    <2>2. /\ helper'[u].at = "killed" /\ helper'[u].name = helper[u].name
          /\ \A v \in Uploads : v # u => helper'[v] = helper[v]
        BY <1>7 DEF FilesInv, HelperShape, HelperGoes
    <2>3. NamesFile' = NamesFile /\ \A v \in Uploads : Published(v)' = Published(v)
        BY <1>4, <1>5, <2>2 DEF HelperTimeout, NamesFile, Published
    <2>4. \A f \in NamesFile' : f.by \in Uploads /\ f = Published(f.by)'
                                /\ helper'[f.by].at \in {"published", "ok", "failed", "killed"}
        BY <2>2, <2>3 DEF FilesInv
    <2>5. \A v \in Uploads : helper'[v].at \in {"published", "ok"} => Published(v)' \in NamesFile'
        BY <2>2, <2>3 DEF FilesInv
    <2>6. \A v \in Uploads : /\ Handling(v, "idle")' => Helping(v, "none")'
                             /\ put'[v].answer = "ok" => Helping(v, "ok")'
        BY <1>4, <1>5, <2>2 DEF FilesInv, Handling, Helping
    <2>. QED BY <1>4, <2>1, <2>4, <2>5, <2>6 DEF FilesInv
<1>. QED BY <1>6, <1>7 DEF HelperTimeout

LEMMA HandlersDieKeeps == ASSUME FilesInv, HandlersDie PROVE FilesInv'
<1>1. \A u \in Uploads :
          /\ put[u] \in PutRecord
          /\ [put[u] EXCEPT !.at = "done", !.answer = "lost"] \in PutRecord
    <2>. SUFFICES ASSUME NEW u \in Uploads
                  PROVE  /\ put[u] \in PutRecord
                         /\ [put[u] EXCEPT !.at = "done", !.answer = "lost"] \in PutRecord
        OBVIOUS
    <2>1. put[u] \in PutRecord
        BY DEF FilesInv, PutShape
    <2>. QED BY <2>1 DEF PutRecord, PutPlaces, PutAnswers
<1>2. PutShape'
    BY <1>1 DEF HandlersDie, PutShape
<1>3. \A u \in Uploads : /\ put'[u].size = put[u].size
                         /\ put'[u].at = "idle" => put[u].at = "idle"
                         /\ put'[u].answer = "ok" => put[u].answer = "ok"
    BY <1>1 DEF HandlersDie, PutRecord
<1>. QED BY <1>2, <1>3, HandlerKeeps DEF HandlersDie, Handling

LEMMA HelperStep ==
    ASSUME FilesInv, NEW u \in Uploads,
           HelperOpens(u) \/ HelperReads(u) \/ HelperFails(u) \/ Publishes(u) \/ HelperEnds(u)
    PROVE  FilesInv'
<1>1. UNCHANGED put /\ helper[u].at \in {"starts", "reads", "published"} /\ ~Handling(u, "idle")
    BY DEF HelperOpens, HelperReads, HelperFails, Publishes, HelperEnds, FilesInv, Helping
<1>2. Partial(u).name = NoName /\ [Partial(u) EXCEPT !.chunks = @ + 1].name = NoName
    BY DEF Partial
<1>3. ASSUME NEW place \in HelperPlaces \ {"none"}, HelperGoes(u, place)
      PROVE  /\ HelperShape' /\ \A v \in Uploads : v # u => helper'[v] = helper[v]
             /\ helper'[u].at = place /\ helper'[u].name = helper[u].name
    BY <1>3 DEF FilesInv, HelperShape, HelperGoes
<1>4. ASSUME HelperOpens(u) PROVE FilesInv'
    <2>1. PICK place \in {"reads", "refused", "failed"} : HelperGoes(u, place)
        BY <1>4 DEF HelperOpens
    <2>2. NamesFile' = NamesFile
        BY <1>2, <1>4 DEF HelperOpens, NamesFile
    <2>3. place \in HelperPlaces \ {"none"}
        BY DEF HelperPlaces, HelperEnds4
    <2>. QED BY <1>1, <1>3, <1>4, <2>1, <2>2, <2>3, HelperKeeps DEF HelperOpens, Helping
<1>5. ASSUME HelperReads(u) PROVE FilesInv'
    <2>1. /\ HelperShape' /\ helper'[u].at = "reads" /\ helper'[u].name = helper[u].name
          /\ \A v \in Uploads : v # u => helper'[v] = helper[v]
        BY <1>5 DEF HelperReads, Helping, FilesInv, HelperShape
    <2>2. NamesFile' = NamesFile
        BY <1>2, <1>5 DEF HelperReads, NamesFile
    <2>. QED BY <1>1, <1>5, <2>1, <2>2, HelperKeeps DEF HelperReads, Helping
<1>6. ASSUME HelperFails(u) PROVE FilesInv'
    <2>1. PICK place \in {"refused", "failed"} : HelperGoes(u, place)
        BY <1>6 DEF HelperFails
    <2>2. NamesFile' = NamesFile
        BY <1>2, <1>6 DEF HelperFails, NamesFile
    <2>3. place \in HelperPlaces \ {"none"}
        BY DEF HelperPlaces, HelperEnds4
    <2>. QED BY <1>1, <1>3, <1>6, <2>1, <2>2, <2>3, HelperKeeps DEF HelperFails, Helping
<1>7. ASSUME Publishes(u) PROVE FilesInv'
    <2>1. PICK k \in 0 .. Cardinality(Uploads) :
              /\ LinksAs(u, <<now, put[u].file, k>>)
              /\ helper' = [helper EXCEPT ![u].at = "published", ![u].name = <<now, put[u].file, k>>]
        BY <1>7 DEF Publishes
    <2>. DEFINE name == <<now, put[u].file, k>>
    <2>2. /\ HelperShape' /\ helper'[u].at = "published" /\ helper'[u].name = name
          /\ \A v \in Uploads : v # u => helper'[v] = helper[v]
        <3>. DEFINE f == [helper EXCEPT ![u].at = "published"]
        <3>1. f = [v \in Uploads |-> [at |-> f[v].at, got |-> f[v].got, name |-> f[v].name]]
              /\ f[u].at = "published" /\ \A v \in Uploads : v # u => f[v] = helper[v]
            BY DEF FilesInv, HelperShape
        <3>2. helper' = [f EXCEPT ![u].name = name]
            BY <2>1
        <3>. HIDE DEF f, name
        <3>3. helper' = [v \in Uploads |-> [at |-> helper'[v].at, got |-> helper'[v].got,
                                           name |-> helper'[v].name]]
            BY <3>1, <3>2
        <3>4. /\ helper'[u].at = "published" /\ helper'[u].name = name
              /\ \A v \in Uploads : v # u => helper'[v] = helper[v]
            BY <3>1, <3>2
        <3>5. \A v \in Uploads : helper'[v].at \in HelperPlaces
            BY <3>4 DEF FilesInv, HelperShape, HelperPlaces
        <3>. QED BY <3>3, <3>4, <3>5 DEF HelperShape
    <2>3. helper[u].at = "reads" /\ helper[u].got = put[u].size
        BY <1>7 DEF Publishes, Helping, AllRead
    <2>4. [Partial(u) EXCEPT !.name = name] = Published(u)'
        BY <1>1, <2>2, <2>3 DEF Partial, Published
    <2>5. name # NoName
        BY DEF NoName
    <2>6. uploaded' = uploaded \cup {Published(u)'}
        BY <2>1, <2>4 DEF LinksAs
    <2>7. Published(u)'.name = name
        BY <2>2 DEF Published
    <2>8. NamesFile' = NamesFile \cup {Published(u)'}
        BY <2>5, <2>6, <2>7 DEF NamesFile
    <2>. QED BY <1>1, <2>2, <2>3, <2>8, HelperKeeps
<1>8. ASSUME HelperEnds(u) PROVE FilesInv'
    <2>1. PICK place \in {"ok", "failed"} : HelperGoes(u, place)
        BY <1>8 DEF HelperEnds
    <2>2. NamesFile' = NamesFile
        BY <1>2, <1>8 DEF HelperEnds, NamesFile
    <2>3. place \in HelperPlaces \ {"none"}
        BY DEF HelperPlaces, HelperEnds4
    <2>. QED BY <1>1, <1>3, <1>8, <2>1, <2>2, <2>3, HelperKeeps DEF HelperEnds, Helping
<1>. QED BY <1>4, <1>5, <1>6, <1>7, <1>8

LEMMA FilesStep == FilesInv /\ [FilesNext]_fileVars => FilesInv'
<1>. SUFFICES ASSUME FilesInv, [FilesNext]_fileVars PROVE FilesInv'
    OBVIOUS
<1>1. CASE UNCHANGED <<put, helper, uploaded>>
    BY <1>1 DEF FilesInv, PutShape, HelperShape, NamesFile, Published, Handling, Helping
<1>2. UNCHANGED fileVars \/ TimeMoves => UNCHANGED <<put, helper, uploaded>>
    BY DEF fileVars, TimeMoves
<1>. QED BY <1>1, <1>2, BeginPutKeeps, HandlerStep, HelperTimeoutKeeps, HandlersDieKeeps, HelperStep
         DEF FilesNext

(* A published upload is whole and stays, and the answer "ok" names it.    *)
THEOREM PublishedStays == FilesSpec => []UploadsAreKept
<1>1. FilesInv => UploadsAreKept
    <2>. SUFFICES ASSUME FilesInv PROVE UploadsAreKept
        OBVIOUS
    <2>1. \A f \in NamesFile : f.chunks = put[f.by].size
        BY DEF FilesInv, Published
    <2>2. \A u \in Uploads : put[u].answer = "ok" =>
              Published(u) \in NamesFile /\ Published(u).by = u /\ Published(u).name = helper[u].name
        BY DEF FilesInv, Published, Helping
    <2>. QED BY <2>1, <2>2 DEF UploadsAreKept
<1>. QED BY <1>1, FilesInvInit, FilesStep, PTL DEF FilesSpec

-----------------------------------------------------------------------------
(* The tasks of the Agent Chat                                             *)

(* A request that has begun a new chat: it has the thread's row, and keeps *)
(* it once the host has its task.                                          *)
Owner(r) == request[r].kind = "new" /\ (At(r, "create") \/ tasks[r].status # "none")

RequestOK(r) ==
    /\ request[r].at \in {"idle", "names", "reserve", "create"} => tasks[r].status = "none"
    /\ request[r].at \in {"reserve", "create"} => request[r].thread \in Threads
    /\ tasks[r].status # "none" => tasks[r].at = <<"agent_chat", request[r].thread>>
    /\ Owner(r) => request[r].thread \in Threads /\ threads[request[r].thread] # "none"
    /\ At(r, "kill") /\ ~request[r].lost => tasks[r].status # "queued"
    /\ At(r, "failed") /\ ~request[r].lost => tasks[r].status \notin Active

OwnersApart ==
    \A q, r \in Requests : Owner(q) /\ Owner(r) /\ q # r => request[q].thread # request[r].thread

OtherOK == tasks[Other].at = Nowhere \/ tasks[Other].at \in {"other"} \X Threads

ChatInv ==
    /\ TypeOK
    /\ \A r \in Requests : RequestOK(r)
    /\ OwnersApart
    /\ OtherOK

LEMMA ChatInvInit == Init => ChatInv
<1>. SUFFICES ASSUME Init PROVE ChatInv
    OBVIOUS
<1>1. TypeOK
    BY DEF Init, TypeOK, Places, Nowhere
<1>2. \A r \in Requests : request[r].at = "idle" /\ tasks[r].status = "none"
    BY DEF Init, Tasks
<1>3. OtherOK
    BY DEF Init, OtherOK, Tasks
<1>. QED BY <1>1, <1>2, <1>3 DEF ChatInv, RequestOK, OwnersApart, Owner, At

(* A step of one request: the others and their tasks stay, and the request *)
(* becomes an owner only of a thread that had no row.                      *)
LEMMA OneRequest ==
    ASSUME ChatInv, TypeOK', NEW r \in Requests, RequestOK(r)',
           \A q \in Requests : q # r => request'[q] = request[q] /\ tasks'[q] = tasks[q],
           tasks'[Other] = tasks[Other],
           \A t \in Threads : threads[t] # "none" => threads'[t] # "none",
           Owner(r)' => \/ Owner(r) /\ request'[r].thread = request[r].thread
                        \/ threads[request'[r].thread] = "none"
    PROVE  ChatInv'
<1>1. \A q \in Requests : q # r => Owner(q)' = Owner(q)
    BY DEF Owner, At
<1>2. \A q \in Requests : q # r => RequestOK(q)'
    <2>. SUFFICES ASSUME NEW q \in Requests, q # r PROVE RequestOK(q)'
        OBVIOUS
    <2>1. RequestOK(q) /\ request'[q] = request[q] /\ tasks'[q] = tasks[q]
        BY DEF ChatInv
    <2>2. Owner(q)' => request'[q].thread \in Threads /\ threads'[request'[q].thread] # "none"
        BY <1>1, <2>1 DEF RequestOK
    <2>. QED BY <2>1, <2>2 DEF RequestOK, At
<1>3. ASSUME NEW q \in Requests, q # r, Owner(q)', Owner(r)'
      PROVE  request'[q].thread # request'[r].thread
    <2>1. Owner(q) /\ request'[q] = request[q] /\ threads[request[q].thread] # "none"
        BY <1>1, <1>3 DEF ChatInv, RequestOK
    <2>. QED BY <1>3, <2>1 DEF ChatInv, OwnersApart
<1>4. OwnersApart'
    <2>. SUFFICES ASSUME NEW p \in Requests, NEW q \in Requests, Owner(p)', Owner(q)', p # q
                  PROVE  request'[p].thread # request'[q].thread
        BY DEF OwnersApart
    <2>1. CASE p # r /\ q # r
        BY <1>1, <2>1 DEF ChatInv, OwnersApart
    <2>. QED BY <1>3, <2>1
<1>5. OtherOK'
    BY DEF ChatInv, OtherOK
<1>. QED BY <1>2, <1>4, <1>5 DEF ChatInv

(* A step of one task the host has: claimed, or ended.                     *)
LEMMA OneTask ==
    ASSUME ChatInv, NEW k \in Tasks, NEW s \in {"running", "ended"},
           tasks' = [tasks EXCEPT ![k].status = s], UNCHANGED <<appTables, sessions, request>>,
           tasks[k].status = "queued" \/ (tasks[k].status = "running" /\ s = "ended")
    PROVE  ChatInv'
<1>1. tasks \in [Tasks -> [at : (Apps \X Threads) \cup {Nowhere},
                           status : {"none"} \cup Active \cup Ended]]
    BY DEF ChatInv, TypeOK
<1>2. TypeOK'
    BY <1>1 DEF ChatInv, TypeOK, Active, Ended, appTables
<1>3. \A j \in Tasks : tasks'[j].at = tasks[j].at /\ (j # k => tasks'[j] = tasks[j])
    BY <1>1
<1>4. tasks'[k].status = s /\ tasks[k].status # "none" /\ tasks[k].status \in Active
    BY <1>1 DEF Active
<1>5. Requests \subseteq Tasks /\ Other \in Tasks
    BY DEF Tasks
<1>6. \A r \in Requests : Owner(r)' = Owner(r)
    BY <1>3, <1>4, <1>5 DEF Owner, At
<1>7. \A r \in Requests : RequestOK(r)'
    <2>. SUFFICES ASSUME NEW r \in Requests PROVE RequestOK(r)'
        OBVIOUS
    <2>1. RequestOK(r) /\ r \in Tasks
        BY <1>5 DEF ChatInv
    <2>2. CASE r # k
        BY <1>3, <1>6, <2>1, <2>2 DEF RequestOK, At, appTables
    <2>3. CASE r = k
        <3>1. /\ request[r].at \notin {"idle", "names", "reserve", "create"}
              /\ ~(At(r, "failed") /\ ~request[r].lost)
            BY <1>4, <2>1, <2>3 DEF RequestOK
        <3>. QED BY <1>3, <1>4, <1>6, <2>1, <2>3, <3>1 DEF RequestOK, At, appTables, Active
    <2>. QED BY <2>2, <2>3
<1>8. OwnersApart' /\ OtherOK'
    BY <1>3, <1>5, <1>6 DEF ChatInv, OwnersApart, OtherOK
<1>. QED BY <1>2, <1>7, <1>8 DEF ChatInv

(* The types a request's step finds.                                       *)
LEMMA ChatTypes ==
    ASSUME ChatInv, NEW r \in Requests
    PROVE  /\ request[r] \in [at : Places, kind : {"new", "more"}, thread : Threads \cup {NoThread},
                              config : Configs \cup {NoConfig}, lost : BOOLEAN]
           /\ request \in [Requests -> [at : Places, kind : {"new", "more"},
                                        thread : Threads \cup {NoThread},
                                        config : Configs \cup {NoConfig}, lost : BOOLEAN]]
           /\ tasks[r] \in [at : (Apps \X Threads) \cup {Nowhere},
                            status : {"none"} \cup Active \cup Ended]
           /\ tasks \in [Tasks -> [at : (Apps \X Threads) \cup {Nowhere},
                                   status : {"none"} \cup Active \cup Ended]]
           /\ RequestOK(r) /\ r \in Tasks /\ r # Other
BY ChatAssumption DEF ChatInv, TypeOK, Tasks

(* A request goes on without a thread's or a task's change.                *)
LEMMA RequestGoes ==
    ASSUME ChatInv, NEW r \in Requests, NEW place \in Places, Goes(r, place),
           UNCHANGED <<tasks, sessions, recorded>>,
           threads' \in [Threads -> {"none", "open", "archived"}],
           \A t \in Threads : threads[t] # "none" => threads'[t] # "none",
           \/ place = "names" /\ At(r, "reserve")
           \/ /\ place = "create" /\ At(r, "reserve")
              /\ threads[request[r].thread] = "none" /\ threads'[request[r].thread] # "none"
           \/ place = "failed" /\ request[r].at \in {"names", "reserve", "create"}
           \/ place \in {"done", "cancel"} /\ At(r, "record")
    PROVE  ChatInv'
<1>. USE ChatTypes
<1>1. /\ request'[r].at = place /\ request'[r].thread = request[r].thread
      /\ request'[r].kind = request[r].kind /\ request'[r].lost = request[r].lost
      /\ \A q \in Requests : q # r => request'[q] = request[q]
    BY DEF Goes
<1>2. TypeOK'
    <2>1. [request[r] EXCEPT !.at = place] \in
              [at : Places, kind : {"new", "more"}, thread : Threads \cup {NoThread},
               config : Configs \cup {NoConfig}, lost : BOOLEAN]
        OBVIOUS
    <2>2. request' \in [Requests -> [at : Places, kind : {"new", "more"},
                                     thread : Threads \cup {NoThread},
                                     config : Configs \cup {NoConfig}, lost : BOOLEAN]]
        BY <2>1 DEF Goes
    <2>. QED BY <2>2 DEF ChatInv, TypeOK
<1>3. RequestOK(r)'
    BY <1>1 DEF RequestOK, Owner, At, Active
<1>4. Owner(r)' => \/ Owner(r) /\ request'[r].thread = request[r].thread
                   \/ threads[request'[r].thread] = "none"
    BY <1>1 DEF Owner, At
<1>. QED BY <1>1, <1>2, <1>3, <1>4, OneRequest

LEMMA StartNewKeeps == ASSUME ChatInv, NEW r \in Requests, StartNew(r) PROVE ChatInv'
<1>. USE ChatTypes
<1>1. PICK c \in Configs :
          request' = [request EXCEPT ![r].at = "names", ![r].kind = "new", ![r].config = c]
    BY DEF StartNew
<1>2. request'[r].at = "names" /\ \A q \in Requests : q # r => request'[q] = request[q]
    BY <1>1
<1>3. UNCHANGED <<threads, recorded, tasks, sessions>> /\ tasks[r].status = "none"
    BY DEF StartNew, appTables, hostTables, RequestOK, At
<1>4. TypeOK'
    <2>1. [request[r] EXCEPT !.at = "names", !.kind = "new", !.config = c] \in
              [at : Places, kind : {"new", "more"}, thread : Threads \cup {NoThread},
               config : Configs \cup {NoConfig}, lost : BOOLEAN]
        BY DEF Places
    <2>2. request' \in [Requests -> [at : Places, kind : {"new", "more"},
                                     thread : Threads \cup {NoThread},
                                     config : Configs \cup {NoConfig}, lost : BOOLEAN]]
        BY <1>1, <2>1
    <2>. QED BY <1>3, <2>2 DEF ChatInv, TypeOK
<1>5. RequestOK(r)' /\ ~Owner(r)'
    BY <1>2, <1>3 DEF RequestOK, Owner, At
<1>. QED BY <1>2, <1>3, <1>4, <1>5, OneRequest

LEMMA StartMoreKeeps == ASSUME ChatInv, NEW r \in Requests, StartMore(r) PROVE ChatInv'
<1>. USE ChatTypes
<1>1. PICK t \in Threads, c \in Configs \cup {NoConfig} :
          request' = [request EXCEPT ![r].at = "create", ![r].kind = "more", ![r].thread = t,
                                     ![r].config = c]
    BY DEF StartMore
<1>2. /\ request'[r].at = "create" /\ request'[r].kind = "more" /\ request'[r].thread = t
      /\ \A q \in Requests : q # r => request'[q] = request[q]
    BY <1>1
<1>3. UNCHANGED <<threads, recorded, tasks, sessions>> /\ tasks[r].status = "none" /\ t \in Threads
    BY DEF StartMore, appTables, hostTables, RequestOK, At
<1>4. TypeOK'
    <2>1. [request[r] EXCEPT !.at = "create", !.kind = "more", !.thread = t, !.config = c] \in
              [at : Places, kind : {"new", "more"}, thread : Threads \cup {NoThread},
               config : Configs \cup {NoConfig}, lost : BOOLEAN]
        BY <1>3 DEF Places
    <2>2. request' = [request EXCEPT ![r] =
              [@ EXCEPT !.at = "create", !.kind = "more", !.thread = t, !.config = c]]
        BY <1>1
    <2>3. request' \in [Requests -> [at : Places, kind : {"new", "more"},
                                     thread : Threads \cup {NoThread},
                                     config : Configs \cup {NoConfig}, lost : BOOLEAN]]
        BY <2>1, <2>2
    <2>. QED BY <1>3, <2>3 DEF ChatInv, TypeOK
<1>5. RequestOK(r)' /\ ~Owner(r)'
    BY <1>2, <1>3 DEF RequestOK, Owner, At
<1>. QED BY <1>2, <1>3, <1>4, <1>5, OneRequest

LEMMA ReadNamesKeeps == ASSUME ChatInv, NEW r \in Requests, ReadNames(r) PROVE ChatInv'
<1>. USE ChatTypes
<1>. DEFINE t == NextName
<1>1. request' = [request EXCEPT ![r].at = "reserve", ![r].thread = t] /\ t \in Threads
    BY DEF ReadNames
<1>. HIDE DEF t
<1>2. /\ request'[r].at = "reserve" /\ request'[r].thread = t
      /\ \A q \in Requests : q # r => request'[q] = request[q]
    BY <1>1
<1>3. UNCHANGED <<threads, recorded, tasks, sessions>> /\ tasks[r].status = "none"
    BY DEF ReadNames, appTables, hostTables, RequestOK, At
<1>4. TypeOK'
    <2>1. [request[r] EXCEPT !.at = "reserve", !.thread = t] \in
              [at : Places, kind : {"new", "more"}, thread : Threads \cup {NoThread},
               config : Configs \cup {NoConfig}, lost : BOOLEAN]
        BY <1>1 DEF Places
    <2>2. request' \in [Requests -> [at : Places, kind : {"new", "more"},
                                     thread : Threads \cup {NoThread},
                                     config : Configs \cup {NoConfig}, lost : BOOLEAN]]
        BY <1>1, <2>1
    <2>. QED BY <1>3, <2>2 DEF ChatInv, TypeOK
<1>5. RequestOK(r)' /\ ~Owner(r)'
    BY <1>1, <1>2, <1>3 DEF RequestOK, Owner, At
<1>. QED BY <1>2, <1>3, <1>4, <1>5, OneRequest

LEMMA ReserveKeeps == ASSUME ChatInv, NEW r \in Requests, Reserve(r) PROVE ChatInv'
<1>. USE ChatTypes
<1>1. At(r, "reserve") /\ request[r].thread \in Threads /\ UNCHANGED <<recorded, tasks, sessions>>
    BY DEF Reserve, At, RequestOK, hostTables
<1>2. threads \in [Threads -> {"none", "open", "archived"}]
    BY DEF ChatInv, TypeOK
<1>3. CASE Reserved(request[r].thread)
    <2>1. threads' = [threads EXCEPT ![request[r].thread] = "open"] /\ Goes(r, "create")
        BY <1>3 DEF Reserve
    <2>2. /\ threads' \in [Threads -> {"none", "open", "archived"}]
          /\ threads'[request[r].thread] # "none"
          /\ \A t \in Threads : threads[t] # "none" => threads'[t] # "none"
        BY <1>1, <1>2, <2>1
    <2>. QED BY <1>1, <1>3, <2>1, <2>2, RequestGoes DEF Reserved, Places
<1>4. CASE ~Reserved(request[r].thread)
    <2>1. UNCHANGED threads /\ Goes(r, "names")
        BY <1>4 DEF Reserve
    <2>. QED BY <1>1, <1>2, <2>1, RequestGoes DEF At, Places
<1>. QED BY <1>3, <1>4

LEMMA FailsKeep ==
    ASSUME ChatInv, NEW r \in Requests, ReserveFails(r) \/ CreateFails(r)
    PROVE  ChatInv'
<1>1. threads \in [Threads -> {"none", "open", "archived"}]
    BY DEF ChatInv, TypeOK
<1>2. Goes(r, "failed") /\ UNCHANGED <<threads, recorded, tasks, sessions>>
      /\ request[r].at \in {"names", "reserve", "create"}
    BY DEF ReserveFails, CreateFails, appTables, hostTables, At
<1>. QED BY <1>1, <1>2, RequestGoes DEF Places

(* The host creates the request's task on the thread the request names.    *)
LEMMA CreateKeeps == ASSUME ChatInv, NEW r \in Requests, Create(r) PROVE ChatInv'
<1>. USE ChatTypes
<1>. DEFINE t == request[r].thread
            h == <<"agent_chat", t>>
            config == request[r].config
<1>1. t \in Threads /\ At(r, "create") /\ UNCHANGED <<threads, recorded>>
    BY DEF Create, RequestOK, At, appTables
<1>2. /\ tasks' = [tasks EXCEPT ![r] = [at |-> h, status |-> "queued"]]
      /\ sessions' = [sessions EXCEPT ![h] = IF @ = NoConfig THEN config ELSE @]
      /\ Resolves(h, config)
    BY DEF Create, HostCreates, InternalThread
<1>3. PICK place \in {"record", "failed"}, lost \in BOOLEAN :
          /\ request' = [request EXCEPT ![r] = [@ EXCEPT !.at = place, !.lost = lost]]
          /\ place = "failed" => lost
    <2>1. CASE Goes(r, "record")
        <3>1. [request[r] EXCEPT !.at = "record", !.lost = request[r].lost]
              = [request[r] EXCEPT !.at = "record"]
            OBVIOUS
        <3>2. request' = [request EXCEPT ![r] = [request[r] EXCEPT !.at = "record"]]
            BY <2>1 DEF Goes
        <3>. QED BY <3>1, <3>2
    <2>2. CASE request' = [request EXCEPT ![r].at = "failed", ![r].lost = TRUE]
        <3>1. request' = [request EXCEPT ![r] = [request[r] EXCEPT !.at = "failed", !.lost = TRUE]]
            BY <2>2
        <3>. QED BY <3>1
    <2>. QED BY <2>1, <2>2 DEF Create
<1>4. /\ request'[r].at = place /\ request'[r].thread = t /\ request'[r].kind = request[r].kind
      /\ request'[r].lost = lost
      /\ \A q \in Requests : q # r => request'[q] = request[q]
    BY <1>3
<1>5. /\ tasks'[r].at = h /\ tasks'[r].status = "queued"
      /\ \A k \in Tasks : k # r => tasks'[k] = tasks[k]
    BY <1>2
<1>6. TypeOK'
    <2>1. [request[r] EXCEPT !.at = place, !.lost = lost] \in
              [at : Places, kind : {"new", "more"}, thread : Threads \cup {NoThread},
               config : Configs \cup {NoConfig}, lost : BOOLEAN]
        BY DEF Places
    <2>2. request' \in [Requests -> [at : Places, kind : {"new", "more"},
                                     thread : Threads \cup {NoThread},
                                     config : Configs \cup {NoConfig}, lost : BOOLEAN]]
        BY <1>3, <2>1
    <2>3. h \in Apps \X Threads
        BY <1>1 DEF Apps
    <2>4. tasks' \in [Tasks -> [at : (Apps \X Threads) \cup {Nowhere},
                                status : {"none"} \cup Active \cup Ended]]
        BY <1>2, <2>3 DEF Active
    <2>5. sessions' \in [Apps \X Threads -> Configs \cup {NoConfig}]
        <3>1. sessions \in [Apps \X Threads -> Configs \cup {NoConfig}]
            BY DEF ChatInv, TypeOK
        <3>2. config \in Configs \cup {NoConfig}
            OBVIOUS
        <3>. HIDE DEF config, h
        <3>. QED BY <1>2, <2>3, <3>1, <3>2
    <2>. QED BY <1>1, <2>2, <2>4, <2>5 DEF ChatInv, TypeOK
<1>7. RequestOK(r)'
    <2>1. Owner(r)' => t \in Threads /\ threads[t] # "none"
        BY <1>1, <1>4 DEF RequestOK, Owner
    <2>. QED BY <1>1, <1>3, <1>4, <1>5, <2>1 DEF RequestOK, At, Active
<1>8. Owner(r)' => Owner(r) /\ request'[r].thread = request[r].thread
    BY <1>1, <1>4 DEF Owner
<1>9. Other \in Tasks
    BY DEF Tasks
<1>10. Requests \subseteq Tasks
    BY DEF Tasks
<1>. QED BY <1>1, <1>4, <1>5, <1>6, <1>7, <1>8, <1>9, <1>10, OneRequest

(* A request revokes the task it could not record: it is in "cancel" or    *)
(* "kill", the task ends or stays, and a call that was lost is remembered. *)
LEMMA RevokeKeeps ==
    ASSUME ChatInv, NEW r \in Requests, request[r].at \in {"cancel", "kill"},
           NEW place \in {"kill", "failed"}, NEW lost \in BOOLEAN,
           NEW s \in {tasks[r].status, "ended"},
           tasks[r].status = "none" => s = "none",
           request' = [request EXCEPT ![r] = [@ EXCEPT !.at = place, !.lost = lost]],
           tasks' = [tasks EXCEPT ![r].status = s], UNCHANGED <<threads, recorded, sessions>>,
           place = "kill" /\ ~lost => s # "queued",
           place = "failed" /\ ~lost => s \notin Active
    PROVE  ChatInv'
<1>. USE ChatTypes
<1>1. /\ request'[r].at = place /\ request'[r].thread = request[r].thread
      /\ request'[r].kind = request[r].kind /\ request'[r].lost = lost
      /\ \A q \in Requests : q # r => request'[q] = request[q]
    OBVIOUS
<1>2. /\ tasks'[r].at = tasks[r].at /\ tasks'[r].status = s
      /\ \A k \in Tasks : k # r => tasks'[k] = tasks[k]
    OBVIOUS
<1>3. TypeOK'
    <2>1. [request[r] EXCEPT !.at = place, !.lost = lost] \in
              [at : Places, kind : {"new", "more"}, thread : Threads \cup {NoThread},
               config : Configs \cup {NoConfig}, lost : BOOLEAN]
        <3>1. request[r] \in [at : Places, kind : {"new", "more"}, thread : Threads \cup {NoThread},
                               config : Configs \cup {NoConfig}, lost : BOOLEAN]
            OBVIOUS
        <3>2. place \in Places
            BY DEF Places
        <3>. QED  BY <3>1, <3>2
    <2>2. request' \in [Requests -> [at : Places, kind : {"new", "more"},
                                     thread : Threads \cup {NoThread},
                                     config : Configs \cup {NoConfig}, lost : BOOLEAN]]
        BY <2>1
    <2>3. [tasks[r] EXCEPT !.status = s] \in [at : (Apps \X Threads) \cup {Nowhere},
                                             status : {"none"} \cup Active \cup Ended]
        BY DEF Ended
    <2>4. tasks' \in [Tasks -> [at : (Apps \X Threads) \cup {Nowhere},
                                status : {"none"} \cup Active \cup Ended]]
        BY <2>3
    <2>. QED BY <2>2, <2>4 DEF ChatInv, TypeOK
<1>4. Owner(r)' => Owner(r)
    BY <1>1, <1>2 DEF Owner, At
<1>5. RequestOK(r)'
    <2>1. Owner(r)' => request[r].thread \in Threads /\ threads[request[r].thread] # "none"
        BY <1>4 DEF RequestOK
    <2>. QED BY <1>1, <1>2, <2>1 DEF RequestOK, At
<1>6. Other \in Tasks /\ Requests \subseteq Tasks
    BY DEF Tasks
<1>. QED BY <1>1, <1>2, <1>3, <1>4, <1>5, <1>6, OneRequest

LEMMA CancelKeeps == ASSUME ChatInv, NEW r \in Requests, Cancel(r) PROVE ChatInv'
<1>. USE ChatTypes
<1>. DEFINE s == IF tasks[r].status = "queued" THEN "ended" ELSE tasks[r].status
            place == IF tasks[r].status = "queued" THEN "failed" ELSE "kill"
<1>1. /\ request[r].at \in {"cancel", "kill"} /\ UNCHANGED <<threads, recorded, sessions>>
      /\ Goes(r, place)
    BY DEF Cancel, At, appTables, FirstEnd
<1>2. tasks' = [tasks EXCEPT ![r].status = s]
    BY DEF Cancel, HostEnds, FirstEnd
<1>3. request' = [request EXCEPT ![r] = [@ EXCEPT !.at = place, !.lost = request[r].lost]]
    <2>. HIDE DEF place
    <2>1. [request[r] EXCEPT !.at = place, !.lost = request[r].lost] = [request[r] EXCEPT !.at = place]
        OBVIOUS
    <2>2. request' = [request EXCEPT ![r] = [request[r] EXCEPT !.at = place]]
        BY <1>1 DEF Goes
    <2>. QED BY <2>1, <2>2
<1>4. /\ s \in {tasks[r].status, "ended"} /\ place \in {"kill", "failed"}
      /\ tasks[r].status = "none" => s = "none"
      /\ place = "kill" => s # "queued"
      /\ place = "failed" => s \notin Active
      /\ request[r].lost \in BOOLEAN
    BY DEF Active
<1>. HIDE DEF s, place
<1>. QED BY <1>1, <1>2, <1>3, <1>4, RevokeKeeps

LEMMA KillOrphanKeeps == ASSUME ChatInv, NEW r \in Requests, KillOrphan(r) PROVE ChatInv'
<1>. USE ChatTypes
<1>. DEFINE s == IF tasks[r].status = "running" THEN "ended" ELSE tasks[r].status
<1>1. /\ At(r, "kill") /\ UNCHANGED <<threads, recorded, sessions>> /\ Goes(r, "failed")
    BY DEF KillOrphan, appTables
<1>2. tasks' = [tasks EXCEPT ![r].status = s]
    BY DEF KillOrphan, HostEnds, FirstEnd, SecondEnd
<1>3. request' = [request EXCEPT ![r] = [@ EXCEPT !.at = "failed", !.lost = request[r].lost]]
    <2>1. [request[r] EXCEPT !.at = "failed", !.lost = request[r].lost]
          = [request[r] EXCEPT !.at = "failed"]
        OBVIOUS
    <2>2. request' = [request EXCEPT ![r] = [request[r] EXCEPT !.at = "failed"]]
        BY <1>1 DEF Goes
    <2>. QED BY <2>1, <2>2
<1>4. /\ s \in {tasks[r].status, "ended"}
      /\ tasks[r].status = "none" => s = "none"
      /\ ~request[r].lost => s \notin Active
      /\ request[r].lost \in BOOLEAN /\ request[r].at \in {"cancel", "kill"}
    BY <1>1 DEF Active, RequestOK, At
<1>. HIDE DEF s
<1>. QED BY <1>1, <1>2, <1>3, <1>4, RevokeKeeps

LEMMA EndLostKeeps == ASSUME ChatInv, NEW r \in Requests, EndLost(r) PROVE ChatInv'
<1>. USE ChatTypes
<1>. DEFINE place == IF At(r, "cancel") THEN "kill" ELSE "failed"
<1>1. /\ request[r].at \in {"cancel", "kill"} /\ UNCHANGED <<threads, recorded, sessions>>
      /\ place \in {"kill", "failed"}
    BY DEF EndLost, appTables
<1>2. request' = [request EXCEPT ![r] = [@ EXCEPT !.at = place, !.lost = TRUE]]
    BY DEF EndLost
<1>3. PICK s \in {tasks[r].status, "ended"} :
          (tasks[r].status = "none" => s = "none") /\ tasks' = [tasks EXCEPT ![r].status = s]
    <2>1. CASE UNCHANGED tasks
        <3>1. tasks' = [tasks EXCEPT ![r].status = tasks[r].status]
            BY <2>1
        <3>. QED BY <3>1
    <2>2. CASE ~UNCHANGED tasks
        <3>1. PICK from \in {"queued", "running"} : HostEnds(r, from)
            BY <2>2 DEF EndLost, FirstEnd, SecondEnd
        <3>. DEFINE s == IF tasks[r].status = from THEN "ended" ELSE tasks[r].status
        <3>2. tasks' = [tasks EXCEPT ![r].status = s]
            BY <3>1 DEF HostEnds
        <3>3. s \in {tasks[r].status, "ended"} /\ (tasks[r].status = "none" => s = "none")
            OBVIOUS
        <3>. QED BY <3>2, <3>3
    <2>. QED BY <2>1, <2>2
<1>. HIDE DEF place
<1>. QED BY <1>1, <1>2, <1>3, RevokeKeeps

LEMMA RecordsKeep ==
    ASSUME ChatInv, NEW r \in Requests, Record(r) \/ RecordFails(r)
    PROVE  ChatInv'
<1>. USE ChatTypes
<1>. DEFINE t == request[r].thread
<1>1. PICK place \in {"done", "cancel"} : Goes(r, place)
    BY DEF Record, RecordFails, Orphans
<1>2. At(r, "record") /\ UNCHANGED <<tasks, sessions>>
    BY DEF Record, RecordFails, hostTables
<1>3. threads \in [Threads -> {"none", "open", "archived"}]
      /\ recorded \in [Tasks -> Threads \cup {NoThread}]
    BY DEF ChatInv, TypeOK
<1>4. threads' \in [Threads -> {"none", "open", "archived"}]
      /\ recorded' \in [Tasks -> Threads \cup {NoThread}]
      /\ \A u \in Threads : threads[u] # "none" => threads'[u] # "none"
    <2>1. CASE UNCHANGED appTables
        BY <1>3, <2>1 DEF appTables
    <2>2. CASE Recorded(r)
        BY <1>3, <2>2 DEF Recorded
    <2>. QED BY <2>1, <2>2 DEF Record, RecordFails
<1>5. /\ request'[r].at = place /\ request'[r].thread = t
      /\ request'[r].kind = request[r].kind /\ request'[r].lost = request[r].lost
      /\ \A q \in Requests : q # r => request'[q] = request[q]
    BY <1>1 DEF Goes
<1>6. TypeOK'
    <2>1. [request[r] EXCEPT !.at = place] \in
              [at : Places, kind : {"new", "more"}, thread : Threads \cup {NoThread},
               config : Configs \cup {NoConfig}, lost : BOOLEAN]
        BY DEF Places
    <2>2. request' \in [Requests -> [at : Places, kind : {"new", "more"},
                                     thread : Threads \cup {NoThread},
                                     config : Configs \cup {NoConfig}, lost : BOOLEAN]]
        BY <1>1, <2>1 DEF Goes
    <2>. QED BY <1>2, <1>4, <2>2 DEF ChatInv, TypeOK
<1>7. Owner(r)' => Owner(r)
    BY <1>2, <1>5 DEF Owner, At
<1>8. RequestOK(r)'
    <2>1. Owner(r)' => t \in Threads /\ threads'[t] # "none"
        BY <1>4, <1>7 DEF RequestOK
    <2>. QED BY <1>2, <1>5, <2>1 DEF RequestOK, At
<1>. QED BY <1>2, <1>4, <1>5, <1>6, <1>7, <1>8, OneRequest

LEMMA OtherCreatesKeeps == ASSUME ChatInv, OtherCreates PROVE ChatInv'
<1>1. PICK t \in Threads, c \in Configs : HostCreates(Other, InternalThread("other", t), c)
    BY DEF OtherCreates
<1>. DEFINE h == <<"other", t>>
<1>2. /\ tasks' = [tasks EXCEPT ![Other] = [at |-> h, status |-> "queued"]]
      /\ sessions' = [sessions EXCEPT ![h] = IF @ = NoConfig THEN c ELSE @]
      /\ UNCHANGED <<threads, recorded, request>>
    BY <1>1 DEF OtherCreates, HostCreates, InternalThread, appTables
<1>3. h \in Apps \X Threads /\ h \in {"other"} \X Threads
    BY DEF Apps
<1>4. tasks \in [Tasks -> [at : (Apps \X Threads) \cup {Nowhere},
                           status : {"none"} \cup Active \cup Ended]]
      /\ sessions \in [Apps \X Threads -> Configs \cup {NoConfig}] /\ Other \in Tasks
    BY DEF ChatInv, TypeOK, Tasks
<1>5. tasks' \in [Tasks -> [at : (Apps \X Threads) \cup {Nowhere},
                            status : {"none"} \cup Active \cup Ended]]
    BY <1>2, <1>3, <1>4 DEF Active
<1>6. sessions' \in [Apps \X Threads -> Configs \cup {NoConfig}]
    <2>. HIDE DEF h
    <2>. QED BY <1>2, <1>3, <1>4
<1>7. TypeOK'
    BY <1>2, <1>5, <1>6 DEF ChatInv, TypeOK
<1>8. OtherOK'
    BY <1>2, <1>3, <1>4 DEF OtherOK
<1>9. \A r \in Requests : tasks'[r] = tasks[r] /\ request'[r] = request[r]
    BY <1>2, <1>4, ChatAssumption DEF Tasks
<1>10. \A r \in Requests : Owner(r)' = Owner(r)
    BY <1>9 DEF Owner, At
<1>11. \A r \in Requests : RequestOK(r)'
    BY <1>2, <1>9, <1>10 DEF ChatInv, RequestOK, At
<1>12. OwnersApart'
    BY <1>9, <1>10 DEF ChatInv, OwnersApart
<1>. QED BY <1>7, <1>8, <1>11, <1>12 DEF ChatInv

LEMMA ArchiveKeeps == ASSUME ChatInv, NEW t \in Threads, Archive(t) PROVE ChatInv'
<1>1. /\ threads' = [threads EXCEPT ![t] = "archived"]
      /\ UNCHANGED <<recorded, tasks, sessions, request>>
    BY DEF Archive, hostTables
<1>2. TypeOK' /\ \A u \in Threads : threads[u] # "none" => threads'[u] # "none"
    BY <1>1 DEF ChatInv, TypeOK
<1>3. \A r \in Requests : Owner(r)' = Owner(r)
    BY <1>1 DEF Owner, At
<1>4. \A r \in Requests : RequestOK(r)'
    BY <1>1, <1>2, <1>3 DEF ChatInv, RequestOK, At
<1>5. OwnersApart' /\ OtherOK'
    BY <1>1, <1>3 DEF ChatInv, OwnersApart, OtherOK
<1>. QED BY <1>2, <1>4, <1>5 DEF ChatInv

LEMMA TaskStep ==
    ASSUME ChatInv, NEW k \in Tasks,
           OperatorEnds(k, "queued") \/ OperatorEnds(k, "running") \/ Claim(k) \/ Ends(k)
    PROVE  ChatInv'
<1>1. ASSUME NEW from \in {"queued", "running"}, OperatorEnds(k, from) PROVE ChatInv'
    <2>1. tasks' = [tasks EXCEPT ![k].status = "ended"]
        BY <1>1 DEF OperatorEnds, HostEnds
    <2>. QED BY <1>1, <2>1, OneTask DEF OperatorEnds
<1>2. ASSUME Claim(k) PROVE ChatInv'
    BY <1>2, OneTask DEF Claim
<1>3. ASSUME Ends(k) PROVE ChatInv'
    BY <1>3, OneTask DEF Ends
<1>. QED BY <1>1, <1>2, <1>3

LEMMA ChatStep == ChatInv /\ [Next]_vars => ChatInv'
<1>. SUFFICES ASSUME ChatInv, [Next]_vars PROVE ChatInv'
    OBVIOUS
<1>1. CASE UNCHANGED vars
    BY <1>1 DEF vars, ChatInv, TypeOK, RequestOK, OwnersApart, OtherOK, Owner, At
<1>2. ASSUME NEW r \in Requests,
             StartNew(r) \/ StartMore(r) \/ Names(r) \/ ReserveFails(r) \/ Create(r) \/ CreateFails(r)
      PROVE  ChatInv'
    BY <1>2, StartNewKeeps, StartMoreKeeps, ReadNamesKeeps, ReserveKeeps, FailsKeep, CreateKeeps
       DEF Names
<1>3. ASSUME NEW r \in Requests,
             Record(r) \/ RecordFails(r) \/ Cancel(r) \/ KillOrphan(r) \/ EndLost(r)
      PROVE  ChatInv'
    BY <1>3, RecordsKeep, CancelKeeps, KillOrphanKeeps, EndLostKeeps
<1>. QED BY <1>1, <1>2, <1>3, OtherCreatesKeeps, ArchiveKeeps, TaskStep DEF Next

(* Every variable of the chat keeps its type.                              *)
THEOREM ChatTypeCorrect == Spec => []TypeOK
<1>1. ChatInv => TypeOK
    BY DEF ChatInv
<1>. QED BY <1>1, ChatInvInit, ChatStep, PTL DEF Spec

(* A new chat is a thread of its own, however many are begun at once.      *)
THEOREM NewChatsApart == Spec => []ChatsApart
<1>1. ASSUME ChatInv PROVE ChatsApart
    <2>. SUFFICES ASSUME NEW r \in NewChats, NEW k \in Tasks \ {r}
                  PROVE  /\ k \in NewChats \cup {Other} => tasks[k].at # tasks[r].at
                         /\ tasks[r].at = <<"agent_chat", request[r].thread>>
        BY DEF ChatsApart
    <2>1. r \in Requests /\ Owner(r) /\ tasks[r].at = <<"agent_chat", request[r].thread>>
        BY <1>1 DEF NewChats, Owner, ChatInv, RequestOK
    <2>2. CASE k \in NewChats
        <3>1. k \in Requests /\ Owner(k) /\ tasks[k].at = <<"agent_chat", request[k].thread>>
            BY <1>1, <2>2 DEF NewChats, Owner, ChatInv, RequestOK
        <3>2. request[k].thread # request[r].thread
            BY <1>1, <2>1, <3>1 DEF ChatInv, OwnersApart
        <3>. QED BY <2>1, <3>1, <3>2
    <2>3. CASE k = Other
        <3>1. tasks[k].at # tasks[r].at
            BY <1>1, <2>1, <2>3 DEF ChatInv, OtherOK, Nowhere
        <3>. QED BY <2>1, <3>1
    <2>. QED BY <2>1, <2>2, <2>3
<1>. QED BY <1>1, ChatInvInit, ChatStep, PTL DEF Spec

(* A request that fails leaves no task the operator cannot see.            *)
THEOREM OrphansEnd == Spec => []NoOrphanRuns
<1>1. ChatInv => NoOrphanRuns
    BY DEF ChatInv, RequestOK, NoOrphanRuns
<1>. QED BY <1>1, ChatInvInit, ChatStep, PTL DEF Spec

-----------------------------------------------------------------------------
(* The event logs and their cursors                                        *)

(* A bounded set of numbers has its least and its greatest.                *)
LEMMA LeastOf ==
    ASSUME NEW S \in SUBSET Nat, S # {}
    PROVE  \E n \in S : \A m \in S : n <= m
<1>1. PICK n \in S : \A m \in S : ~(<<m, n>> \in OpToRel(<, Nat))
    BY NatLessThanWellFounded, WFMin
<1>2. \A m \in S : ~(m < n)
    BY <1>1 DEF OpToRel
<1>. QED BY <1>2

LEMMA MinOf ==
    ASSUME NEW S \in SUBSET Nat, S # {}
    PROVE  Min(S) \in S /\ \A m \in S : Min(S) <= m
BY LeastOf DEF Min

LEMMA MaxOf ==
    ASSUME NEW S \in SUBSET Nat, S # {}, NEW b \in Nat, \A m \in S : m <= b
    PROVE  Max(S) \in S /\ \A m \in S : m <= Max(S)
<1>. DEFINE Above == {n \in Nat : \A m \in S : m <= n}
<1>1. PICK n \in Above : \A m \in Above : n <= m
    <2>1. b \in Above /\ Above \in SUBSET Nat
        OBVIOUS
    <2>. HIDE DEF Above
    <2>. QED BY <2>1, LeastOf
<1>2. n \in S
    <2>. SUFFICES ASSUME n \notin S PROVE FALSE
        OBVIOUS
    <2>1. n \in Nat /\ \A m \in S : m < n
        OBVIOUS
    <2>2. \A m \in S : m \in Nat /\ m < n /\ m <= n - 1
        BY <2>1
    <2>3. PICK e \in S : e \in Nat /\ e < n
        BY <2>2
    <2>4. n - 1 \in Nat
        BY <2>1, <2>3
    <2>5. n - 1 \in Above
        BY <2>2, <2>4
    <2>. QED BY <1>1, <2>1, <2>5
<1>. QED BY <1>2 DEF Max

(* A page's query leaves no row out below one it returns, and it returns   *)
(* none only of nothing.                                                   *)
LEMMA FirstIsFirst ==
    ASSUME NEW S \in SUBSET Nat, NEW b \in Nat, \A m \in S : m <= b,
           NEW x \in FirstOf(S), NEW s \in S, s <= x
    PROVE  s \in FirstOf(S)
<1>. DEFINE Below(n) == {y \in S : y < n}
<1>1. IsFiniteSet(S)
    BY FS_BoundedSetOfNaturals
<1>2. IsFiniteSet(Below(x)) /\ IsFiniteSet(Below(s))
    BY <1>1, FS_Subset
<1>3. x \in Nat /\ s \in Nat
    BY DEF FirstOf
<1>4. Below(s) \in SUBSET Below(x)
    <2>1. \A y \in S : y \in Nat /\ (y < s => y < x)
        BY <1>3
    <2>. QED BY <2>1
<1>5. Cardinality(Below(s)) \in Nat /\ Cardinality(Below(x)) \in Nat
    BY <1>2, FS_CardinalityType
<1>6. Cardinality(Below(s)) <= Cardinality(Below(x))
    BY <1>2, <1>4, FS_Subset
<1>7. Cardinality(Below(x)) < PageLimit /\ PageLimit \in Nat
    BY LogsAssumption DEF FirstOf
<1>8. Cardinality(Below(s)) < PageLimit
    BY <1>5, <1>6, <1>7
<1>. QED BY <1>8 DEF FirstOf

LEMMA LastIsLast ==
    ASSUME NEW S \in SUBSET Nat, NEW b \in Nat, \A m \in S : m <= b,
           NEW x \in LastOf(S), NEW s \in S, x <= s
    PROVE  s \in LastOf(S)
<1>. DEFINE Above(n) == {y \in S : y > n}
<1>1. IsFiniteSet(S)
    BY FS_BoundedSetOfNaturals
<1>2. IsFiniteSet(Above(x)) /\ IsFiniteSet(Above(s))
    BY <1>1, FS_Subset
<1>3. x \in Nat /\ s \in Nat
    BY DEF LastOf
<1>4. Above(s) \in SUBSET Above(x)
    <2>1. \A y \in S : y \in Nat /\ (y > s => y > x)
        BY <1>3
    <2>. QED BY <2>1
<1>5. Cardinality(Above(s)) \in Nat /\ Cardinality(Above(x)) \in Nat
    BY <1>2, FS_CardinalityType
<1>6. Cardinality(Above(s)) <= Cardinality(Above(x))
    BY <1>2, <1>4, FS_Subset
<1>7. Cardinality(Above(x)) < PageLimit /\ PageLimit \in Nat
    BY LogsAssumption DEF LastOf
<1>8. Cardinality(Above(s)) < PageLimit
    BY <1>5, <1>6, <1>7
<1>. QED BY <1>8 DEF LastOf

LEMMA LastIsSome ==
    ASSUME NEW S \in SUBSET Nat, NEW b \in Nat, \A m \in S : m <= b, S # {}
    PROVE  LastOf(S) # {}
<1>1. Max(S) \in S /\ \A m \in S : m <= Max(S)
    BY MaxOf
<1>. DEFINE top == Max(S)
<1>. HIDE DEF top
<1>2. top \in S /\ \A m \in S : m <= top
    BY <1>1 DEF top
<1>3. \A y \in S : y \in Nat /\ top \in Nat
    BY <1>2
<1>4. \A y \in S : ~(y > top)
    BY <1>2, <1>3
<1>5. {y \in S : y > top} = {}
    BY <1>4
<1>6. Cardinality({y \in S : y > top}) < PageLimit
    BY <1>5, FS_EmptySet, LogsAssumption
<1>7. top \in LastOf(S)
    BY <1>2, <1>6 DEF LastOf
<1>. QED BY <1>7

AppendRecord == [at : {"idle", "open"}, seq : Nat, drops : SUBSET Nat]
ViewRecord == [seq : Nat, events : SUBSET Nat]
PollRecord == [at : {"idle", "sent", "answered"}, since : Nat, page : Seq(SUBSET Nat)]
WalkRecord == [at : {"none", "first", "on", "done"}, log : Logs, before : Nat,
               there : SUBSET Nat, shown : SUBSET Nat]

LogsTypeOK ==
    /\ drawn \in [Logs -> Nat]
    /\ rows \in [Logs -> SUBSET Nat]
    /\ append \in [Appenders -> AppendRecord]
    /\ view \in [Pages -> ViewRecord]
    /\ poll \in [Pages -> [Polls -> PollRecord]]
    /\ walk \in WalkRecord

Open(w) == append[w].at = "open"

(* A number is drawn once, and is a row when its transaction commits.      *)
NumbersOK ==
    /\ \A l \in Logs : \A s \in rows[l] : s <= drawn[l]
    /\ \A w \in Appenders : Open(w) =>
          append[w].seq <= drawn[LogOf(w)] /\ append[w].seq \notin rows[LogOf(w)]
    /\ \A v, w \in Appenders : Open(v) /\ Open(w) /\ LogOf(v) = LogOf(w) /\ v # w
          => append[v].seq # append[w].seq
    /\ \A w \in Appenders : \A s \in append[w].drops : s + MAX_EVENTS <= drawn[LogOf(w)]

(* One agent event at a time is between its number and its commit.         *)
MutationsOK ==
    /\ \A w \in Admins : Open(w) <=> w \in mutating
    /\ \A v, w \in mutating : v = w

(* A reader may be at this number of the agent log: no event is still to   *)
(* be committed at it or below.                                            *)
Passed(n) ==
    /\ n <= drawn["agent"]
    /\ \A w \in Admins : Open(w) => n < append[w].seq

PageOK(p, k) ==
    poll[p][k].at = "answered" =>
        /\ poll[p][k].page[1] \in SUBSET Nat
        /\ \A x \in poll[p][k].page[1] :
              /\ Passed(x)
              /\ \A s \in rows["agent"] :
                    poll[p][k].since < s /\ s <= x => s \in poll[p][k].page[1]

ReadersOK ==
    /\ \A s \in rows["agent"] : Passed(s)
    /\ \A p \in Pages : Passed(view[p].seq)
    /\ \A p \in Pages, k \in Polls : PageOK(p, k)

(* The conversation's cursor only moves forward, over what it shows.       *)
FollowsOK ==
    \A p \in Pages \ {"chat"} :
        /\ HasNoGap(p)
        /\ \A k \in Polls : poll[p][k].at # "idle" => poll[p][k].since <= view[p].seq

(* What a walk has passed of what it found, it has shown.                  *)
WalkOK ==
    walk.at # "none" =>
        /\ \A s \in walk.there : s <= drawn[walk.log]
        /\ \A w \in Appenders : Open(w) /\ LogOf(w) = walk.log => append[w].seq \notin walk.there
        /\ walk.at = "on" => \A s \in walk.there \cap rows[walk.log] :
                                walk.before <= s => s \in walk.shown
        /\ walk.at = "done" => walk.there \cap rows[walk.log] \subseteq walk.shown

LogsInv == LogsTypeOK /\ NumbersOK /\ MutationsOK /\ ReadersOK /\ FollowsOK /\ WalkOK

LEMMA LogNames ==
    /\ "agent" \in Logs /\ \A w \in Appenders : LogOf(w) \in Logs
    /\ Admins \subseteq Appenders
    /\ \A w \in Appenders : LogOf(w) = "agent" <=> w \in Admins
BY DEF Logs, LogOf, Appenders

LEMMA LogsInvInit == LogsInit => LogsInv
<1>. SUFFICES ASSUME LogsInit PROVE LogsInv
    OBVIOUS
<1>1. LogsTypeOK
    <2>1. drawn \in [Logs -> Nat] /\ rows \in [Logs -> SUBSET Nat]
        BY DEF LogsInit
    <2>2. append \in [Appenders -> AppendRecord]
        BY DEF LogsInit, AppendRecord, IdleAppend
    <2>3. view \in [Pages -> ViewRecord]
        BY DEF LogsInit, ViewRecord
    <2>4. IdlePoll \in PollRecord
        BY DEF PollRecord, IdlePoll
    <2>5. poll \in [Pages -> [Polls -> PollRecord]]
        BY <2>4 DEF LogsInit
    <2>6. walk \in WalkRecord
        BY DEF LogsInit, WalkRecord, NoWalk, Logs
    <2>. QED BY <2>1, <2>2, <2>3, <2>5, <2>6 DEF LogsTypeOK
<1>2. /\ \A w \in Appenders : ~Open(w) /\ append[w].drops = {}
      /\ \A l \in Logs : rows[l] = {} /\ drawn[l] = 0
      /\ mutating = {} /\ walk.at = "none"
      /\ \A p \in Pages : view[p].seq = 0
      /\ \A p \in Pages, k \in Polls : poll[p][k].at = "idle"
    BY DEF LogsInit, Open, IdleAppend, IdlePoll, NoWalk
<1>3. NumbersOK /\ MutationsOK /\ WalkOK
    BY <1>2, LogNames DEF NumbersOK, MutationsOK, WalkOK
<1>4. ReadersOK /\ FollowsOK
    BY <1>2, LogNames DEF ReadersOK, FollowsOK, Passed, PageOK, HasNoGap
<1>. QED BY <1>1, <1>3, <1>4 DEF LogsInv

(* A number is drawn: it is above every reader.                            *)
LEMMA AppendsKeeps == ASSUME LogsInv, NEW w \in Appenders, Appends(w) PROVE LogsInv'
<1>. USE LogNames
<1>. DEFINE l == LogOf(w)
            q == drawn[l] + 1
            dropped == Pruned(l, q)
<1>1. /\ ~Open(w) /\ drawn' = [drawn EXCEPT ![l] = q] /\ Mutates(w)
      /\ append' = [append EXCEPT ![w] = [at |-> "open", seq |-> q, drops |-> dropped]]
      /\ UNCHANGED <<rows, view, poll, walk, shows>>
    BY DEF Appends, Open
<1>2. LogsTypeOK /\ l \in Logs /\ drawn[l] \in Nat /\ q \in Nat /\ \A m \in Logs : drawn[m] \in Nat
    BY DEF LogsInv, LogsTypeOK
<1>3. dropped \in SUBSET Nat /\ \A s \in dropped : s + MAX_EVENTS <= q
    <2>. DEFINE S == rows[l] \cup {q}
    <2>1. S \in SUBSET Nat /\ S # {} /\ \A m \in S : m <= q
        BY <1>2 DEF LogsTypeOK, LogsInv, NumbersOK
    <2>2. Max(S) \in S
        BY <1>2, <2>1, MaxOf
    <2>. DEFINE top == Max(S)
    <2>3. top \in Nat /\ top <= q
        BY <2>1, <2>2
    <2>4. dropped = {} \/ dropped = {s \in rows[l] : s + MAX_EVENTS <= top}
        BY DEF Pruned
    <2>. HIDE DEF top, dropped, S, q, l
    <2>5. rows[l] \in SUBSET Nat /\ q \in Nat /\ MAX_EVENTS \in Nat
        BY <1>2, LogsAssumption DEF LogsTypeOK
    <2>. QED BY <2>3, <2>4, <2>5
<1>. HIDE DEF dropped
<1>4. /\ append'[w].at = "open" /\ append'[w].seq = q /\ append'[w].drops = dropped
      /\ \A v \in Appenders : v # w => append'[v] = append[v]
    BY <1>1, <1>2 DEF LogsTypeOK
<1>5. drawn'[l] = q /\ \A m \in Logs : (m # l => drawn'[m] = drawn[m]) /\ drawn[m] <= drawn'[m]
    BY <1>1, <1>2 DEF LogsTypeOK
<1>. HIDE DEF q, l
<1>6. LogsTypeOK'
    <2>1. drawn' \in [Logs -> Nat]
        BY <1>1, <1>2 DEF LogsTypeOK
    <2>2. [at |-> "open", seq |-> q, drops |-> dropped] \in AppendRecord
        BY <1>2, <1>3 DEF AppendRecord
    <2>3. append' \in [Appenders -> AppendRecord]
        BY <1>1, <1>2, <2>2 DEF LogsTypeOK
    <2>. QED BY <1>1, <1>2, <2>1, <2>3 DEF LogsTypeOK
<1>7. \A m \in Logs : \A s \in rows[m] : s \in Nat /\ s <= drawn[m]
    BY <1>2 DEF LogsInv, LogsTypeOK, NumbersOK
<1>8. \A v \in Appenders : Open(v) => /\ append[v].seq \in Nat /\ append[v].seq <= drawn[LogOf(v)]
                                      /\ append[v].seq \notin rows[LogOf(v)]
    BY <1>2 DEF LogsInv, LogsTypeOK, NumbersOK, AppendRecord
<1>9. \A v \in Appenders : v # w => Open(v)' = Open(v)
    BY <1>4 DEF Open
<1>10. q = drawn[l] + 1 /\ l = LogOf(w)
    BY DEF q, l
<1>11. NumbersOK'
    <2>1. \A m \in Logs : \A s \in rows'[m] : s <= drawn'[m]
        BY <1>1, <1>2, <1>5, <1>6, <1>7 DEF LogsTypeOK
    <2>2. \A v \in Appenders : Open(v)' =>
              append'[v].seq <= drawn'[LogOf(v)] /\ append'[v].seq \notin rows'[LogOf(v)]
        <3>1. q \notin rows[l] /\ q <= drawn'[l]
            BY <1>2, <1>5, <1>7, <1>10
        <3>2. ASSUME NEW v \in Appenders, v # w, Open(v)
              PROVE  append[v].seq <= drawn'[LogOf(v)] /\ append[v].seq \notin rows[LogOf(v)]
            BY <1>2, <1>5, <1>6, <1>8, <3>2 DEF LogsTypeOK
        <3>. QED BY <1>1, <1>4, <1>9, <1>10, <3>1, <3>2
    <2>3. \A u, v \in Appenders : Open(u)' /\ Open(v)' /\ LogOf(u) = LogOf(v) /\ u # v
              => append'[u].seq # append'[v].seq
        <3>1. ASSUME NEW v \in Appenders, v # w, Open(v), LogOf(v) = l
              PROVE  append[v].seq # q
            BY <1>2, <1>8, <1>10, <3>1
        <3>2. \A u, v \in Appenders : Open(u) /\ Open(v) /\ LogOf(u) = LogOf(v) /\ u # v
              => append[u].seq # append[v].seq
            BY DEF LogsInv, NumbersOK
        <3>. QED BY <1>4, <1>9, <1>10, <3>1, <3>2
    <2>4. \A v \in Appenders : \A s \in append'[v].drops : s + MAX_EVENTS <= drawn'[LogOf(v)]
        <3>1. ASSUME NEW v \in Appenders, v # w, NEW s \in append[v].drops
              PROVE  s + MAX_EVENTS <= drawn'[LogOf(v)]
            <4>1. s \in Nat /\ MAX_EVENTS \in Nat
                BY <1>2, LogsAssumption DEF LogsTypeOK, AppendRecord
            <4>2. s + MAX_EVENTS <= drawn[LogOf(v)]
                BY DEF LogsInv, NumbersOK
            <4>3. drawn[LogOf(v)] <= drawn'[LogOf(v)] /\ drawn[LogOf(v)] \in Nat
                  /\ drawn'[LogOf(v)] \in Nat
                BY <1>2, <1>5, <1>6 DEF LogsTypeOK
            <4>. QED BY <4>1, <4>2, <4>3
        <3>. QED BY <1>3, <1>4, <1>5, <1>10, <3>1
    <2>. QED BY <2>1, <2>2, <2>3, <2>4 DEF NumbersOK
<1>12. MutationsOK'
    <2>1. CASE w \in Admins
        <3>1. mutating = {} /\ mutating' = {w}
            BY <1>1, <2>1 DEF Mutates
        <3>. QED BY <1>4, <1>9, <3>1 DEF LogsInv, MutationsOK, Open
    <2>2. CASE w \notin Admins
        <3>1. mutating' = mutating
            BY <1>1, <2>2 DEF Mutates
        <3>. QED BY <1>9, <2>2, <3>1 DEF LogsInv, MutationsOK
    <2>. QED BY <2>1, <2>2
<1>13. ASSUME NEW n \in Nat, Passed(n) PROVE Passed(n)'
    <2>1. n <= drawn'["agent"]
        BY <1>2, <1>5, <1>6, <1>13 DEF Passed, LogsTypeOK
    <2>2. w \in Admins => n < q
        BY <1>2, <1>10, <1>13 DEF Passed
    <2>. QED BY <1>4, <1>9, <1>13, <2>1, <2>2 DEF Passed
<1>14. ReadersOK'
    <2>1. \A s \in rows["agent"] : s \in Nat
        BY <1>7
    <2>2. \A p \in Pages : view[p].seq \in Nat
        BY <1>2 DEF LogsTypeOK, ViewRecord
    <2>3. \A p \in Pages, k \in Polls : PageOK(p, k)'
        BY <1>1, <1>13 DEF LogsInv, ReadersOK, PageOK
    <2>. QED BY <1>1, <1>13, <2>1, <2>2, <2>3 DEF LogsInv, ReadersOK
<1>15. FollowsOK'
    BY <1>1 DEF LogsInv, FollowsOK, HasNoGap
<1>16. WalkOK'
    <2>. SUFFICES ASSUME walk.at # "none" PROVE WalkOK'
        BY <1>1 DEF WalkOK
    <2>1. walk.log \in Logs /\ walk.there \in SUBSET Nat
        BY <1>2 DEF LogsTypeOK, WalkRecord
    <2>2. \A s \in walk.there : s <= drawn[walk.log]
        BY DEF LogsInv, WalkOK
    <2>3. \A s \in walk.there : s \in Nat /\ s <= drawn'[walk.log]
        <3>1. drawn[walk.log] <= drawn'[walk.log] /\ drawn[walk.log] \in Nat /\ drawn'[walk.log] \in Nat
            BY <1>2, <1>5, <1>6, <2>1 DEF LogsTypeOK
        <3>. QED BY <2>1, <2>2, <3>1
    <2>4. l = walk.log => q \notin walk.there
        BY <1>2, <1>10, <2>1, <2>2
    <2>5. \A v \in Appenders : Open(v)' /\ LogOf(v) = walk.log => append'[v].seq \notin walk.there
        BY <1>4, <1>9, <1>10, <2>4 DEF LogsInv, WalkOK
    <2>. QED BY <1>1, <2>3, <2>5 DEF LogsInv, WalkOK
<1>. QED BY <1>6, <1>11, <1>12, <1>14, <1>15, <1>16 DEF LogsInv

(* The transaction ends; a row it leaves is above every reader.            *)
LEMMA AppendEndsKeeps == ASSUME LogsInv, NEW w \in Appenders, AppendEnds(w) PROVE LogsInv'
<1>. USE LogNames
<1>. DEFINE l == LogOf(w)
<1>1. PICK q \in Nat : q = append[w].seq
    BY DEF LogsInv, LogsTypeOK, AppendRecord
<1>2. /\ Open(w) /\ append' = [append EXCEPT ![w] = IdleAppend] /\ mutating' = mutating \ {w}
      /\ UNCHANGED <<drawn, view, poll, walk, shows>>
    BY DEF AppendEnds, Open
<1>3. /\ LogsTypeOK /\ l \in Logs
      /\ append \in [Appenders -> AppendRecord] /\ rows \in [Logs -> SUBSET Nat]
    BY DEF LogsInv, LogsTypeOK, AppendRecord
<1>4. rows' \in [Logs -> SUBSET Nat]
    BY <1>1, <1>3 DEF AppendEnds
<1>5. \A m \in Logs : \A s \in rows'[m] : s \in rows[m] \/ (m = l /\ s = q)
    BY <1>1, <1>3 DEF AppendEnds
<1>6. append'[w] = IdleAppend /\ ~Open(w)' /\ \A v \in Appenders : v # w => append'[v] = append[v]
    BY <1>2, <1>3 DEF Open, IdleAppend
<1>7. \A v \in Appenders : Open(v)' <=> Open(v) /\ v # w
    BY <1>6 DEF Open
<1>8. q <= drawn[l] /\ q \notin rows[l]
    BY <1>1, <1>2 DEF LogsInv, NumbersOK
<1>. HIDE DEF l
<1>9. l = LogOf(w) /\ q = append[w].seq
    BY <1>1 DEF l
<1>10. LogsTypeOK'
    <2>1. append' \in [Appenders -> AppendRecord]
        BY <1>2, <1>3 DEF IdleAppend, AppendRecord
    <2>. QED BY <1>2, <1>3, <1>4, <2>1 DEF LogsTypeOK
<1>11. NumbersOK'
    <2>1. \A m \in Logs : \A s \in rows'[m] : s <= drawn'[m]
        BY <1>2, <1>5, <1>8 DEF LogsInv, NumbersOK
    <2>2. \A v \in Appenders : Open(v)' =>
              append'[v].seq <= drawn'[LogOf(v)] /\ append'[v].seq \notin rows'[LogOf(v)]
        BY <1>2, <1>5, <1>6, <1>7, <1>9 DEF LogsInv, NumbersOK
    <2>3. \A u, v \in Appenders : Open(u)' /\ Open(v)' /\ LogOf(u) = LogOf(v) /\ u # v
              => append'[u].seq # append'[v].seq
        BY <1>6, <1>7 DEF LogsInv, NumbersOK
    <2>4. \A v \in Appenders : \A s \in append'[v].drops : s + MAX_EVENTS <= drawn'[LogOf(v)]
        BY <1>2, <1>6 DEF LogsInv, NumbersOK, IdleAppend
    <2>. QED BY <2>1, <2>2, <2>3, <2>4 DEF NumbersOK
<1>12. MutationsOK'
    BY <1>2, <1>7 DEF LogsInv, MutationsOK
<1>13. ASSUME NEW n, Passed(n) PROVE Passed(n)'
    BY <1>2, <1>6, <1>7, <1>13 DEF Passed
<1>14. w \in Admins => Passed(q)' /\ \A v \in Admins : ~Open(v)'
    BY <1>2, <1>7, <1>8, <1>9 DEF LogsInv, MutationsOK, Passed
<1>15. \A s \in rows'["agent"] : s \in rows["agent"] \/ (w \in Admins /\ s = q)
    BY <1>5, <1>9
<1>16. ASSUME NEW n \in Nat, Passed(n), w \in Admins PROVE n < q
    BY <1>2, <1>9, <1>16 DEF Passed
<1>17. ReadersOK'
    <2>1. \A s \in rows'["agent"] : Passed(s)'
        <3>1. ASSUME NEW s \in rows["agent"] PROVE Passed(s)'
            <4>1. Passed(s)
                BY DEF LogsInv, ReadersOK
            <4>. QED BY <1>13, <4>1
        <3>2. w \in Admins => Passed(q)'
            BY <1>14
        <3>. QED BY <1>15, <3>1, <3>2 DEF Passed
    <2>2. \A p \in Pages : Passed(view[p].seq)'
        BY <1>2, <1>13 DEF LogsInv, ReadersOK
    <2>3. \A p \in Pages, k \in Polls : PageOK(p, k)'
        <3>. SUFFICES ASSUME NEW p \in Pages, NEW k \in Polls, poll[p][k].at = "answered"
                      PROVE  PageOK(p, k)'
            BY <1>2 DEF PageOK
        <3>1. PageOK(p, k)
            BY DEF LogsInv, ReadersOK
        <3>. DEFINE page == poll[p][k].page[1]
        <3>2. page \in SUBSET Nat /\ poll'[p][k] = poll[p][k]
            BY <1>2, <3>1 DEF PageOK
        <3>3. \A x \in page : /\ Passed(x)
                              /\ \A s \in rows["agent"] : poll[p][k].since < s /\ s <= x => s \in page
            BY <3>1 DEF PageOK
        <3>. HIDE DEF page
        <3>4. \A x \in page : Passed(x)'
            BY <1>13, <3>3
        <3>5. ASSUME NEW x \in page, NEW s \in rows'["agent"], poll[p][k].since < s, s <= x
              PROVE  s \in page
            <4>1. CASE s \in rows["agent"]
                BY <3>3, <3>5, <4>1
            <4>2. CASE w \in Admins /\ s = q
                <5>1. x < q /\ x \in Nat
                    BY <1>16, <3>2, <3>3, <4>2
                <5>. QED BY <1>3, <3>5, <4>2, <5>1
            <4>. QED BY <1>15, <4>1, <4>2
        <3>6. poll'[p][k].page[1] = page /\ poll'[p][k].since = poll[p][k].since
            BY <3>2 DEF page
        <3>. QED BY <3>2, <3>4, <3>5, <3>6 DEF PageOK, Passed
    <2>. QED BY <1>2, <2>1, <2>2, <2>3 DEF ReadersOK
<1>18. FollowsOK'
    <2>. SUFFICES ASSUME NEW p \in Pages \ {"chat"}
                  PROVE  /\ HasNoGap(p)'
                         /\ \A k \in Polls : poll'[p][k].at # "idle" => poll'[p][k].since <= view'[p].seq
        BY DEF FollowsOK
    <2>1. view[p].seq \in Nat /\ Passed(view[p].seq) /\ view' = view
        BY <1>2, <1>3 DEF LogsInv, LogsTypeOK, ReadersOK, ViewRecord
    <2>2. HasNoGap(p)
        BY DEF LogsInv, FollowsOK
    <2>3. ASSUME NEW s \in rows'["agent"], s <= view[p].seq PROVE s \in view[p].events
        <3>1. CASE s \in rows["agent"]
            BY <2>2, <2>3, <3>1 DEF HasNoGap
        <3>2. CASE w \in Admins /\ s = q
            <4>1. view[p].seq < q /\ q \in Nat
                BY <1>3, <1>16, <2>1, <3>2
            <4>. QED BY <2>1, <2>3, <3>2, <4>1
        <3>. QED BY <1>15, <3>1, <3>2
    <2>. QED BY <1>2, <2>1, <2>3 DEF HasNoGap, LogsInv, FollowsOK
<1>19. WalkOK'
    <2>. SUFFICES ASSUME walk.at # "none" PROVE WalkOK'
        BY <1>2 DEF WalkOK
    <2>1. WalkOK /\ walk' = walk /\ walk.log \in Logs
        BY <1>2, <1>3 DEF LogsInv, LogsTypeOK, WalkRecord
    <2>2. walk.there \cap rows'[walk.log] \subseteq rows[walk.log]
        BY <1>2, <1>5, <1>9, <2>1 DEF WalkOK
    <2>3. \A v \in Appenders : Open(v)' /\ LogOf(v) = walk.log => append'[v].seq \notin walk.there
        BY <1>6, <1>7, <2>1 DEF WalkOK
    <2>. QED BY <1>2, <2>1, <2>2, <2>3 DEF WalkOK
<1>. QED BY <1>10, <1>11, <1>12, <1>17, <1>18, <1>19 DEF LogsInv

(* A reader's step changes no log: what a poll or a page has left holds.   *)
LEMMA ReadersKeep ==
    ASSUME LogsInv, UNCHANGED <<drawn, rows, append, mutating, walk>>,
           view' \in [Pages -> ViewRecord], poll' \in [Pages -> [Polls -> PollRecord]],
           \A p \in Pages : Passed(view'[p].seq),
           \A p \in Pages, k \in Polls : PageOK(p, k)',
           FollowsOK'
    PROVE  LogsInv'
<1>1. LogsTypeOK'
    BY DEF LogsInv, LogsTypeOK
<1>2. NumbersOK' /\ MutationsOK' /\ WalkOK'
    BY DEF LogsInv, NumbersOK, MutationsOK, WalkOK, Open
<1>3. \A n : Passed(n)' <=> Passed(n)
    BY DEF Passed, Open
<1>4. ReadersOK'
    BY <1>3 DEF LogsInv, ReadersOK
<1>. QED BY <1>1, <1>2, <1>4 DEF LogsInv

(* One poll's step that leaves the views as they are.                      *)
LEMMA OnePoll ==
    ASSUME LogsInv, NEW p \in Pages, NEW k \in Polls, NEW r \in PollRecord,
           UNCHANGED <<drawn, rows, append, mutating, view, walk>>,
           poll' = [poll EXCEPT ![p][k] = r],
           PageOK(p, k)',
           r.at # "idle" => \/ r.since = poll[p][k].since /\ poll[p][k].at # "idle"
                            \/ r.since = view[p].seq
    PROVE  LogsInv'
<1>1. poll \in [Pages -> [Polls -> PollRecord]] /\ view \in [Pages -> ViewRecord]
    BY DEF LogsInv, LogsTypeOK
<1>2. /\ poll' \in [Pages -> [Polls -> PollRecord]] /\ poll'[p][k] = r
      /\ \A o \in Pages, j \in Polls : ~(o = p /\ j = k) => poll'[o][j] = poll[o][j]
    <2>. DEFINE f == [poll[p] EXCEPT ![k] = r]
    <2>1. f \in [Polls -> PollRecord] /\ f[k] = r /\ \A j \in Polls : j # k => f[j] = poll[p][j]
        BY <1>1
    <2>2. poll' = [poll EXCEPT ![p] = f]
        OBVIOUS
    <2>. HIDE DEF f
    <2>. QED BY <1>1, <2>1, <2>2
<1>3. \A n : Passed(n)' <=> Passed(n)
    BY DEF Passed, Open
<1>4. \A o \in Pages, j \in Polls : PageOK(o, j)'
    <2>. SUFFICES ASSUME NEW o \in Pages, NEW j \in Polls, ~(o = p /\ j = k) PROVE PageOK(o, j)'
        OBVIOUS
    <2>1. PageOK(o, j) /\ poll'[o][j] = poll[o][j]
        BY <1>2 DEF LogsInv, ReadersOK
    <2>. QED BY <1>3, <2>1 DEF PageOK
<1>5. FollowsOK'
    <2>. SUFFICES ASSUME NEW o \in Pages \ {"chat"}
                  PROVE  /\ HasNoGap(o)'
                         /\ \A j \in Polls : poll'[o][j].at # "idle" => poll'[o][j].since <= view'[o].seq
        BY DEF FollowsOK
    <2>1. HasNoGap(o)'
        BY DEF LogsInv, FollowsOK, HasNoGap
    <2>2. \A j \in Polls : poll[o][j].at # "idle" => poll[o][j].since <= view[o].seq
        BY DEF LogsInv, FollowsOK
    <2>3. view[o].seq \in Nat
        BY <1>1 DEF ViewRecord
    <2>4. \A j \in Polls : poll'[o][j].at # "idle" => poll'[o][j].since <= view[o].seq
        BY <1>2, <2>2, <2>3
    <2>. QED BY <2>1, <2>4
<1>6. \A o \in Pages : Passed(view'[o].seq)
    BY DEF LogsInv, ReadersOK
<1>. QED BY <1>1, <1>2, <1>4, <1>5, <1>6, ReadersKeep

LEMMA PollStartsKeeps ==
    ASSUME LogsInv, NEW p \in Pages, NEW k \in Polls, PollStarts(p, k) \/ PollFails(p, k)
    PROVE  LogsInv'
<1>1. view[p].seq \in Nat /\ poll \in [Pages -> [Polls -> PollRecord]]
    BY DEF LogsInv, LogsTypeOK, ViewRecord
<1>2. ASSUME PollStarts(p, k) PROVE LogsInv'
    <2>. DEFINE r == [at |-> "sent", since |-> view[p].seq, page |-> <<>>]
    <2>1. r \in PollRecord
        BY <1>1 DEF PollRecord
    <2>2. poll' = [poll EXCEPT ![p][k] = r] /\ UNCHANGED <<drawn, rows, append, mutating, view, walk>>
        BY <1>2 DEF PollStarts, Sends
    <2>3. PageOK(p, k)'
        BY <1>1, <2>2 DEF PageOK
    <2>. QED BY <2>1, <2>2, <2>3, OnePoll
<1>3. ASSUME PollFails(p, k) PROVE LogsInv'
    <2>1. IdlePoll \in PollRecord /\ IdlePoll.at = "idle"
        BY DEF PollRecord, IdlePoll
    <2>2. poll' = [poll EXCEPT ![p][k] = IdlePoll]
          /\ UNCHANGED <<drawn, rows, append, mutating, view, walk>>
        BY <1>3 DEF PollFails
    <2>3. PageOK(p, k)'
        BY <1>1, <2>1, <2>2 DEF PageOK
    <2>. QED BY <2>1, <2>2, <2>3, OnePoll
<1>. QED BY <1>2, <1>3

(* The page is the oldest rows after the cursor: none of them is left out. *)
LEMMA PageKeeps ==
    ASSUME LogsInv, NEW p \in Pages, NEW k \in Polls, PageThreadEvents(p, k)
    PROVE  LogsInv'
<1>. DEFINE S == {s \in rows["agent"] : s > poll[p][k].since}
            page == FirstOf(S)
            r == [poll[p][k] EXCEPT !.at = "answered", !.page = <<page>>]
<1>1. poll[p][k] \in PollRecord /\ poll \in [Pages -> [Polls -> PollRecord]]
      /\ rows["agent"] \in SUBSET Nat /\ drawn["agent"] \in Nat
    BY LogNames DEF LogsInv, LogsTypeOK
<1>2. S \in SUBSET Nat /\ \A m \in S : m <= drawn["agent"]
    BY <1>1, LogNames DEF LogsInv, NumbersOK
<1>3. page \in SUBSET S
    BY DEF FirstOf
<1>4. \A x \in page, s \in S : s <= x => s \in page
    <2>. HIDE DEF S
    <2>. QED BY <1>1, <1>2, FirstIsFirst
<1>5. poll[p][k].at = "sent" /\ UNCHANGED <<drawn, rows, append, mutating, view, walk>>
    BY DEF PageThreadEvents
<1>6. poll' = [poll EXCEPT ![p][k] = r]
    <2>1. poll' = [poll EXCEPT ![p] = [poll[p] EXCEPT ![k] = r]]
        BY <1>1 DEF PageThreadEvents
    <2>. HIDE DEF page, r
    <2>. QED BY <1>1, <2>1
<1>7. poll'[p][k] = r
    BY <1>1, <1>6
<1>. HIDE DEF page
<1>8. r \in PollRecord
    <2>1. <<page>> \in Seq(SUBSET Nat)
        BY <1>2, <1>3
    <2>. HIDE DEF S
    <2>. QED BY <1>1, <2>1 DEF PollRecord
<1>9. r.page[1] = page /\ r.since = poll[p][k].since /\ r.at = "answered"
    BY <1>1 DEF PollRecord
<1>10. \A x \in page : Passed(x)
    BY <1>3 DEF LogsInv, ReadersOK
<1>11. \A x \in page, s \in rows["agent"] : poll[p][k].since < s /\ s <= x => s \in page
    <2>1. \A s \in rows["agent"] : s \in Nat /\ poll[p][k].since \in Nat
        BY <1>1 DEF PollRecord
    <2>2. \A s \in rows["agent"] : poll[p][k].since < s => s \in S
        BY <2>1
    <2>. QED BY <1>4, <2>2
<1>. HIDE DEF r, S
<1>12. PageOK(p, k)'
    <2>1. page \in SUBSET Nat
        BY <1>2, <1>3
    <2>2. rows' = rows /\ drawn' = drawn /\ append' = append
        BY <1>5
    <2>. QED BY <1>7, <1>9, <1>10, <1>11, <2>1, <2>2 DEF PageOK, Passed, Open
<1>. QED BY <1>5, <1>6, <1>8, <1>9, <1>12, OnePoll

(* What lies past the cursor of now is taken; nothing is passed over.      *)
LEMMA TakesPageKeeps ==
    ASSUME LogsInv, NEW p \in Pages, NEW k \in Polls, TakesPage(p, k)
    PROVE  LogsInv'
<1>. DEFINE cursor == view[p].seq
            page == poll[p][k].page[1]
            fresh == {s \in page : s > cursor}
            S == fresh \cup {cursor}
            seq == Max(S)
<1>1. /\ view \in [Pages -> ViewRecord] /\ poll \in [Pages -> [Polls -> PollRecord]]
      /\ view[p] \in ViewRecord /\ poll[p][k] \in PollRecord
      /\ cursor \in Nat /\ drawn["agent"] \in Nat /\ rows["agent"] \in SUBSET Nat
    BY LogNames DEF LogsInv, LogsTypeOK, ViewRecord
<1>2. poll[p][k].at = "answered" /\ UNCHANGED <<drawn, rows, append, mutating, walk>>
    BY DEF TakesPage
<1>3. page \in SUBSET Nat /\ \A x \in page : Passed(x)
    BY <1>2 DEF LogsInv, ReadersOK, PageOK
<1>4. \A x \in page, s \in rows["agent"] : poll[p][k].since < s /\ s <= x => s \in page
    BY <1>2 DEF LogsInv, ReadersOK, PageOK
<1>5. Passed(cursor)
    BY DEF LogsInv, ReadersOK
<1>6. S \in SUBSET Nat /\ S # {} /\ \A x \in S : Passed(x) /\ x <= drawn["agent"]
    BY <1>1, <1>3, <1>5 DEF Passed
<1>7. seq \in S /\ \A m \in S : m <= seq
    <2>. HIDE DEF S
    <2>. QED BY <1>1, <1>6, MaxOf
<1>8. view' = [view EXCEPT ![p] = [seq |-> seq, events |-> view[p].events \cup fresh]]
    BY <1>1 DEF TakesPage
<1>9. PICK r \in {IdlePoll, [at |-> "sent", since |-> seq, page |-> <<>>]} :
          poll' = [poll EXCEPT ![p][k] = r]
    BY DEF TakesPage, Sends
<1>. HIDE DEF seq
<1>10. cursor \in S /\ fresh \subseteq page /\ \A s \in page : s > cursor => s \in fresh
    OBVIOUS
<1>11. \A x \in S : x = cursor \/ x \in fresh
    OBVIOUS
<1>. HIDE DEF S, fresh
<1>12. seq \in Nat /\ Passed(seq) /\ cursor <= seq
    BY <1>6, <1>7, <1>10
<1>13. r \in PollRecord /\ r.at # "answered" /\ (r.at # "idle" => r.since = seq)
    <2>1. IdlePoll \in PollRecord /\ IdlePoll.at = "idle"
        BY DEF PollRecord, IdlePoll
    <2>2. CASE r = [at |-> "sent", since |-> seq, page |-> <<>>]
        BY <1>12, <2>2 DEF PollRecord
    <2>. QED BY <2>1, <2>2
<1>14. /\ poll' \in [Pages -> [Polls -> PollRecord]] /\ poll'[p][k] = r
       /\ \A o \in Pages, j \in Polls : ~(o = p /\ j = k) => poll'[o][j] = poll[o][j]
    <2>. DEFINE f == [poll[p] EXCEPT ![k] = r]
    <2>1. f \in [Polls -> PollRecord] /\ f[k] = r /\ \A j \in Polls : j # k => f[j] = poll[p][j]
        BY <1>1, <1>13
    <2>2. poll' = [poll EXCEPT ![p] = f]
        BY <1>9
    <2>. HIDE DEF f
    <2>. QED BY <1>1, <2>1, <2>2
<1>15. /\ view'[p].seq = seq /\ view'[p].events = view[p].events \cup fresh
       /\ \A o \in Pages : o # p => view'[o] = view[o]
    BY <1>1, <1>8
<1>16. view' \in [Pages -> ViewRecord]
    <2>1. [seq |-> seq, events |-> view[p].events \cup fresh] \in ViewRecord
        BY <1>1, <1>3, <1>10, <1>12 DEF ViewRecord
    <2>. QED BY <1>1, <1>8, <2>1
<1>17. \A o \in Pages : Passed(view'[o].seq)
    BY <1>12, <1>15 DEF LogsInv, ReadersOK
<1>18. \A o \in Pages, j \in Polls : PageOK(o, j)'
    <2>. SUFFICES ASSUME NEW o \in Pages, NEW j \in Polls PROVE PageOK(o, j)'
        OBVIOUS
    <2>1. CASE o = p /\ j = k
        BY <1>13, <1>14, <2>1 DEF PageOK
    <2>2. CASE ~(o = p /\ j = k)
        <3>1. PageOK(o, j) /\ poll'[o][j] = poll[o][j]
            BY <1>14, <2>2 DEF LogsInv, ReadersOK
        <3>. QED BY <1>2, <3>1 DEF PageOK, Passed, Open
    <2>. QED BY <2>1, <2>2
<1>19. FollowsOK'
    <2>. SUFFICES ASSUME NEW o \in Pages \ {"chat"}
                  PROVE  /\ HasNoGap(o)'
                         /\ \A j \in Polls : poll'[o][j].at # "idle" => poll'[o][j].since <= view'[o].seq
        BY DEF FollowsOK
    <2>1. HasNoGap(o) /\ \A j \in Polls : poll[o][j].at # "idle" => poll[o][j].since <= view[o].seq
        BY DEF LogsInv, FollowsOK
    <2>2. CASE o # p
        BY <1>2, <1>14, <1>15, <2>1, <2>2 DEF HasNoGap
    <2>3. CASE o = p
        <3>1. ASSUME NEW s \in rows["agent"], s <= seq PROVE s \in view[p].events \cup fresh
            <4>1. CASE s <= cursor
                BY <2>1, <2>3, <3>1, <4>1 DEF HasNoGap
            <4>2. CASE ~(s <= cursor)
                <5>1. s \in Nat /\ cursor < s /\ seq \in fresh
                    BY <1>1, <1>7, <1>11, <1>12, <3>1, <4>2
                <5>2. poll[p][k].since \in Nat /\ poll[p][k].since <= cursor
                    BY <1>1, <1>2, <2>1, <2>3 DEF PollRecord
                <5>3. poll[p][k].since < s
                    BY <1>1, <5>1, <5>2
                <5>4. s \in page
                    BY <1>4, <1>10, <3>1, <5>1, <5>3
                <5>. QED BY <1>1, <1>10, <5>1, <5>4
            <4>. QED BY <4>1, <4>2
        <3>2. HasNoGap(o)'
            BY <1>2, <1>15, <2>3, <3>1 DEF HasNoGap
        <3>3. \A j \in Polls : j # k /\ poll'[o][j].at # "idle" => poll'[o][j].since <= seq
            <4>1. \A j \in Polls : poll[o][j].since \in Nat
                BY <1>1 DEF PollRecord
            <4>. QED BY <1>1, <1>12, <1>14, <2>1, <2>3, <4>1
        <3>4. poll'[o][k].at # "idle" => poll'[o][k].since <= seq
            BY <1>12, <1>13, <1>14, <2>3
        <3>. QED BY <1>15, <2>3, <3>2, <3>3, <3>4
    <2>. QED BY <2>2, <2>3
<1>. QED BY <1>2, <1>14, <1>16, <1>17, <1>18, <1>19, ReadersKeep

(* The chat's page starts over; the conversation's does not.               *)
LEMMA ShowThreadKeeps == ASSUME LogsInv, ShowThread PROVE LogsInv'
<1>1. /\ view' = [view EXCEPT !["chat"] = [seq |-> 0, events |-> {}]]
      /\ UNCHANGED <<drawn, rows, append, mutating, poll, walk>>
    BY DEF ShowThread
<1>2. view \in [Pages -> ViewRecord] /\ poll \in [Pages -> [Polls -> PollRecord]]
    BY DEF LogsInv, LogsTypeOK
<1>3. view' \in [Pages -> ViewRecord]
    BY <1>1, <1>2 DEF ViewRecord
<1>4. \A p \in Pages : p # "chat" => view'[p] = view[p]
    BY <1>1, <1>2
<1>5. Passed(0)
    <2>1. ASSUME NEW w \in Admins, Open(w) PROVE 0 < append[w].seq
        <3>1. PICK n \in Nat : n = append[w].seq
            BY LogNames DEF LogsInv, LogsTypeOK, AppendRecord
        <3>2. \A p \in Pages : view[p].seq \in Nat /\ view[p].seq < n
            BY <1>2, <2>1, <3>1 DEF LogsInv, ReadersOK, Passed, ViewRecord
        <3>3. "chat" \in Pages
            BY DEF ShowThread
        <3>4. 0 < n
            BY <3>2, <3>3
        <3>. QED BY <3>1, <3>4
    <2>2. 0 <= drawn["agent"]
        BY LogNames DEF LogsInv, LogsTypeOK
    <2>. QED BY <2>1, <2>2 DEF Passed
<1>6. \A p \in Pages : Passed(view'[p].seq)
    <2>1. "chat" \in Pages => view'["chat"].seq = 0
        BY <1>1, <1>2
    <2>. QED BY <1>4, <1>5, <2>1 DEF LogsInv, ReadersOK
<1>7. \A p \in Pages, k \in Polls : PageOK(p, k)'
    BY <1>1 DEF LogsInv, ReadersOK, PageOK, Passed, Open
<1>8. FollowsOK'
    BY <1>1, <1>4 DEF LogsInv, FollowsOK, HasNoGap
<1>. QED BY <1>1, <1>2, <1>3, <1>6, <1>7, <1>8, ReadersKeep

(* A walk's step is seen by nobody else.                                   *)
LEMMA WalkKeeps ==
    ASSUME LogsInv, walk' \in WalkRecord, WalkOK',
           UNCHANGED <<drawn, rows, append, mutating, view, poll>>
    PROVE  LogsInv'
<1>1. LogsTypeOK' /\ NumbersOK' /\ MutationsOK'
    BY DEF LogsInv, LogsTypeOK, NumbersOK, MutationsOK, Open
<1>2. ReadersOK' /\ FollowsOK'
    BY DEF LogsInv, ReadersOK, FollowsOK, PageOK, Passed, HasNoGap, Open
<1>. QED BY <1>1, <1>2 DEF LogsInv

LEMMA WalkStartsKeeps == ASSUME LogsInv, WalkStarts PROVE LogsInv'
<1>1. PICK l \in Logs : walk' = [NoWalk EXCEPT !.at = "first", !.log = l, !.there = rows[l]]
    BY DEF WalkStarts
<1>2. rows[l] \in SUBSET Nat /\ UNCHANGED <<drawn, rows, append, mutating, view, poll>>
    BY DEF WalkStarts, LogsInv, LogsTypeOK
<1>3. walk' \in WalkRecord /\ walk'.at = "first" /\ walk'.log = l /\ walk'.there = rows[l]
    BY <1>1, <1>2 DEF WalkRecord, NoWalk
<1>4. WalkOK'
    BY <1>2, <1>3 DEF WalkOK, LogsInv, NumbersOK, Open
<1>. QED BY <1>2, <1>3, <1>4, WalkKeeps

LEMMA WalksOnKeeps == ASSUME LogsInv, WalksOn PROVE LogsInv'
<1>. DEFINE S == {s \in rows[walk.log] : walk.at = "first" \/ s < walk.before}
            page == LastOf(S)
<1>1. /\ walk \in WalkRecord /\ walk.log \in Logs /\ walk.before \in Nat
      /\ drawn[walk.log] \in Nat /\ rows[walk.log] \in SUBSET Nat
    BY DEF LogsInv, LogsTypeOK, WalkRecord
<1>2. walk.at \in {"first", "on"} /\ UNCHANGED <<drawn, rows, append, mutating, view, poll>>
    BY DEF WalksOn
<1>3. walk' = [walk EXCEPT !.at = IF page = {} THEN "done" ELSE "on",
                           !.before = IF page = {} THEN @ ELSE Min(page),
                           !.shown = @ \cup page]
    BY DEF WalksOn, PageBefore
<1>4. S \in SUBSET Nat /\ \A m \in S : m <= drawn[walk.log]
    BY <1>1 DEF LogsInv, NumbersOK
<1>5. page \in SUBSET S
    BY DEF LastOf
<1>6. page = {} => S = {}
    <2>. HIDE DEF S
    <2>. QED BY <1>1, <1>4, LastIsSome
<1>7. \A x \in page, s \in S : x <= s => s \in page
    <2>. HIDE DEF S
    <2>. QED BY <1>1, <1>4, LastIsLast
<1>8. page # {} => Min(page) \in page /\ \A m \in page : Min(page) <= m
    <2>. HIDE DEF page, S
    <2>. QED BY <1>4, <1>5, MinOf
<1>9. ASSUME NEW s \in walk.there \cap rows[walk.log] PROVE s \in S \/ s \in walk.shown
    <2>1. s \in Nat
        BY <1>1
    <2>2. CASE walk.at = "first"
        BY <2>2
    <2>3. CASE walk.at = "on"
        BY <1>1, <2>1, <2>3 DEF LogsInv, WalkOK
    <2>. QED BY <1>2, <2>2, <2>3
<1>. HIDE DEF S, page
<1>10. /\ walk'.log = walk.log /\ walk'.there = walk.there /\ walk'.shown = walk.shown \cup page
       /\ walk'.at = (IF page = {} THEN "done" ELSE "on")
       /\ walk'.before = (IF page = {} THEN walk.before ELSE Min(page))
    BY <1>1, <1>3 DEF WalkRecord
<1>11. page \in SUBSET Nat /\ (page # {} => Min(page) \in Nat)
    BY <1>4, <1>5, <1>8
<1>12. walk' \in WalkRecord
    BY <1>1, <1>3, <1>11 DEF WalkRecord
<1>13. WalkOK'
    <2>1. \A s \in walk.there : s <= drawn[walk.log]
        BY <1>2 DEF LogsInv, WalkOK
    <2>2. \A w \in Appenders : Open(w) /\ LogOf(w) = walk.log => append[w].seq \notin walk.there
        BY <1>2 DEF LogsInv, WalkOK
    <2>3. CASE page = {}
        <3>1. walk'.at = "done" /\ walk.there \cap rows[walk.log] \subseteq walk'.shown
            BY <1>6, <1>9, <1>10, <2>3
        <3>. QED BY <1>2, <1>10, <2>1, <2>2, <3>1 DEF WalkOK, Open
    <2>4. CASE page # {}
        <3>. DEFINE low == Min(page)
        <3>1. walk'.at = "on" /\ walk'.before = low /\ low \in page
            BY <1>8, <1>10, <2>4
        <3>. HIDE DEF low
        <3>2. \A s \in walk.there \cap rows[walk.log] : low <= s => s \in walk'.shown
            BY <1>7, <1>9, <1>10, <3>1
        <3>. QED BY <1>2, <1>10, <2>1, <2>2, <3>1, <3>2 DEF WalkOK, Open
    <2>. QED BY <2>3, <2>4
<1>. QED BY <1>2, <1>12, <1>13, WalkKeeps

LEMMA LogsStep == LogsInv /\ [LogsNext]_logVars => LogsInv'
<1>. SUFFICES ASSUME LogsInv, [LogsNext]_logVars PROVE LogsInv'
    OBVIOUS
<1>1. CASE UNCHANGED logVars
    <2>1. walk' \in WalkRecord /\ WalkOK'
        BY <1>1 DEF logVars, LogsInv, LogsTypeOK, WalkOK, Open
    <2>. QED BY <1>1, <2>1, WalkKeeps DEF logVars
<1>2. ASSUME NEW p \in Pages, NEW k \in Polls,
             PollStarts(p, k) \/ PageThreadEvents(p, k) \/ TakesPage(p, k) \/ PollFails(p, k)
      PROVE  LogsInv'
    BY <1>2, PollStartsKeeps, PageKeeps, TakesPageKeeps
<1>. QED BY <1>1, <1>2, AppendsKeeps, AppendEndsKeeps, ShowThreadKeeps, WalkStartsKeeps, WalksOnKeeps
         DEF LogsNext

(* No event is committed under a number the conversation's reader has      *)
(* passed, however polls overlap and transactions fail.                    *)
THEOREM ConversationIsWhole == LogsSpec => []ConversationHasNoGap
<1>1. LogsInv => ConversationHasNoGap
    BY DEF LogsInv, FollowsOK, ConversationHasNoGap, HasNoGap
<1>. QED BY <1>1, LogsInvInit, LogsStep, PTL DEF LogsSpec

(* A log walked to its end has shown what was there and is still kept, and *)
(* pruning never takes one of the newest MAX_EVENTS numbers.               *)
THEOREM WalkIsWhole == LogsSpec => []WalkShowsAll
<1>1. LogsInv => WalkShowsAll
    BY DEF LogsInv, WalkOK, NumbersOK, WalkShowsAll
<1>. QED BY <1>1, LogsInvInit, LogsStep, PTL DEF LogsSpec

-----------------------------------------------------------------------------
(* Media on its way from the provider to the agent                         *)

CallPlaces == {"none", "describe", "upload", "create", "created", "poll", "lookup", "open",
               "relay", "sent", "done"}
RenderRecord == [status : {"none", "running", "succeeded", "failed"}, source : SUBSET Media,
                 length : Nat, told : BOOLEAN]
CallRecord == [at : CallPlaces, source : SUBSET Media, kind : SUBSET Media,
               task : SUBSET Renders, audit : {"none", "executed", "failed"}]
RelayRecord == [declared : Nat, read : Nat, held : Nat, sent : Nat, open : BOOLEAN]
ShimRecord == [at : {"idle", "stages", "waits", "writes", "linked", "gone"}, got : Nat, calls : Nat,
               stages : SUBSET Media]
FileRecord == [by : Shims, call : Nat, of : SUBSET Renders, chunks : Nat,
               name : {"temporary", "final"}]

BridgeTypeOK ==
    /\ render \in [Renders -> RenderRecord]
    /\ staged \in [Media -> {"none", "ready", "used", "expired"}]
    /\ handler \in [Shims -> CallRecord]
    /\ relay \in [Shims -> RelayRecord]
    /\ shim \in [Shims -> ShimRecord]
    /\ assets \subseteq FileRecord

(* What a call holds: a task the agent was given, or the one just made.    *)
CallOK(s) ==
    /\ handler[s].at # "done" => handler[s].audit = "none"
    /\ handler[s].at \notin {"relay", "sent", "done"} => ~relay[s].open
    /\ handler[s].at \in {"lookup", "open", "relay"} \/ relay[s].open
          => \E r \in Renders : handler[s].task = {r} /\ render[r].told
    /\ handler[s].at = "created"
          => \E r \in Renders : /\ handler[s].task = {r}
                                /\ render[r].status # "none"
                                /\ render[r].source = handler[s].source
    /\ handler[s].source = {} \/ \E m \in Media : handler[s].source = {m}

(* A stream has its declared length out only when that is the video's.     *)
StreamOK(s) ==
    /\ relay[s].open =>
          \/ relay[s].sent < relay[s].declared
          \/ /\ relay[s].sent = relay[s].declared
             /\ handler[s].at \in {"sent", "done"}
             /\ \A r \in handler[s].task : relay[s].declared = render[r].length
    /\ relay[s].open /\ (handler[s].at = "sent" \/ handler[s].audit = "executed")
          => relay[s].sent = relay[s].declared
    /\ handler[s].at = "relay" =>
          /\ relay[s].open /\ relay[s].sent < relay[s].declared
          /\ relay[s].sent + relay[s].held = relay[s].read /\ relay[s].read <= relay[s].declared
          /\ relay[s].held = 0 => relay[s].read = 0
          /\ relay[s].held <= 1

(* The shim has written what it received to its one temporary file.        *)
WriterOK(s) ==
    /\ shim[s].at \in {"writes", "linked"} => relay[s].open /\ shim[s].got <= relay[s].sent
    /\ shim[s].at \in {"idle", "stages", "waits"} => TempOf(s) = {}
    /\ shim[s].at = "waits" => shim[s].got = 0
    /\ shim[s].at = "writes" =>
          \A f \in TempOf(s) : f.of = handler[s].task /\ f.chunks = shim[s].got

FileOK(f) ==
    /\ f.call <= shim[f.by].calls
    /\ f.name = "final" =>
          /\ \A r \in f.of : render[r].status # "none" /\ f.chunks = render[r].length
          /\ f.call = shim[f.by].calls =>
                relay[f.by].open /\ relay[f.by].sent = relay[f.by].declared

RendersOK == \A r \in Renders : render[r].told => render[r].status # "none"

BridgeInv ==
    /\ BridgeTypeOK
    /\ \A s \in Shims : CallOK(s) /\ StreamOK(s) /\ WriterOK(s)
    /\ \A f \in assets : FileOK(f)
    /\ RendersOK
    /\ SourceIsSpentOnce

LEMMA BridgeInvInit == BridgeInit => BridgeInv
<1>. SUFFICES ASSUME BridgeInit PROVE BridgeInv
    OBVIOUS
<1>1. BridgeTypeOK
    <2>1. NoRender \in RenderRecord /\ NoCall \in CallRecord
        BY DEF NoRender, RenderRecord, NoCall, CallRecord, CallPlaces
    <2>2. NoRelay \in RelayRecord /\ IdleShim \in ShimRecord
        BY DEF NoRelay, RelayRecord, IdleShim, ShimRecord
    <2>. QED BY <2>1, <2>2 DEF BridgeInit, BridgeTypeOK
<1>2. \A s \in Shims : CallOK(s) /\ StreamOK(s) /\ WriterOK(s)
    BY DEF BridgeInit, CallOK, StreamOK, WriterOK, TempOf, NoCall, NoRelay, IdleShim
<1>3. RendersOK /\ SourceIsSpentOnce /\ assets = {}
    BY DEF BridgeInit, RendersOK, SourceIsSpentOnce, NoRender
<1>. QED BY <1>1, <1>2, <1>3 DEF BridgeInv

(* A rendering that was made keeps its length and its source.              *)
RendersKept ==
    \A r \in Renders :
        /\ render[r].status # "none" =>
              /\ render'[r].status # "none"
              /\ render'[r].length = render[r].length /\ render'[r].source = render[r].source
        /\ render[r].told => render'[r].told

LEMMA SameRenders == UNCHANGED render => RendersKept
BY DEF RendersKept

(* A step of one call, and of the provider: no shim and no stream moves.   *)
LEMMA OneCall ==
    ASSUME BridgeInv, BridgeTypeOK', NEW s \in Shims, RendersKept, RendersOK', SourceIsSpentOnce',
           UNCHANGED <<relay, shim, assets>>,
           \A v \in Shims : v # s => handler'[v] = handler[v],
           relay[s].open => handler'[s].task = handler[s].task,
           CallOK(s)', StreamOK(s)'
    PROVE  BridgeInv'
<1>1. \A v \in Shims : relay[v].open => \E r \in Renders : handler[v].task = {r} /\ render[r].told
    BY DEF BridgeInv, CallOK
<1>2. \A r \in Renders : render[r].told => render[r].status # "none"
    BY DEF BridgeInv, RendersOK
<1>3. ASSUME NEW v \in Shims, v # s PROVE CallOK(v)' /\ StreamOK(v)'
    <2>1. CallOK(v) /\ StreamOK(v) /\ handler'[v] = handler[v]
        BY <1>3 DEF BridgeInv
    <2>2. CallOK(v)'
        BY <2>1 DEF CallOK, RendersKept
    <2>3. StreamOK(v)'
        <3>1. relay[v].open => \A r \in handler[v].task : render'[r].length = render[r].length
            BY <1>1, <1>2 DEF RendersKept
        <3>. QED BY <2>1, <3>1 DEF StreamOK
    <2>. QED BY <2>2, <2>3
<1>4. ASSUME NEW v \in Shims PROVE WriterOK(v)'
    <2>1. WriterOK(v) /\ TempOf(v)' = TempOf(v)
        BY DEF BridgeInv, TempOf
    <2>2. relay[v].open => handler'[v].task = handler[v].task
        OBVIOUS
    <2>. QED BY <2>1, <2>2 DEF WriterOK
<1>5. ASSUME NEW f \in assets' PROVE FileOK(f)'
    <2>1. FileOK(f) /\ f \in FileRecord
        BY DEF BridgeInv, BridgeTypeOK
    <2>2. f.of \subseteq Renders
        BY <2>1 DEF FileRecord
    <2>. QED BY <2>1, <2>2 DEF FileOK, RendersKept
<1>. QED BY <1>3, <1>4, <1>5 DEF BridgeInv

(* A step of one stream: what has gone out stays out.                      *)
LEMMA OneStream ==
    ASSUME BridgeInv, BridgeTypeOK', NEW s \in Shims, UNCHANGED <<render, staged, shim, assets>>,
           \A v \in Shims : v # s => handler'[v] = handler[v] /\ relay'[v] = relay[v],
           handler'[s].task = handler[s].task,
           relay[s].open => /\ relay'[s].open /\ relay'[s].declared = relay[s].declared
                            /\ relay[s].sent <= relay'[s].sent
                            /\ relay[s].sent = relay[s].declared => relay'[s].sent = relay[s].sent,
           CallOK(s)', StreamOK(s)'
    PROVE  BridgeInv'
<1>1. ASSUME NEW v \in Shims, v # s PROVE CallOK(v)' /\ StreamOK(v)' /\ WriterOK(v)'
    <2>1. CallOK(v) /\ StreamOK(v) /\ WriterOK(v) /\ handler'[v] = handler[v] /\ relay'[v] = relay[v]
        BY <1>1 DEF BridgeInv
    <2>. QED BY <2>1 DEF CallOK, StreamOK, WriterOK, TempOf
<1>2. WriterOK(s)'
    <2>1. WriterOK(s) /\ TempOf(s)' = TempOf(s)
        BY DEF BridgeInv, TempOf
    <2>2. shim[s].got \in Nat /\ relay[s].sent \in Nat /\ relay'[s].sent \in Nat
        BY DEF BridgeInv, BridgeTypeOK, ShimRecord, RelayRecord
    <2>. QED BY <2>1, <2>2 DEF WriterOK
<1>3. \A f \in assets' : FileOK(f)'
    <2>. SUFFICES ASSUME NEW f \in assets PROVE FileOK(f)'
        OBVIOUS
    <2>1. FileOK(f) /\ f.by \in Shims
        BY DEF BridgeInv, BridgeTypeOK, FileRecord
    <2>. QED BY <2>1 DEF FileOK
<1>4. RendersOK' /\ SourceIsSpentOnce'
    BY DEF BridgeInv, RendersOK, SourceIsSpentOnce
<1>. QED BY <1>1, <1>2, <1>3, <1>4 DEF BridgeInv

(* A step of one shim, on its own files.                                   *)
LEMMA OneShim ==
    ASSUME BridgeInv, BridgeTypeOK', NEW s \in Shims, UNCHANGED <<render, handler, relay>>,
           \A v \in Shims : v # s => shim'[v] = shim[v],
           shim'[s].calls = shim[s].calls,
           \A f \in FileRecord : f.by # s => (f \in assets' <=> f \in assets),
           \A f \in assets' : f.by = s => FileOK(f)',
           WriterOK(s)',
           \A m \in Media : staged'[m] = "used" => staged[m] = "used"
    PROVE  BridgeInv'
<1>1. assets \subseteq FileRecord /\ assets' \subseteq FileRecord
    BY DEF BridgeInv, BridgeTypeOK
<1>2. ASSUME NEW v \in Shims PROVE CallOK(v)' /\ StreamOK(v)'
    BY <1>2 DEF BridgeInv, CallOK, StreamOK
<1>3. ASSUME NEW v \in Shims, v # s PROVE WriterOK(v)'
    <2>1. WriterOK(v) /\ shim'[v] = shim[v]
        BY <1>3 DEF BridgeInv
    <2>2. TempOf(v)' = TempOf(v)
        BY <1>1, <1>3, <2>1 DEF TempOf
    <2>. QED BY <2>1, <2>2 DEF WriterOK
<1>4. ASSUME NEW f \in assets', f.by # s PROVE FileOK(f)'
    <2>1. f \in assets /\ f.by \in Shims /\ FileOK(f)
        BY <1>1, <1>4 DEF BridgeInv, FileRecord
    <2>. QED BY <1>4, <2>1 DEF FileOK
<1>5. RendersOK' /\ SourceIsSpentOnce'
    BY DEF BridgeInv, RendersOK, SourceIsSpentOnce
<1>. QED BY <1>2, <1>3, <1>4, <1>5 DEF BridgeInv

(* Types of the pieces a media step is made of.                            *)
LEMMA CallEndsType ==
    ASSUME BridgeTypeOK, NEW s \in Shims, NEW o \in {"executed", "failed"}, CallEnds(s, o)
    PROVE  /\ handler' \in [Shims -> CallRecord]
           /\ \A v \in Shims : v # s => handler'[v] = handler[v]
           /\ handler'[s].at = "done" /\ handler'[s].audit = o /\ handler'[s].source = {}
           /\ handler'[s].task = handler[s].task
<1>1. handler[s] \in CallRecord
    BY DEF BridgeTypeOK
<1>2. handler'[s] = [handler[s] EXCEPT !.at = "done", !.audit = o, !.source = {}, !.kind = {}]
    BY DEF BridgeTypeOK, CallEnds
<1>3. handler'[s] \in CallRecord
    BY <1>1, <1>2 DEF CallRecord, CallPlaces
<1>. QED BY <1>1, <1>2, <1>3 DEF BridgeTypeOK, CallEnds, CallRecord

LEMMA CallMovesType ==
    ASSUME BridgeTypeOK, NEW s \in Shims, NEW p \in CallPlaces,
           handler' = [handler EXCEPT ![s].at = p]
    PROVE  /\ handler' \in [Shims -> CallRecord]
           /\ \A v \in Shims : v # s => handler'[v] = handler[v]
           /\ handler'[s] = [handler[s] EXCEPT !.at = p]
           /\ handler'[s].at = p /\ handler'[s].audit = handler[s].audit
           /\ handler'[s].source = handler[s].source /\ handler'[s].task = handler[s].task
<1>1. handler[s] \in CallRecord
    BY DEF BridgeTypeOK
<1>2. handler'[s] = [handler[s] EXCEPT !.at = p]
    BY DEF BridgeTypeOK
<1>3. handler'[s] \in CallRecord
    BY <1>1, <1>2 DEF CallRecord
<1>. QED BY <1>1, <1>2, <1>3 DEF BridgeTypeOK, CallRecord

(* A call that ends before its stream has begun.                           *)
LEMMA CallEndsKeeps ==
    ASSUME BridgeInv, NEW s \in Shims, NEW o \in {"executed", "failed"}, CallEnds(s, o),
           handler[s].at \notin {"none", "relay", "sent", "done"},
           render' \in [Renders -> RenderRecord], RendersKept, RendersOK',
           staged' \in [Media -> {"none", "ready", "used", "expired"}], SourceIsSpentOnce',
           UNCHANGED <<relay, shim, assets>>
    PROVE  BridgeInv'
<1>1. BridgeTypeOK
    BY DEF BridgeInv
<1>2. /\ handler' \in [Shims -> CallRecord]
      /\ \A v \in Shims : v # s => handler'[v] = handler[v]
      /\ handler'[s].at = "done" /\ handler'[s].audit = o /\ handler'[s].source = {}
      /\ handler'[s].task = handler[s].task
    BY <1>1, CallEndsType
<1>3. BridgeTypeOK'
    BY <1>1, <1>2 DEF BridgeTypeOK
<1>4. ~relay[s].open
    BY DEF BridgeInv, CallOK
<1>5. CallOK(s)' /\ StreamOK(s)'
    BY <1>2, <1>4 DEF CallOK, StreamOK
<1>. QED BY <1>2, <1>3, <1>5, OneCall

(* A call that moves on before its stream has begun.                       *)
LEMMA CallMovesKeeps ==
    ASSUME BridgeInv, NEW s \in Shims, NEW p \in {"upload", "create", "open"},
           handler' = [handler EXCEPT ![s].at = p],
           handler[s].at \in {"describe", "upload", "lookup"},
           p = "open" => handler[s].at = "lookup",
           UNCHANGED <<render, staged, relay, shim, assets>>
    PROVE  BridgeInv'
<1>1. BridgeTypeOK /\ p \in CallPlaces /\ CallOK(s)
    BY DEF BridgeInv, CallPlaces
<1>2. /\ handler' \in [Shims -> CallRecord]
      /\ \A v \in Shims : v # s => handler'[v] = handler[v]
      /\ handler'[s].at = p /\ handler'[s].audit = handler[s].audit
      /\ handler'[s].source = handler[s].source /\ handler'[s].task = handler[s].task
    BY <1>1, CallMovesType
<1>3. BridgeTypeOK'
    BY <1>1, <1>2 DEF BridgeTypeOK
<1>4. CallOK(s)' /\ StreamOK(s)'
    BY <1>1, <1>2 DEF CallOK, StreamOK
<1>5. RendersOK' /\ SourceIsSpentOnce'
    BY DEF BridgeInv, RendersOK, SourceIsSpentOnce
<1>. QED BY <1>2, <1>3, <1>4, <1>5, SameRenders, OneCall

LEMMA DescribesKeeps == ASSUME BridgeInv, NEW s \in Shims, Describes(s) PROVE BridgeInv'
<1>1. CASE handler' = [handler EXCEPT ![s].at = "upload"]
    BY <1>1, CallMovesKeeps DEF Describes, Serving
<1>2. CASE CallEnds(s, "failed")
    BY <1>2, CallEndsKeeps, SameRenders
       DEF Describes, Serving, BridgeInv, BridgeTypeOK, RendersOK, SourceIsSpentOnce
<1>. QED BY <1>1, <1>2 DEF Describes

LEMMA UploadsSourceKeeps == ASSUME BridgeInv, NEW s \in Shims, UploadsSource(s) PROVE BridgeInv'
<1>1. CASE handler' = [handler EXCEPT ![s].at = "create"]
    BY <1>1, CallMovesKeeps DEF UploadsSource, Serving
<1>2. CASE CallEnds(s, "failed")
    BY <1>2, CallEndsKeeps, SameRenders
       DEF UploadsSource, Serving, BridgeInv, BridgeTypeOK, RendersOK, SourceIsSpentOnce
<1>. QED BY <1>1, <1>2 DEF UploadsSource

LEMMA PollsRenderKeeps == ASSUME BridgeInv, NEW s \in Shims, PollsRender(s) PROVE BridgeInv'
BY CallEndsKeeps, SameRenders
   DEF PollsRender, Serving, BridgeInv, BridgeTypeOK, RendersOK, SourceIsSpentOnce

LEMMA LooksUpKeeps == ASSUME BridgeInv, NEW s \in Shims, LooksUp(s) PROVE BridgeInv'
<1>1. CASE handler' = [handler EXCEPT ![s].at = "open"]
    BY <1>1, CallMovesKeeps DEF LooksUp, Serving
<1>2. CASE CallEnds(s, "failed")
    BY <1>2, CallEndsKeeps, SameRenders
       DEF LooksUp, Serving, BridgeInv, BridgeTypeOK, RendersOK, SourceIsSpentOnce
<1>. QED BY <1>1, <1>2 DEF LooksUp

(* A new rendering under a free id touches no other.                       *)
LEMMA MadeKeeps ==
    ASSUME BridgeInv, NEW s \in Shims, NEW r \in Renders, Made(s, r)
    PROVE  /\ render' \in [Renders -> RenderRecord] /\ RendersKept /\ RendersOK'
           /\ render'[r].status = "running" /\ render'[r].source = handler[s].source
           /\ staged' = staged => SourceIsSpentOnce'
<1>1. PICK n \in 1 .. MaxChunks : render' = [render EXCEPT ![r] =
          [status |-> "running", source |-> handler[s].source, length |-> n, told |-> FALSE]]
    BY DEF Made
<1>. DEFINE made == [status |-> "running", source |-> handler[s].source, length |-> n, told |-> FALSE]
<1>2. made \in RenderRecord
    BY BridgeAssumption DEF BridgeInv, BridgeTypeOK, CallRecord, RenderRecord
<1>3. render \in [Renders -> RenderRecord] /\ render[r].status = "none" /\ ~render[r].told
    BY DEF BridgeInv, BridgeTypeOK, RendersOK, RenderRecord, Made
<1>4. render' \in [Renders -> RenderRecord] /\ render'[r] = made
      /\ \A q \in Renders : q # r => render'[q] = render[q]
    BY <1>1, <1>2, <1>3
<1>5. RendersKept /\ RendersOK'
    BY <1>3, <1>4 DEF BridgeInv, RendersKept, RendersOK
<1>6. staged' = staged => SourceIsSpentOnce'
    BY <1>3, <1>4 DEF BridgeInv, SourceIsSpentOnce
<1>. QED BY <1>4, <1>5, <1>6

LEMMA CreatesKeeps == ASSUME BridgeInv, NEW s \in Shims, Creates(s) PROVE BridgeInv'
<1>. BridgeTypeOK /\ CallOK(s) /\ handler[s].at = "create"
    BY DEF BridgeInv, Creates, Serving
<1>1. CASE CallEnds(s, "failed") /\ KeepsSource(s) /\ UNCHANGED render
    BY <1>1, CallEndsKeeps, SameRenders
       DEF Creates, KeepsSource, BridgeInv, BridgeTypeOK, RendersOK, SourceIsSpentOnce
<1>2. ASSUME NEW r \in Renders, Made(s, r), CallEnds(s, "failed"), KeepsSource(s) PROVE BridgeInv'
    BY <1>2, CallEndsKeeps, MadeKeeps DEF Creates, KeepsSource, BridgeTypeOK
<1>3. ASSUME NEW r \in Renders, Made(s, r), UNCHANGED staged,
             handler' = [handler EXCEPT ![s].at = "created", ![s].task = {r}]
      PROVE  BridgeInv'
    <2>1. handler[s] \in CallRecord
        BY DEF BridgeTypeOK
    <2>2. handler'[s] = [handler[s] EXCEPT !.at = "created", !.task = {r}]
        BY <1>3 DEF BridgeTypeOK
    <2>3. /\ handler'[s] \in CallRecord /\ handler'[s].at = "created" /\ handler'[s].task = {r}
          /\ handler'[s].audit = handler[s].audit /\ handler'[s].source = handler[s].source
        <3>1. "created" \in CallPlaces /\ {r} \in SUBSET Renders
            BY DEF CallPlaces
        <3>2. handler'[s].at = "created" /\ handler'[s].task = {r}
            BY <2>1, <2>2 DEF CallRecord
        <3>3. handler'[s].audit = handler[s].audit /\ handler'[s].source = handler[s].source
            BY <2>1, <2>2 DEF CallRecord
        <3>4. handler'[s] \in CallRecord
            BY <2>1, <2>2, <3>1 DEF CallRecord
        <3>. QED BY <3>2, <3>3, <3>4
    <2>4. handler' \in [Shims -> CallRecord] /\ \A v \in Shims : v # s => handler'[v] = handler[v]
        BY <1>3, <2>2, <2>3 DEF BridgeTypeOK
    <2>5. UNCHANGED <<relay, shim, assets>> /\ ~relay[s].open
        BY DEF Creates, CallOK
    <2>6. BridgeTypeOK'
        BY <1>3, <2>4, <2>5, MadeKeeps DEF BridgeTypeOK
    <2>7. CallOK(s)'
        BY <1>3, <2>3, <2>5, MadeKeeps DEF CallOK
    <2>8. StreamOK(s)'
        BY <2>3, <2>5 DEF StreamOK
    <2>. QED BY <1>3, <2>4, <2>5, <2>6, <2>7, <2>8, MadeKeeps, OneCall
<1>. QED BY <1>1, <1>2, <1>3 DEF Creates

LEMMA ConfirmsKeeps == ASSUME BridgeInv, NEW s \in Shims, Confirms(s) PROVE BridgeInv'
<1>. BridgeTypeOK /\ CallOK(s) /\ handler[s].at = "created"
    BY DEF BridgeInv, Confirms, Serving
<1>1. PICK t \in Renders : /\ handler[s].task = {t} /\ render[t].status # "none"
                           /\ render[t].source = handler[s].source
    BY DEF CallOK
<1>2. render' = [r \in Renders |->
           IF r \in handler[s].task THEN [render[r] EXCEPT !.told = TRUE] ELSE render[r]]
    BY DEF Confirms
<1>3. /\ render' \in [Renders -> RenderRecord] /\ render'[t] = [render[t] EXCEPT !.told = TRUE]
      /\ \A r \in Renders : r # t => render'[r] = render[r]
    BY <1>1, <1>2 DEF BridgeTypeOK, RenderRecord
<1>4. /\ render'[t].told /\ render'[t].status = render[t].status
      /\ render'[t].length = render[t].length /\ render'[t].source = render[t].source
    BY <1>3 DEF BridgeTypeOK, RenderRecord
<1>5. RendersKept /\ RendersOK'
    BY <1>1, <1>3, <1>4 DEF RendersKept, RendersOK, BridgeInv
<1>6. staged' \in [Media -> {"none", "ready", "used", "expired"}]
      /\ \A m \in Media : staged'[m] = "used" => staged[m] = "used" \/ m \in handler[s].source
    BY DEF Confirms, BridgeTypeOK
<1>7. SourceIsSpentOnce'
    <2>. SUFFICES ASSUME NEW m \in Media, staged'[m] = "used"
                  PROVE  \E r \in Renders : render'[r].source = {m} /\ render'[r].told
        BY DEF SourceIsSpentOnce
    <2>1. CASE m \in handler[s].source
        BY <1>1, <1>4, <2>1 DEF CallOK
    <2>2. CASE staged[m] = "used"
        <3>1. PICK r \in Renders : render[r].source = {m} /\ render[r].told
            BY <2>2 DEF BridgeInv, SourceIsSpentOnce
        <3>. QED BY <1>3, <1>4, <3>1
    <2>. QED BY <1>6, <2>1, <2>2
<1>. QED BY <1>3, <1>5, <1>6, <1>7, CallEndsKeeps DEF Confirms

LEMMA FinishesKeeps == ASSUME BridgeInv, NEW r \in Renders, Finishes(r) PROVE BridgeInv'
<1>1. PICK result \in {"succeeded", "failed"} : render' = [render EXCEPT ![r].status = result]
    BY DEF Finishes
<1>2. render[r] \in RenderRecord /\ render'[r] = [render[r] EXCEPT !.status = result]
      /\ \A q \in Renders : q # r => render'[q] = render[q]
    BY <1>1 DEF BridgeInv, BridgeTypeOK
<1>3. /\ render'[r] \in RenderRecord /\ render'[r].status # "none"
      /\ render'[r].length = render[r].length /\ render'[r].source = render[r].source
      /\ render'[r].told = render[r].told
    BY <1>2 DEF RenderRecord
<1>4. render' \in [Renders -> RenderRecord]
    BY <1>1, <1>3 DEF BridgeInv, BridgeTypeOK
<1>5. RendersKept /\ RendersOK'
    BY <1>2, <1>3 DEF BridgeInv, RendersKept, RendersOK
<1>6. SourceIsSpentOnce'
    BY <1>2, <1>3 DEF BridgeInv, SourceIsSpentOnce, Finishes
<1>7. BridgeTypeOK'
    BY <1>4 DEF BridgeInv, BridgeTypeOK, Finishes
<1>8. \A s \in Shims : CallOK(s)' /\ StreamOK(s)'
    <2>. SUFFICES ASSUME NEW s \in Shims PROVE CallOK(s)' /\ StreamOK(s)'
        OBVIOUS
    <2>1. CallOK(s) /\ StreamOK(s) /\ UNCHANGED <<handler, relay>>
        BY DEF BridgeInv, Finishes
    <2>2. CallOK(s)'
        BY <1>5, <2>1 DEF CallOK, RendersKept
    <2>3. relay[s].open => \A q \in handler[s].task : render'[q].length = render[q].length
        <3>1. handler[s].task \subseteq Renders
            BY DEF BridgeInv, BridgeTypeOK, CallRecord
        <3>2. \A q \in Renders : render'[q].length = render[q].length
            BY <1>2, <1>3
        <3>. QED BY <3>1, <3>2
    <2>. QED BY <2>1, <2>2, <2>3 DEF StreamOK
<1>9. CASE Shims = {}
    BY <1>5, <1>6, <1>7, <1>9 DEF BridgeInv, BridgeTypeOK, FileRecord, Finishes
<1>10. ASSUME NEW s \in Shims PROVE BridgeInv'
    BY <1>5, <1>6, <1>7, <1>8, OneCall DEF Finishes
<1>. QED BY <1>9, <1>10

LEMMA AssetLostKeeps == ASSUME BridgeInv, NEW m \in Media, AssetLost(m) PROVE BridgeInv'
<1>1. /\ staged' \in [Media -> {"none", "ready", "used", "expired"}]
      /\ \A n \in Media : staged'[n] = "used" => staged[n] = "used"
    BY DEF AssetLost, BridgeInv, BridgeTypeOK
<1>2. UNCHANGED <<render, handler, relay, shim, assets>>
    BY DEF AssetLost
<1>3. BridgeTypeOK' /\ RendersOK' /\ SourceIsSpentOnce'
    BY <1>1, <1>2 DEF BridgeInv, BridgeTypeOK, RendersOK, SourceIsSpentOnce
<1>4. \A s \in Shims : CallOK(s)' /\ StreamOK(s)' /\ WriterOK(s)'
    BY <1>2 DEF BridgeInv, CallOK, StreamOK, WriterOK, TempOf
<1>5. \A f \in assets' : FileOK(f)'
    BY <1>2 DEF BridgeInv, FileOK
<1>. QED BY <1>3, <1>4, <1>5 DEF BridgeInv

(* The relay of a finished video, chunk by chunk                           *)

LEMMA OpensKeeps == ASSUME BridgeInv, NEW s \in Shims, Opens(s) PROVE BridgeInv'
<1>. BridgeTypeOK /\ CallOK(s)
    BY DEF BridgeInv
<1>. handler[s].at = "open" /\ UNCHANGED <<render, staged, shim, assets>>
    BY Zenon DEF Opens, Serving
<1>1. ASSUME NEW d \in 1 .. MaxChunks,
             relay' = [relay EXCEPT ![s] = [NoRelay EXCEPT !.declared = d, !.open = TRUE]],
             handler' = [handler EXCEPT ![s].at = "relay"]
      PROVE  BridgeInv'
    <2>1. "relay" \in CallPlaces
        BY DEF CallPlaces
    <2>2. /\ handler' \in [Shims -> CallRecord]
          /\ \A v \in Shims : v # s => handler'[v] = handler[v]
          /\ handler'[s].at = "relay" /\ handler'[s].audit = handler[s].audit
          /\ handler'[s].source = handler[s].source /\ handler'[s].task = handler[s].task
        BY <1>1, <2>1, CallMovesType
    <2>. DEFINE f == [NoRelay EXCEPT !.declared = d, !.open = TRUE]
    <2>3. d \in Nat /\ 0 < d
        BY <1>1, BridgeAssumption
    <2>4. f \in RelayRecord /\ f.declared = d /\ f.open /\ f.read = 0 /\ f.held = 0 /\ f.sent = 0
        <3>1. /\ NoRelay \in RelayRecord
              /\ NoRelay.read = 0 /\ NoRelay.held = 0 /\ NoRelay.sent = 0
            BY DEF NoRelay, RelayRecord
        <3>. QED BY <2>3, <3>1 DEF RelayRecord
    <2>5. relay' = [relay EXCEPT ![s] = f]
        BY <1>1, Zenon
    <2>. HIDE DEF f
    <2>6. relay' \in [Shims -> RelayRecord] /\ relay'[s] = f
          /\ \A v \in Shims : v # s => relay'[v] = relay[v]
        BY <2>4, <2>5 DEF BridgeTypeOK
    <2>7. BridgeTypeOK'
        BY <2>2, <2>6 DEF BridgeTypeOK
    <2>8. ~relay[s].open
        BY DEF CallOK
    <2>9. CallOK(s)'
        BY <2>2, <2>6 DEF CallOK
    <2>. handler[s].audit = "none"
        BY DEF CallOK
    <2>10. StreamOK(s)'
        BY <2>2, <2>3, <2>4, <2>6 DEF StreamOK
    <2>. QED BY <2>2, <2>6, <2>7, <2>8, <2>9, <2>10, OneStream
<1>2. CASE CallEnds(s, "failed") /\ UNCHANGED relay
    BY <1>2, CallEndsKeeps, SameRenders
       DEF BridgeInv, BridgeTypeOK, RendersOK, SourceIsSpentOnce
<1>. QED BY <1>1, <1>2, Zenon DEF Opens

LEMMA RelaysChunkKeeps == ASSUME BridgeInv, NEW s \in Shims, RelaysChunk(s) PROVE BridgeInv'
<1>. BridgeTypeOK /\ CallOK(s) /\ StreamOK(s) /\ handler[s].at = "relay"
    BY DEF BridgeInv, RelaysChunk, Serving
<1>1. relay[s] \in RelayRecord /\ relay' = [relay EXCEPT ![s] = HoldsBack(relay[s])]
    <2>1. relay' = [relay EXCEPT ![s] = HoldsBack(relay[s])]
        BY Zenon DEF RelaysChunk
    <2>. QED BY <2>1 DEF BridgeTypeOK
<1>2. /\ relay[s].read \in Nat /\ relay[s].held \in Nat /\ relay[s].sent \in Nat
      /\ relay[s].declared \in Nat
    BY <1>1 DEF RelayRecord
<1>. DEFINE f == HoldsBack(relay[s])
<1>3. /\ f.declared = relay[s].declared /\ f.read = relay[s].read + 1 /\ f.held = 1
      /\ f.sent = relay[s].sent + relay[s].held /\ f.open = relay[s].open
    BY <1>1 DEF HoldsBack, RelayRecord
<1>4. f \in RelayRecord
    <2>1. relay[s].read + 1 \in Nat /\ relay[s].sent + relay[s].held \in Nat /\ 1 \in Nat
        BY <1>2
    <2>. QED BY <1>1, <2>1 DEF HoldsBack, RelayRecord
<1>. relay' = [relay EXCEPT ![s] = f]
    BY <1>1, Zenon
<1>. HIDE DEF f
<1>5. relay' \in [Shims -> RelayRecord] /\ relay'[s] = f
      /\ \A v \in Shims : v # s => relay'[v] = relay[v]
    BY <1>1, <1>4 DEF BridgeTypeOK
<1>6. /\ relay'[s].declared = relay[s].declared /\ relay'[s].read = relay[s].read + 1
      /\ relay'[s].held = 1 /\ relay'[s].sent = relay[s].sent + relay[s].held
      /\ relay'[s].open = relay[s].open
    BY <1>3, <1>5
<1>7. UNCHANGED <<render, staged, handler, shim, assets>> /\ relay[s].read < relay[s].declared
    BY DEF RelaysChunk
<1>8. BridgeTypeOK'
    BY <1>5, <1>7 DEF BridgeTypeOK
<1>9. /\ relay[s].open /\ relay[s].sent < relay[s].declared
      /\ relay[s].sent + relay[s].held = relay[s].read
      /\ relay[s].held = 0 => relay[s].read = 0
      /\ relay[s].held <= 1
    BY DEF StreamOK
<1>10. /\ relay'[s].sent < relay'[s].declared /\ relay[s].sent <= relay'[s].sent
       /\ relay'[s].sent + relay'[s].held = relay'[s].read /\ relay'[s].read <= relay'[s].declared
    BY <1>2, <1>6, <1>7, <1>9
<1>11. StreamOK(s)'
    <2>1. relay'[s].open
        BY <1>6, <1>9, Zenon
    <2>2. relay'[s].held # 0 /\ relay'[s].held <= 1
        BY <1>6
    <2>3. handler'[s].at = "relay" /\ handler'[s].audit = "none"
        BY <1>7 DEF CallOK
    <2>. QED BY <1>10, <2>1, <2>2, <2>3 DEF StreamOK
<1>12. CallOK(s)'
    BY <1>6, <1>7 DEF CallOK
<1>13. relay[s].sent # relay[s].declared
    BY <1>2, <1>9
<1>. QED BY <1>5, <1>6, <1>7, <1>8, <1>9, <1>10, <1>11, <1>12, <1>13, OneStream

LEMMA RelaysLastKeeps == ASSUME BridgeInv, NEW s \in Shims, RelaysLast(s) PROVE BridgeInv'
<1>. BridgeTypeOK /\ CallOK(s) /\ StreamOK(s) /\ handler[s].at = "relay"
    BY DEF BridgeInv, RelaysLast, Serving
<1>1. relay[s] \in RelayRecord
      /\ relay' = [relay EXCEPT ![s].sent = @ + relay[s].held, ![s].held = 0]
    BY DEF BridgeTypeOK, RelaysLast
<1>2. /\ relay[s].read \in Nat /\ relay[s].held \in Nat /\ relay[s].sent \in Nat
      /\ relay[s].declared \in Nat
    BY <1>1 DEF RelayRecord
<1>. DEFINE f == [declared |-> relay[s].declared, read |-> relay[s].read, held |-> 0,
                  sent |-> relay[s].sent + relay[s].held, open |-> relay[s].open]
<1>3. relay'[s] = f /\ \A v \in Shims : v # s => relay'[v] = relay[v]
    BY <1>1 DEF BridgeTypeOK, RelayRecord
<1>4. f \in RelayRecord
    BY <1>1, <1>2 DEF RelayRecord
<1>5. relay' \in [Shims -> RelayRecord]
    BY <1>1, <1>3, <1>4 DEF BridgeTypeOK
<1>6. "sent" \in CallPlaces /\ handler' = [handler EXCEPT ![s].at = "sent"]
    BY DEF CallPlaces, RelaysLast
<1>7. /\ handler' \in [Shims -> CallRecord]
      /\ \A v \in Shims : v # s => handler'[v] = handler[v]
      /\ handler'[s].at = "sent" /\ handler'[s].audit = handler[s].audit
      /\ handler'[s].source = handler[s].source /\ handler'[s].task = handler[s].task
    BY <1>6, CallMovesType
<1>8. UNCHANGED <<render, staged, shim, assets>>
    BY DEF RelaysLast
<1>9. BridgeTypeOK'
    BY <1>5, <1>7, <1>8 DEF BridgeTypeOK
<1>10. /\ relay'[s].declared = relay[s].declared /\ relay'[s].open = relay[s].open
       /\ relay'[s].sent = relay[s].sent + relay[s].held
    BY <1>3
<1>11. /\ relay[s].open /\ relay[s].sent < relay[s].declared
       /\ relay'[s].sent = relay[s].declared /\ relay[s].sent <= relay'[s].sent
    BY <1>2, <1>10 DEF StreamOK, RelaysLast
<1>13. \A r \in handler'[s].task : relay'[s].declared = render'[r].length
    <2>1. PICK t \in Renders : handler[s].task = {t} /\ render[t].told
        BY DEF CallOK
    <2>2. Video(s) = render[t]
        BY <2>1 DEF Video
    <2>3. render[t].length = relay[s].declared
        BY <2>2 DEF RelaysLast
    <2>. QED BY <1>7, <1>8, <1>10, <2>1, <2>3
<1>14. StreamOK(s)'
    BY <1>7, <1>10, <1>11, <1>13 DEF StreamOK
<1>15. CallOK(s)'
    BY <1>7, <1>8, <1>10 DEF CallOK
<1>16. relay[s].sent # relay[s].declared
    BY <1>2, <1>11
<1>. QED BY <1>3, <1>7, <1>8, <1>9, <1>10, <1>11, <1>14, <1>15, <1>16, OneStream

LEMMA RelayFailsKeeps == ASSUME BridgeInv, NEW s \in Shims, RelayFails(s) PROVE BridgeInv'
<1>. BridgeTypeOK /\ CallOK(s) /\ StreamOK(s) /\ handler[s].at = "relay" /\ CallEnds(s, "failed")
    BY DEF BridgeInv, RelayFails, Serving
<1>1. relay[s] \in RelayRecord /\ relay' = [relay EXCEPT ![s].held = 0]
    BY DEF BridgeTypeOK, RelayFails
<1>2. relay'[s] = [relay[s] EXCEPT !.held = 0] /\ \A v \in Shims : v # s => relay'[v] = relay[v]
    BY <1>1 DEF BridgeTypeOK
<1>3. /\ relay'[s].declared = relay[s].declared /\ relay'[s].open = relay[s].open
      /\ relay'[s].sent = relay[s].sent /\ relay'[s] \in RelayRecord
    BY <1>1, <1>2 DEF RelayRecord
<1>4. relay' \in [Shims -> RelayRecord]
    BY <1>1, <1>3 DEF BridgeTypeOK
<1>5. /\ handler' \in [Shims -> CallRecord]
      /\ \A v \in Shims : v # s => handler'[v] = handler[v]
      /\ handler'[s].at = "done" /\ handler'[s].audit = "failed" /\ handler'[s].source = {}
      /\ handler'[s].task = handler[s].task
    BY CallEndsType
<1>6. UNCHANGED <<render, staged, shim, assets>>
    BY DEF RelayFails
<1>7. BridgeTypeOK'
    BY <1>4, <1>5, <1>6 DEF BridgeTypeOK
<1>8. CallOK(s)' /\ StreamOK(s)'
    BY <1>3, <1>5, <1>6 DEF CallOK, StreamOK
<1>9. relay[s].sent <= relay'[s].sent
    BY <1>1, <1>3 DEF RelayRecord
<1>. QED BY <1>2, <1>3, <1>5, <1>6, <1>7, <1>8, <1>9, OneStream

LEMMA AuditsStreamKeeps == ASSUME BridgeInv, NEW s \in Shims, AuditsStream(s) PROVE BridgeInv'
<1>. BridgeTypeOK /\ CallOK(s) /\ StreamOK(s) /\ handler[s].at = "sent"
    BY DEF BridgeInv, AuditsStream, Serving
<1>. PICK outcome \in {"executed", "failed"} : CallEnds(s, outcome)
    BY DEF AuditsStream
<1>1. /\ handler' \in [Shims -> CallRecord]
      /\ \A v \in Shims : v # s => handler'[v] = handler[v]
      /\ handler'[s].at = "done" /\ handler'[s].source = {}
      /\ handler'[s].task = handler[s].task
    BY CallEndsType
<1>2. UNCHANGED <<render, staged, relay, shim, assets>>
    BY DEF AuditsStream
<1>3. BridgeTypeOK'
    BY <1>1, <1>2 DEF BridgeTypeOK
<1>4. CallOK(s)' /\ StreamOK(s)'
    BY <1>1, <1>2 DEF CallOK, StreamOK
<1>5. relay[s].sent <= relay'[s].sent
    BY <1>2 DEF BridgeTypeOK, RelayRecord
<1>. QED BY <1>1, <1>2, <1>3, <1>4, <1>5, OneStream

(* The shim and its files                                                  *)

(* What a step of the shim's place is.                                     *)
ShimMoved(s, p) ==
    /\ shim' \in [Shims -> ShimRecord]
    /\ \A v \in Shims : v # s => shim'[v] = shim[v]
    /\ shim'[s].at = p /\ shim'[s].calls = shim[s].calls /\ shim'[s].got = shim[s].got

LEMMA ShimGoesFacts ==
    ASSUME BridgeTypeOK, NEW s \in Shims,
           NEW p \in {"idle", "stages", "waits", "writes", "linked", "gone"}, ShimGoes(s, p)
    PROVE  ShimMoved(s, p)
<1>1. shim[s] \in ShimRecord /\ shim'[s] = [shim[s] EXCEPT !.at = p]
      /\ \A v \in Shims : v # s => shim'[v] = shim[v]
    BY DEF BridgeTypeOK, ShimGoes
<1>2. shim'[s] \in ShimRecord /\ shim'[s].at = p /\ shim'[s].calls = shim[s].calls
      /\ shim'[s].got = shim[s].got
    BY <1>1 DEF ShimRecord
<1>. QED BY <1>1, <1>2 DEF BridgeTypeOK, ShimGoes, ShimMoved

LEMMA ShimStagesFacts ==
    ASSUME BridgeTypeOK, NEW s \in Shims, NEW p \in {"idle", "stages"}, NEW S \in SUBSET Media,
           shim' = [shim EXCEPT ![s].at = p, ![s].stages = S]
    PROVE  ShimMoved(s, p)
<1>. DEFINE f == [shim[s] EXCEPT !.at = p, !.stages = S]
<1>1. shim[s] \in ShimRecord
    BY DEF BridgeTypeOK
<1>2. f.at = p /\ f.calls = shim[s].calls /\ f.got = shim[s].got
    BY <1>1 DEF ShimRecord
<1>3. f \in ShimRecord
    BY <1>1 DEF ShimRecord
<1>4. shim' = [shim EXCEPT ![s] = f]
    OBVIOUS
<1>. HIDE DEF f
<1>5. shim \in [Shims -> ShimRecord]
    BY DEF BridgeTypeOK
<1>6. shim' \in [Shims -> ShimRecord] /\ shim'[s] = f /\ \A v \in Shims : v # s => shim'[v] = shim[v]
    BY <1>3, <1>4, <1>5
<1>. QED BY <1>2, <1>6 DEF ShimMoved

(* A step of the shim that leaves every file where it is.                  *)
LEMMA ShimMovesKeeps ==
    ASSUME BridgeInv, NEW s \in Shims, NEW p \in {"idle", "stages", "gone"}, ShimMoved(s, p),
           p # "gone" => TempOf(s) = {},
           staged' \in [Media -> {"none", "ready", "used", "expired"}],
           \A m \in Media : staged'[m] = "used" => staged[m] = "used",
           UNCHANGED <<render, handler, relay, assets>>
    PROVE  BridgeInv'
<1>1. BridgeTypeOK'
    BY DEF BridgeInv, BridgeTypeOK, ShimMoved
<1>2. TempOf(s)' = TempOf(s)
    BY DEF TempOf, ShimMoved
<1>3. WriterOK(s)'
    BY <1>2 DEF WriterOK, ShimMoved
<1>4. \A f \in assets' : f.by = s => FileOK(f)'
    <2>. SUFFICES ASSUME NEW f \in assets, f.by = s PROVE FileOK(f)'
        OBVIOUS
    <2>. QED BY DEF BridgeInv, FileOK, ShimMoved
<1>. QED BY <1>1, <1>3, <1>4, OneShim DEF ShimMoved

LEMMA StagesKeeps ==
    ASSUME BridgeInv, NEW s \in Shims, NEW m \in Media, Stages(s, m) PROVE BridgeInv'
<1>1. TempOf(s) = {} /\ {m} \in SUBSET Media /\ BridgeTypeOK
    BY DEF BridgeInv, WriterOK, Stages, Shimming
<1>2. ShimMoved(s, "stages") /\ UNCHANGED <<render, staged, handler, relay, assets>>
    BY <1>1, ShimStagesFacts DEF Stages
<1>3. staged \in [Media -> {"none", "ready", "used", "expired"}]
    BY <1>1 DEF BridgeTypeOK
<1>. QED BY <1>1, <1>2, <1>3, ShimMovesKeeps

LEMMA StagedKeeps == ASSUME BridgeInv, NEW s \in Shims, Staged(s) PROVE BridgeInv'
<1>1. TempOf(s) = {} /\ BridgeTypeOK
    BY DEF BridgeInv, WriterOK, Staged, Shimming
<1>2. ShimMoved(s, "idle") /\ UNCHANGED <<render, handler, relay, assets>>
    BY <1>1, ShimStagesFacts DEF Staged
<1>3. /\ staged' \in [Media -> {"none", "ready", "used", "expired"}]
      /\ \A m \in Media : staged'[m] = "used" => staged[m] = "used"
    BY <1>1 DEF BridgeTypeOK, Staged
<1>. QED BY <1>1, <1>2, <1>3, ShimMovesKeeps

LEMMA TakesAnswerKeeps == ASSUME BridgeInv, NEW s \in Shims, TakesAnswer(s) PROVE BridgeInv'
<1>1. TempOf(s) = {} /\ BridgeTypeOK
    BY DEF BridgeInv, WriterOK, TakesAnswer, Shimming
<1>2. ShimMoved(s, "idle") /\ UNCHANGED <<render, staged, handler, relay, assets>>
    BY <1>1, ShimGoesFacts DEF TakesAnswer
<1>3. staged \in [Media -> {"none", "ready", "used", "expired"}]
    BY <1>1 DEF BridgeTypeOK
<1>. QED BY <1>1, <1>2, <1>3, ShimMovesKeeps

LEMMA ShimKilledKeeps == ASSUME BridgeInv, NEW s \in Shims, ShimKilled(s) PROVE BridgeInv'
<1>1. BridgeTypeOK
    BY DEF BridgeInv
<1>2. ShimMoved(s, "gone") /\ UNCHANGED <<render, staged, handler, relay, assets>>
    BY <1>1, ShimGoesFacts DEF ShimKilled
<1>3. staged \in [Media -> {"none", "ready", "used", "expired"}]
    BY <1>1 DEF BridgeTypeOK
<1>. QED BY <1>2, <1>3, ShimMovesKeeps

(* A shim that leaves the call it is in, its temporary file removed.       *)
LEMMA CleansUpKeeps ==
    ASSUME BridgeInv, NEW s \in Shims, ShimGoes(s, "idle"), assets' = assets \ TempOf(s),
           UNCHANGED <<render, staged, handler, relay>>
    PROVE  BridgeInv'
<1>1. BridgeTypeOK
    BY DEF BridgeInv
<1>2. /\ shim' \in [Shims -> ShimRecord]
      /\ \A v \in Shims : v # s => shim'[v] = shim[v]
      /\ shim'[s].at = "idle" /\ shim'[s].calls = shim[s].calls /\ shim'[s].got = shim[s].got
    BY <1>1, ShimGoesFacts DEF ShimMoved
<1>3. BridgeTypeOK'
    BY <1>1, <1>2 DEF BridgeTypeOK
<1>4. TempOf(s)' = {}
    BY <1>2 DEF TempOf
<1>5. WriterOK(s)'
    BY <1>2, <1>4 DEF WriterOK
<1>6. \A f \in FileRecord : f.by # s => (f \in assets' <=> f \in assets)
    BY DEF TempOf
<1>7. \A f \in assets' : f.by = s => FileOK(f)'
    <2>. SUFFICES ASSUME NEW f \in assets, f.by = s PROVE FileOK(f)'
        OBVIOUS
    <2>. QED BY <1>2 DEF BridgeInv, FileOK
<1>. QED BY <1>2, <1>3, <1>5, <1>6, <1>7, OneShim

LEMMA MaterializesKeeps == ASSUME BridgeInv, NEW s \in Shims, Materializes(s) PROVE BridgeInv'
<1>. BridgeTypeOK /\ WriterOK(s) /\ StreamOK(s)
    BY DEF BridgeInv
<1>1. shim[s].at = "waits" /\ relay[s].open /\ ShimGoes(s, "writes")
      /\ assets' = assets \cup {Temp(s)} /\ UNCHANGED <<render, staged, handler, relay>>
    BY DEF Materializes, Shimming
<1>2. /\ shim' \in [Shims -> ShimRecord]
      /\ \A v \in Shims : v # s => shim'[v] = shim[v]
      /\ shim'[s].at = "writes" /\ shim'[s].calls = shim[s].calls /\ shim'[s].got = shim[s].got
    BY <1>1, ShimGoesFacts DEF ShimMoved
<1>3. /\ Temp(s) \in FileRecord /\ Temp(s).by = s /\ Temp(s).call = shim[s].calls
      /\ Temp(s).of = handler[s].task /\ Temp(s).chunks = shim[s].got /\ Temp(s).name = "temporary"
    BY DEF BridgeTypeOK, Temp, FileRecord, CallRecord, ShimRecord
<1>4. BridgeTypeOK'
    BY <1>1, <1>2, <1>3 DEF BridgeTypeOK
<1>5. TempOf(s)' = {Temp(s)}
    <2>1. TempOf(s) = {}
        BY <1>1 DEF WriterOK
    <2>. HIDE DEF BridgeTypeOK
    <2>. QED BY <1>1, <1>2, <1>3, <2>1 DEF TempOf
<1>6. shim[s].got <= relay[s].sent
    BY <1>1 DEF WriterOK, BridgeTypeOK, RelayRecord
<1>7. WriterOK(s)'
    BY <1>1, <1>2, <1>3, <1>5, <1>6 DEF WriterOK
<1>8. \A f \in FileRecord : f.by # s => (f \in assets' <=> f \in assets)
    BY <1>1, <1>3
<1>9. ASSUME NEW f \in assets', f.by = s PROVE FileOK(f)'
    <2>1. CASE f = Temp(s)
        BY <1>2, <1>3, <2>1 DEF FileOK, BridgeTypeOK, ShimRecord
    <2>2. CASE f \in assets
        BY <1>1, <1>2, <1>9, <2>2 DEF BridgeInv, FileOK
    <2>. QED BY <1>1, <2>1, <2>2
<1>. QED BY <1>1, <1>2, <1>4, <1>7, <1>8, <1>9, OneShim

LEMMA ReceivesKeeps == ASSUME BridgeInv, NEW s \in Shims, Receives(s) PROVE BridgeInv'
<1>. BridgeTypeOK /\ WriterOK(s) /\ shim[s].at = "writes"
    BY DEF BridgeInv, Receives, Shimming
<1>. DEFINE grown == {[f EXCEPT !.chunks = f.chunks + 1] : f \in TempOf(s)}
<1>1. /\ shim[s].got < relay[s].sent /\ shim' = [shim EXCEPT ![s].got = shim[s].got + 1]
      /\ assets' = (assets \ TempOf(s)) \cup grown /\ UNCHANGED <<render, staged, handler, relay>>
    BY DEF Receives
<1>2. shim[s] \in ShimRecord /\ shim[s].got \in Nat /\ shim[s].calls \in Nat /\ relay[s].sent \in Nat
    BY DEF BridgeTypeOK, ShimRecord, RelayRecord
<1>3. shim'[s] = [shim[s] EXCEPT !.got = shim[s].got + 1]
      /\ \A v \in Shims : v # s => shim'[v] = shim[v]
    BY <1>1 DEF BridgeTypeOK
<1>4. shim'[s] \in ShimRecord /\ shim'[s].at = "writes" /\ shim'[s].calls = shim[s].calls
      /\ shim'[s].got = shim[s].got + 1
    BY <1>2, <1>3 DEF ShimRecord
<1>5. \A f \in TempOf(s) : /\ f \in FileRecord /\ f.by = s /\ f.call = shim[s].calls
                           /\ f.name = "temporary" /\ f.chunks = shim[s].got /\ f.of = handler[s].task
    BY DEF TempOf, BridgeTypeOK, WriterOK
<1>6. ASSUME NEW g \in grown
      PROVE  /\ g \in FileRecord /\ g.by = s /\ g.call = shim[s].calls /\ g.name = "temporary"
             /\ g.of = handler[s].task /\ g.chunks = shim[s].got + 1
    <2>1. PICK f \in TempOf(s) : g = [f EXCEPT !.chunks = f.chunks + 1]
        BY <1>6
    <2>2. f \in FileRecord /\ f.chunks \in Nat /\ f.chunks + 1 \in Nat
        BY <1>5 DEF FileRecord
    <2>. QED BY <1>5, <2>1, <2>2 DEF FileRecord
<1>. HIDE DEF grown
<1>7. BridgeTypeOK'
    <2>1. shim' \in [Shims -> ShimRecord]
        BY <1>1, <1>4 DEF BridgeTypeOK
    <2>2. assets' \subseteq FileRecord
        BY <1>1, <1>6 DEF BridgeTypeOK
    <2>. QED BY <1>1, <2>1, <2>2 DEF BridgeTypeOK
<1>8. TempOf(s)' \subseteq grown
    BY <1>1, <1>4 DEF TempOf
<1>9. WriterOK(s)'
    <2>1. relay[s].open /\ shim[s].got + 1 <= relay[s].sent
        BY <1>1, <1>2 DEF WriterOK
    <2>2. \A f \in TempOf(s)' : f.of = handler[s].task /\ f.chunks = shim[s].got + 1
        BY <1>6, <1>8
    <2>. QED BY <1>1, <1>4, <2>1, <2>2 DEF WriterOK
<1>10. \A f \in FileRecord : f.by # s => (f \in assets' <=> f \in assets)
    BY <1>1, <1>5, <1>6
<1>11. ASSUME NEW f \in assets', f.by = s PROVE FileOK(f)'
    <2>1. CASE f \in grown
        BY <1>2, <1>4, <1>6, <2>1 DEF FileOK
    <2>2. CASE f \in assets
        BY <1>1, <1>4, <1>11, <2>2 DEF BridgeInv, FileOK
    <2>. QED BY <1>1, <2>1, <2>2
<1>. QED BY <1>1, <1>3, <1>4, <1>7, <1>9, <1>10, <1>11, OneShim

LEMMA LinksKeeps == ASSUME BridgeInv, NEW s \in Shims, Links(s) PROVE BridgeInv'
<1>. BridgeTypeOK /\ WriterOK(s) /\ StreamOK(s) /\ CallOK(s) /\ shim[s].at = "writes"
    BY DEF BridgeInv, Links, Shimming
<1>. DEFINE linked == {[f EXCEPT !.name = "final"] : f \in TempOf(s)}
<1>1. /\ shim[s].got = relay[s].declared /\ ShimGoes(s, "linked")
      /\ assets' = assets \cup linked /\ UNCHANGED <<render, staged, handler, relay>>
    BY DEF Links, Complete
<1>2. /\ shim' \in [Shims -> ShimRecord]
      /\ \A v \in Shims : v # s => shim'[v] = shim[v]
      /\ shim'[s].at = "linked" /\ shim'[s].calls = shim[s].calls /\ shim'[s].got = shim[s].got
    BY <1>1, ShimGoesFacts DEF ShimMoved
<1>3. \A f \in TempOf(s) : /\ f \in FileRecord /\ f.by = s /\ f.call = shim[s].calls
                           /\ f.chunks = shim[s].got /\ f.of = handler[s].task
    BY DEF TempOf, BridgeTypeOK, WriterOK
<1>4. ASSUME NEW g \in linked
      PROVE  /\ g \in FileRecord /\ g.by = s /\ g.call = shim[s].calls /\ g.name = "final"
             /\ g.of = handler[s].task /\ g.chunks = shim[s].got
    <2>1. PICK f \in TempOf(s) : g = [f EXCEPT !.name = "final"]
        BY <1>4
    <2>. QED BY <1>3, <2>1 DEF FileRecord
<1>. HIDE DEF linked
<1>5. BridgeTypeOK'
    BY <1>1, <1>2, <1>4 DEF BridgeTypeOK
<1>6. relay[s].open /\ relay[s].sent = relay[s].declared
    <2>1. shim[s].got <= relay[s].sent /\ relay[s].open
        BY DEF WriterOK
    <2>2. relay[s].sent \in Nat /\ relay[s].declared \in Nat
        BY DEF BridgeTypeOK, RelayRecord
    <2>. QED BY <1>1, <2>1, <2>2 DEF StreamOK
<1>7. \A r \in handler[s].task : render[r].status # "none" /\ relay[s].declared = render[r].length
    <2>1. PICK t \in Renders : handler[s].task = {t} /\ render[t].told
        BY <1>6 DEF CallOK
    <2>2. render[t].status # "none"
        BY <2>1 DEF BridgeInv, RendersOK
    <2>3. relay[s].declared = render[t].length
        BY <1>6, <2>1 DEF StreamOK, BridgeTypeOK, RelayRecord
    <2>. QED BY <2>1, <2>2, <2>3
<1>8. WriterOK(s)'
    <2>1. relay[s].open /\ shim[s].got <= relay[s].sent
        BY DEF WriterOK
    <2>. QED BY <1>1, <1>2, <2>1 DEF WriterOK
<1>9. \A f \in FileRecord : f.by # s => (f \in assets' <=> f \in assets)
    BY <1>1, <1>4
<1>10. ASSUME NEW f \in assets', f.by = s PROVE FileOK(f)'
    <2>1. CASE f \in linked
        <3>1. f.by = s /\ f.call = shim'[s].calls /\ f.of = handler[s].task /\ f.chunks = relay[s].declared
            BY <1>1, <1>2, <1>4, <2>1
        <3>2. shim'[s].calls \in Nat /\ f.call <= shim'[s].calls
            BY <1>2, <3>1 DEF ShimRecord
        <3>. QED BY <1>1, <1>6, <1>7, <3>1, <3>2 DEF FileOK
    <2>2. CASE f \in assets
        BY <1>1, <1>2, <1>10, <2>2 DEF BridgeInv, FileOK
    <2>. QED BY <1>1, <2>1, <2>2
<1>. QED BY <1>1, <1>2, <1>5, <1>8, <1>9, <1>10, OneShim

LEMMA CallToolKeeps == ASSUME BridgeInv, NEW s \in Shims, CallTool(s) PROVE BridgeInv'
<1>. BridgeTypeOK /\ WriterOK(s)
    BY DEF BridgeInv
<1>1. PICK action \in RenderActions \cup TaskActions :
         \E source \in Sources(action), task \in NamesMedia(action) :
              handler' = [handler EXCEPT ![s] =
                  [at |-> FirstPlace(action, source), source |-> source,
                   kind |-> KindOf(action), task |-> task, audit |-> "none"]]
    BY Zenon DEF CallTool
<1>2. PICK source \in Sources(action), task \in NamesMedia(action) :
              handler' = [handler EXCEPT ![s] =
                  [at |-> FirstPlace(action, source), source |-> source,
                   kind |-> KindOf(action), task |-> task, audit |-> "none"]]
    BY <1>1
<1>. DEFINE call == [at |-> FirstPlace(action, source), source |-> source,
                     kind |-> KindOf(action), task |-> task, audit |-> "none"]
<1>3. /\ source \in SUBSET Media /\ (source = {} \/ \E m \in Media : source = {m})
      /\ KindOf(action) \in SUBSET Media
    <2>1. source = {} \/ \E m \in Media : source = {m}
        BY DEF Sources
    <2>2. KindOf(action) \in SUBSET Media
        BY DEF KindOf, Media
    <2>. QED BY <2>1, <2>2
<1>4. FirstPlace(action, source) \in {"poll", "lookup", "create", "describe"}
      /\ (FirstPlace(action, source) = "lookup" => action \in TaskActions)
    BY DEF FirstPlace, TaskActions
<1>5. task \in SUBSET Renders
      /\ (action \in TaskActions => \E r \in Renders : task = {r} /\ render[r].told)
    BY DEF NamesMedia
<1>6. call \in CallRecord
    BY <1>3, <1>4, <1>5 DEF CallRecord, CallPlaces
<1>7. handler' \in [Shims -> CallRecord] /\ handler'[s] = call
      /\ \A v \in Shims : v # s => handler'[v] = handler[v]
    BY <1>2, <1>6 DEF BridgeTypeOK
<1>8. /\ handler'[s].at \in {"poll", "lookup", "create", "describe"} /\ handler'[s].audit = "none"
      /\ handler'[s].source = source /\ handler'[s].task = task
      /\ handler'[s].at = "lookup" => action \in TaskActions
    BY <1>4, <1>7
<1>. HIDE DEF call
<1>9. shim[s] \in ShimRecord /\ shim[s].at = "idle" /\ shim[s].calls \in Nat
      /\ shim' = [shim EXCEPT ![s].at = "waits", ![s].got = 0, ![s].calls = shim[s].calls + 1]
      /\ relay' = [relay EXCEPT ![s] = NoRelay] /\ UNCHANGED <<render, staged, assets>>
    <2>1. shim[s] \in ShimRecord /\ shim[s].calls \in Nat
        BY DEF BridgeTypeOK, ShimRecord
    <2>2. /\ shim[s].at = "idle"
          /\ shim' = [shim EXCEPT ![s].at = "waits", ![s].got = 0, ![s].calls = shim[s].calls + 1]
          /\ relay' = [relay EXCEPT ![s] = NoRelay] /\ UNCHANGED <<render, staged, assets>>
        BY Zenon DEF CallTool, Shimming
    <2>. QED BY <2>1, <2>2
<1>10. shim'[s] = [shim[s] EXCEPT !.at = "waits", !.got = 0, !.calls = shim[s].calls + 1]
    BY <1>9 DEF BridgeTypeOK
<1>. \A v \in Shims : v # s => shim'[v] = shim[v]
    BY <1>9 DEF BridgeTypeOK
<1>11. shim'[s] \in ShimRecord /\ shim'[s].at = "waits" /\ shim'[s].got = 0
       /\ shim'[s].calls = shim[s].calls + 1
    <2>1. shim[s] \in ShimRecord /\ shim[s].calls + 1 \in Nat
        BY <1>9
    <2>2. shim'[s].at = "waits" /\ shim'[s].got = 0 /\ shim'[s].calls = shim[s].calls + 1
        BY <1>10, <2>1 DEF ShimRecord
    <2>3. shim[s].stages \in SUBSET Media
        BY <2>1 DEF ShimRecord
    <2>4. shim'[s] = [at |-> "waits", got |-> 0, calls |-> shim[s].calls + 1,
                      stages |-> shim[s].stages]
        BY <1>10, <2>1 DEF ShimRecord
    <2>5. shim'[s] \in ShimRecord
        BY <2>1, <2>3, <2>4 DEF ShimRecord
    <2>. QED BY <2>2, <2>5
<1>12. relay'[s] = NoRelay /\ \A v \in Shims : v # s => relay'[v] = relay[v]
    BY <1>9 DEF BridgeTypeOK
<1>13. NoRelay \in RelayRecord /\ ~NoRelay.open
    BY DEF NoRelay, RelayRecord
<1>14. BridgeTypeOK'
    <2>1. shim' \in [Shims -> ShimRecord]
        BY <1>9, <1>11 DEF BridgeTypeOK
    <2>2. relay' \in [Shims -> RelayRecord]
        BY <1>9, <1>12, <1>13 DEF BridgeTypeOK
    <2>. QED BY <1>7, <1>9, <2>1, <2>2 DEF BridgeTypeOK
<1>15. CallOK(s)' /\ StreamOK(s)'
    BY <1>3, <1>5, <1>8, <1>9, <1>12, <1>13 DEF CallOK, StreamOK
<1>16. ASSUME NEW f \in assets PROVE f \in FileRecord /\ f.by \in Shims /\ FileOK(f) /\ f.call \in Nat
    BY DEF BridgeInv, BridgeTypeOK, FileRecord
<1>17. TempOf(s)' = {}
    <2>1. \A f \in assets : f.by = s => f.call < shim[s].calls + 1
        BY <1>9, <1>16 DEF FileOK
    <2>. QED BY <1>9, <1>11, <1>16, <2>1 DEF TempOf
<1>18. WriterOK(s)'
    BY <1>11, <1>17 DEF WriterOK
<1>19. ASSUME NEW v \in Shims, v # s PROVE CallOK(v)' /\ StreamOK(v)' /\ WriterOK(v)'
    <2>1. CallOK(v) /\ StreamOK(v) /\ WriterOK(v) /\ handler'[v] = handler[v]
          /\ relay'[v] = relay[v] /\ shim'[v] = shim[v]
        BY <1>7, <1>12, <1>19 DEF BridgeInv
    <2>2. CallOK(v)' /\ StreamOK(v)'
        BY <1>9, <2>1 DEF CallOK, StreamOK
    <2>3. TempOf(v)' = TempOf(v)
        BY <1>9, <2>1 DEF TempOf
    <2>4. WriterOK(v)'
        BY <2>1, <2>3 DEF WriterOK
    <2>. QED BY <2>2, <2>4
<1>20. ASSUME NEW f \in assets' PROVE FileOK(f)'
    <2>1. f \in assets /\ f \in FileRecord /\ f.by \in Shims /\ FileOK(f) /\ f.call \in Nat
        BY <1>9, <1>16
    <2>2. CASE f.by = s
        <3>1. f.call <= shim[s].calls
            BY <2>1, <2>2 DEF FileOK
        <3>2. f.call <= shim'[s].calls /\ f.call # shim'[s].calls
            BY <1>9, <1>11, <2>1, <3>1
        <3>. QED BY <1>9, <2>1, <2>2, <3>2 DEF FileOK
    <2>3. CASE f.by # s
        BY <1>9, <1>10, <1>12, <2>1, <2>3 DEF FileOK
    <2>. QED BY <2>2, <2>3
<1>21. RendersOK' /\ SourceIsSpentOnce'
    BY <1>9 DEF BridgeInv, RendersOK, SourceIsSpentOnce
<1>. QED BY <1>14, <1>15, <1>18, <1>19, <1>20, <1>21 DEF BridgeInv

LEMMA BridgeRestartsKeeps == ASSUME BridgeInv, BridgeRestarts PROVE BridgeInv'
<1>. BridgeTypeOK
    BY DEF BridgeInv
<1>1. UNCHANGED <<render, staged, shim, assets>>
    BY Zenon DEF BridgeRestarts
<1>r. /\ handler' = [s \in Shims |-> IF s \in SlotsTaken
                    THEN [handler[s] EXCEPT !.at = "done", !.audit = "none"] ELSE handler[s]]
      /\ relay' = [s \in Shims |-> [relay[s] EXCEPT !.held = 0]]
    BY Zenon DEF BridgeRestarts
<1>2. ASSUME NEW s \in Shims
      PROVE  /\ handler'[s] \in CallRecord /\ handler'[s].task = handler[s].task
             /\ handler'[s].source = handler[s].source
             /\ \/ handler'[s] = handler[s] /\ handler[s].at \in {"none", "done"}
                \/ handler'[s].at = "done" /\ handler'[s].audit = "none"
    <2>. handler[s] \in CallRecord
        BY DEF BridgeTypeOK
    <2>1. CASE s \in SlotsTaken
        <3>1. handler'[s] = [handler[s] EXCEPT !.at = "done", !.audit = "none"]
            BY <1>r, <2>1, Zenon
        <3>. QED BY <3>1 DEF CallRecord, CallPlaces
    <2>2. CASE s \notin SlotsTaken
        <3>1. handler'[s] = handler[s]
            BY <1>r, <2>2, Zenon
        <3>. QED BY <2>2, <3>1 DEF SlotsTaken
    <2>. QED BY <2>1, <2>2
<1>3. ASSUME NEW s \in Shims
      PROVE  /\ relay'[s] \in RelayRecord /\ relay'[s].declared = relay[s].declared
             /\ relay'[s].open = relay[s].open /\ relay'[s].sent = relay[s].sent
    <2>1. relay'[s] = [relay[s] EXCEPT !.held = 0]
        BY <1>r, Zenon
    <2>2. relay[s] \in RelayRecord
        BY DEF BridgeTypeOK
    <2>. QED BY <2>1, <2>2 DEF RelayRecord
<1>4. BridgeTypeOK'
    <2>1. DOMAIN handler' = Shims /\ DOMAIN relay' = Shims
        BY <1>r, Zenon
    <2>2. handler' = [s \in Shims |-> handler'[s]] /\ relay' = [s \in Shims |-> relay'[s]]
        BY <1>r, <2>1, Zenon
    <2>3. handler' \in [Shims -> CallRecord] /\ relay' \in [Shims -> RelayRecord]
        BY <1>2, <1>3, <2>2
    <2>. QED BY <1>1, <2>3 DEF BridgeTypeOK
<1>5. ASSUME NEW s \in Shims PROVE CallOK(s)' /\ StreamOK(s)' /\ WriterOK(s)'
    <2>1. CallOK(s) /\ StreamOK(s) /\ WriterOK(s)
        BY DEF BridgeInv
    <2>2. handler'[s].at \in {"none", "done"}
        BY <1>2
    <2>3. CallOK(s)'
        BY <1>1, <1>2, <1>3, <2>1, <2>2 DEF CallOK
    <2>4. relay[s].open => handler[s].at \notin {"none"}
        BY <2>1 DEF CallOK
    <2>5. StreamOK(s)'
        BY <1>1, <1>2, <1>3, <2>1, <2>2, <2>4 DEF StreamOK
    <2>6. TempOf(s)' = TempOf(s)
        BY <1>1 DEF TempOf
    <2>7. WriterOK(s)'
        BY <1>1, <1>2, <1>3, <2>1, <2>6 DEF WriterOK
    <2>. QED BY <2>3, <2>5, <2>7
<1>6. ASSUME NEW f \in assets' PROVE FileOK(f)'
    <2>1. FileOK(f) /\ f.by \in Shims
        BY <1>1 DEF BridgeInv, BridgeTypeOK, FileRecord
    <2>. QED BY <1>1, <1>3, <2>1 DEF FileOK
<1>7. RendersOK' /\ SourceIsSpentOnce'
    BY <1>1 DEF BridgeInv, RendersOK, SourceIsSpentOnce
<1>. QED BY <1>4, <1>5, <1>6, <1>7 DEF BridgeInv

LEMMA BridgeStep == BridgeInv /\ [BridgeNext]_bridgeVars => BridgeInv'
<1>. SUFFICES ASSUME BridgeInv, [BridgeNext]_bridgeVars PROVE BridgeInv'
    OBVIOUS
<1>1. CASE UNCHANGED bridgeVars
    <2>1. BridgeTypeOK' /\ RendersOK' /\ SourceIsSpentOnce'
        BY <1>1 DEF bridgeVars, BridgeInv, BridgeTypeOK, RendersOK, SourceIsSpentOnce
    <2>2. \A s \in Shims : CallOK(s)' /\ StreamOK(s)' /\ WriterOK(s)'
        BY <1>1 DEF bridgeVars, BridgeInv, CallOK, StreamOK, WriterOK, TempOf
    <2>3. \A f \in assets' : FileOK(f)'
        BY <1>1 DEF bridgeVars, BridgeInv, FileOK
    <2>. QED BY <2>1, <2>2, <2>3 DEF BridgeInv
<1>2. ASSUME NEW s \in Shims,
             CallTool(s) \/ Describes(s) \/ UploadsSource(s) \/ Creates(s) \/ Confirms(s)
             \/ PollsRender(s) \/ LooksUp(s)
      PROVE  BridgeInv'
    BY <1>2, CallToolKeeps, DescribesKeeps, UploadsSourceKeeps, CreatesKeeps, ConfirmsKeeps,
       PollsRenderKeeps, LooksUpKeeps
<1>3. ASSUME NEW s \in Shims,
             Opens(s) \/ RelaysChunk(s) \/ RelaysLast(s) \/ RelayFails(s) \/ AuditsStream(s)
      PROVE  BridgeInv'
    BY <1>3, OpensKeeps, RelaysChunkKeeps, RelaysLastKeeps, RelayFailsKeeps, AuditsStreamKeeps
<1>4. ASSUME NEW s \in Shims,
             TakesAnswer(s) \/ Staged(s) \/ (\E m \in Media : Stages(s, m)) \/ Materializes(s)
             \/ Receives(s) \/ Links(s) \/ ShimKilled(s)
      PROVE  BridgeInv'
    BY <1>4, TakesAnswerKeeps, StagedKeeps, StagesKeeps, MaterializesKeeps, ReceivesKeeps,
       LinksKeeps, ShimKilledKeeps
<1>5. ASSUME NEW s \in Shims, Saved(s) \/ SaveFails(s) PROVE BridgeInv'
    BY <1>5, CleansUpKeeps DEF Saved, SaveFails
<1>. QED BY <1>1, <1>2, <1>3, <1>4, <1>5, FinishesKeeps, AssetLostKeeps, BridgeRestartsKeeps
         DEF BridgeNext

(* Whatever breaks off, a file under its final name is a whole video, and  *)
(* a transfer audited as executed has handed its whole video over.         *)
THEOREM FilesWhole == BridgeSpec => []FilesAreWhole
<1>1. BridgeInv => FilesAreWhole
    <2>. SUFFICES ASSUME BridgeInv PROVE FilesAreWhole
        OBVIOUS
    <2>1. ASSUME NEW f \in assets, f.name = "final"
          PROVE  \A r \in f.of : f.chunks = render[r].length
        BY <2>1 DEF BridgeInv, FileOK
    <2>2. ASSUME NEW s \in Shims, relay[s].open, handler[s].audit = "executed"
          PROVE  \A r \in handler[s].task : relay[s].sent = render[r].length
        <3>1. StreamOK(s) /\ relay[s].declared \in Nat
            BY DEF BridgeInv, BridgeTypeOK, RelayRecord
        <3>. QED BY <2>2, <3>1 DEF StreamOK
    <2>. QED BY <2>1, <2>2 DEF FilesAreWhole
<1>. QED BY <1>1, BridgeInvInit, BridgeStep, PTL DEF BridgeSpec

(* No failure on the way costs the agent a staged source.                  *)
THEOREM SourceSpent == BridgeSpec => []SourceIsSpentOnce
<1>1. BridgeInv => SourceIsSpentOnce
    BY DEF BridgeInv
<1>. QED BY <1>1, BridgeInvInit, BridgeStep, PTL DEF BridgeSpec

=============================================================================
