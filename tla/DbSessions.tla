----------------------------- MODULE DbSessions -----------------------------
(***************************************************************************)
(* One process's database sessions: the pool, the budget of active         *)
(* sessions, transaction(), mutation() with its lock, and the wire client  *)
(* under them. A thread's transactions nest by taking a second connection, *)
(* so a mutation that reads holds two sessions.                            *)
(* The server may restart between any two statements, break an answer off, *)
(* refuse a statement or a connection.                                     *)
(***************************************************************************)
EXTENDS Naturals, Sequences, FiniteSets, SequencesExt

CONSTANTS
    Threads,
    MAX_ACTIVE_CONNECTIONS, POOL_LIMIT,
    MaxRequests,            \* bound: transactions one thread asks for
    MaxFaults               \* bound: restarts, refusals and broken answers

ASSUME SessionsAssumption ==
    /\ IsFiniteSet(Threads)
    /\ MAX_ACTIVE_CONNECTIONS \in Nat \ {0} /\ POOL_LIMIT \in Nat
    /\ MaxRequests \in Nat /\ MaxFaults \in Nat

\* Enough connections for every active session and every pooled one.
Conns == 1 .. (MAX_ACTIVE_CONNECTIONS + POOL_LIMIT)
NoConn == 0

VARIABLES
    permits,   \* _ACTIVE: sessions that may still be taken
    pool,      \* _POOL: idle connections, the last one is taken first
    link,      \* per connection: "closed", "live", or "stale" when the server went away
    tx,        \* per connection, at the server: "none", "open" or "failed"
    unread,    \* per connection: answers sent by the server and not consumed
    frames,    \* per thread: its transaction() blocks, the outermost first
    asked,     \* per thread: how many transactions it asked for
    lock,      \* _MUTATION_LOCK: the threads that hold it
    counter,       \* a committed counter that every mutation adds one to
    commits,   \* mutations the server committed
    faults

sessionVars ==
    <<permits, pool, link, tx, unread, frames, asked, lock, counter, commits, faults>>
wire == <<link, tx, unread>>

SessionInit ==
    /\ permits = MAX_ACTIVE_CONNECTIONS
    /\ pool = <<>>
    /\ link = [c \in Conns |-> "closed"]
    /\ tx = [c \in Conns |-> "none"]
    /\ unread = [c \in Conns |-> 0]
    /\ frames = [t \in Threads |-> <<>>]
    /\ asked = [t \in Threads |-> 0]
    /\ lock = {}
    /\ counter = 0 /\ commits = 0 /\ faults = 0

Frame(at, kind) == [at |-> at, kind |-> kind, conn |-> NoConn, saw |-> 0, failed |-> FALSE]

Busy(t) == frames[t] # <<>>
Top(t) == Last(frames[t])
AtSession(t, place) == Busy(t) /\ Top(t).at = place
WithTop(t, f) == [frames EXCEPT ![t] = Append(Front(@), f)]
SessionGoes(t, place) == frames' = WithTop(t, [Top(t) EXCEPT !.at = place])
MayFault == faults < MaxFaults
Faulty == MayFault /\ faults' = faults + 1

\* The block under the top one goes on as `place` says; a thread with no block left
\* gives the mutation lock back.
Pops(t, failing) ==
    LET rest == Front(frames[t])
    IN IF rest = <<>>
       THEN /\ frames' = [frames EXCEPT ![t] = <<>>]
            /\ lock' = lock \ {t}
       ELSE /\ frames' = [frames EXCEPT ![t] = Append(Front(rest),
                 [Last(rest) EXCEPT !.at = IF failing THEN "rollback" ELSE "write"])]
            /\ UNCHANGED lock

-----------------------------------------------------------------------------
(* The wire client. One statement goes out and its answer is read up to    *)
(* ReadyForQuery; a refusal is read to the end too.                        *)

\* _collect_results leaves as much unread as it found: it stops at the first
\* ReadyForQuery, whoever that belongs to.
Consumed == UNCHANGED <<link, unread>>

\* A failure of the transport or the framing: execute() closes the connection.
Hangs(c) ==
    /\ link' = [link EXCEPT ![c] = "closed"]
    /\ tx' = [tx EXCEPT ![c] = "none"]
    /\ unread' = [unread EXCEPT ![c] = 0]

\* A statement fails because the server went away or its answer breaks off.
Breaks(c) ==
    /\ link[c] # "closed"
    /\ IF link[c] = "stale" THEN UNCHANGED faults ELSE Faulty
    /\ Hangs(c)

\* The server refuses the statement: the transaction, if one is open, has failed.
Refuses(c) ==
    /\ link[c] = "live" /\ Faulty
    /\ Consumed
    /\ tx' = [tx EXCEPT ![c] = IF @ = "none" THEN @ ELSE "failed"]

Answers(c, state) ==
    /\ link[c] = "live"
    /\ Consumed
    /\ tx' = [tx EXCEPT ![c] = state]
    /\ UNCHANGED faults

-----------------------------------------------------------------------------
(* transaction() and mutation().                                           *)

\* A thread asks for a transaction: a read, or a mutation under the lock.
Ask(t) ==
    /\ ~Busy(t) /\ asked[t] < MaxRequests
    /\ asked' = [asked EXCEPT ![t] = @ + 1]
    /\ \E kind \in {"read", "mutation"} :
          frames' = [frames EXCEPT ![t] =
                        <<Frame(IF kind = "read" THEN "checkout" ELSE "lock", kind)>>]
    /\ UNCHANGED <<permits, pool, wire, lock, counter, commits, faults>>

\* Wrong: mutations do not exclude each other.
EntersAnyway(t) ==
    /\ AtSession(t, "lock")
    /\ lock' = lock \cup {t}
    /\ SessionGoes(t, "checkout")
    /\ UNCHANGED <<permits, pool, wire, asked, counter, commits, faults>>
\* mutation(): the lock comes before the session.
EntersMutation(t) ==
    /\ AtSession(t, "lock")
    /\ lock = {}
    /\ lock' = {t}
    /\ SessionGoes(t, "checkout")
    /\ UNCHANGED <<permits, pool, wire, asked, counter, commits, faults>>

Connected(t, c) ==
    frames' = WithTop(t, [Top(t) EXCEPT !.conn = c, !.at = "begin"])

\* Connections no pool and no thread has, all closed: the next one to open.
Unopened == {c \in Conns : /\ link[c] = "closed"
                           /\ \A t \in Threads : \A i \in DOMAIN frames[t] :
                                 frames[t][i].conn # c}

\* _checkout with a permit: a pooled connection, with no look at whether it lives,
\* or a new one.
Checkout(t) ==
    /\ AtSession(t, "checkout") /\ permits > 0
    /\ permits' = permits - 1
    /\ \/ /\ pool # <<>>
          /\ pool' = Front(pool)
          /\ Connected(t, Last(pool))
          /\ UNCHANGED wire
       \/ /\ pool = <<>>
          /\ LET c == CHOOSE c \in Unopened : TRUE
             IN Connected(t, c) /\ link' = [link EXCEPT ![c] = "live"]
          /\ UNCHANGED <<pool, tx, unread>>
    /\ UNCHANGED <<asked, lock, counter, commits, faults>>

\* The permit of a connection that was refused is given back.
PermitKept == UNCHANGED permits

\* _checkout raises: the server takes no connection (it is full, or going down), or the
\* budget was exhausted for as long as a caller waits.
CheckoutFails(t) ==
    /\ AtSession(t, "checkout")
    /\ \/ permits > 0 /\ pool = <<>> /\ Faulty /\ PermitKept
       \/ permits = 0 /\ Faulty /\ UNCHANGED permits
    /\ Pops(t, TRUE)
    /\ UNCHANGED <<pool, wire, asked, counter, commits>>

Fails(t) == frames' = WithTop(t, [Top(t) EXCEPT !.at = "rollback", !.failed = TRUE])

Begin(t) ==
    /\ AtSession(t, "begin")
    /\ LET c == Top(t).conn
       IN \/ Answers(c, "open") /\ SessionGoes(t, "body")
          \/ (Breaks(c) \/ Refuses(c)) /\ Fails(t)
    /\ UNCHANGED <<permits, pool, asked, lock, counter, commits>>

\* The first statement reads what is committed. A mutation goes on to write, at once or
\* after a read on a session of its own.
Body(t) ==
    /\ AtSession(t, "body")
    /\ LET c == Top(t).conn
           f == [Top(t) EXCEPT !.saw = counter]
           Mutates == f.kind = "mutation"
       IN \/ /\ Answers(c, tx[c])
             /\ \/ ~Mutates /\ frames' = WithTop(t, [f EXCEPT !.at = "commit"])
                \/ Mutates /\ frames' = WithTop(t, [f EXCEPT !.at = "write"])
                \/ /\ Mutates
                   /\ frames' = [frames EXCEPT ![t] =
                          Append(Append(Front(@), [f EXCEPT !.at = "nested"]),
                                 Frame("checkout", "read"))]
          \/ (Breaks(c) \/ Refuses(c)) /\ Fails(t)
    /\ UNCHANGED <<permits, pool, asked, lock, counter, commits>>

\* The dependent write, or an exception of the caller's own code.
Write(t) ==
    /\ AtSession(t, "write")
    /\ LET c == Top(t).conn
       IN \/ Answers(c, tx[c]) /\ SessionGoes(t, "commit")
          \/ (Breaks(c) \/ Refuses(c)) /\ Fails(t)
          \/ Faulty /\ Fails(t) /\ UNCHANGED wire
    /\ UNCHANGED <<permits, pool, asked, lock, counter, commits>>

Commits(t) ==
    IF Top(t).kind = "mutation"
    THEN counter' = Top(t).saw + 1 /\ commits' = commits + 1
    ELSE UNCHANGED <<counter, commits>>

\* COMMIT; when its answer breaks off the server may or may not have committed.
Commit(t) ==
    /\ AtSession(t, "commit")
    /\ LET c == Top(t).conn
       IN \/ Answers(c, "none") /\ SessionGoes(t, "checkin") /\ Commits(t)
          \/ /\ link[c] = "live" /\ Breaks(c) /\ Fails(t)
             /\ (Commits(t) \/ UNCHANGED <<counter, commits>>)
          \/ /\ link[c] = "stale" /\ Breaks(c) /\ Fails(t)
             /\ UNCHANGED <<counter, commits>>
    /\ UNCHANGED <<permits, pool, asked, lock>>

\* ROLLBACK on a connection still open; one that cannot be rolled back is closed.
Rollback(t) ==
    /\ AtSession(t, "rollback")
    /\ frames' = WithTop(t, [Top(t) EXCEPT !.at = "checkin", !.failed = TRUE])
    /\ LET c == Top(t).conn
       IN \/ link[c] = "closed" /\ UNCHANGED <<wire, faults>>
          \/ Answers(c, "none")
          \/ Breaks(c)
    /\ UNCHANGED <<permits, pool, asked, lock, counter, commits>>

\* _checkin: a closed connection is dropped, one too many is closed; the permit is
\* given back in every case.
Checkin(t) ==
    /\ AtSession(t, "checkin")
    /\ LET c == Top(t).conn
       IN \/ link[c] = "closed" /\ UNCHANGED <<pool, wire>>
          \/ /\ link[c] # "closed" /\ Len(pool) < POOL_LIMIT
             /\ pool' = Append(pool, c) /\ UNCHANGED wire
          \/ /\ link[c] # "closed" /\ Len(pool) >= POOL_LIMIT
             /\ Hangs(c) /\ UNCHANGED pool
    /\ permits' = permits + 1
    /\ Pops(t, Top(t).failed)
    /\ UNCHANGED <<asked, counter, commits, faults>>

\* The server restarts: every session it had is gone, its transactions with it.
ServerRestarts ==
    /\ Faulty
    /\ link' = [c \in Conns |-> IF link[c] = "live" THEN "stale" ELSE link[c]]
    /\ tx' = [c \in Conns |-> "none"]
    /\ UNCHANGED <<permits, pool, unread, frames, asked, lock, counter, commits>>

SessionStep(t) ==
    \/ EntersMutation(t) \/ Checkout(t) \/ Begin(t) \/ Body(t) \/ Write(t)
    \/ Commit(t) \/ Rollback(t) \/ Checkin(t)

SessionNext ==
    \/ \E t \in Threads : Ask(t) \/ SessionStep(t) \/ CheckoutFails(t)
    \/ ServerRestarts

\* Threads that can go on do; no request, no fault and no timeout is owed.
SessionFairness == \A t \in Threads : WF_sessionVars(SessionStep(t))

SessionSpec == SessionInit /\ [][SessionNext]_sessionVars /\ SessionFairness

-----------------------------------------------------------------------------
(* Properties.                                                             *)

Held(c) == {t \in Threads : \E i \in DOMAIN frames[t] : frames[t][i].conn = c}

\* A connection waits in the pool only as the next borrower needs it: nobody still
\* holds it, the server has no transaction open on it, and no answer is left on it
\* that the next statement would take for its own.
PooledIsClean ==
    \A i \in DOMAIN pool :
        LET c == pool[i]
        IN /\ link[c] # "closed" /\ tx[c] = "none" /\ unread[c] = 0
           /\ Held(c) = {}
           /\ \A j \in DOMAIN pool : pool[j] = c => i = j

\* No mutation is lost: the counter every mutation reads and adds to has counted all
\* that were committed, in spite of the reads and writes being statements apart.
NoLostUpdate == counter = commits

\* A thread that waits for a session stops waiting without the help of the timeout,
\* also the mutation that holds one and waits for its second: mutations do not wait on
\* each other for the last ones.
SessionIsServed == \A t \in Threads : AtSession(t, "checkout") ~> ~AtSession(t, "checkout")

\* Every permit of the budget is free or belongs to one block that holds a connection.
PermitsAreExact ==
    permits + Cardinality({s \in Threads \X (1 .. 2) :
                              s[2] \in DOMAIN frames[s[1]] /\ frames[s[1]][s[2]].conn # NoConn})
        = MAX_ACTIVE_CONNECTIONS
=============================================================================
