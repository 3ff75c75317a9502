----------------------------- MODULE UserFiles -----------------------------
(***************************************************************************)
(* The operator's uploads into the agent's user-files: a handler thread of *)
(* the admin service forwards the request's body to a helper process that  *)
(* has the agent's rights only, and the helper publishes the file under a  *)
(* name made of the time and the file's own name. Bodies are counted in    *)
(* chunks. The browser may stop, the helper may fail or outlive the wait   *)
(* for it, and the service may restart under both.                         *)
(***************************************************************************)
EXTENDS Naturals, FiniteSets

CONSTANTS
    Uploads,             \* requests, each with a handler thread
    FileNames,           \* names the operator's files have
    MaxSize,             \* bound: the longest body, in chunks
    MaxTime              \* bound: how often the helper's clock moves on

ASSUME FilesAssumption ==
    /\ IsFiniteSet(Uploads) /\ IsFiniteSet(FileNames)
    /\ MaxSize \in Nat /\ MaxTime \in Nat

VARIABLES
    put,      \* per request: its place, file name, announced length, chunks forwarded, answer
    helper,   \* per request, its helper: its place, chunks read, and the name it published
    uploaded, \* files in user-files, under temporary and published names
    now       \* the clock, as coarse as the names are

fileVars == <<put, helper, uploaded, now>>

NoName == <<>>
NoPut == [at |-> "idle", file |-> "none", size |-> 0, fed |-> 0, answer |-> "none"]
NoHelper == [at |-> "none", got |-> 0, name |-> NoName]

FilesInit ==
    /\ put = [u \in Uploads |-> NoPut]
    /\ helper = [u \in Uploads |-> NoHelper]
    /\ uploaded = {}
    /\ now = 0

Handling(u, place) == put[u].at = place
Helping(u, place) == helper[u].at = place
HelperGoes(u, place) == helper' = [helper EXCEPT ![u].at = place]
HelperEnded(u) == helper[u].at \in {"ok", "refused", "failed", "killed"}
InputOpen(u) == Handling(u, "forwards")
AnswersPut(u, answer) == put' = [put EXCEPT ![u].at = "done", ![u].answer = answer]

Partial(u) == [by |-> u, name |-> NoName, chunks |-> helper[u].got]
NamesFile == {f \in uploaded : f.name # NoName}

-----------------------------------------------------------------------------
(* The handler: _send_agent_file_upload.                                   *)

\* The helper is started with the file's name and the announced length.
BeginPut(u) ==
    /\ Handling(u, "idle")
    /\ \E file \in FileNames, size \in 0 .. MaxSize :
          put' = [put EXCEPT ![u] =
              [at |-> "forwards", file |-> file, size |-> size, fed |-> 0, answer |-> "none"]]
    /\ HelperGoes(u, "starts")
    /\ UNCHANGED <<uploaded, now>>

Forwards(u) ==
    /\ Handling(u, "forwards") /\ ~HelperEnded(u)
    /\ put[u].fed < put[u].size
    /\ put' = [put EXCEPT ![u].fed = @ + 1]
    /\ UNCHANGED <<helper, uploaded, now>>

\* Everything is forwarded: the input is closed, and the helper's end awaited.
ClosesInput(u) ==
    /\ Handling(u, "forwards") /\ put[u].fed = put[u].size
    /\ put' = [put EXCEPT ![u].at = "waits"]
    /\ UNCHANGED <<helper, uploaded, now>>

\* The browser stopped early: the end of the input lets the helper clean up.
BrowserStops(u) ==
    /\ Handling(u, "forwards") /\ put[u].fed < put[u].size
    /\ put' = [put EXCEPT ![u].at = "aborts"]
    /\ UNCHANGED <<helper, uploaded, now>>

\* The helper is gone before it took everything.
PipeBreaks(u) ==
    /\ Handling(u, "forwards") /\ HelperEnded(u)
    /\ put' = [put EXCEPT ![u].at = "waits"]
    /\ UNCHANGED <<helper, uploaded, now>>

\* The helper's verdict is the answer; its refusals are told from its failures.
AnswersAsHelped(u) ==
    /\ Handling(u, "waits") /\ HelperEnded(u)
    /\ AnswersPut(u, CASE helper[u].at = "ok" -> "ok"
                       [] helper[u].at = "refused" -> "bad request"
                       [] OTHER -> "error")
    /\ UNCHANGED <<helper, uploaded, now>>

AnswersAborted(u) ==
    /\ Handling(u, "aborts") /\ HelperEnded(u)
    /\ AnswersPut(u, "bad request")
    /\ UNCHANGED <<helper, uploaded, now>>

\* The helper takes longer than is waited for: it is killed, or it is not, when the
\* service has no right to signal it any more, and then it goes on by itself.
HelperTimeout(u) ==
    /\ put[u].at \in {"waits", "aborts"} /\ ~HelperEnded(u)
    /\ AnswersPut(u, IF Handling(u, "waits") THEN "timeout" ELSE "bad request")
    /\ HelperGoes(u, "killed") \/ UNCHANGED helper
    /\ UNCHANGED <<uploaded, now>>

\* The admin service restarts: nobody answers, and the pipes are closed.
HandlersDie ==
    /\ \E u \in Uploads : put[u].at \in {"forwards", "waits", "aborts"}
    /\ put' = [u \in Uploads |-> IF put[u].at \in {"forwards", "waits", "aborts"}
                   THEN [put[u] EXCEPT !.at = "done", !.answer = "lost"] ELSE put[u]]
    /\ UNCHANGED <<helper, uploaded, now>>

-----------------------------------------------------------------------------
(* The helper: upload_agent_file.                                          *)

\* The directory is a real one and the temporary file new, or the helper refuses.
HelperOpens(u) ==
    /\ Helping(u, "starts")
    /\ \/ HelperGoes(u, "reads") /\ uploaded' = uploaded \cup {Partial(u)}
       \/ \E end \in {"refused", "failed"} : HelperGoes(u, end) /\ UNCHANGED uploaded
    /\ UNCHANGED <<put, now>>

HelperReads(u) ==
    /\ Helping(u, "reads") /\ helper[u].got < put[u].fed
    /\ helper' = [helper EXCEPT ![u].got = @ + 1]
    /\ uploaded' = (uploaded \ {Partial(u)})
                       \cup {[Partial(u) EXCEPT !.chunks = @ + 1]}
    /\ UNCHANGED <<put, now>>

\* The announced length is there.
AllRead(u) == helper[u].got = put[u].size

\* The input ends before that, or the disk is full.
HelperFails(u) ==
    /\ Helping(u, "reads")
    /\ \/ ~InputOpen(u) /\ helper[u].got = put[u].fed /\ ~AllRead(u)
             /\ HelperGoes(u, "refused")
       \/ HelperGoes(u, "failed")
    /\ uploaded' = uploaded \ {Partial(u)}
    /\ UNCHANGED <<put, now>>

\* Wrong: the file is moved to its name, whatever is there.
MovesTo(u, name) ==
    uploaded' = {f \in uploaded : f.name # name} \cup {[Partial(u) EXCEPT !.name = name]}
\* A link is made only where there is none.
LinksAs(u, name) ==
    /\ \A f \in NamesFile : f.name # name
    /\ uploaded' = uploaded \cup {[Partial(u) EXCEPT !.name = name]}

\* The name is the time, the file's name, and the first free number after them.
Taken(u, k) == \E f \in NamesFile : f.name = <<now, put[u].file, k>>
Publishes(u) ==
    /\ Helping(u, "reads") /\ AllRead(u)
    /\ \E k \in 0 .. Cardinality(Uploads) :
          /\ \A j \in 0 .. (k - 1) : Taken(u, j)
          /\ LinksAs(u, <<now, put[u].file, k>>)
          /\ helper' = [helper EXCEPT ![u].at = "published", ![u].name = <<now, put[u].file, k>>]
    /\ UNCHANGED <<put, now>>

\* The temporary name goes; a failure from here on is reported of a published file.
HelperEnds(u) ==
    /\ Helping(u, "published")
    /\ uploaded' = uploaded \ {Partial(u)}
    /\ \E end \in {"ok", "failed"} : HelperGoes(u, end)
    /\ UNCHANGED <<put, now>>

TimeMoves == now < MaxTime /\ now' = now + 1 /\ UNCHANGED <<put, helper, uploaded>>

FilesNext ==
    \/ \E u \in Uploads :
          \/ BeginPut(u) \/ Forwards(u) \/ ClosesInput(u) \/ BrowserStops(u) \/ PipeBreaks(u)
          \/ AnswersAsHelped(u) \/ AnswersAborted(u) \/ HelperTimeout(u)
          \/ HelperOpens(u) \/ HelperReads(u) \/ HelperFails(u) \/ Publishes(u)
          \/ HelperEnds(u)
    \/ HandlersDie \/ TimeMoves

FilesSpec == FilesInit /\ [][FilesNext]_fileVars

-----------------------------------------------------------------------------
(* Properties.                                                             *)

\* What is published has the announced length, and stays: two uploads of one name in
\* one instant do not replace each other, and an upload that was answered "ok" is under
\* the name the answer gave.
UploadsAreKept ==
    /\ \A f \in NamesFile : f.chunks = put[f.by].size
    /\ \A u \in Uploads : put[u].answer = "ok" =>
          \E f \in NamesFile : f.by = u /\ f.name = helper[u].name
=============================================================================
