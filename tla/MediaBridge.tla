---------------------------- MODULE MediaBridge ----------------------------
(***************************************************************************)
(* Media between the agent and a provider that renders it: the MCP shim    *)
(* (mcp_shim.py), the tools socket (tools/api.py) and the Runway tool.     *)
(* Outwards a staged asset is uploaded and a rendering is asked for;       *)
(* inwards the finished video is relayed from the provider to the shim,    *)
(* which puts it under a name of its own into the agent's tool_assets.     *)
(* Bytes are counted in chunks. The provider, the service and the shim     *)
(* each fail on their own, and an agent's process may be killed anywhere.  *)
(***************************************************************************)
EXTENDS Naturals, FiniteSets

CONSTANTS
    Shims,                 \* the agent's MCP processes, one call at a time each
    Images, Videos,        \* media files of the agent's workspace
    Renders,               \* bound: the provider's tasks
    MaxChunks,             \* bound: the length of a video
    CALL_SLOTS,
    MaxCalls               \* bound: calls of one shim

ASSUME BridgeAssumption ==
    /\ IsFiniteSet(Shims) /\ IsFiniteSet(Renders)
    /\ IsFiniteSet(Images) /\ IsFiniteSet(Videos) /\ Images \cap Videos = {}
    /\ MaxChunks \in Nat \ {0} /\ CALL_SLOTS \in Nat /\ MaxCalls \in Nat

Media == Images \cup Videos

VARIABLES
    render,   \* the provider's tasks: status, source and true length
    staged,   \* per file: "none", "ready" in the store, "used" by the tool, or "expired"
    handler,     \* per shim, the service's handler of its call
    relay,    \* per shim, the stream: declared length, chunks read, held back and sent
    shim,     \* per shim: its place and the chunks it wrote to its temporary file
    assets    \* files in tool_assets: temporary ones and those under a final name

bridgeVars == <<render, staged, handler, relay, shim, assets>>

NoRender == [status |-> "none", source |-> {}, length |-> 0, told |-> FALSE]
NoCall == [at |-> "none", source |-> {}, kind |-> {}, task |-> {}, audit |-> "none"]
NoRelay == [declared |-> 0, read |-> 0, held |-> 0, sent |-> 0, open |-> FALSE]
IdleShim == [at |-> "idle", got |-> 0, calls |-> 0, stages |-> {}]

BridgeInit ==
    /\ render = [r \in Renders |-> NoRender]
    /\ staged = [m \in Media |-> "none"]
    /\ handler = [s \in Shims |-> NoCall]
    /\ relay = [s \in Shims |-> NoRelay]
    /\ shim = [s \in Shims |-> IdleShim]
    /\ assets = {}

Serving(s, place) == handler[s].at = place
SlotsTaken == {s \in Shims : handler[s].at \notin {"none", "done"}}
Shimming(s, place) == shim[s].at = place
ShimGoes(s, place) == shim' = [shim EXCEPT ![s].at = place]

\* The end of a call: the audit record is written and the answer sent.
CallEnds(s, outcome) ==
    handler' = [handler EXCEPT ![s].at = "done", ![s].audit = outcome,
                         ![s].source = {}, ![s].kind = {}]

-----------------------------------------------------------------------------
(* The agent's side: the shim sends one call and waits for its answer.     *)

\* Each action, the staged files its request may name, and their kind: generate_video
\* takes an image or its URL or neither, edit_video a video or its URL, the others none.
RenderActions == {"generate_video", "edit_video", "generate_image", "generate_speech"}
TaskActions == {"get_task", "save_video"}
KindOf(action) ==
    CASE action = "generate_video" -> Images
      [] action = "edit_video" -> Videos
      [] OTHER -> {}
Sources(action) == {{}} \cup (IF KindOf(action) = {} THEN {} ELSE {{m} : m \in Media})
\* A task is named by an id the agent was given.
NamesMedia(action) ==
    IF action \in TaskActions THEN {{r} : r \in {q \in Renders : render[q].told}} ELSE {{}}
FirstPlace(action, source) ==
    CASE action = "get_task" -> "poll"
      [] action = "save_video" -> "lookup"
      [] OTHER -> IF source = {} THEN "create" ELSE "describe"

\* tools/call: refused when every slot is taken.
CallTool(s) ==
    /\ Shimming(s, "idle") /\ shim[s].calls < MaxCalls
    /\ handler[s].at \in {"none", "done"}
    /\ Cardinality(SlotsTaken) < CALL_SLOTS
    /\ \E action \in RenderActions \cup TaskActions :
          \E source \in Sources(action), task \in NamesMedia(action) :
              handler' = [handler EXCEPT ![s] =
                  [at |-> FirstPlace(action, source), source |-> source,
                   kind |-> KindOf(action), task |-> task, audit |-> "none"]]
    /\ shim' = [shim EXCEPT ![s].at = "waits", ![s].got = 0, ![s].calls = @ + 1]
    /\ relay' = [relay EXCEPT ![s] = NoRelay]
    /\ UNCHANGED <<render, staged, assets>>

\* stage_image and stage_video: the file is opened as the agent, without following a
\* link, and its size at that moment is announced.
Stages(s, m) ==
    /\ Shimming(s, "idle") /\ staged[m] = "none"
    /\ shim' = [shim EXCEPT ![s].at = "stages", ![s].stages = {m}]
    /\ UNCHANGED <<render, staged, handler, relay, assets>>

\* The store takes the file, or refuses it (its tool is off, no slot, no room, the file
\* changed its size on the way): the shim recovers that answer from a broken pipe too.
Staged(s) ==
    /\ Shimming(s, "stages")
    /\ shim' = [shim EXCEPT ![s].at = "idle", ![s].stages = {}]
    /\ \/ staged' = [m \in Media |-> IF m \in shim[s].stages /\ staged[m] = "none"
                                    THEN "ready" ELSE staged[m]]
       \/ UNCHANGED staged
    /\ UNCHANGED <<render, handler, relay, assets>>

\* A plain answer: it is decoded and handed to the agent; a response that never comes
\* ends in the shim's timeout.
TakesAnswer(s) ==
    /\ Shimming(s, "waits")
    /\ ~relay[s].open
    /\ ShimGoes(s, "idle")
    /\ UNCHANGED <<render, staged, handler, relay, assets>>

-----------------------------------------------------------------------------
(* Rendering.                                                              *)

\* The upload starts with the asset's description: one that is not there, or is of the
\* other kind, ends it.
Describes(s) ==
    /\ Serving(s, "describe")
    /\ \/ /\ \A m \in handler[s].source : staged[m] = "ready" /\ m \in handler[s].kind
          /\ handler' = [handler EXCEPT ![s].at = "upload"]
       \/ CallEnds(s, "failed")
    /\ UNCHANGED <<render, staged, relay, shim, assets>>

\* The provider opens an upload, and the asset is opened and sent under the length its
\* description gave; it may be gone by then.
UploadsSource(s) ==
    /\ Serving(s, "upload")
    /\ \/ /\ \A m \in handler[s].source : staged[m] = "ready"
          /\ handler' = [handler EXCEPT ![s].at = "create"]
       \/ CallEnds(s, "failed")
    /\ UNCHANGED <<render, staged, relay, shim, assets>>

\* The provider takes the request: a task is made, and paid for.
Made(s, r) ==
    /\ render[r].status = "none"
    /\ \E n \in 1 .. MaxChunks :
          render' = [render EXCEPT ![r] =
              [status |-> "running", source |-> handler[s].source, length |-> n, told |-> FALSE]]

\* A malformed or lost answer leaves the source in place for another try.
KeepsSource(s) == UNCHANGED staged

\* _create_task: refused, made without a task id the service could read, or made.
Creates(s) ==
    /\ Serving(s, "create")
    /\ \/ CallEnds(s, "failed") /\ KeepsSource(s) /\ UNCHANGED render
       \/ \E r \in Renders : Made(s, r) /\ CallEnds(s, "failed") /\ KeepsSource(s)
       \/ \E r \in Renders :
             /\ Made(s, r)
             /\ handler' = [handler EXCEPT ![s].at = "created", ![s].task = {r}]
             /\ UNCHANGED staged
    /\ UNCHANGED <<relay, shim, assets>>

\* The task id is there: the source is deleted, an answer for the agent is on its way.
Confirms(s) ==
    /\ Serving(s, "created")
    /\ staged' = [m \in Media |-> IF m \in handler[s].source /\ staged[m] = "ready"
                                  THEN "used" ELSE staged[m]]
    /\ render' = [r \in Renders |->
           IF r \in handler[s].task THEN [render[r] EXCEPT !.told = TRUE] ELSE render[r]]
    /\ CallEnds(s, "executed")
    /\ UNCHANGED <<relay, shim, assets>>

\* get_task: what the provider says of the task, as it is.
PollsRender(s) ==
    /\ Serving(s, "poll")
    /\ \E outcome \in {"executed", "failed"} : CallEnds(s, outcome)
    /\ UNCHANGED <<render, staged, relay, shim, assets>>

\* The provider renders, or gives up.
Finishes(r) ==
    /\ render[r].status = "running"
    /\ \E result \in {"succeeded", "failed"} :
          render' = [render EXCEPT ![r].status = result]
    /\ UNCHANGED <<staged, handler, relay, shim, assets>>

AssetLost(m) ==
    /\ staged[m] = "ready"
    /\ staged' = [staged EXCEPT ![m] = "expired"]
    /\ UNCHANGED <<render, handler, relay, shim, assets>>

-----------------------------------------------------------------------------
(* Saving: _save_video, _send_streaming_action and _materialize_stream.    *)

Video(s) == render[CHOOSE r \in handler[s].task : TRUE]

\* The lookup: only a finished task has a video.
LooksUp(s) ==
    /\ Serving(s, "lookup")
    /\ \/ Video(s).status = "succeeded" /\ handler' = [handler EXCEPT ![s].at = "open"]
       \/ CallEnds(s, "failed")
    /\ UNCHANGED <<render, staged, relay, shim, assets>>

\* The download is opened; its header may not tell the length it really has. A length
\* or type out of range is a failure with an answer of its own.
Opens(s) ==
    /\ Serving(s, "open")
    /\ \/ /\ \E d \in 1 .. MaxChunks :
                relay' = [relay EXCEPT ![s] = [NoRelay EXCEPT !.declared = d, !.open = TRUE]]
          /\ handler' = [handler EXCEPT ![s].at = "relay"]
       \/ CallEnds(s, "failed") /\ UNCHANGED relay
    /\ UNCHANGED <<render, staged, shim, assets>>

\* The chunk just read is held back, and the one held so far goes out.
HoldsBack(f) == [f EXCEPT !.read = @ + 1, !.sent = @ + f.held, !.held = 1]

RelaysChunk(s) ==
    /\ Serving(s, "relay")
    /\ relay[s].read < relay[s].declared /\ relay[s].read < Video(s).length
    /\ shim[s].at # "gone"
    /\ relay' = [relay EXCEPT ![s] = HoldsBack(@)]
    /\ UNCHANGED <<render, staged, handler, shim, assets>>

\* The declared length is reached and one byte more is asked for: none, and the last
\* chunk goes out.
RelaysLast(s) ==
    /\ Serving(s, "relay")
    /\ relay[s].read = relay[s].declared /\ Video(s).length = relay[s].declared
    /\ shim[s].at # "gone"
    /\ relay' = [relay EXCEPT ![s].sent = @ + relay[s].held, ![s].held = 0]
    /\ handler' = [handler EXCEPT ![s].at = "sent"]
    /\ UNCHANGED <<render, staged, shim, assets>>

\* The provider's stream ends early or runs over, or a socket fails: the response is
\* left truncated, there is no second answer after the headers.
RelayFails(s) ==
    /\ Serving(s, "relay")
    /\ CallEnds(s, "failed")
    /\ relay' = [relay EXCEPT ![s].held = 0]
    /\ UNCHANGED <<render, staged, shim, assets>>

\* finish_streaming_action: audited after the transport. The flush or the end of the
\* download may still raise: what was delivered whole is audited as failed then.
AuditsStream(s) ==
    /\ Serving(s, "sent")
    /\ \E outcome \in {"executed", "failed"} : CallEnds(s, outcome)
    /\ UNCHANGED <<render, staged, relay, shim, assets>>

Temp(s) == [by |-> s, call |-> shim[s].calls, of |-> handler[s].task, chunks |-> shim[s].got,
            name |-> "temporary"]
TempOf(s) == {f \in assets : f.by = s /\ f.call = shim[s].calls /\ f.name = "temporary"}

\* _materialize_stream: valid headers, and a temporary file nobody else has.
Materializes(s) ==
    /\ Shimming(s, "waits") /\ relay[s].open
    /\ ShimGoes(s, "writes")
    /\ assets' = assets \cup {Temp(s)}
    /\ UNCHANGED <<render, staged, handler, relay>>

Receives(s) ==
    /\ Shimming(s, "writes") /\ shim[s].got < relay[s].sent
    /\ shim[s].got < relay[s].declared
    /\ shim' = [shim EXCEPT ![s].got = @ + 1]
    /\ assets' = (assets \ TempOf(s)) \cup {[f EXCEPT !.chunks = @ + 1] : f \in TempOf(s)}
    /\ UNCHANGED <<render, staged, handler, relay>>

\* Wrong: what has arrived by the end of the response is the file.
TakesTruncated(s) == shim[s].got = relay[s].declared \/ handler[s].at = "done"
\* Every declared byte is there.
Complete(s) == shim[s].got = relay[s].declared

\* The file is synced and linked under a fresh name.
Links(s) ==
    /\ Shimming(s, "writes") /\ Complete(s)
    /\ assets' = assets \cup {[f EXCEPT !.name = "final"] : f \in TempOf(s)}
    /\ ShimGoes(s, "linked")
    /\ UNCHANGED <<render, staged, handler, relay>>

\* The temporary name goes, and the agent is told the path.
Saved(s) ==
    /\ Shimming(s, "linked")
    /\ assets' = assets \ TempOf(s)
    /\ ShimGoes(s, "idle")
    /\ UNCHANGED <<render, staged, handler, relay>>

\* The stream ended early, the socket timed out or the disk is full.
SaveFails(s) ==
    /\ Shimming(s, "writes")
    /\ assets' = assets \ TempOf(s)
    /\ ShimGoes(s, "idle")
    /\ UNCHANGED <<render, staged, handler, relay>>

\* The agent's process tree is killed, the shim with it: nothing is cleaned up.
ShimKilled(s) ==
    /\ ~Shimming(s, "gone")
    /\ ShimGoes(s, "gone")
    /\ UNCHANGED <<render, staged, handler, relay, assets>>

\* The tools service restarts: its handlers are gone, their streams end where they are.
BridgeRestarts ==
    /\ SlotsTaken # {}
    /\ handler' = [s \in Shims |-> IF s \in SlotsTaken
                    THEN [handler[s] EXCEPT !.at = "done", !.audit = "none"] ELSE handler[s]]
    /\ relay' = [s \in Shims |-> [relay[s] EXCEPT !.held = 0]]
    /\ UNCHANGED <<render, staged, shim, assets>>

BridgeNext ==
    \/ \E s \in Shims :
          \/ CallTool(s) \/ TakesAnswer(s) \/ Staged(s) \/ \E m \in Media : Stages(s, m)
          \/ Describes(s) \/ UploadsSource(s) \/ Creates(s) \/ Confirms(s) \/ PollsRender(s)
          \/ LooksUp(s) \/ Opens(s) \/ RelaysChunk(s) \/ RelaysLast(s) \/ RelayFails(s)
          \/ AuditsStream(s)
          \/ Materializes(s) \/ Receives(s) \/ Links(s) \/ Saved(s) \/ SaveFails(s)
          \/ ShimKilled(s)
    \/ \E r \in Renders : Finishes(r)
    \/ \E m \in Media : AssetLost(m)
    \/ BridgeRestarts

BridgeSpec == BridgeInit /\ [][BridgeNext]_bridgeVars

-----------------------------------------------------------------------------
(* Properties.                                                             *)

\* A file under its final name is a whole video: neither a stream that broke off nor the
\* beginning of one that is longer than its header said ever gets there. A transfer
\* audited as executed has handed over all of its video and nothing more; one audited
\* as failed may have done so too, if only its end failed.
FilesAreWhole ==
    /\ \A f \in assets : f.name = "final" => \A r \in f.of : f.chunks = render[r].length
    /\ \A s \in Shims : relay[s].open /\ handler[s].audit = "executed" =>
          \A r \in handler[s].task : relay[s].sent = render[r].length

\* A staged asset the tool has deleted went into a rendering whose id the agent can ask
\* for: no failure on the way costs the agent its source.
SourceIsSpentOnce ==
    \A m \in Media : staged[m] = "used" =>
        \E r \in Renders : render[r].source = {m} /\ render[r].told
=============================================================================
