------------------------------- MODULE ProxyGate -------------------------------
(***************************************************************************)
(* The agent's only way out: a connection through the network proxy        *)
(* (network_proxy/service.py) and the integration that owns its host       *)
(* (network_integrations/). A connection takes a slot, is admitted by the  *)
(* policy at CONNECT, carries one request that is judged by the policy     *)
(* loaded for it, is given the operator's credential, and is relayed. A    *)
(* WebSocket goes on as a tunnel: to a guarded host its client messages    *)
(* are judged one by one, to any other its bytes pass unread. Policy,      *)
(* credential and pin change under it at any time.                         *)
(*                                                                         *)
(* A payload is a fragment of a declaration the guard denies: its first    *)
(* half, its second half, or neither; a message is denied when it holds    *)
(* the first half and, after it, the second.                               *)
(***************************************************************************)
EXTENDS NetworkRules

CONSTANTS
    Conns,       \* client connections
    Slots,       \* MAX_CONNECTIONS
    Policies,    \* policies the operator stores
    Requests,    \* what clients ask for
    Accounts,    \* OpenAI accounts
    Tokens,      \* Claude tokens
    MaxFrames    \* bound on the frames a client sends on a tunnel

ASSUME SlotsAssumption == Slots \in Nat \ {0}
ASSUME FramesAssumption == MaxFrames \in Nat
ASSUME PoliciesAssumption == \A p \in Policies : ValidPolicy(p)

Stored == [region : Regions \cup {None}, account : Accounts \cup {None},
           token : Tokens \cup {None}]

Payloads == {"plain", "first", "second", "whole"}

\* A client frame: a first frame, a continuation, or a control frame; "garbled"
\* stands for whatever the guard cannot inspect (no mask, RSV bits, too long).
Frames ==
    [op : {"text", "cont"}, fin : BOOLEAN, payload : Payloads]
        \cup [op : {"control", "garbled"}, fin : {TRUE}, payload : {"plain"}]

VARIABLES
    policy,      \* the stored policy
    stored,      \* the region of the Bedrock credential and the pinned accounts
    free,        \* free slots
    conn         \* per connection: where its handler stands and what it has read

vars == <<policy, stored, free, conn>>

Places == {"closed", "accepted", "connect", "head", "judge", "rewrite", "send", "tunnel"}

Closed == [at |-> "closed", request |-> None, policy |-> None, permitted |-> FALSE,
           signed |-> None, held |-> <<>>, sent |-> <<>>, frames |-> 0]

TypeOK ==
    /\ policy \in Policies
    /\ stored \in Stored
    /\ free \in 0 .. Slots
    /\ \A c \in Conns :
          /\ DOMAIN conn[c] = DOMAIN Closed
          /\ conn[c].at \in Places
          /\ conn[c].request \in Requests \cup {None}
          /\ conn[c].policy \in Policies \cup {None}
          /\ conn[c].permitted \in BOOLEAN
          /\ conn[c].signed \in Regions \cup {None}
          /\ conn[c].held \in Seq(Frames)
          /\ conn[c].sent \in Seq(Frames)
          /\ conn[c].frames \in 0 .. MaxFrames

Init ==
    /\ policy \in {p \in Policies : \A i \in DOMAIN Apexes \cup {"custom"} : ~Enabled(p, i)}
    /\ stored = [region |-> None, account |-> None, token |-> None]
    /\ free = Slots
    /\ conn = [c \in Conns |-> Closed]

At(c, place) == conn[c].at = place

-----------------------------------------------------------------------------
(* Slots: BoundedThreadingHTTPServer.                                      *)

Accept(c) ==
    /\ At(c, "closed")
    /\ free > 0
    /\ free' = free - 1
    /\ conn' = [conn EXCEPT ![c].at = "accepted"]
    /\ UNCHANGED <<policy, stored>>

ThreadStarts(c) ==
    /\ At(c, "accepted")
    /\ conn' = [conn EXCEPT ![c].at = "connect"]
    /\ UNCHANGED <<policy, stored, free>>

\* Whatever ends the handler, its slot is released with it.
Close(c) ==
    /\ free' = free + 1
    /\ conn' = [conn EXCEPT ![c] = Closed]
    /\ UNCHANGED <<policy, stored>>

ThreadFails(c) ==
    /\ At(c, "accepted")
    /\ Close(c)

\* The client or the upstream goes away, a read times out, the database that
\* holds the policy is down, or the push gate answers the request itself.
Abort(c) ==
    /\ conn[c].at \notin {"closed", "accepted"}
    /\ Close(c)

-----------------------------------------------------------------------------
(* One request: do_CONNECT and _serve_tls_request.                         *)

\* What the policy itself allows, whatever credential or account is stored.
Permits(p, request) == \E s \in Stored : RequestAllowed(p, s, request)

\* CONNECT names a host and nothing else; it is refused before any upstream
\* connection when the integration of the host is off.
Connect(c) ==
    /\ At(c, "connect")
    /\ \E request \in Requests :
          IF HostAllowed(policy, stored, request.host)
            THEN /\ conn' = [conn EXCEPT ![c].at = "head", ![c].request = request,
                                         ![c].policy = policy]
                 /\ UNCHANGED <<policy, stored, free>>
            ELSE Close(c)

\* Wrong: the policy that admitted the CONNECT judges the request.
LoadAtConnect(c) == conn[c].policy

\* The policy is loaded again for the request.
LoadForRequest(c) == policy

\* The request's head and body have been read, and a policy is loaded for it.
Receive(c) ==
    /\ At(c, "head")
    /\ conn' = [conn EXCEPT ![c].at = "judge", ![c].policy = LoadForRequest(c),
                            ![c].permitted = Permits(policy, conn[c].request)]
    /\ UNCHANGED <<policy, stored, free>>

MessageDenied(payloads) ==
    \/ \E i \in DOMAIN payloads : payloads[i] = "whole"
    \/ \E i, j \in DOMAIN payloads : i < j /\ payloads[i] = "first" /\ payloads[j] = "second"

\* The owning integration decides by the policy loaded for the request; its guard
\* reads the stored region or the pinned account at this moment.
Judge(c) ==
    /\ At(c, "judge")
    /\ IF RequestAllowed(conn[c].policy, stored, conn[c].request)
         THEN /\ conn' = [conn EXCEPT ![c].at = "rewrite"]
              /\ UNCHANGED <<policy, stored, free>>
         ELSE Close(c)

\* The credential may have been replaced since the decision: it is read again,
\* and a request for another region goes on with its worthless signature.
Signs(request) == request.signature # None /\ InScope(stored.region, request)

\* rewrite_request_headers: signed names the region of the key that signs.
Rewrite(c) ==
    /\ At(c, "rewrite")
    /\ conn' = [conn EXCEPT ![c].at = "send",
                            ![c].signed = IF Signs(conn[c].request) THEN stored.region ELSE None]
    /\ UNCHANGED <<policy, stored, free>>

\* The request goes upstream; an answer is relayed and the connection closed,
\* an accepted upgrade becomes a tunnel.
Send(c) ==
    /\ At(c, "send")
    /\ IF conn[c].request.upgrade
         THEN /\ conn' = [conn EXCEPT ![c].at = "tunnel"]
              /\ UNCHANGED <<policy, stored, free>>
         ELSE Close(c)

-----------------------------------------------------------------------------
(* A tunnel: tunnel_websocket and WebSocketClientGuard.feed.               *)

\* No guard is made for the tunnel: whatever comes goes on as it is.
Opaque(c) == ~Inspected(conn[c].policy, conn[c].request.host)

\* Control frames pass; a frame out of order or one the guard cannot inspect
\* ends the tunnel.
Uninspectable(held, frame) ==
    \/ frame.op = "garbled"
    \/ frame.op = "cont" /\ held = <<>>
    \/ frame.op = "text" /\ held # <<>>

PayloadsOf(frames) == [i \in DOMAIN frames |-> frames[i].payload]

\* Wrong: a fragment is judged alone and goes on at once.
ClearsEager(held, frame) == [ready |-> TRUE, denied |-> MessageDenied(<<frame.payload>>)]

\* Fragments are held until their message ends, and judged together.
Clears(held, frame) ==
    [ready |-> frame.fin, denied |-> frame.fin /\ MessageDenied(PayloadsOf(Append(held, frame)))]

Pass(c, sent, held) ==
    /\ conn' = [conn EXCEPT ![c].sent = sent, ![c].held = held, ![c].frames = @ + 1]
    /\ UNCHANGED <<policy, stored, free>>

Feed(c) ==
    /\ At(c, "tunnel")
    /\ conn[c].frames < MaxFrames
    /\ \E frame \in Frames :
          LET held == conn[c].held
              all == Append(held, frame)
              clears == Clears(held, frame)
          IN  IF Opaque(c) \/ frame.op = "control" THEN Pass(c, Append(conn[c].sent, frame), held)
              ELSE IF Uninspectable(held, frame) \/ clears.denied THEN Close(c)
              ELSE IF clears.ready THEN Pass(c, conn[c].sent \o all, <<>>)
              ELSE Pass(c, conn[c].sent, all)

-----------------------------------------------------------------------------
(* What changes under a connection.                                        *)

\* A published policy; a request that is under way may be permitted by it.
PolicyChanges ==
    /\ \E p \in Policies :
          /\ policy' = p
          /\ conn' = [c \in Conns |->
                        IF conn[c].at \in {"judge", "rewrite", "send"}
                          THEN [conn[c] EXCEPT !.permitted = @ \/ Permits(p, conn[c].request)]
                          ELSE conn[c]]
    /\ UNCHANGED <<stored, free>>

CredentialChanges ==
    /\ \E r \in Regions \cup {None} : stored' = [stored EXCEPT !.region = r]
    /\ UNCHANGED <<policy, free, conn>>

PinChanges ==
    /\ \/ \E a \in Accounts \cup {None} : stored' = [stored EXCEPT !.account = a]
       \/ \E t \in Tokens \cup {None} : stored' = [stored EXCEPT !.token = t]
    /\ UNCHANGED <<policy, free, conn>>

Next ==
    \/ \E c \in Conns :
          \/ Accept(c) \/ ThreadStarts(c) \/ ThreadFails(c) \/ Abort(c)
          \/ Connect(c) \/ Receive(c) \/ Judge(c) \/ Rewrite(c) \/ Send(c)
          \/ Feed(c)
    \/ PolicyChanges \/ CredentialChanges \/ PinChanges

Spec == Init /\ [][Next]_vars

-----------------------------------------------------------------------------
(* Properties.                                                             *)

\* No slot is lost, whether a handler could not start, was refused, or ended
\* anywhere on its way: the free slots and the open connections are all there are.
SlotsExact == free + Cardinality({c \in Conns : ~At(c, "closed")}) = Slots

\* What goes upstream was permitted by a policy in force since the request was
\* received: the one that admitted the CONNECT, which may be long withdrawn, does
\* not count.
PermittedWhenSent == \A c \in Conns : At(c, "send") => conn[c].permitted

\* A real signature is made only with the key of the region the request goes to,
\* however the credential was replaced between the decision and the signature.
SignedForItsRegion ==
    \A c \in Conns :
        conn[c].signed # None => conn[c].request.host = RegionHost(conn[c].signed)

IsData(frame) == frame.op # "control"

\* The frames i to j are one message, with the control frames sent amid it.
IsMessage(frames, i, j) ==
    /\ i <= j
    /\ frames[i].op = "text"
    /\ IsData(frames[j]) /\ frames[j].fin
    /\ \A k \in i .. j - 1 : IsData(frames[k]) => ~frames[k].fin

\* What a guarded host has received on a tunnel reassembles into whole messages, and
\* none of them, put together from its fragments, is one the guard denies, whatever
\* becomes of the policy after the handshake. Of other hosts nothing is claimed: their
\* tunnels are opaque.
UpstreamIsJudged ==
    \A c \in {c \in Conns : At(c, "tunnel") /\ conn[c].request.host \in GuardedHosts} :
        LET sent == conn[c].sent
        IN  /\ \A i \in DOMAIN sent :
                  IsData(sent[i]) => \E j \in i .. Len(sent) : IsData(sent[j]) /\ sent[j].fin
            /\ \A i, j \in DOMAIN sent :
                  IsMessage(sent, i, j) => ~MessageDenied(PayloadsOf(SubSeq(sent, i, j)))

\* The configurations under which every admitted request stays in scope.
ScopedConfigs ==
    {config \in {p.github : p \in Policies} :
        \A request \in GithubAsks(Listed \cup Unlisted) :
            GithubAllows(config, request) => StaysInScope(config, request)}

\* Under the GitHub policy in force, whatever an admitted request changes, it
\* changes in a repository the operator listed, and neither the settings of it nor
\* the access to it; and where pushes need approval, what may change workflows is
\* a push that the gate looks into, never a REST call around it.
WritesStayInScope == policy.github.enabled => policy.github \in ScopedConfigs

=============================================================================
