---------------------------- MODULE BedrockMeter ----------------------------
(***************************************************************************)
(* The passive meter of Bedrock responses: the proxy feeds it the bytes it *)
(* relays, in the pieces they arrive in, and when the relay ends the usage *)
(* is parsed out of them and added to the row of its model and day, which  *)
(* the admin service sums up over the month. A response is a sequence of   *)
(* parts none of which means anything unless it is whole.                  *)
(***************************************************************************)
EXTENDS Naturals, Sequences, FiniteSets, SequencesExt, FiniteSetsExt

CONSTANTS
    Invocations,           \* allowed invocations, a handler thread each
    Priced, Unpriced,      \* model ids: in the catalog's price table, and not
    Days,                  \* 1 .. Days are UTC days
    MaxMetered             \* the buffer bound, in parts

ASSUME MeterAssumption ==
    /\ IsFiniteSet(Invocations) /\ IsFiniteSet(Priced) /\ Priced \cap Unpriced = {}
    /\ Days \in Nat \ {0} /\ MaxMetered \in Nat

VARIABLES
    meter,    \* per invocation: its place, model, response, parts relayed, buffer, overflow
    ledger,   \* bedrock_usage: per model and day, requests, metered ones, tokens and cost
    truth,    \* what was counted for whom and when, what AWS reported, and whether it all came
    day

meterVars == <<meter, ledger, truth, day>>

Bucket == "other"
Catalogued(m) == IF m \in Priced THEN m ELSE Bucket
Rate(m) == IF m \in Priced THEN 2 ELSE 0
NoRow == [requests |-> 0, metered |-> 0, tokens |-> 0, cost |-> 0]

-----------------------------------------------------------------------------
(* Responses and what the meter makes of their bytes.                      *)

\* Interim heads first, then the head, then the body: a JSON document in two halves, or
\* a stream of events the last of which carries the usage; then, when the body is
\* chunked, the last chunk. Usage 0 is a body that reports none.
Shapes ==
    {r \in [interim : 0 .. 1, status : {200, 429}, stream : BOOLEAN, chunked : BOOLEAN,
            coding : {"identity", "gzip", "br"}, usage : 0 .. 1] :
        /\ r.status # 200 => r.usage = 0 /\ ~r.stream
        /\ r.interim > 0 => r.coding = "identity"}

Part(kind, r) == [kind |-> kind, of |-> r]
Wire(r) ==
    [i \in 1 .. r.interim |-> Part("interim", r)] \o <<Part("head", r)>>
        \o (IF r.stream THEN <<Part("delta", r), Part("metadata", r)>>
                        ELSE <<Part("opening", r), Part("closing", r)>>)
        \o (IF r.chunked THEN <<Part("last", r)>> ELSE <<>>)

Kinds(raw) == {raw[i].kind : i \in DOMAIN raw}

\* Wrong: the first head is taken for the response's.
SkipsNone(raw) == raw
\* _skip_interim_responses.
Skipped(raw) ==
    IF Kinds(raw) \subseteq {"interim"} THEN <<>>
    ELSE SubSeq(raw, Min({i \in DOMAIN raw : raw[i].kind # "interim"}), Len(raw))

\* What carries the usage: the one metadata event, or the document as a whole.
Carrier(r) == IF r.stream THEN "metadata" ELSE "closing"

\* _decoded_body: a chunked body without its last chunk is no body, nor is one in a
\* coding the meter does not know, or a compressed one that was cut off.
Decodable(r, body) ==
    /\ r.chunked => "last" \in Kinds(body)
    /\ r.coding # "br"
    /\ r.coding = "gzip" => Carrier(r) \in Kinds(body)

\* _parse_usage: the usage of one raw response; 0 when it has none, or none readable.
Parsed(raw) ==
    LET rest == Skipped(raw)
    IN IF rest = <<>> \/ Head(rest).kind # "head" THEN 0
       ELSE LET r == Head(rest).of
            IN IF r.status = 200 /\ Decodable(r, Tail(rest)) /\ Carrier(r) \in Kinds(rest)
               THEN r.usage ELSE 0

-----------------------------------------------------------------------------
IdleMeter == [at |-> "idle", model |-> Bucket, response |-> <<>>, relayed |-> 0,
              buffer |-> <<>>, overflowed |-> FALSE]

MeterInit ==
    /\ meter = [n \in Invocations |-> IdleMeter]
    /\ ledger = [md \in (Priced \cup {Bucket}) \X (1 .. Days) |-> NoRow]
    /\ truth = {}
    /\ day = 1

Metering(n, place) == meter[n].at = place
Reply(n) == meter[n].response[1]
Sent(n) == Wire(Reply(n))

\* response_meter: the invocation's model and the response it will get.
Invokes(n) ==
    /\ Metering(n, "idle")
    /\ \E m \in Priced \cup Unpriced, r \in Shapes :
          meter' = [meter EXCEPT ![n] =
              [IdleMeter EXCEPT !.at = "relays", !.model = m, !.response = <<r>>]]
    /\ UNCHANGED <<ledger, truth, day>>

\* feed: past the bound the response counts as one nobody can read.
Fed(f, data) ==
    IF f.overflowed THEN f
    ELSE IF Len(f.buffer) + Len(data) > MaxMetered
         THEN [f EXCEPT !.overflowed = TRUE, !.buffer = <<>>]
         ELSE [f EXCEPT !.buffer = @ \o data]

\* forward_until_close: any number of parts at a time.
RelaysBytes(n) ==
    /\ Metering(n, "relays") /\ meter[n].relayed < Len(Sent(n))
    /\ \E k \in (meter[n].relayed + 1) .. Len(Sent(n)) :
          LET fed == Fed(meter[n], SubSeq(Sent(n), meter[n].relayed + 1, k))
          IN meter' = [meter EXCEPT ![n] = [fed EXCEPT !.relayed = k]]
    /\ UNCHANGED <<ledger, truth, day>>

\* record_bedrock_usage: one increment, atomic in the database. What was not metered
\* costs nothing.
RecordedRow(n, usage) ==
    LET m == meter[n].model
    IN /\ ledger' = [ledger EXCEPT ![<<Catalogued(m), day>>] =
              [requests |-> @.requests + 1,
               metered |-> @.metered + (IF usage = 0 THEN 0 ELSE 1),
               tokens |-> @.tokens + usage,
               cost |-> @.cost + usage * Rate(m)]]
       /\ truth' = truth \cup
              {[of |-> n, day |-> day, usage |-> usage, reported |-> Reply(n).usage,
                whole |-> /\ meter[n].relayed = Len(Sent(n))
                          /\ Len(Sent(n)) <= MaxMetered
                          /\ Reply(n).status = 200 /\ Reply(n).coding # "br"]}

\* finish, however the relay ended: complete, or the upstream or the client gave up. A
\* database failure is swallowed.
StreamEnds(n) ==
    /\ Metering(n, "relays")
    /\ LET usage == IF meter[n].overflowed THEN 0 ELSE Parsed(meter[n].buffer)
       IN RecordedRow(n, usage) \/ UNCHANGED <<ledger, truth>>
    /\ meter' = [meter EXCEPT ![n] = [IdleMeter EXCEPT !.at = "done"]]
    /\ UNCHANGED day

DayEnds == day < Days /\ day' = day + 1 /\ UNCHANGED <<meter, ledger, truth>>

MeterNext == (\E n \in Invocations : Invokes(n) \/ RelaysBytes(n) \/ StreamEnds(n)) \/ DayEnds

MeterSpec == MeterInit /\ [][MeterNext]_meterVars

-----------------------------------------------------------------------------
(* Properties.                                                             *)

\* However a response was cut into pieces, and whoever gave up on it, a metered request
\* has the usage the provider reported, and a response that came whole and readable is
\* metered (response_meter.finish).
MeteredAsReported ==
    \A t \in truth :
        /\ t.usage # 0 => t.usage = t.reported
        /\ t.whole => t.usage = t.reported

\* The month's sums, as _bedrock_live_usage reports them from a first day on.
SumOf(field, rows, since) ==
    MapThenSumSet(LAMBDA md : rows[md][field], {md \in DOMAIN rows : md[2] >= since})
UsageOf(requests) == MapThenSumSet(LAMBDA t : t.usage, requests)

\* The month's sums from a first day on are those of the requests recorded since then.
SumsAreTrue(since) ==
    LET Since == {t \in truth : t.day >= since}
    IN /\ SumOf("requests", ledger, since) = Cardinality(Since)
       /\ SumOf("metered", ledger, since) = Cardinality({t \in Since : t.usage # 0})
       /\ SumOf("tokens", ledger, since) = UsageOf(Since)

\* What was metered is what was reported, and the month's sums are those of the requests
\* recorded since its first day.
MeteredIsTrue == MeteredAsReported /\ \A since \in 1 .. Days : SumsAreTrue(since)
=============================================================================
