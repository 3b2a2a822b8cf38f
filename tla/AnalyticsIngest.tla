-------------------------- MODULE AnalyticsIngest --------------------------
(***************************************************************************)
(* A batch of usage events (src/analytics): checked, dated and handed to   *)
(* the sink, the file or Google Analytics in requests of a few events, any *)
(* of which may fail, or the function be stopped, after others landed.     *)
(*                                                                         *)
(* A prop is a key and the class of its value.                             *)
(***************************************************************************)
EXTENDS Integers, FiniteSets, Sequences, FiniteSetsExt, Selections

CONSTANTS
  Batches,                  \* what a client may send
  MaxEventsPerBatch,        \* MAX_EVENTS_PER_BATCH
  MaxEventsPerRequest,      \* GA4_MAX_EVENTS_PER_REQUEST
  TicksOfDay, TicksOfHour,
  LastInstant,              \* bound on the clock
  MaxSends                  \* bound on the sends of a batch

Values == {"boolean", "listed", "address", "null"}
RawEvents == [event : {"plain", "transaction", "unknown"}, flat : BOOLEAN, ts : Int,
              props : SUBSET ({"chain", "success", "powerup", "other"} \X Values)]

ASSUME IngestAssumption ==
  /\ \A batch \in Batches : batch.events \in Seq(RawEvents)
  /\ MaxEventsPerBatch \in Nat \ {0} /\ MaxEventsPerRequest \in Nat \ {0} /\ TicksOfHour \in Nat \ {0}
  /\ TicksOfDay \in Nat \ {0} /\ TicksOfDay % TicksOfHour = 0 /\ LastInstant \in Nat /\ MaxSends \in Nat

VARIABLES
  instant,
  sends,          \* how often the batch was sent
  ingest,         \* the invocation
  landed          \* what the sink holds: the send, the event's place in the batch, its instant

ingestVars == <<instant, sends, ingest, landed>>

NoIngest == [pc |-> "idle", batch |-> <<>>, kind |-> "file", status |-> 0, accepted |-> 0, rejected |-> 0,
             toSend |-> <<>>, records |-> 0]

IngestInit == instant = 0 /\ sends = 0 /\ ingest = NoIngest /\ landed = <<>>

-----------------------------------------------------------------------------
(* event-schema.js                                                         *)

PropKeys == {"chain", "success", "powerup"}
PropFits(key, value) == value = "boolean" \/ (value = "listed" /\ key # "success")

SafeValidateEvent(raw) ==
  /\ raw.event \in {"plain", "transaction"} /\ raw.flat
  /\ \A p \in raw.props : p[2] = "null" \/ (p[1] \in PropKeys /\ PropFits(p[1], p[2]))

-----------------------------------------------------------------------------
(* handler.js                                                              *)

StartOf(ms, length) == ms - (ms % length)

ToRecord(batch, i) ==
  LET date(ms) == IF batch.events[i].event = "transaction" THEN StartOf(ms, TicksOfDay) ELSE ms
  IN  [event |-> i, ts |-> date(IF batch.events[i].ts = -1 THEN instant ELSE batch.events[i].ts),
       receivedAt |-> date(instant)]

Taken(batch) == {i \in DOMAIN batch.events : i <= MaxEventsPerBatch /\ SafeValidateEvent(batch.events[i])}

Records(batch) == [k \in 1 .. Cardinality(Taken(batch)) |-> ToRecord(batch, Nth(Taken(batch), k))]

Refusal(batch) ==
  CASE batch.method = "OPTIONS"                   -> 204
    [] batch.method \notin {"OPTIONS", "POST"}    -> 405
    [] batch.method = "POST" ->
         IF batch.origin \notin {"none", "extension"} THEN 403
         ELSE IF batch.body # "events" \/ batch.installId # "safe" \/ Taken(batch) = {} THEN 400 ELSE 0

-----------------------------------------------------------------------------
(* sink.js: transaction events, dated to the day, go in a request of their *)
(* own; every request has an instant, rounded to the hour.                 *)

(* Wrong on purpose: a request ends with the first event of the next.    *)
ChunksOverlapping(group) ==
  [k \in 1 .. ((Len(group) + MaxEventsPerRequest - 1) \div MaxEventsPerRequest) |->
     SubSeq(group, (k - 1) * MaxEventsPerRequest + 1, Min({k * MaxEventsPerRequest + 1, Len(group)}))]

ChunksOf(group) ==
  [k \in 1 .. ((Len(group) + MaxEventsPerRequest - 1) \div MaxEventsPerRequest) |->
     SubSeq(group, (k - 1) * MaxEventsPerRequest + 1, Min({k * MaxEventsPerRequest, Len(group)}))]

(* The dates of a batch's records are two at most.                         *)
Requests(kind, records) ==
  LET first == {k \in DOMAIN records : records[k].receivedAt = records[1].receivedAt}
  IN  IF kind = "file" THEN <<records>>
      ELSE ChunksOf(SelectAt(records, first)) \o ChunksOf(SelectAt(records, DOMAIN records \ first))

Land(records) ==
  landed \o [k \in DOMAIN records |->
               [send |-> sends, event |-> records[k].event,
                at |-> IF ingest.kind = "file" THEN records[k].ts
                       ELSE StartOf(records[k].receivedAt, TicksOfHour)]]

Answer(status, accepted) == ingest' = [ingest EXCEPT !.pc = "answered", !.status = status, !.accepted = accepted]

(* The client sends a batch, and the same again when no answer came.       *)
Post(batch, kind) ==
  /\ ingest.pc \in {"idle", "stopped"} /\ sends < MaxSends /\ sends' = sends + 1
  /\ ingest.pc = "stopped" => batch = ingest.batch /\ kind = ingest.kind
  /\ ingest' = [NoIngest EXCEPT !.pc = "received", !.batch = batch, !.kind = kind]
  /\ UNCHANGED <<instant, landed>>

Handler ==
  LET batch == ingest.batch IN
  /\ ingest.pc = "received"
  /\ IF Refusal(batch) # 0 THEN Answer(Refusal(batch), 0)
     ELSE ingest' = [ingest EXCEPT !.pc = "delivering", !.records = Cardinality(Taken(batch)),
                       !.rejected = Len(batch.events) - Cardinality(Taken(batch)),
                       !.toSend = Requests(ingest.kind, Records(batch))]
  /\ UNCHANGED <<instant, sends, landed>>

(* One request, or the write of the file: a failed one may have landed, in *)
(* part if it is the file's, and nothing more is sent.                     *)
PutRecords ==
  /\ ingest.pc = "delivering" /\ ingest.toSend # <<>>
  /\ \/ ingest' = [ingest EXCEPT !.toSend = Tail(@)] /\ landed' = Land(Head(ingest.toSend))
     \/ /\ Answer(202, 0)
        /\ \E n \in 0 .. Len(Head(ingest.toSend)) :
             /\ ingest.kind = "file" \/ n \in {0, Len(Head(ingest.toSend))}
             /\ landed' = Land(SubSeq(Head(ingest.toSend), 1, n))
  /\ UNCHANGED <<instant, sends>>

(* A sink that is not configured throws when it is first made.             *)
CreateSinkThrows ==
  /\ ingest.pc = "delivering" /\ ingest.kind = "ga4" /\ landed = <<>> /\ Answer(202, 0)
  /\ UNCHANGED <<instant, sends, landed>>

AllDelivered ==
  /\ ingest.pc = "delivering" /\ ingest.toSend = <<>> /\ Answer(202, ingest.records)
  /\ UNCHANGED <<instant, sends, landed>>

(* The function's time is over, or its answer is lost.                     *)
Stopped ==
  /\ ingest.pc \in {"received", "delivering"} /\ ingest' = [ingest EXCEPT !.pc = "stopped"]
  /\ UNCHANGED <<instant, sends, landed>>

InstantOn == instant < LastInstant /\ instant' = instant + 1 /\ UNCHANGED <<sends, ingest, landed>>

IngestNext ==
  \/ \E batch \in Batches, kind \in {"file", "ga4"} : Post(batch, kind)
  \/ Handler \/ PutRecords \/ CreateSinkThrows \/ AllDelivered \/ Stopped \/ InstantOn

IngestSpec == IngestInit /\ [][IngestNext]_ingestVars

-----------------------------------------------------------------------------
(* An answer is honest: what it accepts is in the sink, each event once,   *)
(* and what it rejects is the rest of the batch; when it accepts nothing,  *)
(* no event is there twice; and of a transaction the sink learns the day   *)
(* alone, whichever send brought it (handler, putRecords).                 *)
BatchAccounted ==
  LET batch == ingest.batch
      times(i) == Cardinality({k \in DOMAIN landed : landed[k].send = sends /\ landed[k].event = i})
  IN  ingest.pc = "answered" =>
        /\ \A i \in DOMAIN batch.events : times(i) <= IF Refusal(batch) = 0 /\ i \in Taken(batch) THEN 1 ELSE 0
        /\ ingest.accepted > 0 =>
             /\ ingest.accepted + ingest.rejected = Len(batch.events)
             /\ ingest.accepted = Cardinality({i \in DOMAIN batch.events : times(i) = 1})
        /\ \A k \in DOMAIN landed :
             batch.events[landed[k].event].event = "transaction" => landed[k].at % TicksOfDay = 0
=============================================================================
