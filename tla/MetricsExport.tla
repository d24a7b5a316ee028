---------------------------- MODULE MetricsExport ----------------------------
(* The metrics of a synchronizer node, from the counters its sessions bump to *)
(* the textfile on the parent instance.  Sessions and the exporter touch the  *)
(* counters one atomic at a time; the exporter probes the clock on a blocking *)
(* thread, gives up on it, and sends one frame per connection; the receiver   *)
(* takes the connections one by one, publishes what is valid and removes the  *)
(* file when nothing valid has come for a while.                              *)
(*                                                                            *)
(* The counters shown are those of one kind of RPC: every other counter is an *)
(* atomic of the same sort.                                                   *)
EXTENDS Integers, Sequences

CONSTANTS
    Workers,            \* the sessions that record at the same time
    WorkOf,             \* Workers -> how its requests end: [answered, latency]
    MaxTicks,           \* bound: export ticks
    MaxStrays,          \* bound: connections that are not the node's
    MaxSupplied,        \* bound: requests recorded, export ticks and those connections together
    StaleAfter,         \* --stale-after-secs, in units of the host's clock
    ReceiveTimeout,     \* RECEIVE_TIMEOUT, in the same units
    CounterMax          \* u64::MAX, scaled down

\* What a request ends with, by its response and whether a deadline elapsed.
OfResponse(response) == IF response = "err_unavailable" THEN "unavailable" ELSE "ok"
OfAnswered(answered) ==
    IF OfResponse(answered.response) = "unavailable" /\ answered.timedOut
    THEN "timeout" ELSE OfResponse(answered.response)

\* One latency bound, hence two buckets.
Bounds == <<1>>
BucketIndex(latency) == IF latency = "short" THEN "le" ELSE "inf"

\* The cells of a kind: requests by outcome, and by bucket.
Zero == [c \in {"ok", "unavailable", "timeout", "le", "inf"} |-> 0]

VARIABLES
    cells,      \* the atomics of the node
    rec,        \* Workers -> the bucket it has still to bump
    ex,         \* the exporter task
    probe,      \* CLOCK_PROBE_IN_FLIGHT, and the blocking threads there are
    backlog,    \* connections the host has not accepted
    strays,
    host,       \* the receiver's loop
    age,        \* last_valid.elapsed()
    output,     \* the textfile
    published   \* the samples of the node it has shown, in order

\* What a file is never to reach; ages are not told apart beyond it.
AgeCap == 2 * StaleAfter + ReceiveTimeout

metricsVars == <<cells, rec, ex, probe, backlog, strays, host, age, output, published>>

MoreComes ==
    cells["ok"] + cells["unavailable"] + cells["timeout"] + ex.seq + strays < MaxSupplied

NoOutput == [there |-> FALSE, peers |-> <<>>, requests |-> 0, buckets |-> <<>>]
-----------------------------------------------------------------------------
(* The counters                                                               *)

nodeOnly == <<backlog, strays, host, age, output, published>>

\* record_answered: the outcome, then the bucket
Record(w) ==
    /\ rec[w] = "none"
    /\ MoreComes
    /\ cells' = [cells EXCEPT ![OfAnswered(WorkOf[w].answered)] = @ + 1]
    /\ rec' = [rec EXCEPT ![w] = BucketIndex(WorkOf[w].latency)]
    /\ UNCHANGED <<ex, probe>> /\ UNCHANGED nodeOnly

RecordBucket(w) ==
    /\ rec[w] # "none"
    /\ cells' = [cells EXCEPT ![rec[w]] = @ + 1]
    /\ rec' = [rec EXCEPT ![w] = "none"]
    /\ UNCHANGED <<ex, probe>> /\ UNCHANGED nodeOnly

-----------------------------------------------------------------------------
(* The exporter                                                               *)

exporterOnly == <<cells, rec, strays, host, age, output, published>>

\* A tick that fails: the sample is dropped and counted.
ExportFailed == ex' = [ex EXCEPT !.at = "idle", !.fails = @ + 1]

\* ticker.tick: seq counts the ticks, the first sample has number 0, and the number is used up whatever becomes of the sample
ExportTick ==
    /\ ex.at = "idle" /\ ex.seq < MaxTicks /\ MoreComes
    /\ ex' = [ex EXCEPT !.at = "collect", !.seq = @ + 1, !.reported = ex.fails]
    /\ UNCHANGED probe /\ UNCHANGED backlog /\ UNCHANGED exporterOnly

\* RpcStats::sample, one relaxed load for each atomic: any value it has had since this
\* task last loaded it, so that increments of different atomics are seen in any order.
LoadCells ==
    /\ ex.at = "collect"
    /\ \E ok \in ex.got["ok"] .. cells["ok"], un \in ex.got["unavailable"] .. cells["unavailable"],
          to \in ex.got["timeout"] .. cells["timeout"], le \in ex.got["le"] .. cells["le"],
          inf \in ex.got["inf"] .. cells["inf"] :
           ex' = [ex EXCEPT !.at = "loaded",
                            !.got = [ok |-> ok, unavailable |-> un, timeout |-> to, le |-> le, inf |-> inf]]
    /\ UNCHANGED probe /\ UNCHANGED backlog /\ UNCHANGED exporterOnly

\* clock_offset_ms: nothing when a probe is still running, else a blocking thread
StartProbe ==
    /\ ex.at = "loaded"
    /\ IF probe.inFlight
       THEN ex' = [ex EXCEPT !.at = "send"] /\ UNCHANGED probe
       ELSE /\ ex' = [ex EXCEPT !.at = "probe"]
            /\ probe' = [inFlight |-> TRUE, threads |-> probe.threads + 1]
    /\ UNCHANGED backlog /\ UNCHANGED exporterOnly

\* The NSM answers; the guard in the closure releases the flag.
ProbeReturns ==
    /\ probe.threads > 0
    /\ probe' = [inFlight |-> FALSE, threads |-> probe.threads - 1]
    /\ ex' = IF ex.at = "probe" THEN [ex EXCEPT !.at = "send"] ELSE ex
    /\ UNCHANGED backlog /\ UNCHANGED exporterOnly

\* Mutant: the guard is held by the caller, and dropped when it stops waiting.
ProbeTimesOut_Releases ==
    /\ ex.at = "probe"
    /\ ex' = [ex EXCEPT !.at = "send"]
    /\ probe' = [probe EXCEPT !.inFlight = FALSE]
    /\ UNCHANGED backlog /\ UNCHANGED exporterOnly

\* CLOCK_PROBE_TIMEOUT: the sample goes out without an offset, the thread stays
ProbeTimesOut ==
    /\ ex.at = "probe"
    /\ ex' = [ex EXCEPT !.at = "send"]
    /\ UNCHANGED probe /\ UNCHANGED backlog /\ UNCHANGED exporterOnly

\* COLLECT_TIMEOUT
CollectTimesOut ==
    /\ ex.at \in {"collect", "loaded", "probe"}
    /\ ExportFailed
    /\ UNCHANGED probe /\ UNCHANGED backlog /\ UNCHANGED exporterOnly

\* base_sample: two configured peers
BaseSample ==
    [len |-> "fits", version |-> 1, node |-> "n1", seq |-> ex.seq - 1,
     failures |-> ex.reported, peers |-> <<"n2", "n3">>, bounds |-> Bounds,
     requests |-> ex.got["ok"] + ex.got["unavailable"] + ex.got["timeout"],
     buckets |-> <<ex.got["le"], ex.got["inf"]>>]

\* What a connection carries when the frame is cut short, or never comes.
Silence == [len |-> "short"]

\* export_once's send_frame: whole, and the exporter knows; whole, but SEND_TIMEOUT
\* ends the exchange first; cut short; or not connected at all
SendFrame(arrives, known) ==
    /\ ex.at = "send"
    /\ known => arrives = "whole"
    /\ backlog' = CASE arrives = "whole" -> Append(backlog, BaseSample)
                    [] arrives = "part" -> Append(backlog, Silence)
                    [] arrives = "nothing" -> backlog
    /\ IF known THEN ex' = [ex EXCEPT !.at = "idle"] ELSE ExportFailed
    /\ UNCHANGED probe /\ UNCHANGED exporterOnly

-----------------------------------------------------------------------------
(* The receiver                                                               *)

hostOnly == <<cells, rec, ex, probe>>

IsValidName(name) == name # "no name"

\* read_sample_frame: the length before anything is read, the version after
DecodeSample(frame) == frame.len = "fits" /\ frame.version = 1

\* receive
Receives(frame) == DecodeSample(frame) /\ IsValidName(frame.node)

\* Out::series: an invalid label and a label set that was written are left out
Series(labels) ==
    LET valid == SelectSeq(labels, IsValidName)
        seen[i \in 0..Len(valid)] ==
            IF i = 0 THEN <<>>
            ELSE IF \E j \in 1..(i - 1) : valid[j] = valid[i] THEN seen[i - 1]
            ELSE Append(seen[i - 1], valid[i])
    IN  seen[Len(valid)]

MAX_LATENCY_BUCKETS == 3    \* scaled down

BoundsOk(sample) ==
    /\ sample.bounds # <<>>
    /\ Len(sample.bounds) < MAX_LATENCY_BUCKETS
    /\ \A i \in 1..(Len(sample.bounds) - 1) : sample.bounds[i] < sample.bounds[i + 1]
    /\ Len(sample.buckets) = Len(sample.bounds) + 1

SaturatingAdd(a, b) == IF a + b > CounterMax THEN CounterMax ELSE a + b

\* The cumulative buckets, whose last is also the count.
Cumulative(buckets) ==
    LET upTo[i \in 1..Len(buckets)] ==
            IF i = 1 THEN buckets[1] ELSE SaturatingAdd(upTo[i - 1], buckets[i])
    IN  [i \in 1..Len(buckets) |-> upTo[i]]

Render(sample) ==
    [there |-> TRUE, peers |-> Series(sample.peers), requests |-> sample.requests,
     buckets |-> IF BoundsOk(sample) THEN Cumulative(sample.buckets) ELSE <<>>]

\* The end of an iteration: the file goes when nothing valid has come for long.
\* A removal that fails is tried again.
RemoveStale(valid, removes) ==
    LET stale == ~valid /\ age >= StaleAfter
    IN  /\ age' = IF valid THEN 0 ELSE age
        /\ host' = [host EXCEPT !.at = "accept", !.waited = 0,
                                !.kept = ~valid /\ ~(stale /\ removes) /\ (@ \/ stale)]
        /\ IF valid THEN output' = Render(host.frame)
           ELSE output' = IF stale /\ removes THEN NoOutput ELSE output

AcceptConnection ==
    /\ host.at = "accept" /\ backlog # <<>>
    /\ host' = [host EXCEPT !.at = "read", !.waited = 0, !.frame = Head(backlog)]
    /\ backlog' = Tail(backlog)
    /\ UNCHANGED <<strays, age, output, published>> /\ UNCHANGED hostOnly

\* timeout(stale_after, accept) elapses
AcceptTimesOut(removes) ==
    /\ host.at = "accept" /\ backlog = <<>> /\ host.waited = StaleAfter
    /\ RemoveStale(FALSE, removes)
    /\ UNCHANGED <<backlog, strays, published>> /\ UNCHANGED hostOnly

\* accept fails
AcceptFails(removes) ==
    /\ host.at = "accept"
    /\ RemoveStale(FALSE, removes)
    /\ UNCHANGED <<backlog, strays, published>> /\ UNCHANGED hostOnly

\* handle: a valid sample is rendered and renamed over the file
Handle ==
    /\ host.at = "read" /\ Receives(host.frame)
    /\ published' = IF host.frame.node = "n1" THEN Append(published, host.frame) ELSE published
    /\ RemoveStale(TRUE, TRUE)
    /\ UNCHANGED <<backlog, strays>> /\ UNCHANGED hostOnly

\* A bad frame, RECEIVE_TIMEOUT, or a write that fails: the file stays as it was.
HandleFails(removes) ==
    /\ host.at = "read"
    /\ RemoveStale(FALSE, removes)
    /\ UNCHANGED <<backlog, strays, published>> /\ UNCHANGED hostOnly

\* The host's clock.  A connection that waits is accepted at once, and neither
\* wait outlasts its timeout.
HostTick ==
    /\ \/ host.at = "accept" /\ backlog = <<>> /\ host.waited < StaleAfter
       \/ host.at = "read" /\ host.waited < ReceiveTimeout
    /\ output.there
    /\ age' = IF age < AgeCap THEN age + 1 ELSE age
    /\ host' = [host EXCEPT !.waited = @ + 1]
    /\ UNCHANGED <<backlog, strays, output, published>> /\ UNCHANGED hostOnly

\* Anything on the host can connect.
Stray(frame) ==
    /\ strays < MaxStrays /\ MoreComes
    /\ strays' = strays + 1
    /\ backlog' = Append(backlog, frame)
    /\ UNCHANGED <<host, age, output, published>> /\ UNCHANGED hostOnly

MetricsInit ==
    /\ cells = Zero
    /\ rec = [w \in Workers |-> "none"]
    /\ ex = [at |-> "idle", seq |-> 0, got |-> Zero, fails |-> 0, reported |-> 0]
    /\ probe = [inFlight |-> FALSE, threads |-> 0]
    /\ backlog = <<>>
    /\ strays = 0
    /\ host = [at |-> "accept", waited |-> 0, frame |-> Silence, kept |-> FALSE]
    /\ age = 0
    /\ output = NoOutput
    /\ published = <<>>

\* Frames that are not the node's: another version, a sample with repeated and invalid
\* names and counts at the limit, and one with too many buckets.
OtherSample(v, bounds) ==
    [len |-> "fits", version |-> v, node |-> "other", seq |-> 0, failures |-> 0,
     peers |-> <<"n2", "no name", "n2">>, bounds |-> bounds, requests |-> 0,
     buckets |-> <<CounterMax>> \o bounds]
StrayFrames == {OtherSample(2, <<1>>), OtherSample(1, <<1, 2>>), OtherSample(1, <<1, 2, 3>>)}

MetricsNext ==
    \/ \E w \in Workers : Record(w) \/ RecordBucket(w)
    \/ ExportTick
    \/ LoadCells
    \/ StartProbe
    \/ ProbeReturns
    \/ ProbeTimesOut
    \/ CollectTimesOut
    \/ \E arrives \in {"whole", "part", "nothing"}, known \in BOOLEAN : SendFrame(arrives, known)
    \/ AcceptConnection
    \/ \E removes \in BOOLEAN : AcceptTimesOut(removes) \/ AcceptFails(removes) \/ HandleFails(removes)
    \/ Handle
    \/ HostTick
    \/ \E frame \in StrayFrames : Stray(frame)

-----------------------------------------------------------------------------
(* Properties                                                                 *)

\* What the parent shows can be read as metrics, however loads and increments
\* interleave, sends time out and others connect.  A wedged NSM holds one thread; over
\* the samples shown no counter falls, no number repeats, and the failures counted are
\* at most one for every tick; the file has no repeated label set and no bucket below
\* the one before; and unless removing it fails, it is gone before two stale periods and
\* one receive have passed without a valid sample (clock_offset_ms, RpcStats,
\* run_exporter, render, main).
MetricsAreSound ==
    /\ probe.threads <= 1
    /\ \A i, j \in DOMAIN published :
         i < j =>
             /\ published[i].seq < published[j].seq
             /\ published[i].requests <= published[j].requests
             /\ \A b \in {1, 2} : published[i].buckets[b] <= published[j].buckets[b]
             /\ published[j].failures - published[i].failures \in 0 .. published[j].seq - published[i].seq
    /\ output.there =>
         /\ \A i, j \in DOMAIN output.peers : output.peers[i] = output.peers[j] => i = j
         /\ \A i, j \in DOMAIN output.buckets : i < j => output.buckets[i] <= output.buckets[j]
         /\ host.kept \/ age < AgeCap
=============================================================================
