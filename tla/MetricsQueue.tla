---------------------------- MODULE MetricsQueue ----------------------------
(***************************************************************************)
(* The metrics of the sessions (pkg/metrics/metrics.go): a bounded channel *)
(* that drops what does not fit, and the goroutine that moves its metrics  *)
(* to the gauges and counters a scrape reads.  A metric is the number of   *)
(* its session here, of a failed session too.  The process calls neither   *)
(* Shutdown nor Register with nil.                                         *)
(***************************************************************************)
EXTENDS Naturals, Sequences

CONSTANT ChannelCap

ASSUME MetricsAssumption == ChannelCap \in Nat \ {0}

VARIABLES
    metrics,   \* the channel
    gauge,     \* the metric the gauges show
    scans,     \* watchtower_scans_total
    dropped    \* watchtower_metrics_dropped_total

metricsVars == <<metrics, gauge, scans, dropped>>

MetricsTypeOK ==
    /\ metrics \in Seq(Nat) /\ Len(metrics) <= ChannelCap
    /\ gauge \in Nat /\ scans \in Nat /\ dropped \in Nat

MetricsInit == metrics = <<>> /\ gauge = 0 /\ scans = 0 /\ dropped = 0

(* A Register that makes room for the new metric. *)
RegisterEvicts(m) ==
    /\ metrics' = IF Len(metrics) < ChannelCap THEN Append(metrics, m)
                  ELSE Append(Tail(metrics), m)
    /\ UNCHANGED <<gauge, scans, dropped>>

Register(m) ==
    /\ \/ Len(metrics) < ChannelCap /\ metrics' = Append(metrics, m) /\ UNCHANGED dropped
       \/ Len(metrics) = ChannelCap /\ dropped' = dropped + 1 /\ UNCHANGED metrics
    /\ UNCHANGED <<gauge, scans>>

HandleUpdate ==
    /\ metrics # <<>>
    /\ gauge' = Head(metrics) /\ metrics' = Tail(metrics) /\ scans' = scans + 1
    /\ UNCHANGED dropped
=============================================================================
