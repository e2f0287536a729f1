-------------------------------- MODULE Health --------------------------------
(***************************************************************************)
(* Health evidence of one module: ingest_health, publish_threshold, the    *)
(* hysteresis latch, trimming, the health report, and what a load does to  *)
(* this state (src/src/health.cpp, registry.cpp, snapshot.cpp).            *)
(*                                                                         *)
(* A call by a stale token or for a superseded incarnation is refused and  *)
(* publishes nothing (module Registry is about that), so every caller here *)
(* acts with its current epoch for the current incarnation.  What is hard  *)
(* is that samples of several sources, observed at times the sources name, *)
(* arrive in any order, while policies, epochs, the incarnation and the    *)
(* process change between them and the bounded buffers drop old ones.      *)
(*                                                                         *)
(* A value stands for its position among the bounds of a policy.  A series *)
(* without a latch record and one whose latch is HealthLatch{} behave the  *)
(* same: both are NewLatch here.                                           *)
(***************************************************************************)
EXTENDS Naturals, Sequences, FiniteSets

CONSTANTS
    Metrics,              \* health metrics of the module
    Lanes,                \* lane indexes
    ModuleLane,           \* kModuleLane
    NumSources,           \* source ids are 1..NumSources
    Values,               \* measurements
    Absent,               \* no measurement: NotAvailable, ReadError, NotSupported
    Policies,             \* thresholds, but for the series they are for
    Terms,                \* what each of them says
    Published,            \* pairs of a series and a policy some source publishes
    NoPolicy,             \* no threshold applies
    Declared,             \* series of the telemetry the module declares
    Sampled,              \* series the sources send samples of
    MaxSamplesPerSeries,  \* RegistryConfig::max_samples_per_series
    MaxSamplesPerModule,  \* RegistryConfig::max_samples_per_module
    MaxThresholds,        \* RegistryConfig::max_thresholds
    MaxClaimHistory,      \* RegistryConfig::max_claim_history
    MaxFutureSkew,        \* RegistryConfig::max_future_skew_ns
    LongestRun,           \* bound of the model: the length of the history kept
    MaxDelay,             \* bound of the model: age of a sample on arrival
    MaxSteady,            \* bound of the model: readings of the monotonic clock
    MaxBoots,             \* bound of the model: loads
    MaxGeneration         \* bound of the model: commits

Series  == Metrics \X (Lanes \cup {ModuleLane})
Sources == 1..NumSources
Policy  == [above : BOOLEAN, has_degraded : BOOLEAN, has_critical : BOOLEAN,
            degraded_enter : Nat, degraded_exit : Nat,
            critical_enter : Nat, critical_exit : Nat,
            escalate_after : Nat, recover_after : Nat,
            max_age : Nat, tolerance : Nat]

ASSUME HealthAssumption ==
    /\ ModuleLane \notin Lanes
    /\ NumSources \in Nat \ {0}
    /\ Values \subseteq Nat /\ Absent \notin Values
    /\ Terms \in [Policies -> Policy] /\ NoPolicy \notin Policies
    /\ Published \subseteq Series \X Policies
    /\ Declared \subseteq Metrics \X {ModuleLane}
    /\ Sampled \subseteq Series
    /\ MaxSamplesPerSeries \in Nat \ {0} /\ MaxSamplesPerModule \in Nat \ {0}
    /\ MaxThresholds \in Nat /\ MaxClaimHistory \in Nat \ {0}
    /\ MaxFutureSkew \in Nat /\ LongestRun \in Nat
    /\ \A p \in Policies : /\ Terms[p].escalate_after <= LongestRun
                           /\ Terms[p].recover_after <= LongestRun
    /\ MaxDelay \in Nat /\ MaxSteady \in Nat /\ MaxBoots \in Nat \ {0} /\ MaxGeneration \in Nat

VARIABLES
    now,          \* Clock::wall_now_ns
    steady,       \* Clock::monotonic_now_ns
    boot,         \* processes so far; also the clock domain of this process
    generation,   \* State::generation
    epochs,       \* SourceRecord::epoch
    incarnation,  \* ModuleRecord::incarnation
    samples,      \* ModuleRecord::samples
    counts,       \* ModuleRecord::series_counts
    latches,      \* ModuleRecord::latches
    thresholds,   \* State::thresholds
    recent        \* history: the last measurements each latch was shown: its state
                  \* before, the zone of the measurement, the policy

vars == <<now, steady, boot, generation, epochs, incarnation, samples, counts, latches,
          thresholds, recent>>

Zones == {"Ok", "Degraded", "Critical"}

\* HealthLatch{}.
NewLatch == [state |-> "Unknown", consecutive |-> 0]

Latch     == [state : Zones \cup {"Unknown"}, consecutive : Nat]
Threshold == [series : Series, policy : Policies, live : BOOLEAN]
Sample    == [series : Series, reading : Values \cup {Absent}, observed : Nat,
              monotonic : Nat, domain : Nat, source : Sources, epoch : Nat, incarnation : Nat]
Shown     == [from : Zones \cup {"Unknown"}, zone : Zones, policy : Policies]

Init ==
    /\ now = MaxDelay + 1 /\ steady = MaxDelay + 1 /\ boot = 1 /\ generation = 0
    /\ epochs = [n \in Sources |-> 1]
    /\ incarnation = 1
    /\ samples = <<>>
    /\ counts = [s \in Series |-> 0]
    /\ latches = [s \in Series |-> NewLatch]
    /\ thresholds = <<>>
    /\ recent = [s \in Series |-> <<>>]

Publish ==
    /\ generation < MaxGeneration
    /\ generation' = generation + 1

-----------------------------------------------------------------------------
(* Records by series.                                                      *)

\* Positions of the records of a series.
OfSeries(records, s) == {i \in DOMAIN records : records[i].series = s}

\* vector::erase of the first record whose position is in S, if there is one.
EraseFirst(records, S) ==
    LET n == CHOOSE i \in S : \A j \in S : i <= j
    IN  IF S = {} THEN records
        ELSE [i \in 1..(Len(records) - 1) |-> records[IF i < n THEN i ELSE i + 1]]

-----------------------------------------------------------------------------
(* Policies.                                                               *)

\* validate_threshold: an exit bound is no more severe than its entry bound,
\* the degraded band no more severe than the critical one.
ValidPolicy(p) ==
    LET t == Terms[p]
        AtMost(x, y) == IF t.above THEN x <= y ELSE x >= y
    IN  /\ t.has_degraded \/ t.has_critical
        /\ t.escalate_after > 0 /\ t.recover_after > 0
        /\ t.max_age > 0
        /\ t.has_degraded => AtMost(t.degraded_exit, t.degraded_enter)
        /\ t.has_critical => AtMost(t.critical_exit, t.critical_enter)
        /\ t.has_degraded /\ t.has_critical => AtMost(t.degraded_enter, t.critical_enter)

\* select_threshold: the one for the lane itself, else the one for the module.
\* Of several live ones for the same series the last would count.
PolicyFor(s) ==
    LET LiveFor(r) == {i \in OfSeries(thresholds, r) : thresholds[i].live}
        Latest(S)  == thresholds[CHOOSE i \in S : \A j \in S : j <= i].policy
        own        == LiveFor(s)
        wide       == LiveFor(<<s[1], ModuleLane>>)
    IN  IF own # {} THEN Latest(own) ELSE IF wide # {} THEN Latest(wide) ELSE NoPolicy

\* Mutant: the threshold being replaced stays live.
SupersededNone(s) == thresholds

\* The thresholds after the live one for s has been marked dead.
Superseded(s) ==
    [i \in DOMAIN thresholds |->
        IF thresholds[i].series = s THEN [thresholds[i] EXCEPT !.live = FALSE]
                                    ELSE thresholds[i]]

LiveOf(ts) == {i \in DOMAIN ts : ts[i].live}

\* Bounded history: at most one dead threshold of the series is erased.
TrimThresholds(ts, s) ==
    IF Cardinality(OfSeries(ts, s)) > MaxClaimHistory
    THEN EraseFirst(ts, OfSeries(ts, s) \ LiveOf(ts))
    ELSE ts

\* Registry::publish_threshold.  Latches keep their state and their counter.
PublishThreshold(s, p) ==
    LET kept == Superseded(s)
    IN  /\ Publish
        /\ ValidPolicy(p)
        /\ Cardinality(LiveOf(kept)) < MaxThresholds
        /\ thresholds' = TrimThresholds(
                Append(kept, [series |-> s, policy |-> p, live |-> TRUE]), s)
        /\ UNCHANGED <<now, steady, boot, epochs, incarnation, samples, counts, latches, recent>>

-----------------------------------------------------------------------------
(* The hysteresis latch.                                                   *)

Rank(zone) == CASE zone = "Critical" -> 2 [] zone = "Degraded" -> 1 [] zone = "Ok" -> 0

Reaches(t, value, bound) == IF t.above THEN value >= bound ELSE value <= bound

\* The zone of a value for a latch in the given state: leaving a zone takes
\* its exit bound, entering one its entry bound.
ZoneFrom(p, state, value) ==
    LET t        == Terms[p]
        critical == IF state = "Critical" THEN t.critical_exit ELSE t.critical_enter
        degraded == IF state = "Degraded" THEN t.degraded_exit ELSE t.degraded_enter
    IN  IF t.has_critical /\ Reaches(t, value, critical) THEN "Critical"
        ELSE IF t.has_degraded /\ Reaches(t, value, degraded) THEN "Degraded"
        ELSE "Ok"

\* classify_value: no hysteresis.
ClassifyValue(p, value) == ZoneFrom(p, "Unknown", value)

\* The samples it takes to move a latch from one zone to another.
Needed(p, from, to) ==
    IF Rank(to) > Rank(from) THEN Terms[p].escalate_after ELSE Terms[p].recover_after

\* Mutant: a sample inside the latched zone does not restart the count.
AdvanceLatchNoReset(p, latch, zone) ==
    LET n == latch.consecutive + 1
    IN  IF latch.state \notin Zones THEN [state |-> zone, consecutive |-> 0]
        ELSE IF zone = latch.state THEN latch
        ELSE IF n >= Needed(p, latch.state, zone) THEN [state |-> zone, consecutive |-> 0]
        ELSE [state |-> latch.state, consecutive |-> n]

\* Mutant: one sample too many is required.
AdvanceLatchLate(p, latch, zone) ==
    LET n == latch.consecutive + 1
    IN  IF latch.state \notin Zones THEN [state |-> zone, consecutive |-> 0]
        ELSE IF zone = latch.state THEN [state |-> zone, consecutive |-> 0]
        ELSE IF n > Needed(p, latch.state, zone) THEN [state |-> zone, consecutive |-> 0]
        ELSE [state |-> latch.state, consecutive |-> n]

\* advance_latch, for a sample in the given zone.  One counter serves both
\* directions.
AdvanceLatch(p, latch, zone) ==
    LET n == latch.consecutive + 1
    IN  IF latch.state \notin Zones THEN [state |-> zone, consecutive |-> 0]
        ELSE IF zone = latch.state THEN [state |-> zone, consecutive |-> 0]
        ELSE IF n >= Needed(p, latch.state, zone) THEN [state |-> zone, consecutive |-> 0]
        ELSE [state |-> latch.state, consecutive |-> n]

-----------------------------------------------------------------------------
(* Samples.                                                                *)

\* Mutant: an observation of the same time is let through.
ReplayedStrictly(source, s, domain, monotonic) ==
    \E i \in DOMAIN samples :
        /\ samples[i].source = source /\ samples[i].series = s
        /\ samples[i].domain = domain
        /\ samples[i].monotonic # 0 /\ samples[i].monotonic > monotonic

\* Replay protection: some sample of the source's series that is still kept is
\* no older, by the clock of the same domain.
Replayed(source, s, domain, monotonic) ==
    \E i \in DOMAIN samples :
        /\ samples[i].source = source /\ samples[i].series = s
        /\ samples[i].domain = domain
        /\ samples[i].monotonic # 0 /\ samples[i].monotonic >= monotonic

\* trim_samples after a sample of s was added.  Only the counter of s can have
\* passed the limit, and by one.  The second loop drops the oldest samples of
\* the module, of whichever series, and leaves the counters alone.
TrimSamples(ss, cs, s) ==
    LET over == cs[s] > MaxSamplesPerSeries
        ring == IF over THEN EraseFirst(ss, OfSeries(ss, s)) ELSE ss
        drop == IF Len(ring) > MaxSamplesPerModule THEN Len(ring) - MaxSamplesPerModule ELSE 0
    IN  [samples |-> SubSeq(ring, drop + 1, Len(ring)),
         counts  |-> IF over THEN [cs EXCEPT ![s] = @ - 1] ELSE cs]

\* The last LongestRun elements.
Recent(seq) ==
    IF Len(seq) > LongestRun THEN SubSeq(seq, Len(seq) - LongestRun + 1, Len(seq)) ELSE seq

\* The latch and its history for one more reading of s.
ShowLatch(s, reading) ==
    LET p    == PolicyFor(s)
        zone == ZoneFrom(p, latches[s].state, reading)
    IN  IF reading # Absent /\ p # NoPolicy
        THEN /\ latches' = [latches EXCEPT ![s] = AdvanceLatch(p, @, zone)]
             /\ recent' = [recent EXCEPT ![s] =
                     Recent(Append(@, [from |-> latches[s].state, zone |-> zone, policy |-> p]))]
        ELSE UNCHANGED <<latches, recent>>

\* Mutant: only the first sample of a series is counted.
StoreSampleOnce(sample) ==
    LET s       == sample.series
        trimmed == TrimSamples(Append(samples, sample), [counts EXCEPT ![s] = 1], s)
    IN  /\ samples' = trimmed.samples
        /\ counts' = trimmed.counts

\* A new sample: push_back, the counter, trim_samples.
StoreSample(sample) ==
    LET s       == sample.series
        trimmed == TrimSamples(Append(samples, sample), [counts EXCEPT ![s] = @ + 1], s)
    IN  /\ samples' = trimmed.samples
        /\ counts' = trimmed.counts

\* Registry::ingest_health for a sample read some time ago by both clocks, by a
\* wall clock that may be ahead; further than the skew allowed it is refused.
\* What the caller leaves out the registry fills in: the time with its own,
\* read before it waits for the lock; the clock domain with its own; in that
\* domain the monotonic time with its own.  So only a sample of another domain
\* (here, that of an earlier process) can be without one (0).
IngestHealth(source, s, reading) ==
    /\ Publish
    /\ \E delay \in 0..MaxDelay, ahead \in 0..MaxFutureSkew, domain \in 1..boot :
         \E monotonic \in {steady - delay} \cup (IF domain = boot THEN {} ELSE {0}) :
            /\ monotonic # 0 => ~Replayed(source, s, domain, monotonic)
            /\ StoreSample([series |-> s, reading |-> reading, observed |-> now + ahead - delay,
                            monotonic |-> monotonic, domain |-> domain, source |-> source,
                            epoch |-> epochs[source], incarnation |-> incarnation])
    /\ ShowLatch(s, reading)
    /\ UNCHANGED <<now, steady, boot, epochs, incarnation, thresholds>>

-----------------------------------------------------------------------------
(* What fences evidence, and time.                                         *)

\* A source registers anew (Registry::register_source): its samples of earlier
\* epochs stay, but no longer count.
AdvanceEpoch(source) ==
    /\ Publish
    /\ epochs' = [epochs EXCEPT ![source] = @ + 1]
    /\ UNCHANGED <<now, steady, boot, incarnation, samples, counts, latches, thresholds, recent>>

\* Registry::register_module with NewIncarnation: the latches are cleared, the
\* samples and their counters stay.
NewIncarnation ==
    /\ Publish
    /\ incarnation' = incarnation + 1
    /\ latches' = [s \in Series |-> NewLatch]
    /\ recent' = [s \in Series |-> <<>>]
    /\ UNCHANGED <<now, steady, boot, epochs, samples, counts, thresholds>>

Tick ==
    /\ steady < MaxSteady
    /\ steady' = steady + 1
    /\ now' = now + 1
    /\ UNCHANGED <<boot, generation, epochs, incarnation, samples, counts, latches,
                   thresholds, recent>>

\* The wall clock is set back; the monotonic one runs on.
SetBack ==
    /\ now > MaxDelay + 1
    /\ now' = now - 1
    /\ UNCHANGED <<steady, boot, generation, epochs, incarnation, samples, counts, latches,
                   thresholds, recent>>

-----------------------------------------------------------------------------
(* The health report.                                                      *)

Age(x) == IF now > x.observed THEN now - x.observed ELSE 0

\* Mutant: evidence of an earlier epoch of its source still counts.
LiveAnyEpoch(x) == x.incarnation = incarnation

\* HealthSample::live as build_health_report marks it.
Live(x) == x.incarnation = incarnation /\ x.epoch = epochs[x.source]

InSeries(s) == OfSeries(samples, s)

\* Positions of the newest live sample of each source; of two with the same
\* time the one that arrived later.
NewestBySource(s) ==
    {i \in InSeries(s) :
        /\ Live(samples[i])
        /\ \A j \in InSeries(s) :
             Live(samples[j]) /\ samples[j].source = samples[i].source =>
                \/ samples[j].observed < samples[i].observed
                \/ samples[j].observed = samples[i].observed /\ j <= i}

Measured(s) == {i \in NewestBySource(s) : samples[i].reading # Absent}

Fresh(s, p) ==
    {i \in Measured(s) : /\ samples[i].observed <= now + MaxFutureSkew
                         /\ Age(samples[i]) <= Terms[p].max_age}

Disagree(S, tolerance) ==
    \E i, j \in S : samples[i].reading > samples[j].reading + tolerance

\* The measurement reported: the newest, of equally new ones that of the
\* highest source id.
Reported(S) ==
    CHOOSE i \in S : \A j \in S :
        \/ samples[j].observed < samples[i].observed
        \/ samples[j].observed = samples[i].observed /\ samples[j].source <= samples[i].source

\* classify_series.
ClassifySeries(s) ==
    LET p     == PolicyFor(s)
        fresh == Fresh(s, p)
    IN  IF NewestBySource(s) = {} THEN IF InSeries(s) # {} THEN "Fenced" ELSE "Unknown"
        ELSE IF p = NoPolicy THEN IF Measured(s) # {} THEN "Unclassified" ELSE "Unknown"
        ELSE IF fresh = {} THEN IF Measured(s) # {} THEN "Stale" ELSE "Unknown"
        ELSE IF Disagree(fresh, Terms[p].tolerance) THEN "Conflicting"
        ELSE ClassifyValue(p, samples[Reported(fresh)].reading)

\* The series a report has a row for.
Rows ==
    {thresholds[i].series : i \in LiveOf(thresholds)}
      \cup {samples[i].series : i \in {j \in DOMAIN samples :
                                           samples[j].incarnation = incarnation}}
      \cup Declared

\* A row: the latch replaces the zone of a series that has one.
MetricState(s) ==
    LET state == ClassifySeries(s)
    IN  IF state \in Zones /\ latches[s].state \in Zones THEN latches[s].state ELSE state

RowsIn(states) == {s \in Rows : MetricState(s) \in states}

Outcome ==
    IF Rows = {} THEN "Unknown"
    ELSE IF RowsIn({"Conflicting"}) # {} THEN "Conflicting"
    ELSE IF RowsIn({"Fenced"}) = Rows THEN "Fenced"
    ELSE IF RowsIn({"Unknown"}) = Rows THEN "Unknown"
    ELSE IF RowsIn({"Stale"}) = Rows THEN "Stale"
    ELSE IF RowsIn(Zones \cup {"Unclassified"}) = Rows THEN "Fresh"
    ELSE "Partial"

\* HealthReport::healthy: every other state is worse than Ok.
Healthy == RowsIn({"Ok"}) = Rows /\ Outcome = "Fresh"

-----------------------------------------------------------------------------
(* A load.                                                                 *)

\* Mutant: evidence exactly as old as allowed is dropped.
EvidenceHoldsStrict(s) ==
    LET live == {i \in InSeries(s) : Live(samples[i])}
        p    == PolicyFor(s)
    IN  /\ p # NoPolicy /\ live # {}
        /\ LET newest == CHOOSE i \in live : \A j \in live :
                            \/ samples[j].observed < samples[i].observed
                            \/ samples[j].observed = samples[i].observed /\ i <= j
           IN  samples[newest].reading # Absent /\ Age(samples[newest]) < Terms[p].max_age

\* revalidate_evidence for one latch: the newest live sample of any source is a
\* measurement and young enough.  Of two with the same time the first counts.
EvidenceHolds(s) ==
    LET live == {i \in InSeries(s) : Live(samples[i])}
        p    == PolicyFor(s)
    IN  /\ p # NoPolicy /\ live # {}
        /\ LET newest == CHOOSE i \in live : \A j \in live :
                            \/ samples[j].observed < samples[i].observed
                            \/ samples[j].observed = samples[i].observed /\ i <= j
           IN  samples[newest].reading # Absent /\ Age(samples[newest]) <= Terms[p].max_age

\* A new process loads the state (the snapshot of it is up to date: module
\* Persistence is about the ones that are not).  The counters are made anew.
Load ==
    /\ boot < MaxBoots
    /\ boot' = boot + 1
    /\ Publish
    /\ counts' = [s \in Series |-> Cardinality(InSeries(s))]
    /\ latches' = [s \in Series |-> IF EvidenceHolds(s) THEN latches[s] ELSE NewLatch]
    /\ recent' = [s \in Series |-> IF EvidenceHolds(s) THEN recent[s] ELSE <<>>]
    /\ UNCHANGED <<now, steady, epochs, incarnation, samples, thresholds>>

-----------------------------------------------------------------------------
Next ==
    \/ \E pair \in Published : PublishThreshold(pair[1], pair[2])
    \/ \E source \in Sources, s \in Sampled, reading \in Values \cup {Absent} :
          IngestHealth(source, s, reading)
    \/ \E source \in Sources : AdvanceEpoch(source)
    \/ NewIncarnation
    \/ Tick
    \/ SetBack
    \/ Load

Spec == Init /\ [][Next]_vars

-----------------------------------------------------------------------------
(* Properties.                                                             *)

\* trim_samples keeps both budgets although it erases by counters that the
\* module budget lets drift: a counter is never below what it counts, so no
\* series outgrows its ring, and neither does the module.
SampleBudgets ==
    /\ Len(samples) <= MaxSamplesPerModule
    /\ \A s \in Series :
         Cardinality(InSeries(s)) <= counts[s] /\ counts[s] <= MaxSamplesPerSeries

\* ingest_health: of the samples that are kept, those of one source, series and
\* clock domain have arrived in the order of their monotonic times, whatever
\* was dropped between them, across epochs, incarnations and loads.
KeptInOrder ==
    \A j \in DOMAIN samples : \A i \in 1..(j - 1) :
        /\ samples[i].source = samples[j].source /\ samples[i].series = samples[j].series
        /\ samples[i].domain = samples[j].domain
        /\ samples[i].monotonic # 0 /\ samples[j].monotonic # 0
        => samples[i].monotonic < samples[j].monotonic

\* publish_threshold: a series has at most one live threshold, so which policy
\* judges it does not depend on the order they are stored in; the budgets of
\* live and of remembered thresholds hold.
OneThreshold ==
    /\ \A i, j \in DOMAIN thresholds :
         thresholds[i].live /\ thresholds[j].live /\ thresholds[i].series = thresholds[j].series
           => i = j
    /\ Cardinality(LiveOf(thresholds)) <= MaxThresholds
    /\ \A s \in Series : Cardinality(OfSeries(thresholds, s)) <= MaxClaimHistory

\* advance_latch: a latch leaves a zone only when the policy's number of samples
\* in a row, the last one included, were outside that zone, whichever policies
\* judged them and whatever epochs and loads lie between.
LatchMovesOnRun ==
    \A s \in Series : recent[s] # <<>> =>
        LET len  == Len(recent[s])
            last == recent[s][len]
            n    == Needed(last.policy, last.from, latches[s].state)
        IN  last.from \in Zones /\ latches[s].state # last.from =>
              /\ len >= n
              /\ \A k \in (len - n + 1)..len : recent[s][k].zone # last.from

\* advance_latch: once as many samples in a row as the policy in force asks for
\* were outside Ok by that policy, the latch is not Ok, so the report cannot
\* call the module healthy.
SustainedFaultLatched ==
    \A s \in Series :
        LET p   == PolicyFor(s)
            len == Len(recent[s])
        IN  /\ p # NoPolicy
            /\ len >= Terms[p].escalate_after
            /\ \A k \in (len - Terms[p].escalate_after + 1)..len :
                 recent[s][k].policy = p /\ recent[s][k].zone # "Ok"
            => latches[s].state # "Ok"

\* HealthReport::healthy: every series considered has a policy, a measurement
\* by the current epoch of its source for the current incarnation that is no
\* older than the policy allows, and no two sources that contradict each other
\* with their newest words.
HealthyIsEarned ==
    Healthy =>
        /\ Rows # {}
        /\ \A s \in Rows :
             LET p == PolicyFor(s)
             IN  /\ p # NoPolicy
                 /\ \E i \in InSeries(s) :
                      /\ samples[i].reading # Absent
                      /\ samples[i].incarnation = incarnation
                      /\ samples[i].epoch = epochs[samples[i].source]
                      /\ now <= samples[i].observed + Terms[p].max_age
                 /\ ~Disagree(Fresh(s, p), Terms[p].tolerance)

\* revalidate_evidence agrees with classify_series on what is current: a load
\* changes no zone the report gives for a series whose live samples are all
\* measurements.  (Of two samples with the same time the one takes the first,
\* the other the last: an absent reading beside a measurement divides them.)
LoadKeepsVerdicts ==
    [][boot' # boot =>
         \A s \in Series :
            /\ ClassifySeries(s) \in Zones
            /\ \A i \in InSeries(s) : Live(samples[i]) => samples[i].reading # Absent
            => MetricState(s)' = MetricState(s)]_vars

-----------------------------------------------------------------------------
(* What every step preserves (module HealthProofs).                        *)

TypeOK ==
    /\ now \in Nat /\ steady \in Nat /\ boot \in Nat /\ generation \in Nat
    /\ epochs \in [Sources -> Nat] /\ incarnation \in Nat
    /\ samples \in Seq(Sample) /\ counts \in [Series -> Nat]
    /\ latches \in [Series -> Latch]
    /\ thresholds \in Seq(Threshold)
    /\ recent \in [Series -> Seq(Shown)]
    /\ now > MaxDelay /\ steady > MaxDelay

\* Only policies that passed validation are remembered.
PoliciesValid == \A i \in DOMAIN thresholds : ValidPolicy(thresholds[i].policy)

\* What a latch of a zone was shown last: a sample in that zone, and since then
\* as many outside it as it has counted, fewer than the last of them asked for.
LatchesFit ==
    \A s \in Series :
        LET state == latches[s].state
            n     == latches[s].consecutive
            len   == Len(recent[s])
        IN  IF state \notin Zones THEN n = 0 /\ recent[s] = <<>>
            ELSE /\ n < len
                 /\ recent[s][len - n].zone = state
                 /\ \A k \in (len - n + 1)..len : recent[s][k].zone # state
                 /\ n > 0 => n < Needed(recent[s][len].policy, state, recent[s][len].zone)

Inv == /\ TypeOK /\ PoliciesValid /\ LatchesFit
       /\ SampleBudgets /\ KeptInOrder /\ OneThreshold /\ LatchMovesOnRun
=============================================================================
