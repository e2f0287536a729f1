---------------------------- MODULE SnapshotLoad ----------------------------
(***************************************************************************)
(* What a snapshot file holds, record by record, and what a process finds  *)
(* when it loads one that is whole, too large for the reader, or damaged:  *)
(* encode_state_records, save_snapshot_impl, parse_snapshot and            *)
(* load_snapshot.                                                          *)
(*                                                                         *)
(* Module Persistence is about how a file comes to be on disk; here a save *)
(* is one step and the bytes are records.  A record is modelled by what    *)
(* refers to what: a module by the source of its evidence, an attachment   *)
(* by its module, and so on; its size matters for modules only, which grow *)
(* with their samples.                                                     *)
(***************************************************************************)
EXTENDS Naturals, Sequences, FiniteSets, SequencesExt, Functions

CONSTANTS
    Nothing,        \* no file, no damage
    SampleBudget,   \* RegistryConfig::max_samples_per_module
    RecordLimit,    \* kMaxRecordBytes, in samples a module record can hold
    MaxSources,     \* bounds: ids handed out
    MaxModules,
    MaxRules,
    Slots,          \* host slots
    MaxMutations,   \* bound: generations explored
    MaxUnsaved,     \* bound: generations a registry gets ahead of the file
    MaxLoads        \* bound: processes started

ASSUME SnapshotLoadAssumption ==
    /\ {SampleBudget, RecordLimit, MaxSources, MaxModules, MaxRules,
        MaxMutations, MaxUnsaved, MaxLoads} \subseteq Nat
    /\ IsFiniteSet(Slots)

VARIABLES
    phase,     \* the process: "down", "up", or between the two halves of load_snapshot
    state,     \* RegistryImpl::state
    parsed,    \* what load_snapshot has read and will install
    file,      \* the snapshot on disk, Nothing or a record
    recovered, \* LoadReport::tail_recovered of this process's load
    boots      \* history: processes started

lvars == <<phase, state, parsed, file, recovered, boots>>

-----------------------------------------------------------------------------
(* States and records.                                                     *)

\* State's initializers.  The module, rule and source counters are the next
\* ids; modules maps a uid to its evidence, attachments a slot to a uid.
Empty ==
    [generation |-> 0, incarnation |-> 1,
     nextSource |-> 1, nextModule |-> 1, nextRule |-> 1,
     sources |-> {}, modules |-> <<>>, ports |-> {}, attachments |-> <<>>,
     thresholds |-> {}, rules |-> <<>>]

\* The ids of a set from the lowest to the highest (std::sort).
Ascending(ids) ==
    [i \in 1..Cardinality(ids) |->
        CHOOSE x \in ids : Cardinality({y \in ids : y < x}) = i - 1]

\* Records that only say what is there, and records with contents.
Bare(kind, ids) == [i \in DOMAIN ids |-> [kind |-> kind, id |-> ids[i]]]
Full(kind, ids, contents) ==
    [i \in DOMAIN ids |-> [kind |-> kind, id |-> ids[i], is |-> contents[ids[i]]]]

HeaderRecord(s) ==
    <<[kind |-> "header", incarnation |-> s.incarnation, nextSource |-> s.nextSource,
       nextModule |-> s.nextModule, nextRule |-> s.nextRule]>>
SourceRecords(s) == Bare("source", Ascending(s.sources))
ModuleRecords(s) == Full("module", Ascending(DOMAIN s.modules), s.modules)
RuleRecords(s) == Full("rule", Ascending(DOMAIN s.rules), s.rules)
OtherRecords(s) ==
    Bare("port", SetToSeq(s.ports)) \o
    Full("attachment", SetToSeq(DOMAIN s.attachments), s.attachments) \o
    Bare("threshold", SetToSeq(s.thresholds))

\* Mutant: sources are written last.
SourcesLast(s) ==
    HeaderRecord(s) \o ModuleRecords(s) \o OtherRecords(s) \o RuleRecords(s)
        \o SourceRecords(s)

\* Mutant: the header is written when the counts are known.
HeaderLast(s) ==
    SourceRecords(s) \o ModuleRecords(s) \o OtherRecords(s) \o RuleRecords(s)
        \o HeaderRecord(s)

\* encode_state_records: the header, then sources, modules, ports,
\* attachments, thresholds and rules, each kind in the order of its ids.
Encoded(s) ==
    HeaderRecord(s) \o SourceRecords(s) \o ModuleRecords(s) \o OtherRecords(s)
        \o RuleRecords(s)

\* A map with one entry more, or another one.
With(f, x, y) == [z \in DOMAIN f \cup {x} |-> IF z = x THEN y ELSE f[z]]

\* The last header read, 0 if there is none, and the records of a kind after it.
LastHeader(records) ==
    Max({0} \cup {i \in DOMAIN records : records[i].kind = "header"})
OfKind(records, kind) ==
    {records[i] : i \in {j \in LastHeader(records) + 1..Len(records) : records[j].kind = kind}}

\* What records say is there, and the map they make.
Ids(read) == {r.id : r \in read}
Contents(read) == [x \in Ids(read) |-> (CHOOSE r \in read : r.id = x).is]

\* parse_snapshot's loop over the records it accepts: a header replaces what
\* was read before it, every other record adds its own.
Decoded(generation, records) ==
    LET header == LastHeader(records)
        counters == IF header = 0 THEN HeaderRecord(Empty)[1] ELSE records[header]
    IN  [generation |-> generation, incarnation |-> counters.incarnation,
         nextSource |-> counters.nextSource, nextModule |-> counters.nextModule,
         nextRule |-> counters.nextRule,
         sources |-> Ids(OfKind(records, "source")),
         modules |-> Contents(OfKind(records, "module")),
         ports |-> Ids(OfKind(records, "port")),
         attachments |-> Contents(OfKind(records, "attachment")),
         thresholds |-> Ids(OfKind(records, "threshold")),
         rules |-> Contents(OfKind(records, "rule"))]

-----------------------------------------------------------------------------
(* Files.                                                                  *)

\* How a file may differ from the one that was saved.  "refused" is a damaged
\* magic, version, flags or trailer checksum, or too few bytes for a header;
\* "short" a payload shorter than the header declares; "record" a record that
\* fails its checksum, has an impossible length or does not fit (damage of the
\* declared length included: it ends the records early); "trailer" a missing
\* or damaged trailer.
Damages(n) ==
    {[kind |-> k, at |-> 0] : k \in {"refused", "short", "trailer"}} \cup
    {[kind |-> "record", at |-> i] : i \in 1..n}

\* The file of a state, as save_snapshot_impl writes it.
Saved(s) ==
    [generation |-> s.generation, records |-> Encoded(s), damage |-> Nothing, of |-> s]

\* The length a record may have: only module records grow.
Readable(r) == r.kind # "module" \/ r.is.samples <= RecordLimit

\* How many records parse_snapshot accepts: it stops at the first it cannot.
Accepted(f) ==
    LET bad == {i \in 1..Len(f.records) :
                  \/ ~Readable(f.records[i])
                  \/ f.damage # Nothing /\ f.damage.kind = "record" /\ f.damage.at = i}
    IN  IF bad = {} THEN Len(f.records)
        ELSE (CHOOSE i \in bad : \A j \in bad : i <= j) - 1

\* Mutant: recovery skips the records it cannot read and goes on.
ParseSkipping(f, tailRecovery) ==
    LET good == {i \in 1..Len(f.records) :
                   /\ Readable(f.records[i])
                   /\ ~(f.damage # Nothing /\ f.damage.kind = "record" /\ f.damage.at = i)}
        kept == [i \in 1..Cardinality(good) |-> f.records[Ascending(good)[i]]]
        whole == good = 1..Len(f.records)
        refused == f.damage # Nothing /\ f.damage.kind \in {"refused", "short"}
    IN  IF refused \/ (~whole /\ ~tailRecovery)
        THEN {}
        ELSE {[state |-> Decoded(f.generation, kept),
               recovered |-> ~whole]}

\* parse_snapshot: the state read and whether a tail was dropped; none when the
\* file is refused.  A short payload is not looked at.
Parse(f, tailRecovery) ==
    LET n == Accepted(f)
        is(kind) == f.damage # Nothing /\ f.damage.kind = kind
        dropped == is("short") \/ is("trailer") \/ n < Len(f.records)
    IN  IF is("refused") \/ (dropped /\ ~tailRecovery) THEN {}
        ELSE IF is("short") THEN {[state |-> Empty, recovered |-> TRUE]}
        ELSE {[state |-> Decoded(f.generation, SubSeq(f.records, 1, n)),
               recovered |-> dropped]}

\* load_snapshot, after parsing: attachments without their module are dropped,
\* and it is a new registry incarnation, a generation later.
Installed(s) ==
    [s EXCEPT !.generation = @ + 1, !.incarnation = @ + 1,
              !.attachments = Restrict(@, {l \in DOMAIN @ : @[l] \in DOMAIN s.modules})]

-----------------------------------------------------------------------------
(* The registry at work.                                                   *)

LInit ==
    /\ phase = "up" /\ state = Empty /\ parsed = Empty
    /\ file = Nothing /\ recovered = FALSE /\ boots = 1

\* An accepted mutation: of a running registry, or by another thread while
\* load_snapshot does not hold the lock; Install then overwrites it.
Mutate(new) ==
    /\ phase # "down"
    /\ state.generation < MaxMutations
    /\ file # Nothing => state.generation < file.generation + MaxUnsaved
    /\ state' = [new EXCEPT !.generation = state.generation + 1]
    /\ UNCHANGED <<phase, parsed, file, recovered, boots>>

\* register_source, with a new name.
RegisterSource ==
    /\ state.nextSource <= MaxSources
    /\ Mutate([state EXCEPT !.sources = @ \cup {state.nextSource}, !.nextSource = @ + 1])

\* register_module, with a new key and evidence of a source.
RegisterModule(s) ==
    /\ state.nextModule <= MaxModules
    /\ Mutate([state EXCEPT
                 !.modules = With(@, state.nextModule, [source |-> s, samples |-> 0]),
                 !.nextModule = @ + 1])

\* ingest_samples, in batches, up to the module's budget.
Ingest(u) ==
    /\ state.modules[u].samples < SampleBudget
    /\ Mutate([state EXCEPT !.modules[u].samples = @ + 1])

\* attach, detach.
Attach(u, l) ==
    /\ l \notin DOMAIN state.attachments /\ u \notin Range(state.attachments)
    /\ Mutate([state EXCEPT !.attachments = With(@, l, u)])
Detach(l) ==
    Mutate([state EXCEPT !.attachments = Restrict(@, DOMAIN @ \ {l})])

\* publish_port_capability, publish_threshold, publish_rule: each carries the
\* source it is from.
PublishPort(s) ==
    s \notin state.ports /\ Mutate([state EXCEPT !.ports = @ \cup {s}])
PublishThreshold(s) ==
    s \notin state.thresholds /\ Mutate([state EXCEPT !.thresholds = @ \cup {s}])
PublishRule(s) ==
    /\ state.nextRule <= MaxRules
    /\ Mutate([state EXCEPT !.rules = With(@, state.nextRule, s), !.nextRule = @ + 1])

SaveState ==
    /\ phase = "up"
    /\ file' = Saved(state)
    /\ UNCHANGED <<phase, state, parsed, recovered, boots>>

-----------------------------------------------------------------------------
(* Restarts.                                                               *)

Stop ==
    /\ phase = "up" /\ boots < MaxLoads /\ file # Nothing
    /\ phase' = "down"
    /\ state' = Empty /\ parsed' = Empty /\ recovered' = FALSE
    /\ UNCHANGED <<file, boots>>

\* The file is damaged while no process runs.
Damage ==
    /\ phase = "down" /\ file.damage = Nothing
    /\ \E d \in Damages(Len(file.records)) : file' = [file EXCEPT !.damage = d]
    /\ UNCHANGED <<phase, state, parsed, recovered, boots>>

\* load_snapshot into an empty registry: the file is read and parsed, with tail
\* recovery or without.
BeginLoad ==
    /\ phase = "down"
    /\ \E tailRecovery \in BOOLEAN : \E p \in Parse(file, tailRecovery) :
          parsed' = p.state /\ recovered' = p.recovered
    /\ phase' = "loading"
    /\ UNCHANGED <<state, file, boots>>

\* load_snapshot's second half: what was parsed is installed.
Install ==
    /\ phase = "loading"
    /\ state' = Installed(parsed)
    /\ phase' = "up" /\ boots' = boots + 1
    /\ parsed' = Empty
    /\ UNCHANGED <<file, recovered>>

LNext ==
    \/ RegisterSource
    \/ \E s \in state.sources :
         RegisterModule(s) \/ PublishPort(s) \/ PublishThreshold(s) \/ PublishRule(s)
    \/ \E u \in DOMAIN state.modules : Ingest(u) \/ \E l \in Slots : Attach(u, l)
    \/ \E l \in DOMAIN state.attachments : Detach(l)
    \/ SaveState \/ Stop \/ Damage \/ BeginLoad \/ Install

LSpec == LInit /\ [][LNext]_lvars

-----------------------------------------------------------------------------
\* Evidence, thresholds and rules have their source.
Sourced(s) ==
    /\ \A u \in DOMAIN s.modules : s.modules[u].source \in s.sources
    /\ s.ports \cup s.thresholds \cup Range(s.rules) \subseteq s.sources

\* Attachments have their module.
Attached(s) == Range(s.attachments) \subseteq DOMAIN s.modules

\* The next ids are above those in use.
Ahead(s) ==
    /\ \A i \in s.sources : i < s.nextSource
    /\ \A u \in DOMAIN s.modules : u < s.nextModule
    /\ \A r \in DOMAIN s.rules : r < s.nextRule

\* Nothing in a registry refers to what it does not hold, whatever part of a
\* damaged file it was recovered from (encode_state_records, parse_snapshot,
\* load_snapshot): evidence, thresholds and rules have their source, attachments
\* their module.
NothingDangles == Sourced(state) /\ Attached(state)

\* No id that is in use is handed out again after a recovery (decode_state_header):
\* the counters are ahead of everything that was recovered.
CountersAhead == Ahead(state)

\* "Never a gap": what a load keeps of what was saved is everything up to some
\* record and nothing after it, and when it says that no tail was dropped it is
\* all of it.  (Checked as the state is about to be installed.)
NeverAGap ==
    phase = "loading" =>
        LET all == Encoded(file.of)
            kept == {i \in DOMAIN all : \/ i = 1
                                        \/ all[i] \in Range(Encoded(parsed))}
        IN  /\ Range(Tail(Encoded(parsed))) \subseteq Range(all)
            /\ \A i \in kept : \A j \in 1..i : j \in kept
            /\ ~recovered => Encoded(parsed) = all

-----------------------------------------------------------------------------
(* What makes the invariants above inductive.                              *)

Maps(S, T) == UNION {[D -> T] : D \in SUBSET S}

\* The states a registry can be in.
States ==
    [generation : Nat, incarnation : Nat,
     nextSource : 1..MaxSources + 1, nextModule : 1..MaxModules + 1, nextRule : 1..MaxRules + 1,
     sources : SUBSET (1..MaxSources),
     modules : Maps(1..MaxModules, [source : 1..MaxSources, samples : 0..SampleBudget]),
     ports : SUBSET (1..MaxSources),
     attachments : Maps(Slots, 1..MaxModules),
     thresholds : SUBSET (1..MaxSources),
     rules : Maps(1..MaxRules, 1..MaxSources)]

\* A file holds all the records of a sound state, whatever became of it since; there
\* is one when a process has stopped.
FileFits ==
    phase # "up" \/ file # Nothing =>
        /\ file = [generation |-> file.of.generation, records |-> Encoded(file.of),
                   damage |-> file.damage, of |-> file.of]
        /\ file.of \in States /\ Sourced(file.of) /\ Attached(file.of) /\ Ahead(file.of)

\* What has been parsed is a number of its first records, or nothing at all.
ParsedFits ==
    phase = "loading" =>
        \/ parsed = Empty /\ recovered
        \/ \E n \in 0..Len(file.records) :
              /\ parsed = Decoded(file.generation, SubSeq(file.records, 1, n))
              /\ ~recovered => n = Len(file.records)

LInv ==
    /\ phase \in {"up", "down", "loading"} /\ recovered \in BOOLEAN
    /\ state \in States /\ Sourced(state) /\ Attached(state) /\ Ahead(state)
    /\ FileFits /\ ParsedFits
=============================================================================
