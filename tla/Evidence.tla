------------------------------ MODULE Evidence ------------------------------
(***************************************************************************)
(* The evidence a registry keeps of one module and of the host ports: what *)
(* sources state about identity fields (claims) and capabilities           *)
(* (declarations), how a statement revises an earlier one, how the bounded *)
(* stores make room, and the view that is computed from them.              *)
(*                                                                         *)
(* Each action is one mutation of the registry, made with a current token  *)
(* and a current handle (module Registry is about those that are not); a   *)
(* refused one changes nothing.  A store is a set: seq is the position in  *)
(* the code's vector, which is also the order of the sequence numbers.     *)
(* Attribute stands for a field or key with its subkey.                    *)
(***************************************************************************)
EXTENDS Consensus, Sequences, FiniteSetsExt, Functions

CONSTANTS
    Sources,          \* evidence sources
    Attributes,       \* identity fields, and capability keys
    Values,           \* values they may be given
    Ports,            \* host port keys
    MaxClaims,        \* RegistryConfig::max_claims_per_module
    MaxDeclarations,  \* RegistryConfig::max_declarations_per_module
    MaxPortDeclarations, \* RegistryConfig::max_declarations_per_port
    MaxPorts,         \* RegistryConfig::max_ports
    MaxHistory,       \* RegistryConfig::max_claim_history
    MaxEpoch,         \* bound: epochs of the sources explored, together
    MaxIncarnation,   \* bound: incarnations of the module explored
    MaxStatements     \* bound: statements explored

ASSUME EvidenceAssumption ==
    /\ {MaxClaims, MaxDeclarations, MaxPortDeclarations, MaxPorts, MaxStatements} \subseteq Nat
    /\ MaxPortDeclarations >= 1
    /\ {"identity", "capability"} \cap Ports = {}
    /\ MaxHistory \in Nat \ {0}
    /\ NoValue \notin Values

Statement ==
    [source : Sources, epoch : Nat, incarnation : Nat, attribute : Attributes,
     value : Values, seq : Nat]

VARIABLES
    epoch,         \* the current epoch of each source, 0: not registered
    incarnation,   \* the module's current incarnation, 0: not registered
    claims,        \* ModuleRecord::claims
    declarations,  \* ModuleRecord::declarations
    ports,         \* PortRecord::declarations of each port
    next,          \* the next statement's seq
    said           \* history: what each source last got accepted, by subject

vars == <<epoch, incarnation, claims, declarations, ports, next, said>>

Subjects == {"identity", "capability"} \cup Ports

Init ==
    /\ epoch = [s \in Sources |-> 0]
    /\ incarnation = 0
    /\ claims = {} /\ declarations = {}
    /\ ports = [p \in Ports |-> {}]
    /\ next = 1
    /\ said = [x \in Subjects |-> {}]

-----------------------------------------------------------------------------
(* Stores.                                                                 *)

\* claim_is_superseded, declaration_is_superseded, claim_shadowed and
\* declaration_shadowed: the same source has stated the same attribute again,
\* in the same epoch and of the same incarnation.  (What a port is said to be
\* carries incarnation 0.)
Revises(t, s) ==
    /\ t.source = s.source /\ t.epoch = s.epoch
    /\ t.attribute = s.attribute /\ t.incarnation = s.incarnation
    /\ s.seq < t.seq

IsSuperseded(store, s) == \E t \in store : Revises(t, s)

\* The n oldest members of a set of statements.
Oldest(n, set) ==
    {s \in set : Cardinality({t \in set : t.seq < s.seq}) < n}

\* Mutant: the budget counts what is there before the new statement.
MakeRoomLate(store, max) ==
    LET excess == IF Cardinality(store) > max + 1
                  THEN Cardinality(store) - max - 1 ELSE 0
        spare == {s \in store : IsSuperseded(store, s)}
    IN  [fits |-> Cardinality(spare) >= excess, store |-> store \ Oldest(excess, spare)]

\* The first loop of trim_claims and trim_declarations: superseded statements
\* go, oldest first, until the store is within its budget; when there are not
\* enough of them the mutation is refused.
MakeRoom(store, max) ==
    LET excess == IF Cardinality(store) > max
                  THEN Cardinality(store) - max ELSE 0
        spare == {s \in store : IsSuperseded(store, s)}
    IN  [fits |-> Cardinality(spare) >= excess, store |-> store \ Oldest(excess, spare)]

\* Mutant: one statement too many is kept of a group.
BoundHistoryLoose(store) ==
    LET group(s) == {t \in store : /\ t.source = s.source /\ t.epoch = s.epoch
                                   /\ t.attribute = s.attribute}
    IN  {s \in store : Cardinality({t \in group(s) : t.seq > s.seq}) <= MaxHistory}

\* The second half: of what one source said of one attribute in one epoch, of
\* whatever incarnation, only the newest MaxHistory are kept.
BoundHistory(store) ==
    LET group(s) == {t \in store : /\ t.source = s.source /\ t.epoch = s.epoch
                                   /\ t.attribute = s.attribute}
    IN  {s \in store : Cardinality({t \in group(s) : t.seq > s.seq}) < MaxHistory}

\* Mutant: room is made before the new statement is added, as for a port.
TrimFirst(store, new, max) ==
    LET room == MakeRoom(store, IF max = 0 THEN 0 ELSE max - Cardinality(new))
    IN  [fits |-> room.fits, store |-> BoundHistory(room.store \cup new)]

\* A module's store takes new statements: pushed first, then trimmed.
Trim(store, new, max) ==
    LET room == MakeRoom(store \cup new, max)
    IN  [fits |-> room.fits, store |-> BoundHistory(room.store)]

\* A port's store makes room first, so that what the new statement would
\* supersede does not count as spare; its history is not bounded.
PortTrim(store, new) ==
    IF Cardinality(store) < MaxPortDeclarations
    THEN [fits |-> TRUE, store |-> store \cup new]
    ELSE LET room == MakeRoom(store, MaxPortDeclarations - 1)
         IN  [fits |-> room.fits, store |-> room.store \cup new]

\* What source s states now; a port's statement has no incarnation.
Say(s, a, v, n, inc) ==
    [source |-> s, epoch |-> epoch[s], incarnation |-> inc, attribute |-> a,
     value |-> v, seq |-> n]

\* The record of what was accepted: the newest per source and attribute.
Remember(x, new) ==
    said' = [said EXCEPT ![x] =
               {o \in @ : ~\E n \in new : o.source = n.source
                                          /\ o.attribute = n.attribute} \cup new]

-----------------------------------------------------------------------------
(* Mutations.                                                              *)

EpochsSpent == FoldFunction(+, 0, epoch)

\* register_source with a new instance: the source's statements so far are
\* those of an earlier epoch.
RegisterSource(s) ==
    /\ EpochsSpent < MaxEpoch
    /\ epoch' = [epoch EXCEPT ![s] = @ + 1]
    /\ UNCHANGED <<incarnation, claims, declarations, ports, next, said>>

\* The identity a registration may carry: nothing, or two fields.
Identities ==
    {<<>>} \cup
    {xy \in (Attributes \X Values) \X (Attributes \X Values) : xy[1][1] # xy[2][1]}

\* register_module, for the current incarnation or a new one.
RegisterModule(s) ==
    /\ epoch[s] # 0
    /\ \E intent \in {"EnsureCurrent", "NewIncarnation"}, identity \in Identities :
         LET inc == IF incarnation = 0 \/ intent = "NewIncarnation"
                    THEN incarnation + 1 ELSE incarnation
             new == {Say(s, identity[i][1], identity[i][2], next + i - 1, inc) :
                       i \in 1..Len(identity)}
             trimmed == Trim(claims, new, MaxClaims)
         IN  /\ inc <= MaxIncarnation
             /\ next + Len(identity) <= MaxStatements + 1
             /\ inc # incarnation \/ new # {}
             /\ trimmed.fits
             /\ incarnation' = inc
             /\ claims' = trimmed.store
             /\ next' = next + Len(identity)
             /\ Remember("identity", new)
    /\ UNCHANGED <<epoch, declarations, ports>>

\* update_identity.
UpdateIdentity(s, a, v) ==
    LET new == {Say(s, a, v, next, incarnation)}
        trimmed == Trim(claims, new, MaxClaims)
    IN  /\ epoch[s] # 0 /\ incarnation # 0 /\ next <= MaxStatements
        /\ trimmed.fits
        /\ claims' = trimmed.store
        /\ next' = next + 1
        /\ Remember("identity", new)
        /\ UNCHANGED <<epoch, incarnation, declarations, ports>>

\* publish_capability.
PublishCapability(s, a, v) ==
    LET new == {Say(s, a, v, next, incarnation)}
        trimmed == Trim(declarations, new, MaxDeclarations)
    IN  /\ epoch[s] # 0 /\ incarnation # 0 /\ next <= MaxStatements
        /\ trimmed.fits
        /\ declarations' = trimmed.store
        /\ next' = next + 1
        /\ Remember("capability", new)
        /\ UNCHANGED <<epoch, incarnation, claims, ports>>

\* publish_port_capability: the first one for a port creates its record.
PublishPortCapability(s, p, a, v) ==
    LET new == {Say(s, a, v, next, 0)}
        trimmed == PortTrim(ports[p], new)
    IN  /\ epoch[s] # 0 /\ next <= MaxStatements
        /\ ports[p] = {} => Cardinality({q \in Ports : ports[q] # {}}) < MaxPorts
        /\ trimmed.fits
        /\ ports' = [ports EXCEPT ![p] = trimmed.store]
        /\ next' = next + 1
        /\ Remember(p, new)
        /\ UNCHANGED <<epoch, incarnation, claims, declarations>>

Next ==
    \E s \in Sources :
        \/ RegisterSource(s)
        \/ RegisterModule(s)
        \/ \E a \in Attributes, v \in Values :
             \/ UpdateIdentity(s, a, v)
             \/ PublishCapability(s, a, v)
             \/ \E p \in Ports : PublishPortCapability(s, p, a, v)

Spec == Init /\ [][Next]_vars

-----------------------------------------------------------------------------
(* Views.                                                                  *)

\* The store behind a subject, and the incarnation its view is about.
Store(x) ==
    CASE x = "identity"   -> claims
      [] x = "capability" -> declarations
      [] OTHER            -> ports[x]
Shown(x) == IF x \in Ports THEN 0 ELSE incarnation

\* Mutant: a statement of an earlier epoch still counts.
IsLiveAnyEpoch(x, s) ==
    s.incarnation = Shown(x) /\ ~IsSuperseded(Store(x), s)

\* live_claims, live_declarations, live_port_declarations.
IsLive(x, s) ==
    /\ s.incarnation = Shown(x)
    /\ epoch[s.source] = s.epoch          \* source_is_live
    /\ ~IsSuperseded(Store(x), s)

\* What identity, identity_by_key, capabilities and port_capabilities show of
\* one attribute: of the live statements the newest of each source, and
\* whether anything else of this incarnation is on record.  (They leave out an
\* attribute of which nothing is, here Unknown.)
ConsensusOn(x, a) ==
    LET all == {s \in Store(x) : s.attribute = a /\ s.incarnation = Shown(x)}
        live == {s \in all : IsLive(x, s)}
        newest == {s \in live : ~\E t \in live : t.source = s.source /\ t.seq > s.seq}
    IN  Outcome(newest, all # newest)

\* claim_history and declaration_history: the newest of one incarnation, the
\* superseded ones too unless the query leaves them out.
History(x, inc, superseded, limit) ==
    LET all == {s \in Store(x) : s.incarnation = inc
                                 /\ (superseded \/ IsLive(x, s))}
    IN  {s \in all : Cardinality({t \in all : t.seq > s.seq}) < limit}

\* evidence_summary, for one kind of statement.
EvidenceSummary(x) ==
    LET all == {s \in Store(x) : s.incarnation = incarnation}
        live == {s \in all : IsLive(x, s)}
    IN  [live |-> Cardinality(live), superseded |-> Cardinality(all \ live),
         conflicting |-> Cardinality({a \in Attributes :
                          ConsensusOn(x, a).outcome = "Conflicting"})]

-----------------------------------------------------------------------------
\* What the registry shows is what the sources last got accepted in their
\* current epoch about the current incarnation, no matter what the bounded
\* stores have dropped, which epochs and incarnations came between and what was
\* refused: the view has a value exactly where all who spoke agree, the
\* history lists those statements as the live ones and the summary counts them.
ViewIsLatest ==
    \A x \in Subjects :
        LET valid == {o \in said[x] : /\ o.epoch = epoch[o.source]
                                      /\ o.incarnation = Shown(x)}
        IN  /\ \A a \in Attributes :
                 LET values == {o.value : o \in {v \in valid : v.attribute = a}}
                     c == ConsensusOn(x, a)
                 IN  /\ Established(c) <=> Cardinality(values) = 1
                     /\ Established(c) => c.value \in values
                     /\ c.outcome = "Conflicting" <=> Cardinality(values) > 1
            /\ x \notin Ports =>
                 /\ History(x, incarnation, FALSE, MaxStatements) = valid
                 /\ EvidenceSummary(x).live = Cardinality(valid)

\* A source can always revise what it said of the module: a full store never
\* refuses a statement that supersedes one it holds.
RevisionFits ==
    \A x \in {"identity", "capability"} :
        \A s \in Store(x) :
            s.epoch = epoch[s.source] /\ s.incarnation = incarnation =>
              Trim(Store(x),
                   {Say(s.source, s.attribute, s.value, next, incarnation)},
                   IF x = "identity" THEN MaxClaims ELSE MaxDeclarations).fits

\* Every store stays within its budget, and no source fills a module's store
\* with revisions of one attribute.
StoreBudgets ==
    /\ Cardinality(claims) <= MaxClaims
    /\ Cardinality(declarations) <= MaxDeclarations
    /\ \A p \in Ports : Cardinality(ports[p]) <= MaxPortDeclarations
    /\ Cardinality({p \in Ports : ports[p] # {}}) <= MaxPorts
    /\ \A s \in claims \cup declarations :
         \A store \in {claims, declarations} :
           Cardinality({t \in store : /\ t.source = s.source /\ t.epoch = s.epoch
                                      /\ t.attribute = s.attribute}) <= MaxHistory

-----------------------------------------------------------------------------
(* What makes the invariants above inductive.                              *)

TypeOK ==
    /\ epoch \in [Sources -> Nat] /\ incarnation \in Nat
    /\ claims \in SUBSET Statement /\ declarations \in SUBSET Statement
    /\ ports \in [Ports -> SUBSET Statement]
    /\ next \in 1..MaxStatements + 1
    /\ said \in [Subjects -> SUBSET Statement]

SameMatter(s, t) == s.source = t.source /\ s.attribute = t.attribute

\* What a store holds and what the sources last got accepted belong together,
\* given the next seq, the epochs of the sources and the incarnation shown: seq
\* identifies a statement, only one is remembered of each source and attribute,
\* none in the store is later than that one, and the one remembered is in the
\* store unless its epoch or incarnation has passed.
Accounted(store, told, n, epochs, shown) ==
    /\ \A s \in store \cup told :
          s.seq \in 1..n - 1 /\ s.epoch <= epochs[s.source] /\ s.incarnation <= shown
    /\ \A s, t \in store \cup told : s.seq = t.seq => s = t
    /\ \A o, p \in told : SameMatter(o, p) => o = p
    /\ \A s \in store : \E o \in told :
          /\ SameMatter(s, o) /\ s.seq <= o.seq
          /\ s.epoch <= o.epoch /\ s.incarnation <= o.incarnation
    /\ \A o \in told : o.epoch = epochs[o.source] /\ o.incarnation = shown => o \in store

\* A store is finite, within its budget, and its history is bounded.
Bounded(store, max) ==
    /\ IsFiniteSet(store) /\ Cardinality(store) <= max
    /\ \A s \in store :
          Cardinality({t \in store : SameMatter(t, s) /\ t.epoch = s.epoch}) <= MaxHistory

StoresFit ==
    /\ Bounded(claims, MaxClaims) /\ Bounded(declarations, MaxDeclarations)
    /\ \A p \in Ports :
          IsFiniteSet(ports[p]) /\ Cardinality(ports[p]) <= MaxPortDeclarations
    /\ IsFiniteSet({p \in Ports : ports[p] # {}})
    /\ Cardinality({p \in Ports : ports[p] # {}}) <= MaxPorts

Inv ==
    /\ TypeOK
    /\ StoresFit
    /\ \A x \in Subjects : Accounted(Store(x), said[x], next, epoch, Shown(x))
=============================================================================
