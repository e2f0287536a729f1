------------------------------- MODULE Registry -------------------------------
(***************************************************************************)
(* The registry core of src/src/registry.cpp: sources and their epochs,    *)
(* modules and their incarnations, the lifecycle, the slots, and the       *)
(* generation every commit advances.                                       *)
(*                                                                         *)
(* A mutation copies the state, changes the copy and publishes it under    *)
(* one lock (RegistryImpl::mutate), so one action is one whole mutation.   *)
(* What is not atomic is the caller: it holds a token and a handle it got  *)
(* earlier and presents them after others have committed.  The variables   *)
(* token, handle and seen are what each caller holds.                      *)
(*                                                                         *)
(* A refused call publishes nothing (it only counts a refusal), so it is a *)
(* stuttering step; the guards below are the code's refusals, negated.     *)
(* Source ids and module uids are allocated once per name and per key and  *)
(* never reused: the name and the key stand for them.                      *)
(***************************************************************************)
EXTENDS Naturals, Sequences, FiniteSets, Lifecycle

CONSTANTS
    Clients,              \* callers: threads, or connections of the server
    SourceNames,          \* names register_source may be called with
    Instances,            \* non-empty instance ids of a source
    Keys,                 \* module keys
    Slots,                \* slot keys
    NoInstance,           \* an empty instance id
    NoRecord,             \* no entry in a map / nothing held
    MaxSources,           \* RegistryConfig::max_sources
    MaxModules,           \* RegistryConfig::max_modules
    MaxAttachments,       \* RegistryConfig::max_attachments
    MaxLifecycleHistory,  \* RegistryConfig::max_lifecycle_history
    CounterMax,           \* 0xFFFFFFFF: the last epoch and the last incarnation
    MaxGeneration         \* bound of the model: commits explored

ASSUME ConstantsAssumption ==
    /\ NoInstance \notin Instances
    /\ MaxSources \in Nat /\ MaxModules \in Nat /\ MaxAttachments \in Nat
    /\ MaxLifecycleHistory \in Nat
    /\ CounterMax \in Nat \ {0}
    /\ MaxGeneration \in Nat

VARIABLES
    generation,   \* State::generation
    sources,      \* State::sources, by name
    modules,      \* State::modules, by key
    attachments,  \* State::attachments, by slot; entries are never removed
    live,         \* the slots whose attachment has AttachmentRecord::live
    token,        \* the AuthorityToken each client holds
    handle,       \* the ModuleHandle each client holds
    seen,         \* the lifecycle state each client read with its handle
    epochStart,   \* history: generation at which each epoch of a source began
    incStart,     \* history: generation at which each incarnation began
    incEnd        \* history: the state each superseded incarnation ended in

stateVars  == <<generation, sources, modules, attachments, live>>
clientVars == <<token, handle, seen>>
ghostVars  == <<epochStart, incStart, incEnd>>
vars       == <<stateVars, clientVars, ghostVars>>

-----------------------------------------------------------------------------
Policies == {"RequireGeneration", "AutoRetry"}

Source     == [epoch : Nat, instance : Instances \cup {NoInstance}]
Token      == [source : SourceNames, epoch : Nat]
Handle     == [key : Keys, incarnation : Nat, generation : Nat]
Event      == [from : LifecycleState, to : LifecycleState, incarnation : Nat]
Module     == [incarnation : Nat, state : LifecycleState, lifecycle : Seq(Event)]
Attachment == [key : Keys, incarnation : Nat, source : SourceNames, epoch : Nat,
               generation : Nat]

\* Nothing held, no entry: told apart from every value it stands in for.
ASSUME NoRecordAssumption ==
    NoRecord \notin Source \cup Token \cup Handle \cup Module \cup Attachment
                  \cup LifecycleState

Init ==
    /\ generation = 0
    /\ sources = [n \in SourceNames |-> NoRecord]
    /\ modules = [k \in Keys |-> NoRecord]
    /\ attachments = [s \in Slots |-> NoRecord]
    /\ live = {}
    /\ token = [c \in Clients |-> NoRecord]
    /\ handle = [c \in Clients |-> NoRecord]
    /\ seen = [c \in Clients |-> NoRecord]
    /\ epochStart = [n \in SourceNames |-> <<>>]
    /\ incStart = [k \in Keys |-> <<>>]
    /\ incEnd = [k \in Keys |-> <<>>]

-----------------------------------------------------------------------------
(* The parts every mutation shares.                                        *)

\* The fence of RegistryImpl::mutate: an expected generation of 0 is "not
\* valid" and is never compared.
FenceOpen(policy, expected) ==
    policy = "RequireGeneration" /\ expected # 0 => expected = generation

\* Mutant: a commit that does not take a new generation.
PublishInPlace ==
    /\ generation < MaxGeneration
    /\ generation' = generation

\* Publication: every committed mutation takes the next generation.
Publish ==
    /\ generation < MaxGeneration
    /\ generation' = generation + 1

\* Mutant: a token of an earlier epoch is accepted.
AuthorisedAnyEpoch(c) ==
    /\ token[c] # NoRecord
    /\ sources[token[c].source] # NoRecord

\* require_authority.
Authorised(c) ==
    /\ token[c] # NoRecord
    /\ sources[token[c].source] # NoRecord
    /\ sources[token[c].source].epoch = token[c].epoch

\* The module the client's handle names exists and still has the incarnation
\* the handle names (incarnation_is_current).
HandleCurrent(c) ==
    /\ handle[c] # NoRecord
    /\ modules[handle[c].key] # NoRecord
    /\ modules[handle[c].key].incarnation = handle[c].incarnation

\* Mutant: the newest events are erased.
TrimNewest(events) ==
    IF Len(events) > MaxLifecycleHistory THEN SubSeq(events, 1, MaxLifecycleHistory) ELSE events

\* Bounded history: the oldest events are erased.
Trim(events) ==
    IF Len(events) > MaxLifecycleHistory
    THEN SubSeq(events, Len(events) - MaxLifecycleHistory + 1, Len(events))
    ELSE events

Trimmed(m) ==
    [incarnation |-> m.incarnation, state |-> m.state, lifecycle |-> Trim(m.lifecycle)]

\* A module record after one recorded transition.
Moved(m, to) ==
    [incarnation |-> m.incarnation,
     state       |-> to,
     lifecycle   |-> Trim(Append(m.lifecycle,
                        [from |-> m.state, to |-> to, incarnation |-> m.incarnation]))]

-----------------------------------------------------------------------------
(* Sources.                                                                *)

\* Registry::register_source.  No expected generation is passed on, so the
\* policy never fences it.  A matching, non-empty instance id renews the
\* epoch; anything else mints the next one.
RegisterSource(c, n, instance) ==
    LET known   == sources[n] # NoRecord
        renewal == known /\ instance # NoInstance /\ instance = sources[n].instance
        epoch   == IF ~known THEN 1
                   ELSE IF renewal THEN sources[n].epoch ELSE sources[n].epoch + 1
    IN  /\ known \/ Cardinality({m \in SourceNames : sources[m] # NoRecord}) < MaxSources
        /\ known /\ ~renewal => sources[n].epoch # CounterMax
        /\ Publish
        /\ sources' = [sources EXCEPT ![n] = [epoch |-> epoch, instance |-> instance]]
        /\ token' = [token EXCEPT ![c] = [source |-> n, epoch |-> epoch]]
        /\ epochStart' = IF renewal THEN epochStart
                         ELSE [epochStart EXCEPT ![n] = Append(@, generation + 1)]
        /\ UNCHANGED <<modules, attachments, live, handle, seen, incStart, incEnd>>

-----------------------------------------------------------------------------
(* Module identity.                                                        *)

\* The handle register_module returns; what the client had read is dropped.
Minted(c, k, incarnation) ==
    /\ handle' = [handle EXCEPT ![c] =
                    [key |-> k, incarnation |-> incarnation, generation |-> generation + 1]]
    /\ seen' = [seen EXCEPT ![c] = NoRecord]

\* Mutant: the second event is left without a previous state.
DiscoveryNoFrom(incarnation) ==
    <<[from |-> "Discovered", to |-> "Discovered", incarnation |-> incarnation],
      [from |-> NoRecord, to |-> "Registered", incarnation |-> incarnation]>>

\* The events of an incarnation that is observed and registered at once.
Discovery(incarnation) ==
    <<[from |-> "Discovered", to |-> "Discovered", incarnation |-> incarnation],
      [from |-> "Discovered", to |-> "Registered", incarnation |-> incarnation]>>

\* Registry::register_module, key not known yet (either intent).
RegisterNewKey(c, k, policy, expected) ==
    /\ FenceOpen(policy, expected)
    /\ Authorised(c)
    /\ modules[k] = NoRecord
    /\ Cardinality({m \in Keys : modules[m] # NoRecord}) < MaxModules
    /\ Publish
    /\ modules' = [modules EXCEPT ![k] = [incarnation |-> 1, state |-> "Registered",
                                          lifecycle |-> Trim(Discovery(1))]]
    /\ Minted(c, k, 1)
    /\ incStart' = [incStart EXCEPT ![k] = Append(@, generation + 1)]
    /\ UNCHANGED <<sources, attachments, live, token, epochStart, incEnd>>

\* Registry::register_module, RegisterIntent::EnsureCurrent on a known key:
\* claims are added to the current incarnation, its lifecycle is left alone
\* (a committed record is never Discovered).
EnsureCurrent(c, k, policy, expected) ==
    /\ FenceOpen(policy, expected)
    /\ Authorised(c)
    /\ modules[k] # NoRecord
    /\ ~Ended(modules[k].state)
    /\ Publish
    /\ modules' = [modules EXCEPT ![k] =
          IF @.state = "Discovered" THEN Moved(@, "Registered") ELSE Trimmed(@)]
    /\ Minted(c, k, modules[k].incarnation)
    /\ UNCHANGED <<sources, attachments, live, token, ghostVars>>

\* Mutant: the number of the incarnation is used again.
SameIncarnationAgain(m) ==
    [incarnation |-> m.incarnation,
     state       |-> "Registered",
     lifecycle   |-> Trim(m.lifecycle \o Discovery(m.incarnation))]

\* Mutant: the state is carried over.
NextIncarnationCarriesState(m) ==
    [incarnation |-> m.incarnation + 1,
     state       |-> m.state,
     lifecycle   |-> Trim(m.lifecycle \o Discovery(m.incarnation + 1))]

\* The record of the next incarnation.  Only an incarnation that has not ended
\* yet gets a Replaced event.
NextIncarnation(m) ==
    LET replaced == IF Ended(m.state) THEN <<>>
                    ELSE <<[from |-> m.state, to |-> "Replaced", incarnation |-> m.incarnation]>>
    IN  [incarnation |-> m.incarnation + 1,
         state       |-> "Registered",
         lifecycle   |-> Trim(m.lifecycle \o replaced \o Discovery(m.incarnation + 1))]

\* Mutant: the previous incarnation keeps its slots.
NothingReleased(k) == live

\* The live slots once those of a replaced module are released, unless its last
\* incarnation had already ended.
Released(k) ==
    IF Ended(modules[k].state) THEN live ELSE {s \in live : attachments[s].key # k}

\* Registry::register_module, RegisterIntent::NewIncarnation on a known key.
NewIncarnation(c, k, policy, expected) ==
    LET old == modules[k]
    IN  /\ FenceOpen(policy, expected)
        /\ Authorised(c)
        /\ modules[k] # NoRecord
        /\ old.incarnation # CounterMax
        /\ Publish
        /\ modules' = [modules EXCEPT ![k] = NextIncarnation(@)]
        /\ live' = Released(k)
        /\ Minted(c, k, old.incarnation + 1)
        /\ incStart' = [incStart EXCEPT ![k] = Append(@, generation + 1)]
        /\ incEnd' = [incEnd EXCEPT ![k] = Append(@, old.state)]
        /\ UNCHANGED <<sources, attachments, token, epochStart>>

-----------------------------------------------------------------------------
(* Attachment.                                                             *)

\* Registry::attach.  A live attachment of the same incarnation is returned as
\* it is; otherwise the module moves to Attached, whoever holds the slot is
\* marked dead and the record is overwritten.  The budget is only counted when
\* the slot has no entry at all.
Attach(c, s, policy) ==
    LET k   == handle[c].key
        m   == modules[k]
        old == attachments[s]
        same == s \in live /\ old.key = k /\ old.incarnation = m.incarnation
    IN  /\ HandleCurrent(c)
        /\ FenceOpen(policy, handle[c].generation)
        /\ Authorised(c)
        /\ \/ /\ same
              /\ UNCHANGED <<modules, attachments, live>>
           \/ /\ ~same
              /\ m.state = "Attached" \/ TransitionAllowed(m.state, "Attached")
              /\ old = NoRecord => Cardinality(live) < MaxAttachments
              /\ modules' = IF m.state = "Attached" THEN modules
                            ELSE [modules EXCEPT ![k] = Moved(@, "Attached")]
              /\ attachments' = [attachments EXCEPT ![s] =
                    [key |-> k, incarnation |-> m.incarnation, source |-> token[c].source,
                     epoch |-> token[c].epoch, generation |-> generation + 1]]
              /\ live' = live \cup {s}
        /\ Publish
        /\ UNCHANGED <<sources, clientVars, ghostVars>>

\* Registry::detach.  No expected generation is passed on, so the policy never
\* fences it; a slot left over from an older incarnation changes no lifecycle.
Detach(c, s, policy) ==
    LET a == attachments[s]
        m == modules[a.key]
        current == m # NoRecord /\ m.incarnation = a.incarnation
    IN  /\ FenceOpen(policy, 0)
        /\ Authorised(c)
        /\ s \in live
        /\ live' = live \ {s}
        /\ modules' = IF current /\ ImpliesAttachment(m.state)
                      THEN [modules EXCEPT ![a.key] = Moved(@, "Removed")]
                      ELSE modules
        /\ Publish
        /\ UNCHANGED <<sources, attachments, clientVars, ghostVars>>

-----------------------------------------------------------------------------
(* Lifecycle.                                                              *)

\* Registry::transition: the table decides, the slots are not touched.
Transition(c, to, policy) ==
    LET k == handle[c].key
    IN  /\ HandleCurrent(c)
        /\ FenceOpen(policy, handle[c].generation)
        /\ Authorised(c)
        /\ TransitionAllowed(modules[k].state, to)
        /\ Publish
        /\ modules' = [modules EXCEPT ![k] = Moved(@, to)]
        /\ UNCHANGED <<sources, attachments, live, clientVars, ghostVars>>

\* Registry::reconcile_lifecycle.  The verdict is what build_health_report
\* makes of the evidence: "unhealthy" and "healthy" as the handler defines
\* them, "none" otherwise.
ReconcileTarget(state, verdict) ==
    CASE verdict = "unhealthy" /\ state \in {"Active", "Attached"} -> "Degraded"
      [] verdict = "healthy" /\ state \in {"Degraded", "Attached"} -> "Active"
      [] OTHER -> state

Reconcile(c, verdict, policy) ==
    LET k == handle[c].key
        m == modules[k]
        to == ReconcileTarget(m.state, verdict)
    IN  /\ HandleCurrent(c)
        /\ FenceOpen(policy, handle[c].generation)
        /\ Authorised(c)
        /\ to # m.state => TransitionAllowed(m.state, to)
        /\ Publish
        /\ modules' = IF to = m.state THEN modules
                      ELSE [modules EXCEPT ![k] = Moved(@, to)]
        /\ UNCHANGED <<sources, attachments, live, clientVars, ghostVars>>

-----------------------------------------------------------------------------
(* Mutations whose data other modules hold: here they only move the        *)
(* generation, which is what the callers of this module can see of them.   *)

\* update_identity, publish_capability, ingest_health.
PublishEvidence(c, policy) ==
    /\ HandleCurrent(c)
    /\ FenceOpen(policy, handle[c].generation)
    /\ Authorised(c)
    /\ Publish
    /\ UNCHANGED <<sources, modules, attachments, live, clientVars, ghostVars>>

\* publish_port_capability, publish_threshold, publish_rule, retire_rule:
\* no handle, and no expected generation to fence with.
PublishPolicy(c, policy) ==
    /\ FenceOpen(policy, 0)
    /\ Authorised(c)
    /\ Publish
    /\ UNCHANGED <<sources, modules, attachments, live, clientVars, ghostVars>>

-----------------------------------------------------------------------------
(* Reads a caller does between mutations, each from one published state.   *)

\* Registry::source_handle.
ReadSource(c, n) ==
    /\ sources[n] # NoRecord
    /\ token' = [token EXCEPT ![c] = [source |-> n, epoch |-> sources[n].epoch]]
    /\ UNCHANGED <<stateVars, handle, seen, ghostVars>>

\* Registry::modules.
ReadModule(c, k) ==
    /\ modules[k] # NoRecord
    /\ handle' = [handle EXCEPT ![c] =
          [key |-> k, incarnation |-> modules[k].incarnation, generation |-> generation]]
    /\ seen' = [seen EXCEPT ![c] = NoRecord]
    /\ UNCHANGED <<stateVars, token, ghostVars>>

\* Registry::generation, stored into the handle before a fenced call: what was
\* read at the old generation no longer counts.
RefreshGeneration(c) ==
    /\ handle[c] # NoRecord
    /\ handle' = [handle EXCEPT ![c].generation = generation]
    /\ seen' = [seen EXCEPT ![c] = NoRecord]
    /\ UNCHANGED <<stateVars, token, ghostVars>>

\* Registry::lifecycle_state; a superseded incarnation is answered Fenced.
ReadState(c) ==
    /\ HandleCurrent(c)
    /\ seen' = [seen EXCEPT ![c] = modules[handle[c].key].state]
    /\ UNCHANGED <<stateVars, token, handle, ghostVars>>

\* The generations a caller can put into ModuleRegistration.
Expected(c) == {0} \cup (IF handle[c] = NoRecord THEN {} ELSE {handle[c].generation})

Mutate(c, policy) ==
    \/ \E n \in SourceNames, i \in Instances \cup {NoInstance} : RegisterSource(c, n, i)
    \/ \E k \in Keys, e \in Expected(c) : RegisterNewKey(c, k, policy, e)
    \/ \E k \in Keys, e \in Expected(c) : EnsureCurrent(c, k, policy, e)
    \/ \E k \in Keys, e \in Expected(c) : NewIncarnation(c, k, policy, e)
    \/ \E s \in Slots : Attach(c, s, policy)
    \/ \E s \in Slots : Detach(c, s, policy)
    \/ \E to \in LifecycleState : Transition(c, to, policy)
    \/ \E v \in {"healthy", "unhealthy", "none"} : Reconcile(c, v, policy)
    \/ PublishEvidence(c, policy)
    \/ PublishPolicy(c, policy)

Read(c) ==
    \/ \E n \in SourceNames : ReadSource(c, n)
    \/ \E k \in Keys : ReadModule(c, k)
    \/ RefreshGeneration(c)
    \/ ReadState(c)

Next == \E c \in Clients : Read(c) \/ \E policy \in Policies : Mutate(c, policy)

Spec == Init /\ [][Next]_vars

-----------------------------------------------------------------------------
(* Properties.                                                             *)

\* Every variable has its type.
TypeOK ==
    /\ generation \in Nat
    /\ sources \in [SourceNames -> Source \cup {NoRecord}]
    /\ modules \in [Keys -> Module \cup {NoRecord}]
    /\ attachments \in [Slots -> Attachment \cup {NoRecord}]
    /\ live \subseteq {s \in Slots : attachments[s] # NoRecord}
    /\ token \in [Clients -> Token \cup {NoRecord}]
    /\ handle \in [Clients -> Handle \cup {NoRecord}]
    /\ seen \in [Clients -> LifecycleState \cup {NoRecord}]
    /\ epochStart \in [SourceNames -> Seq(Nat)]
    /\ incStart \in [Keys -> Seq(Nat)]
    /\ incEnd \in [Keys -> Seq(LifecycleState)]

\* The generation g falls into the reign of the i-th entry of starts: not
\* before it began, and before the next one began.
InReign(g, i, starts) ==
    /\ i \in DOMAIN starts
    /\ starts[i] <= g
    /\ i + 1 \in DOMAIN starts => g < starts[i + 1]

\* Optimistic concurrency is sound (mutate, lifecycle_state): as long as the
\* fence token in a caller's handle matches the registry's generation, what the
\* caller read with that handle is still the module's state and the handle is
\* not superseded.  A fenced mutation therefore never acts on a stale view,
\* however the other callers interleave.
FencedViewIsCurrent ==
    \A c \in Clients :
        handle[c] # NoRecord /\ seen[c] # NoRecord /\ handle[c].generation = generation
        => /\ HandleCurrent(c)
           /\ modules[handle[c].key].state = seen[c]

\* Nothing is attributed to a source epoch outside its reign (register_source,
\* require_authority, attach): an attachment recorded under an epoch was
\* published after that epoch was minted and before the next one was, even
\* when renewals and re-registrations by other agents interleave.
AttachedWithinEpoch ==
    \A s \in Slots : attachments[s] # NoRecord =>
        InReign(attachments[s].generation, attachments[s].epoch,
                epochStart[attachments[s].source])

\* Evidence about a replaced module is never accepted afterwards
\* (register_module, incarnation_is_current, attach): an attachment was
\* published while the incarnation it names was the current one.
AttachedWithinIncarnation ==
    \A s \in Slots : attachments[s] # NoRecord =>
        InReign(attachments[s].generation, attachments[s].incarnation,
                incStart[attachments[s].key])

\* The slot of a superseded incarnation is released (register_module,
\* NewIncarnation): a live attachment names the current incarnation, unless its
\* incarnation had been Retired or Replaced by an explicit transition before
\* the new one was registered, the one case in which the code skips the release.
SupersededSlotsReleased ==
    \A s \in live :
        LET a == attachments[s]
        IN  \/ a.incarnation = modules[a.key].incarnation
            \/ /\ a.incarnation \in DOMAIN incEnd[a.key]
               /\ Ended(incEnd[a.key][a.incarnation])

\* Two consecutive events of a lifecycle history.
Follows(e, f) ==
    IF f.incarnation = e.incarnation
    THEN f.from = e.to
    ELSE /\ f.incarnation = e.incarnation + 1
         /\ Ended(e.to)
         /\ f.from = "Discovered"

\* The audit trail explains the state (every handler that pushes a
\* LifecycleEvent, and its trimming): the kept events are an unbroken chain
\* that ends in the module's current incarnation and state.
HistoryExplainsState ==
    \A k \in Keys : modules[k] # NoRecord =>
        LET h == modules[k].lifecycle
        IN  /\ Len(h) <= MaxLifecycleHistory
            /\ \A i \in 1..Len(h) - 1 : Follows(h[i], h[i + 1])
            /\ h # <<>> => /\ h[Len(h)].to = modules[k].state
                           /\ h[Len(h)].incarnation = modules[k].incarnation

\* What a step may do to a module (transition, attach, detach, reconcile,
\* register_module): within an incarnation the state moves along the table, so
\* Retired is final; a record is never dropped, and an incarnation is only left
\* for the next one, which starts Registered.
LifecycleStep(k) ==
    modules[k] # NoRecord =>
        /\ modules'[k] # NoRecord
        /\ \/ /\ modules'[k].incarnation = modules[k].incarnation
              /\ \/ modules'[k].state = modules[k].state
                 \/ TransitionAllowed(modules[k].state, modules'[k].state)
           \/ /\ modules'[k].incarnation = modules[k].incarnation + 1
              /\ modules'[k].state = "Registered"

LifecycleFollowsTable == [][\A k \in Keys : LifecycleStep(k)]_vars

-----------------------------------------------------------------------------
(* What makes the invariants above inductive.                              *)

\* No caller holds a fence token from the future.
HandlesBehind ==
    \A c \in Clients : handle[c] # NoRecord => handle[c].generation <= generation

\* An epoch is the number of times its source was minted, each at a generation
\* the registry has reached.
EpochsCounted ==
    \A n \in SourceNames :
        /\ Len(epochStart[n]) = (IF sources[n] = NoRecord THEN 0 ELSE sources[n].epoch)
        /\ sources[n] # NoRecord => sources[n].epoch >= 1
        /\ \A i \in DOMAIN epochStart[n] : epochStart[n][i] <= generation

\* The same for incarnations; all but the current one have ended.
IncarnationsCounted ==
    \A k \in Keys :
        /\ Len(incStart[k]) = (IF modules[k] = NoRecord THEN 0 ELSE modules[k].incarnation)
        /\ Len(incEnd[k]) = (IF modules[k] = NoRecord THEN 0 ELSE modules[k].incarnation - 1)
        /\ modules[k] # NoRecord => modules[k].incarnation >= 1
        /\ \A i \in DOMAIN incStart[k] : incStart[k][i] <= generation

\* An attachment was published at a generation the registry has reached.
AttachmentsBehind ==
    \A s \in Slots : attachments[s] # NoRecord => attachments[s].generation <= generation

FenceInv == TypeOK /\ HandlesBehind /\ FencedViewIsCurrent

EpochInv == TypeOK /\ EpochsCounted /\ AttachmentsBehind /\ AttachedWithinEpoch

IncarnationInv ==
    /\ TypeOK
    /\ IncarnationsCounted
    /\ AttachmentsBehind
    /\ AttachedWithinIncarnation
    /\ SupersededSlotsReleased
=============================================================================
