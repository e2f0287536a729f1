--------------------------- MODULE RegistryProofs ---------------------------
(***************************************************************************)
(* Proofs about Registry, for every set of callers, names, keys and slots  *)
(* and every value of the limits.                                          *)
(***************************************************************************)
EXTENDS Registry, SequenceTheorems, TLAPS

-----------------------------------------------------------------------------
(* Facts about the operators the actions are built from.                   *)

\* Trimming a history keeps a history.
LEMMA TrimType == \A h \in Seq(Event) : Trim(h) \in Seq(Event)
<1> SUFFICES ASSUME NEW h \in Seq(Event) PROVE Trim(h) \in Seq(Event)
  OBVIOUS
<1>1. CASE Len(h) > MaxLifecycleHistory
  <2>1. /\ Len(h) - MaxLifecycleHistory + 1 \in 1..Len(h) + 1
        /\ Len(h) \in Nat
    BY <1>1, ConstantsAssumption
  <2>2. \A i \in Len(h) - MaxLifecycleHistory + 1 .. Len(h) : h[i] \in Event
    BY <2>1
  <2>3. SubSeq(h, Len(h) - MaxLifecycleHistory + 1, Len(h)) \in Seq(Event)
    BY <2>1, <2>2
  <2> QED  BY <1>1, <2>3 DEF Trim
<1>2. CASE ~(Len(h) > MaxLifecycleHistory)
  BY <1>2 DEF Trim
<1> QED  BY <1>1, <1>2

\* A recorded transition keeps a module record.
LEMMA MovedType ==
  \A m \in Module, to \in LifecycleState :
     /\ Moved(m, to) \in Module
     /\ Moved(m, to).incarnation = m.incarnation
     /\ Moved(m, to).state = to
<1> SUFFICES ASSUME NEW m \in Module, NEW to \in LifecycleState
             PROVE  /\ Moved(m, to) \in Module
                    /\ Moved(m, to).incarnation = m.incarnation
                    /\ Moved(m, to).state = to
  OBVIOUS
<1> DEFINE e == [from |-> m.state, to |-> to, incarnation |-> m.incarnation]
           t == Trim(Append(m.lifecycle, e))
<1>1. e \in Event  BY DEF Event, Module
<1>2. Append(m.lifecycle, e) \in Seq(Event)  BY <1>1 DEF Module
<1>3. t \in Seq(Event)  BY <1>2, TrimType
<1>4. Moved(m, to) = [incarnation |-> m.incarnation, state |-> to, lifecycle |-> t]
  BY DEF Moved
<1> HIDE DEF t
<1> QED  BY <1>3, <1>4 DEF Module

\* The history of an incarnation that is discovered and registered at once.
LEMMA DiscoveryType == \A i \in Nat : Discovery(i) \in Seq(Event)
  BY DEF Discovery, Event, LifecycleState

\* The record of a new incarnation is a module record.
LEMMA NextIncarnationType ==
  \A m \in Module : /\ NextIncarnation(m) \in Module
                    /\ NextIncarnation(m).incarnation = m.incarnation + 1
                    /\ NextIncarnation(m).state = "Registered"
<1> SUFFICES ASSUME NEW m \in Module
             PROVE  /\ NextIncarnation(m) \in Module
                    /\ NextIncarnation(m).incarnation = m.incarnation + 1
                    /\ NextIncarnation(m).state = "Registered"
  OBVIOUS
<1> DEFINE e == [from |-> m.state, to |-> "Replaced", incarnation |-> m.incarnation]
           r == IF Ended(m.state) THEN <<>> ELSE <<e>>
           d == Discovery(m.incarnation + 1)
           h == Trim(m.lifecycle \o r \o d)
<1>1. e \in Event  BY DEF Event, Module, LifecycleState
<1>2. d \in Seq(Event)  BY DiscoveryType DEF Module
<1>3. NextIncarnation(m) = [incarnation |-> m.incarnation + 1, state |-> "Registered",
                            lifecycle |-> h]
  BY DEF NextIncarnation
<1> HIDE DEF e, d
<1>4. <<e>> \in Seq(Event) /\ <<>> \in Seq(Event)  BY <1>1
<1>5. r \in Seq(Event)  BY <1>4
<1> HIDE DEF r
<1>6. m.lifecycle \o r \in Seq(Event)  BY <1>5 DEF Module
<1>7. (m.lifecycle \o r) \o d \in Seq(Event)  BY <1>2, <1>6
<1>8. h \in Seq(Event)  BY <1>7, TrimType
<1> HIDE DEF h
<1> QED  BY <1>3, <1>8 DEF Module, LifecycleState

-----------------------------------------------------------------------------
(* Type correctness.                                                       *)

\* The initial state is well typed.
LEMMA InitType == Init => TypeOK
  BY DEF Init, TypeOK

\* Every step preserves the types.
LEMMA NextType == TypeOK /\ [Next]_vars => TypeOK'
<1> SUFFICES ASSUME TypeOK, [Next]_vars PROVE TypeOK'
  OBVIOUS
<1> USE NoRecordAssumption
<1>1. ASSUME NEW c \in Clients, NEW n \in SourceNames,
             NEW i \in Instances \cup {NoInstance}, RegisterSource(c, n, i)
      PROVE  TypeOK'
  <2> DEFINE epoch == IF ~(sources[n] # NoRecord) THEN 1
                      ELSE IF (sources[n] # NoRecord) /\ i # NoInstance /\ i = sources[n].instance
                           THEN sources[n].epoch ELSE sources[n].epoch + 1
  <2>1. epoch \in Nat  BY DEF TypeOK, Source
  <2>2. /\ sources' = [sources EXCEPT ![n] = [epoch |-> epoch, instance |-> i]]
        /\ token' = [token EXCEPT ![c] = [source |-> n, epoch |-> epoch]]
    BY <1>1 DEF RegisterSource
  <2> HIDE DEF epoch
  <2>3. sources' \in [SourceNames -> Source \cup {NoRecord}]
    BY <2>1, <2>2 DEF TypeOK, Source
  <2>4. token' \in [Clients -> Token \cup {NoRecord}]
    BY <2>1, <2>2 DEF TypeOK, Token
  <2>5. generation' \in Nat /\ epochStart' \in [SourceNames -> Seq(Nat)]
    BY <1>1 DEF RegisterSource, Publish, TypeOK
  <2> QED  BY <1>1, <2>3, <2>4, <2>5 DEF RegisterSource, TypeOK
<1>2. ASSUME NEW c \in Clients, NEW k \in Keys, NEW p \in Policies, NEW e \in Expected(c),
             RegisterNewKey(c, k, p, e)
      PROVE  TypeOK'
  <2>1. Trim(Discovery(1)) \in Seq(Event)  BY DiscoveryType, TrimType
  <2>2. modules' \in [Keys -> Module \cup {NoRecord}]
    BY <1>2, <2>1 DEF RegisterNewKey, TypeOK, Module, LifecycleState
  <2>3. /\ handle' \in [Clients -> Handle \cup {NoRecord}]
        /\ seen' \in [Clients -> LifecycleState \cup {NoRecord}]
        /\ generation' \in Nat
    BY <1>2 DEF RegisterNewKey, Minted, Publish, TypeOK, Handle
  <2>4. incStart' \in [Keys -> Seq(Nat)]
    BY <1>2 DEF RegisterNewKey, TypeOK
  <2> QED  BY <1>2, <2>2, <2>3, <2>4 DEF RegisterNewKey, TypeOK
<1>3. ASSUME NEW c \in Clients, NEW k \in Keys, NEW p \in Policies, NEW e \in Expected(c),
             EnsureCurrent(c, k, p, e)
      PROVE  TypeOK'
  <2>1. modules[k] \in Module  BY <1>3 DEF EnsureCurrent, TypeOK
  <2>2. Moved(modules[k], "Registered") \in Module
    BY <2>1, MovedType DEF LifecycleState
  <2>3. Trimmed(modules[k]) \in Module  BY <2>1, TrimType DEF Module, Trimmed
  <2>4. modules' \in [Keys -> Module \cup {NoRecord}]
    BY <1>3, <2>1, <2>2, <2>3 DEF EnsureCurrent, TypeOK
  <2>5. /\ handle' \in [Clients -> Handle \cup {NoRecord}]
        /\ seen' \in [Clients -> LifecycleState \cup {NoRecord}]
        /\ generation' \in Nat
    BY <1>3, <2>1 DEF EnsureCurrent, Minted, Publish, TypeOK, Handle, Module
  <2> QED  BY <1>3, <2>4, <2>5 DEF EnsureCurrent, ghostVars, TypeOK
<1>4. ASSUME NEW c \in Clients, NEW k \in Keys, NEW p \in Policies, NEW e \in Expected(c),
             NewIncarnation(c, k, p, e)
      PROVE  TypeOK'
  <2>1. modules[k] \in Module  BY <1>4 DEF NewIncarnation, TypeOK
  <2>2. NextIncarnation(modules[k]) \in Module  BY <2>1, NextIncarnationType
  <2>7. modules' \in [Keys -> Module \cup {NoRecord}]
    BY <1>4, <2>2 DEF NewIncarnation, TypeOK
  <2>8. live' \subseteq {s \in Slots : attachments'[s] # NoRecord}
    BY <1>4 DEF NewIncarnation, Released, TypeOK
  <2>9. /\ handle' \in [Clients -> Handle \cup {NoRecord}]
        /\ seen' \in [Clients -> LifecycleState \cup {NoRecord}]
        /\ generation' \in Nat
    BY <1>4, <2>1 DEF NewIncarnation, Minted, Publish, TypeOK, Handle, Module
  <2>10. /\ incStart' \in [Keys -> Seq(Nat)]
         /\ incEnd' \in [Keys -> Seq(LifecycleState)]
    BY <1>4, <2>1 DEF NewIncarnation, TypeOK, Module
  <2> QED  BY <1>4, <2>7, <2>8, <2>9, <2>10 DEF NewIncarnation, TypeOK
<1>5. ASSUME NEW c \in Clients, NEW s \in Slots, NEW p \in Policies, Attach(c, s, p)
      PROVE  TypeOK'
  <2> DEFINE k == handle[c].key
  <2>1. /\ handle[c] \in Handle /\ k \in Keys /\ modules[k] \in Module
        /\ token[c] \in Token
    BY <1>5 DEF Attach, HandleCurrent, Authorised, TypeOK, Handle
  <2>2. Moved(modules[k], "Attached") \in Module
    BY <2>1, MovedType DEF LifecycleState
  <2>3. modules' \in [Keys -> Module \cup {NoRecord}]
    BY <1>5, <2>1, <2>2 DEF Attach, TypeOK
  <2> DEFINE a == [key |-> k, incarnation |-> modules[k].incarnation,
                   source |-> token[c].source, epoch |-> token[c].epoch,
                   generation |-> generation + 1]
  <2>4. a \in Attachment  BY <2>1 DEF TypeOK, Attachment, Module, Token
  <2>5. \/ attachments' = attachments /\ live' = live
        \/ attachments' = [attachments EXCEPT ![s] = a] /\ live' = live \cup {s}
    BY <1>5 DEF Attach
  <2> HIDE DEF a
  <2>6. attachments' \in [Slots -> Attachment \cup {NoRecord}]
    BY <2>4, <2>5 DEF TypeOK
  <2>7. live' \subseteq {x \in Slots : attachments'[x] # NoRecord}
    BY <2>4, <2>5 DEF TypeOK
  <2> QED  BY <1>5, <2>3, <2>6, <2>7 DEF Attach, Publish, clientVars, ghostVars, TypeOK
<1>6. ASSUME NEW c \in Clients, NEW s \in Slots, NEW p \in Policies, Detach(c, s, p)
      PROVE  TypeOK'
  <2> DEFINE k == attachments[s].key
  <2>1. attachments[s] \in Attachment /\ k \in Keys
    BY <1>6 DEF Detach, TypeOK, Attachment
  <2>2. modules[k] # NoRecord => Moved(modules[k], "Removed") \in Module
    BY <2>1, MovedType DEF LifecycleState, TypeOK
  <2>3. modules' \in [Keys -> Module \cup {NoRecord}]
    BY <1>6, <2>1, <2>2 DEF Detach, TypeOK
  <2>4. live' \subseteq {x \in Slots : attachments'[x] # NoRecord}
    BY <1>6 DEF Detach, TypeOK
  <2> QED  BY <1>6, <2>3, <2>4 DEF Detach, Publish, clientVars, ghostVars, TypeOK
<1>7. ASSUME NEW c \in Clients, NEW to \in LifecycleState, NEW p \in Policies,
             Transition(c, to, p)
      PROVE  TypeOK'
  <2> DEFINE k == handle[c].key
  <2>1. k \in Keys /\ modules[k] \in Module
    BY <1>7 DEF Transition, HandleCurrent, TypeOK, Handle
  <2>2. Moved(modules[k], to) \in Module  BY <2>1, MovedType
  <2>3. modules' \in [Keys -> Module \cup {NoRecord}]
    BY <1>7, <2>1, <2>2 DEF Transition, TypeOK
  <2> QED  BY <1>7, <2>3 DEF Transition, Publish, clientVars, ghostVars, TypeOK
<1>8. ASSUME NEW c \in Clients, NEW v \in {"healthy", "unhealthy", "none"},
             NEW p \in Policies, Reconcile(c, v, p)
      PROVE  TypeOK'
  <2> DEFINE k == handle[c].key
             to == ReconcileTarget(modules[k].state, v)
  <2>1. k \in Keys /\ modules[k] \in Module
    BY <1>8 DEF Reconcile, HandleCurrent, TypeOK, Handle
  <2>2. to \in LifecycleState
    BY <2>1 DEF ReconcileTarget, LifecycleState, Module
  <2>3. Moved(modules[k], to) \in Module  BY <2>1, <2>2, MovedType
  <2>4. modules' \in [Keys -> Module \cup {NoRecord}]
    BY <1>8, <2>1, <2>3 DEF Reconcile, TypeOK
  <2> QED  BY <1>8, <2>4 DEF Reconcile, Publish, clientVars, ghostVars, TypeOK
<1>9. ASSUME NEW c \in Clients, NEW p \in Policies,
             PublishEvidence(c, p) \/ PublishPolicy(c, p)
      PROVE  TypeOK'
  BY <1>9 DEF PublishEvidence, PublishPolicy, Publish, clientVars, ghostVars, TypeOK
<1>10. ASSUME NEW c \in Clients, Read(c) PROVE TypeOK'
  <2>1. ASSUME NEW n \in SourceNames, ReadSource(c, n) PROVE TypeOK'
    BY <2>1 DEF ReadSource, stateVars, ghostVars, TypeOK, Token, Source
  <2>2. ASSUME NEW k \in Keys, ReadModule(c, k) PROVE TypeOK'
    BY <2>2 DEF ReadModule, stateVars, ghostVars, TypeOK, Handle, Module
  <2>3. CASE RefreshGeneration(c)
    BY <2>3 DEF RefreshGeneration, stateVars, ghostVars, TypeOK, Handle
  <2>4. CASE ReadState(c)
    BY <2>4 DEF ReadState, HandleCurrent, stateVars, ghostVars, TypeOK, Handle, Module
  <2> QED  BY <1>10, <2>1, <2>2, <2>3, <2>4 DEF Read
<1>11. CASE UNCHANGED vars
  BY <1>11 DEF vars, stateVars, clientVars, ghostVars, TypeOK
<1> QED
  BY <1>1, <1>2, <1>3, <1>4, <1>5, <1>6, <1>7, <1>8, <1>9, <1>10, <1>11 DEF Next, Mutate

\* Every reachable state of the registry and of its callers is well typed,
\* whatever sequence of calls leads there.
THEOREM TypeCorrect == Spec => []TypeOK
<1> QED  BY InitType, NextType, PTL DEF Spec

-----------------------------------------------------------------------------
(* The generation fence.                                                   *)

\* A mutation takes a new generation, and its caller either keeps handle and
\* view or gets a fresh handle and no view.
LEMMA MutationShape ==
  ASSUME NEW c \in Clients, NEW p \in Policies, Mutate(c, p)
  PROVE  /\ Publish
         /\ \/ UNCHANGED <<handle, seen>>
            \/ \E k \in Keys : \E i : Minted(c, k, i)
<1> USE DEF clientVars
<1>1. ASSUME NEW n \in SourceNames, NEW i \in Instances \cup {NoInstance},
             RegisterSource(c, n, i)
      PROVE  Publish /\ UNCHANGED <<handle, seen>>
  BY <1>1 DEF RegisterSource
<1>2. ASSUME NEW k \in Keys, NEW e \in Expected(c), RegisterNewKey(c, k, p, e)
      PROVE  Publish /\ Minted(c, k, 1)
  BY <1>2 DEF RegisterNewKey
<1>3. ASSUME NEW k \in Keys, NEW e \in Expected(c), EnsureCurrent(c, k, p, e)
      PROVE  Publish /\ Minted(c, k, modules[k].incarnation)
  BY <1>3 DEF EnsureCurrent
<1>4. ASSUME NEW k \in Keys, NEW e \in Expected(c), NewIncarnation(c, k, p, e)
      PROVE  Publish /\ Minted(c, k, modules[k].incarnation + 1)
  BY <1>4 DEF NewIncarnation
<1>5. ASSUME NEW s \in Slots, Attach(c, s, p) \/ Detach(c, s, p)
      PROVE  Publish /\ UNCHANGED <<handle, seen>>
  BY <1>5 DEF Attach, Detach
<1>6. ASSUME NEW to \in LifecycleState, Transition(c, to, p)
      PROVE  Publish /\ UNCHANGED <<handle, seen>>
  BY <1>6 DEF Transition
<1>7. ASSUME NEW v \in {"healthy", "unhealthy", "none"}, Reconcile(c, v, p)
      PROVE  Publish /\ UNCHANGED <<handle, seen>>
  BY <1>7 DEF Reconcile
<1>8. ASSUME PublishEvidence(c, p) \/ PublishPolicy(c, p)
      PROVE  Publish /\ UNCHANGED <<handle, seen>>
  BY <1>8 DEF PublishEvidence, PublishPolicy
<1> QED
  BY <1>1, <1>2, <1>3, <1>4, <1>5, <1>6, <1>7, <1>8 DEF Mutate

\* Steps preserve the fence invariant: a mutation leaves every held fence token
\* behind the new generation, except a fresh one that carries no view.
LEMMA FenceStep == FenceInv /\ [Next]_vars => FenceInv'
<1> SUFFICES ASSUME FenceInv, [Next]_vars PROVE FenceInv'
  OBVIOUS
<1> USE NoRecordAssumption
<1>0. TypeOK /\ TypeOK'  BY NextType DEF FenceInv
<1>1. ASSUME NEW c \in Clients, NEW p \in Policies, Mutate(c, p) PROVE FenceInv'
  <2>1. generation \in Nat /\ generation' = generation + 1
    BY <1>0, <1>1, MutationShape DEF Publish, TypeOK
  <2>2. CASE UNCHANGED <<handle, seen>>
    <3>1. HandlesBehind'
      BY <1>0, <2>1, <2>2 DEF FenceInv, HandlesBehind, TypeOK, Handle
    <3>2. \A d \in Clients : handle'[d] # NoRecord => handle'[d].generation # generation'
      BY <1>0, <2>1, <2>2 DEF FenceInv, HandlesBehind, TypeOK, Handle
    <3> QED  BY <1>0, <3>1, <3>2 DEF FenceInv, FencedViewIsCurrent
  <2>3. ASSUME NEW k \in Keys, NEW i, Minted(c, k, i) PROVE FenceInv'
    <3>1. HandlesBehind'
      BY <1>0, <2>1, <2>3 DEF FenceInv, HandlesBehind, Minted, TypeOK, Handle
    <3>2. \A d \in Clients : handle'[d] # NoRecord /\ seen'[d] # NoRecord
                               => handle'[d].generation # generation'
      BY <1>0, <2>1, <2>3 DEF FenceInv, HandlesBehind, Minted, TypeOK, Handle
    <3> QED  BY <1>0, <3>1, <3>2 DEF FenceInv, FencedViewIsCurrent
  <2> QED  BY <1>1, <2>2, <2>3, MutationShape
<1>2. ASSUME NEW c \in Clients, Read(c) PROVE FenceInv'
  <2>1. ASSUME NEW n \in SourceNames, ReadSource(c, n) PROVE FenceInv'
    BY <1>0, <2>1 DEF ReadSource, stateVars, FenceInv, HandlesBehind, FencedViewIsCurrent,
                      HandleCurrent
  <2>2. ASSUME NEW k \in Keys, ReadModule(c, k) PROVE FenceInv'
    BY <1>0, <2>2 DEF ReadModule, stateVars, FenceInv, HandlesBehind, FencedViewIsCurrent,
                      HandleCurrent, TypeOK, Handle
  <2>3. CASE RefreshGeneration(c)
    <3>1. \A d \in Clients : d # c => handle'[d] = handle[d] /\ seen'[d] = seen[d]
      BY <2>3, <1>0 DEF RefreshGeneration, TypeOK
    <3>2. handle'[c].generation = generation /\ seen'[c] = NoRecord
      BY <2>3, <1>0 DEF RefreshGeneration, TypeOK, Handle
    <3>3. generation \in Nat /\ generation' = generation /\ modules' = modules
      BY <2>3, <1>0 DEF RefreshGeneration, stateVars, TypeOK
    <3>4. HandlesBehind'
      BY <3>1, <3>2, <3>3 DEF FenceInv, HandlesBehind
    <3>5. FencedViewIsCurrent'
      BY <3>1, <3>2, <3>3 DEF FenceInv, FencedViewIsCurrent, HandleCurrent
    <3> QED  BY <1>0, <3>4, <3>5 DEF FenceInv
  <2>4. CASE ReadState(c)
    BY <1>0, <2>4 DEF ReadState, stateVars, FenceInv, HandlesBehind, FencedViewIsCurrent,
                      HandleCurrent, TypeOK, Handle
  <2> QED  BY <1>2, <2>1, <2>2, <2>3, <2>4 DEF Read
<1>3. CASE UNCHANGED vars
  BY <1>0, <1>3 DEF vars, stateVars, clientVars, FenceInv, HandlesBehind,
                    FencedViewIsCurrent, HandleCurrent
<1> QED  BY <1>1, <1>2, <1>3 DEF Next

\* The generation fence is sound for any number of callers: while a caller's
\* fence token matches the registry, what it read with that handle is current.
THEOREM FenceSound == Spec => []FencedViewIsCurrent
<1>1. Init => FenceInv
  BY InitType DEF Init, FenceInv, HandlesBehind, FencedViewIsCurrent
<1>2. FenceInv => FencedViewIsCurrent
  BY DEF FenceInv
<1> QED  BY <1>1, <1>2, FenceStep, PTL DEF Spec

-----------------------------------------------------------------------------
(* Epochs and incarnations.                                                *)

\* A later reign does not shorten the one a generation falls into.
LEMMA InReignAppend ==
  ASSUME NEW starts \in Seq(Nat), NEW i \in Nat, NEW g \in Nat, NEW x \in Nat,
         InReign(g, i, starts), g < x
  PROVE  InReign(g, i, Append(starts, x))
<1>1. DOMAIN Append(starts, x) = 1..Len(starts) + 1 /\ DOMAIN starts = 1..Len(starts)
  OBVIOUS
<1>2. \A j \in 1..Len(starts) : Append(starts, x)[j] = starts[j]
  OBVIOUS
<1>3. Append(starts, x)[Len(starts) + 1] = x
  OBVIOUS
<1>4. i \in 1..Len(starts) /\ starts[i] <= g
  BY <1>1 DEF InReign
<1>5. CASE i = Len(starts)
  BY <1>1, <1>2, <1>3, <1>4, <1>5 DEF InReign
<1>6. CASE i # Len(starts)
  <2>1. i + 1 \in 1..Len(starts)  BY <1>4, <1>6
  <2> QED  BY <1>1, <1>2, <1>4, <2>1 DEF InReign
<1> QED  BY <1>5, <1>6

\* The last reign goes on until now.
LEMMA InReignLast ==
  ASSUME NEW starts \in Seq(Nat), NEW g \in Nat, Len(starts) >= 1, starts[Len(starts)] <= g
  PROVE  InReign(g, Len(starts), starts)
  BY DEF InReign

\* The steps that neither mint an epoch nor record an attachment.
LEMMA EpochFrame ==
  ASSUME EpochInv, TypeOK', generation' \in {generation, generation + 1},
         UNCHANGED <<sources, epochStart, attachments>>
  PROVE  EpochInv'
<1>1. generation \in Nat /\ generation' >= generation  BY DEF EpochInv, TypeOK
<1>2. EpochsCounted'
  BY <1>1 DEF EpochInv, EpochsCounted, TypeOK
<1>3. AttachmentsBehind'
  BY <1>1 DEF EpochInv, AttachmentsBehind, TypeOK, Attachment
<1>4. AttachedWithinEpoch'
  BY DEF EpochInv, AttachedWithinEpoch
<1> QED  BY <1>2, <1>3, <1>4 DEF EpochInv

\* Steps preserve the epoch invariant.
LEMMA EpochStep == EpochInv /\ [Next]_vars => EpochInv'
<1> SUFFICES ASSUME EpochInv, [Next]_vars PROVE EpochInv'
  OBVIOUS
<1> USE NoRecordAssumption
<1>0. TypeOK /\ TypeOK' /\ generation \in Nat  BY NextType DEF EpochInv, TypeOK
<1>1. ASSUME NEW c \in Clients, NEW n \in SourceNames,
             NEW i \in Instances \cup {NoInstance}, RegisterSource(c, n, i)
      PROVE  EpochInv'
  <2> DEFINE known   == sources[n] # NoRecord
             renewal == known /\ i # NoInstance /\ i = sources[n].instance
  <2>1. generation' = generation + 1 /\ attachments' = attachments
    BY <1>1 DEF RegisterSource, Publish
  <2>2. /\ Len(epochStart[n]) = (IF known THEN sources[n].epoch ELSE 0)
        /\ epochStart[n] \in Seq(Nat)
        /\ known => sources[n].epoch \in Nat /\ sources[n].epoch >= 1
    BY <1>0 DEF EpochInv, EpochsCounted, TypeOK, Source
  <2>3. AttachmentsBehind'
    BY <1>0, <2>1 DEF EpochInv, AttachmentsBehind, TypeOK, Attachment
  <2>4. \A m \in SourceNames : m # n =>
           epochStart'[m] = epochStart[m] /\ sources'[m] = sources[m]
    BY <1>0, <1>1 DEF RegisterSource, TypeOK
  <2>5. \A m \in SourceNames : \A j \in DOMAIN epochStart[m] :
           epochStart[m][j] \in Nat /\ epochStart[m][j] <= generation
    BY <1>0 DEF EpochInv, EpochsCounted, TypeOK
  <2>6. CASE renewal
    <3>1. /\ epochStart' = epochStart /\ sources'[n] # NoRecord
          /\ sources'[n].epoch = sources[n].epoch
      BY <1>0, <1>1, <2>6 DEF RegisterSource, TypeOK, Source
    <3>2. EpochsCounted'
      <4> SUFFICES ASSUME NEW m \in SourceNames
                   PROVE  /\ Len(epochStart'[m]) = (IF sources'[m] = NoRecord THEN 0 ELSE sources'[m].epoch)
                          /\ sources'[m] # NoRecord => sources'[m].epoch >= 1
                          /\ \A j \in DOMAIN epochStart'[m] : epochStart'[m][j] <= generation'
        BY DEF EpochsCounted
      <4>1. CASE m = n  BY <1>0, <2>1, <2>2, <2>5, <2>6, <3>1, <4>1
      <4>2. CASE m # n  BY <1>0, <2>1, <2>4, <2>5, <4>2 DEF EpochInv, EpochsCounted
      <4> QED  BY <4>1, <4>2
    <3>3. AttachedWithinEpoch'
      BY <2>1, <3>1 DEF EpochInv, AttachedWithinEpoch
    <3> QED  BY <1>0, <2>3, <3>2, <3>3 DEF EpochInv
  <2>7. CASE ~renewal
    <3>1. /\ epochStart'[n] = Append(epochStart[n], generation + 1)
          /\ sources'[n] # NoRecord
          /\ sources'[n].epoch = Len(epochStart[n]) + 1
      BY <1>0, <1>1, <2>2, <2>7 DEF RegisterSource, TypeOK, Source
    <3>2. /\ Len(epochStart'[n]) = Len(epochStart[n]) + 1
          /\ \A j \in DOMAIN epochStart'[n] : epochStart'[n][j] <= generation + 1
      BY <1>0, <2>2, <3>1 DEF EpochInv, EpochsCounted
    <3>3. EpochsCounted'
      <4> SUFFICES ASSUME NEW m \in SourceNames
                   PROVE  /\ Len(epochStart'[m]) = (IF sources'[m] = NoRecord THEN 0 ELSE sources'[m].epoch)
                          /\ sources'[m] # NoRecord => sources'[m].epoch >= 1
                          /\ \A j \in DOMAIN epochStart'[m] : epochStart'[m][j] <= generation'
        BY DEF EpochsCounted
      <4>1. CASE m = n
        <5>1. Len(epochStart[n]) \in Nat  BY <2>2
        <5>2. /\ Len(epochStart'[n]) = sources'[n].epoch
              /\ sources'[n] # NoRecord /\ sources'[n].epoch >= 1
          BY <3>1, <3>2, <5>1
        <5>3. \A j \in DOMAIN epochStart'[n] : epochStart'[n][j] <= generation'
          BY <2>1, <3>2
        <5> QED  BY <4>1, <5>2, <5>3
      <4>2. CASE m # n  BY <1>0, <2>1, <2>4, <2>5, <4>2 DEF EpochInv, EpochsCounted
      <4> QED  BY <4>1, <4>2
    <3>4. ASSUME NEW s \in Slots, attachments'[s] # NoRecord
          PROVE  InReign(attachments'[s].generation, attachments'[s].epoch,
                         epochStart'[attachments'[s].source])
      <4> DEFINE a == attachments[s]
      <4>1. /\ a \in Attachment
            /\ a.generation \in Nat /\ a.epoch \in Nat /\ a.source \in SourceNames
            /\ a.generation < generation + 1
            /\ InReign(a.generation, a.epoch, epochStart[a.source])
        BY <1>0, <2>1, <3>4 DEF EpochInv, AttachmentsBehind, AttachedWithinEpoch, TypeOK,
                                Attachment
      <4>2. CASE a.source = n
        <5>1. InReign(a.generation, a.epoch, Append(epochStart[n], generation + 1))
          BY <1>0, <2>2, <4>1, <4>2, InReignAppend
        <5> QED  BY <2>1, <3>1, <4>2, <5>1
      <4>3. CASE a.source # n
        BY <2>1, <2>4, <4>1, <4>3
      <4> QED  BY <4>2, <4>3
    <3> QED  BY <1>0, <2>3, <3>3, <3>4 DEF EpochInv, AttachedWithinEpoch
  <2> QED  BY <2>6, <2>7
<1>2. ASSUME NEW c \in Clients, NEW s \in Slots, NEW p \in Policies, Attach(c, s, p)
      PROVE  EpochInv'
  <2>1. /\ generation' = generation + 1
        /\ UNCHANGED <<sources, epochStart>>
    BY <1>2 DEF Attach, Publish, ghostVars
  <2>2. CASE attachments' = attachments
    BY <1>0, <2>1, <2>2, EpochFrame
  <2>3. CASE attachments' # attachments
    <3> DEFINE n == token[c].source
    <3>1. /\ n \in SourceNames /\ sources[n] # NoRecord
          /\ token[c].epoch = sources[n].epoch
      BY <1>0, <1>2 DEF Attach, Authorised, TypeOK, Token
    <3>2. /\ attachments'[s].source = n /\ attachments'[s].epoch = token[c].epoch
          /\ attachments'[s].generation = generation + 1
          /\ \A x \in Slots : x # s => attachments'[x] = attachments[x]
      BY <1>0, <1>2, <2>3 DEF Attach, TypeOK
    <3>3. EpochsCounted'
      BY <1>0, <2>1 DEF EpochInv, EpochsCounted, TypeOK
    <3>4. AttachmentsBehind'
      <4> SUFFICES ASSUME NEW x \in Slots, attachments'[x] # NoRecord
                   PROVE  attachments'[x].generation <= generation + 1
        BY <2>1 DEF AttachmentsBehind
      <4>1. generation \in Nat  BY <1>0 DEF TypeOK
      <4>2. CASE x = s  BY <3>2, <4>1, <4>2
      <4>3. CASE x # s
        <5>1. attachments[x] \in Attachment /\ attachments'[x] = attachments[x]
          BY <1>0, <3>2, <4>3 DEF TypeOK
        <5>2. attachments[x].generation \in Nat  BY <5>1 DEF Attachment
        <5>3. attachments[x].generation <= generation
          BY <5>1, NoRecordAssumption DEF EpochInv, AttachmentsBehind
        <5> QED  BY <4>1, <5>1, <5>2, <5>3
      <4> QED  BY <4>2, <4>3
    <3>5. /\ epochStart[n] \in Seq(Nat) /\ Len(epochStart[n]) = token[c].epoch
          /\ Len(epochStart[n]) >= 1
          /\ epochStart[n][Len(epochStart[n])] <= generation + 1
      BY <1>0, <3>1 DEF EpochInv, EpochsCounted, TypeOK, Source
    <3>6. InReign(generation + 1, token[c].epoch, epochStart[n])
      BY <1>0, <3>5, InReignLast
    <3>7. AttachedWithinEpoch'
      BY <2>1, <3>2, <3>6 DEF EpochInv, AttachedWithinEpoch
    <3> QED  BY <1>0, <3>3, <3>4, <3>7 DEF EpochInv
  <2> QED  BY <2>2, <2>3
<1>3. ASSUME NEW c \in Clients, NEW k \in Keys, NEW p \in Policies, NEW e \in Expected(c),
             RegisterNewKey(c, k, p, e) \/ EnsureCurrent(c, k, p, e) \/ NewIncarnation(c, k, p, e)
      PROVE  EpochInv'
  <2>1. generation' = generation + 1 /\ UNCHANGED <<sources, epochStart, attachments>>
    BY <1>3 DEF RegisterNewKey, EnsureCurrent, NewIncarnation, Publish, ghostVars
  <2> QED  BY <1>0, <2>1, EpochFrame
<1>4. ASSUME NEW c \in Clients, NEW p \in Policies,
             \/ \E s \in Slots : Detach(c, s, p)
             \/ \E to \in LifecycleState : Transition(c, to, p)
             \/ \E v \in {"healthy", "unhealthy", "none"} : Reconcile(c, v, p)
             \/ PublishEvidence(c, p)
             \/ PublishPolicy(c, p)
      PROVE  EpochInv'
  <2>1. generation' = generation + 1 /\ UNCHANGED <<sources, epochStart, attachments>>
    BY <1>4 DEF Detach, Transition, Reconcile, PublishEvidence, PublishPolicy, Publish, ghostVars
  <2> QED  BY <1>0, <2>1, EpochFrame
<1>5. ASSUME NEW c \in Clients, Read(c) PROVE EpochInv'
  <2>1. UNCHANGED <<generation, sources, epochStart, attachments>>
    BY <1>5 DEF Read, ReadSource, ReadModule, RefreshGeneration, ReadState, stateVars, ghostVars
  <2> QED  BY <1>0, <2>1, EpochFrame
<1>6. CASE UNCHANGED vars
  <2>1. UNCHANGED <<generation, sources, epochStart, attachments>>
    BY <1>6 DEF vars, stateVars, ghostVars
  <2> QED  BY <1>0, <2>1, EpochFrame
<1> QED
  BY <1>1, <1>2, <1>3, <1>4, <1>5, <1>6 DEF Next, Mutate

\* No attachment is ever attributed to a source epoch that was not the current
\* one when it was published: an authority token of a retired epoch is dead.
THEOREM EpochSound == Spec => []AttachedWithinEpoch
<1>1. Init => EpochInv
  BY InitType DEF Init, EpochInv, EpochsCounted, AttachmentsBehind, AttachedWithinEpoch
<1>2. EpochInv => AttachedWithinEpoch
  BY DEF EpochInv
<1> QED  BY <1>1, <1>2, EpochStep, PTL DEF Spec

\* A step changes no incarnation.
SameIncarnations ==
    \A k \in Keys : /\ (modules'[k] = NoRecord) = (modules[k] = NoRecord)
                    /\ modules[k] # NoRecord =>
                          modules'[k].incarnation = modules[k].incarnation

\* A recorded transition changes no incarnation.
LEMMA MovedSameIncarnations ==
  ASSUME TypeOK, NEW k \in Keys, modules[k] \in Module, NEW to \in LifecycleState,
         modules' = modules \/ modules' = [modules EXCEPT ![k] = Moved(modules[k], to)]
  PROVE  SameIncarnations
<1>1. /\ Moved(modules[k], to) \in Module
      /\ Moved(modules[k], to).incarnation = modules[k].incarnation
  BY MovedType
<1> QED  BY <1>1, NoRecordAssumption DEF SameIncarnations, TypeOK

\* Every live attachment names a module that exists.
LEMMA LiveAttachmentsKnown ==
  ASSUME IncarnationInv
  PROVE  \A s \in live : attachments[s].key \in Keys /\ modules[attachments[s].key] # NoRecord
<1> USE NoRecordAssumption
<1> SUFFICES ASSUME NEW s \in live
             PROVE  attachments[s].key \in Keys /\ modules[attachments[s].key] # NoRecord
  OBVIOUS
<1>1. attachments[s] # NoRecord /\ attachments[s].key \in Keys
  BY DEF IncarnationInv, TypeOK, Attachment
<1>2. attachments[s].incarnation \in DOMAIN incStart[attachments[s].key]
  BY <1>1 DEF IncarnationInv, AttachedWithinIncarnation, InReign, TypeOK
<1>3. Len(incStart[attachments[s].key]) # 0
  BY <1>1, <1>2 DEF IncarnationInv, TypeOK
<1> QED  BY <1>1, <1>3 DEF IncarnationInv, IncarnationsCounted

\* The steps that neither begin an incarnation nor record an attachment.
LEMMA IncarnationFrame ==
  ASSUME IncarnationInv, TypeOK', generation' \in {generation, generation + 1},
         SameIncarnations, live' \subseteq live, UNCHANGED <<attachments, incStart, incEnd>>
  PROVE  IncarnationInv'
<1> USE NoRecordAssumption
<1>1. generation \in Nat /\ generation' >= generation  BY DEF IncarnationInv, TypeOK
<1>2. IncarnationsCounted'
  <2> SUFFICES ASSUME NEW x \in Keys
               PROVE  /\ Len(incStart'[x]) = (IF modules'[x] = NoRecord THEN 0 ELSE modules'[x].incarnation)
                      /\ Len(incEnd'[x]) = (IF modules'[x] = NoRecord THEN 0 ELSE modules'[x].incarnation - 1)
                      /\ modules'[x] # NoRecord => modules'[x].incarnation >= 1
                      /\ \A j \in DOMAIN incStart'[x] : incStart'[x][j] <= generation'
    BY DEF IncarnationsCounted
  <2>1. \A j \in DOMAIN incStart[x] : incStart[x][j] \in Nat /\ incStart[x][j] <= generation
    BY DEF IncarnationInv, IncarnationsCounted, TypeOK
  <2>2. CASE modules[x] = NoRecord
    BY <1>1, <2>1, <2>2 DEF IncarnationInv, IncarnationsCounted, SameIncarnations
  <2>3. CASE modules[x] # NoRecord
    BY <1>1, <2>1, <2>3 DEF IncarnationInv, IncarnationsCounted, SameIncarnations
  <2> QED  BY <2>2, <2>3
<1>3. AttachmentsBehind'
  BY <1>1 DEF IncarnationInv, AttachmentsBehind, TypeOK, Attachment
<1>4. AttachedWithinIncarnation'
  BY DEF IncarnationInv, AttachedWithinIncarnation
<1>5. \A s \in live : attachments[s].key \in Keys /\ modules[attachments[s].key] # NoRecord
  BY LiveAttachmentsKnown
<1>6. SupersededSlotsReleased'
  BY <1>5 DEF IncarnationInv, SupersededSlotsReleased, SameIncarnations
<1> QED  BY <1>2, <1>3, <1>4, <1>6 DEF IncarnationInv

\* What beginning an incarnation of k does to the counters and to the records
\* of the attachments.
LEMMA BeginIncarnation ==
  ASSUME IncarnationInv, TypeOK', NEW k \in Keys, NEW m \in Module,
         generation' = generation + 1, attachments' = attachments,
         modules' = [modules EXCEPT ![k] = m],
         m.incarnation = Len(incStart[k]) + 1,
         incStart' = [incStart EXCEPT ![k] = Append(@, generation + 1)],
         Len(incEnd'[k]) = Len(incStart[k]),
         \A x \in Keys : x # k => incEnd'[x] = incEnd[x]
  PROVE  IncarnationsCounted' /\ AttachmentsBehind' /\ AttachedWithinIncarnation'
<1> USE NoRecordAssumption
<1>0. TypeOK /\ generation \in Nat  BY DEF IncarnationInv, TypeOK
<1>1. /\ incStart[k] \in Seq(Nat) /\ Len(incStart[k]) \in Nat
      /\ incStart'[k] = Append(incStart[k], generation + 1)
      /\ \A x \in Keys : x # k => incStart'[x] = incStart[x] /\ modules'[x] = modules[x]
      /\ modules'[k] = m /\ m # NoRecord
  BY <1>0 DEF TypeOK
<1>2. \A x \in Keys : \A j \in DOMAIN incStart[x] :
         incStart[x][j] \in Nat /\ incStart[x][j] <= generation
  BY <1>0 DEF IncarnationInv, IncarnationsCounted, TypeOK
<1>3. IncarnationsCounted'
  <2> SUFFICES ASSUME NEW x \in Keys
               PROVE  /\ Len(incStart'[x]) = (IF modules'[x] = NoRecord THEN 0 ELSE modules'[x].incarnation)
                      /\ Len(incEnd'[x]) = (IF modules'[x] = NoRecord THEN 0 ELSE modules'[x].incarnation - 1)
                      /\ modules'[x] # NoRecord => modules'[x].incarnation >= 1
                      /\ \A j \in DOMAIN incStart'[x] : incStart'[x][j] <= generation'
    BY DEF IncarnationsCounted
  <2>1. CASE x = k
    <3>1. /\ Len(incStart'[k]) = Len(incStart[k]) + 1
          /\ \A j \in DOMAIN incStart'[k] : incStart'[k][j] <= generation'
      BY <1>0, <1>1, <1>2
    <3> QED  BY <1>1, <2>1, <3>1
  <2>2. CASE x # k
    BY <1>0, <1>1, <1>2, <2>2 DEF IncarnationInv, IncarnationsCounted
  <2> QED  BY <2>1, <2>2
<1>4. AttachmentsBehind'
  BY <1>0 DEF IncarnationInv, AttachmentsBehind, TypeOK, Attachment
<1>5. ASSUME NEW s \in Slots, attachments'[s] # NoRecord
      PROVE  InReign(attachments'[s].generation, attachments'[s].incarnation,
                     incStart'[attachments'[s].key])
  <2> DEFINE a == attachments[s]
  <2>1. /\ a.generation \in Nat /\ a.incarnation \in Nat /\ a.key \in Keys
        /\ a.generation < generation + 1
        /\ InReign(a.generation, a.incarnation, incStart[a.key])
    BY <1>0, <1>5 DEF IncarnationInv, AttachmentsBehind, AttachedWithinIncarnation, TypeOK,
                      Attachment
  <2>2. CASE a.key = k
    <3>1. InReign(a.generation, a.incarnation, Append(incStart[k], generation + 1))
      BY <1>0, <1>1, <2>1, <2>2, InReignAppend
    <3> QED  BY <1>1, <2>2, <3>1
  <2>3. CASE a.key # k
    BY <1>1, <2>1, <2>3
  <2> QED  BY <2>2, <2>3
<1> QED  BY <1>3, <1>4, <1>5 DEF AttachedWithinIncarnation

\* Steps preserve the incarnation invariant.
LEMMA IncarnationStep == IncarnationInv /\ [Next]_vars => IncarnationInv'
<1> SUFFICES ASSUME IncarnationInv, [Next]_vars PROVE IncarnationInv'
  OBVIOUS
<1> USE NoRecordAssumption
<1>0. TypeOK /\ TypeOK' /\ generation \in Nat  BY NextType DEF IncarnationInv, TypeOK
<1>1. ASSUME NEW c \in Clients, NEW k \in Keys, NEW p \in Policies, NEW e \in Expected(c),
             RegisterNewKey(c, k, p, e)
      PROVE  IncarnationInv'
  <2> DEFINE m == [incarnation |-> 1, state |-> "Registered", lifecycle |-> Trim(Discovery(1))]
  <2>1. m \in Module  BY DiscoveryType, TrimType DEF Module, LifecycleState
  <2>2. modules[k] = NoRecord /\ Len(incStart[k]) = 0 /\ Len(incEnd[k]) = 0
    BY <1>1 DEF RegisterNewKey, IncarnationInv, IncarnationsCounted
  <2>3. /\ generation' = generation + 1 /\ UNCHANGED <<attachments, live, incEnd>>
        /\ modules' = [modules EXCEPT ![k] = m]
        /\ incStart' = [incStart EXCEPT ![k] = Append(@, generation + 1)]
    BY <1>1 DEF RegisterNewKey, Publish
  <2>4. m.incarnation = Len(incStart[k]) + 1  BY <2>2
  <2> HIDE DEF m
  <2>5. IncarnationsCounted' /\ AttachmentsBehind' /\ AttachedWithinIncarnation'
    BY <1>0, <2>1, <2>2, <2>3, <2>4, BeginIncarnation
  <2>6. \A s \in live : attachments[s].key # k
    <3> SUFFICES ASSUME NEW s \in live, attachments[s].key = k PROVE FALSE
      OBVIOUS
    <3>1. attachments[s].incarnation \in DOMAIN incStart[k]
      BY <1>0 DEF IncarnationInv, AttachedWithinIncarnation, InReign, TypeOK
    <3> QED  BY <1>0, <2>2, <3>1 DEF TypeOK
  <2>7. SupersededSlotsReleased'
    BY <1>0, <2>3, <2>6 DEF IncarnationInv, SupersededSlotsReleased, TypeOK, Attachment
  <2> QED  BY <1>0, <2>5, <2>7 DEF IncarnationInv
<1>2. ASSUME NEW c \in Clients, NEW k \in Keys, NEW p \in Policies, NEW e \in Expected(c),
             EnsureCurrent(c, k, p, e)
      PROVE  IncarnationInv'
  <2>1. modules[k] \in Module /\ Moved(modules[k], "Registered").incarnation = modules[k].incarnation
    BY <1>0, <1>2, MovedType DEF EnsureCurrent, TypeOK, LifecycleState
  <2>2. Trimmed(modules[k]).incarnation = modules[k].incarnation  BY DEF Trimmed
  <2>3. modules'[k].incarnation = modules[k].incarnation /\ modules'[k] # NoRecord
    <3>1. \/ modules'[k] = Moved(modules[k], "Registered")
          \/ modules'[k] = Trimmed(modules[k])
      BY <1>0, <1>2 DEF EnsureCurrent, TypeOK
    <3>2. Moved(modules[k], "Registered") \in Module /\ Trimmed(modules[k]) \in Module
      BY <2>1, MovedType, TrimType DEF Trimmed, Module, LifecycleState
    <3> QED  BY <2>1, <2>2, <3>1, <3>2
  <2>4. SameIncarnations
    BY <1>0, <1>2, <2>3 DEF EnsureCurrent, SameIncarnations, TypeOK
  <2>5. generation' = generation + 1 /\ UNCHANGED <<attachments, live, incStart, incEnd>>
    BY <1>2 DEF EnsureCurrent, Publish, ghostVars
  <2> QED  BY <1>0, <2>4, <2>5, IncarnationFrame
<1>3. ASSUME NEW c \in Clients, NEW k \in Keys, NEW p \in Policies, NEW e \in Expected(c),
             NewIncarnation(c, k, p, e)
      PROVE  IncarnationInv'
  <2> DEFINE old == modules[k]
  <2>1. /\ old \in Module /\ old.incarnation \in Nat /\ old.incarnation >= 1
        /\ Len(incStart[k]) = old.incarnation
        /\ Len(incEnd[k]) = old.incarnation - 1
        /\ incEnd[k] \in Seq(LifecycleState) /\ old.state \in LifecycleState
    BY <1>0, <1>3 DEF NewIncarnation, IncarnationInv, IncarnationsCounted, TypeOK, Module
  <2>2. /\ generation' = generation + 1 /\ attachments' = attachments
        /\ live' = IF Ended(old.state) THEN live ELSE {s \in live : attachments[s].key # k}
        /\ incStart' = [incStart EXCEPT ![k] = Append(@, generation + 1)]
        /\ incEnd'[k] = Append(incEnd[k], old.state)
        /\ \A x \in Keys : x # k => incEnd'[x] = incEnd[x]
    BY <1>0, <1>3 DEF NewIncarnation, Released, Publish, TypeOK
  <2> DEFINE m == NextIncarnation(old)
  <2>3. modules' = [modules EXCEPT ![k] = m]  BY <1>3 DEF NewIncarnation
  <2>4. m \in Module /\ m.incarnation = Len(incStart[k]) + 1
    BY <2>1, NextIncarnationType
  <2>5. Len(incEnd'[k]) = Len(incStart[k])  BY <2>1, <2>2
  <2> HIDE DEF m
  <2>6. IncarnationsCounted' /\ AttachmentsBehind' /\ AttachedWithinIncarnation'
    BY <1>0, <2>2, <2>3, <2>4, <2>5, BeginIncarnation
  <2>7. /\ \A x \in Keys : x # k => modules'[x] = modules[x]
        /\ modules'[k].incarnation = old.incarnation + 1
    BY <1>0, <2>1, <2>3, <2>4 DEF TypeOK
  <2>8. /\ DOMAIN incEnd[k] = 1..old.incarnation - 1
        /\ DOMAIN incEnd'[k] = 1..old.incarnation
        /\ \A j \in 1..old.incarnation - 1 : incEnd'[k][j] = incEnd[k][j]
        /\ incEnd'[k][old.incarnation] = old.state
    BY <2>1, <2>2
  <2>9. SupersededSlotsReleased'
    <3> SUFFICES ASSUME NEW s \in live'
                 PROVE  \/ attachments[s].incarnation = modules'[attachments[s].key].incarnation
                        \/ /\ attachments[s].incarnation \in DOMAIN incEnd'[attachments[s].key]
                           /\ Ended(incEnd'[attachments[s].key][attachments[s].incarnation])
      BY <2>2 DEF SupersededSlotsReleased
    <3> DEFINE a == attachments[s]
    <3>1. s \in live /\ a.key \in Keys /\ (a.key = k => Ended(old.state))
      BY <1>0, <2>2 DEF TypeOK, Attachment
    <3>2. \/ a.incarnation = modules[a.key].incarnation
          \/ a.incarnation \in DOMAIN incEnd[a.key] /\ Ended(incEnd[a.key][a.incarnation])
      BY <3>1 DEF IncarnationInv, SupersededSlotsReleased
    <3>3. CASE a.key # k
      BY <2>2, <2>7, <3>1, <3>2, <3>3
    <3>4. CASE a.key = k /\ a.incarnation = old.incarnation
      BY <2>1, <2>8, <3>1, <3>4
    <3>5. CASE a.key = k /\ a.incarnation # old.incarnation
      BY <2>1, <2>8, <3>1, <3>2, <3>5
    <3> QED  BY <3>3, <3>4, <3>5
  <2> QED  BY <1>0, <2>6, <2>9 DEF IncarnationInv
<1>4. ASSUME NEW c \in Clients, NEW s \in Slots, NEW p \in Policies, Attach(c, s, p)
      PROVE  IncarnationInv'
  <2> DEFINE k == handle[c].key
             m == modules[k]
  <2>1. k \in Keys /\ m \in Module /\ m.incarnation \in Nat
    BY <1>0, <1>4 DEF Attach, HandleCurrent, TypeOK, Handle, Module
  <2>2. generation' = generation + 1 /\ UNCHANGED <<incStart, incEnd>>
    BY <1>4 DEF Attach, Publish, ghostVars
  <2>3. modules' = modules \/ modules' = [modules EXCEPT ![k] = Moved(m, "Attached")]
    BY <1>4 DEF Attach
  <2>4. "Attached" \in LifecycleState  BY DEF LifecycleState
  <2>5. SameIncarnations
    BY <1>0, <2>1, <2>3, <2>4, MovedSameIncarnations
  <2> HIDE DEF m
  <2>6. CASE UNCHANGED <<attachments, live>>
    BY <1>0, <2>2, <2>5, <2>6, IncarnationFrame
  <2>7. CASE ~UNCHANGED <<attachments, live>>
    <3>1. /\ attachments'[s].key = k /\ attachments'[s].incarnation = m.incarnation
          /\ attachments'[s].generation = generation + 1
          /\ \A x \in Slots : x # s => attachments'[x] = attachments[x]
          /\ live' = live \cup {s}
      BY <1>0, <1>4, <2>7 DEF Attach, TypeOK, m
    <3>2. IncarnationsCounted'
      <4>1. \A x \in Keys : \A j \in DOMAIN incStart[x] :
               incStart[x][j] \in Nat /\ incStart[x][j] <= generation
        BY <1>0 DEF IncarnationInv, IncarnationsCounted, TypeOK
      <4> QED
        BY <1>0, <2>2, <2>5, <4>1 DEF IncarnationInv, IncarnationsCounted, SameIncarnations
    <3>3. AttachmentsBehind'
      <4>1. \A x \in Slots : attachments[x] # NoRecord =>
               attachments[x].generation \in Nat /\ attachments[x].generation <= generation
        BY <1>0 DEF IncarnationInv, AttachmentsBehind, TypeOK, Attachment
      <4> QED  BY <1>0, <2>2, <3>1, <4>1 DEF AttachmentsBehind
    <3>4. /\ incStart[k] \in Seq(Nat) /\ Len(incStart[k]) = m.incarnation
          /\ Len(incStart[k]) >= 1
          /\ incStart[k][Len(incStart[k])] <= generation + 1
      <4>1. incStart[k] \in Seq(Nat)  BY <1>0, <2>1 DEF TypeOK
      <4>2. m # NoRecord /\ m = modules[k]  BY <2>1 DEF m
      <4>3. /\ Len(incStart[k]) = m.incarnation /\ m.incarnation >= 1
            /\ \A j \in DOMAIN incStart[k] : incStart[k][j] <= generation
        BY <2>1, <4>2 DEF IncarnationInv, IncarnationsCounted
      <4>4. Len(incStart[k]) \in DOMAIN incStart[k]  BY <4>1, <4>3
      <4>5. /\ incStart[k][Len(incStart[k])] \in Nat
            /\ incStart[k][Len(incStart[k])] <= generation
        BY <4>1, <4>3, <4>4
      <4> QED  BY <1>0, <4>1, <4>3, <4>5
    <3>5. InReign(generation + 1, m.incarnation, incStart[k])
      BY <1>0, <3>4, InReignLast
    <3>6. AttachedWithinIncarnation'
      BY <2>2, <3>1, <3>5 DEF IncarnationInv, AttachedWithinIncarnation
    <3>7. modules'[k].incarnation = m.incarnation
      BY <1>0, <2>1, <2>5 DEF SameIncarnations, m
    <3>8. \A x \in live : attachments[x].key \in Keys /\ modules[attachments[x].key] # NoRecord
      BY <1>0, LiveAttachmentsKnown
    <3>9. SupersededSlotsReleased'
      <4> SUFFICES ASSUME NEW x \in live'
                   PROVE  LET a == attachments'[x]
                          IN  \/ a.incarnation = modules'[a.key].incarnation
                              \/ /\ a.incarnation \in DOMAIN incEnd'[a.key]
                                 /\ Ended(incEnd'[a.key][a.incarnation])
        BY DEF SupersededSlotsReleased
      <4>1. CASE x = s
        BY <3>1, <3>7, <4>1
      <4>2. CASE x # s
        <5>1. x \in live /\ x \in Slots /\ attachments'[x] = attachments[x]
          BY <1>0, <3>1, <4>2 DEF TypeOK
        <5>2. modules'[attachments[x].key].incarnation = modules[attachments[x].key].incarnation
          BY <2>5, <3>8, <5>1 DEF SameIncarnations
        <5> QED  BY <2>2, <5>1, <5>2 DEF IncarnationInv, SupersededSlotsReleased
      <4> QED  BY <4>1, <4>2
    <3> QED  BY <1>0, <3>2, <3>3, <3>6, <3>9 DEF IncarnationInv
  <2> QED  BY <2>6, <2>7
<1>5. ASSUME NEW c \in Clients, NEW s \in Slots, NEW p \in Policies, Detach(c, s, p)
      PROVE  IncarnationInv'
  <2> DEFINE k == attachments[s].key
  <2>1. k \in Keys  BY <1>0, <1>5 DEF Detach, TypeOK, Attachment
  <2>2. CASE modules' = modules
    BY <1>0, <1>5, <2>2, IncarnationFrame
       DEF SameIncarnations, Detach, Publish, ghostVars
  <2>3. CASE modules' # modules
    <3>1. /\ modules[k] \in Module
          /\ modules' = [modules EXCEPT ![k] = Moved(modules[k], "Removed")]
      BY <1>0, <1>5, <2>1, <2>3 DEF Detach, TypeOK
    <3>2. "Removed" \in LifecycleState  BY DEF LifecycleState
    <3>3. SameIncarnations
      BY <1>0, <2>1, <3>1, <3>2, MovedSameIncarnations
    <3>4. /\ generation' = generation + 1 /\ live' \subseteq live
          /\ UNCHANGED <<attachments, incStart, incEnd>>
      BY <1>5 DEF Detach, Publish, ghostVars
    <3> QED  BY <1>0, <3>3, <3>4, IncarnationFrame
  <2> QED  BY <2>2, <2>3
<1>6. ASSUME NEW c \in Clients, NEW p \in Policies, NEW to \in LifecycleState,
             Transition(c, to, p)
      PROVE  IncarnationInv'
  <2> DEFINE k == handle[c].key
  <2>1. k \in Keys /\ modules[k] \in Module
    BY <1>0, <1>6 DEF Transition, HandleCurrent, TypeOK, Handle
  <2>2. SameIncarnations
    BY <1>0, <1>6, <2>1, MovedSameIncarnations DEF Transition
  <2>3. generation' = generation + 1 /\ UNCHANGED <<attachments, live, incStart, incEnd>>
    BY <1>6 DEF Transition, Publish, ghostVars
  <2> QED  BY <1>0, <2>2, <2>3, IncarnationFrame
<1>7. ASSUME NEW c \in Clients, NEW p \in Policies,
             NEW v \in {"healthy", "unhealthy", "none"}, Reconcile(c, v, p)
      PROVE  IncarnationInv'
  <2> DEFINE k == handle[c].key
             to == ReconcileTarget(modules[k].state, v)
  <2>1. k \in Keys /\ modules[k] \in Module
    BY <1>0, <1>7 DEF Reconcile, HandleCurrent, TypeOK, Handle
  <2>2. to \in LifecycleState
    BY <2>1 DEF ReconcileTarget, LifecycleState, Module
  <2>3. modules' = modules \/ modules' = [modules EXCEPT ![k] = Moved(modules[k], to)]
    BY <1>7 DEF Reconcile
  <2> HIDE DEF to
  <2>4. SameIncarnations
    BY <1>0, <2>1, <2>2, <2>3, MovedSameIncarnations
  <2>5. generation' = generation + 1 /\ UNCHANGED <<attachments, live, incStart, incEnd>>
    BY <1>7 DEF Reconcile, Publish, ghostVars
  <2> QED  BY <1>0, <2>4, <2>5, IncarnationFrame
<1>8. ASSUME NEW c \in Clients, NEW p \in Policies,
             \/ \E n \in SourceNames, i \in Instances \cup {NoInstance} : RegisterSource(c, n, i)
             \/ PublishEvidence(c, p)
             \/ PublishPolicy(c, p)
      PROVE  IncarnationInv'
  <2>1. /\ generation' = generation + 1
        /\ UNCHANGED <<modules, attachments, live, incStart, incEnd>>
    BY <1>8 DEF RegisterSource, PublishEvidence, PublishPolicy, Publish, ghostVars
  <2> QED  BY <1>0, <2>1, IncarnationFrame DEF SameIncarnations
<1>9. ASSUME NEW c \in Clients, Read(c) PROVE IncarnationInv'
  <2>1. UNCHANGED <<generation, modules, attachments, live, incStart, incEnd>>
    BY <1>9 DEF Read, ReadSource, ReadModule, RefreshGeneration, ReadState, stateVars, ghostVars
  <2> QED  BY <1>0, <2>1, IncarnationFrame DEF SameIncarnations
<1>10. CASE UNCHANGED vars
  <2>1. UNCHANGED <<generation, modules, attachments, live, incStart, incEnd>>
    BY <1>10 DEF vars, stateVars, ghostVars
  <2> QED  BY <1>0, <2>1, IncarnationFrame DEF SameIncarnations
<1> QED
  BY <1>1, <1>2, <1>3, <1>4, <1>5, <1>6, <1>7, <1>8, <1>9, <1>10 DEF Next, Mutate

\* No attachment is ever recorded for an incarnation that was not the current
\* one when it was published.
THEOREM IncarnationSound == Spec => []AttachedWithinIncarnation
<1>1. Init => IncarnationInv
  BY InitType DEF Init, IncarnationInv, IncarnationsCounted, AttachmentsBehind,
                  AttachedWithinIncarnation, SupersededSlotsReleased
<1>2. IncarnationInv => AttachedWithinIncarnation
  BY DEF IncarnationInv
<1> QED  BY <1>1, <1>2, IncarnationStep, PTL DEF Spec

\* The slots of a superseded incarnation are released, except those of one that
\* had been Retired or Replaced by an explicit transition beforehand.
THEOREM SlotsReleased == Spec => []SupersededSlotsReleased
<1>1. Init => IncarnationInv
  BY InitType DEF Init, IncarnationInv, IncarnationsCounted, AttachmentsBehind,
                  AttachedWithinIncarnation, SupersededSlotsReleased
<1>2. IncarnationInv => SupersededSlotsReleased
  BY DEF IncarnationInv
<1> QED  BY <1>1, <1>2, IncarnationStep, PTL DEF Spec

-----------------------------------------------------------------------------
(* The lifecycle.                                                          *)

\* The moves the registry makes without asking the table are in the table.
LEMMA ImpliedMoves ==
  /\ TransitionAllowed("Discovered", "Registered")
  /\ \A state \in LifecycleState :
        ImpliesAttachment(state) => TransitionAllowed(state, "Removed")
  BY DEF TransitionAllowed, Targets, ImpliesAttachment, LifecycleState

\* A recorded transition of module k that the table allows.
LEMMA MovedFollowsTable ==
  ASSUME TypeOK, NEW k \in Keys, modules[k] \in Module, NEW to \in LifecycleState,
         to = modules[k].state \/ TransitionAllowed(modules[k].state, to),
         modules' = modules \/ modules' = [modules EXCEPT ![k] = Moved(modules[k], to)]
  PROVE  \A x \in Keys : LifecycleStep(x)
<1>1. /\ Moved(modules[k], to) \in Module
      /\ Moved(modules[k], to).incarnation = modules[k].incarnation
      /\ Moved(modules[k], to).state = to
  BY MovedType
<1> SUFFICES ASSUME NEW x \in Keys PROVE LifecycleStep(x)
  OBVIOUS
<1>2. CASE modules'[x] = modules[x]
  BY <1>2 DEF LifecycleStep
<1>3. CASE modules'[x] # modules[x]
  <2>1. x = k /\ modules'[x] = Moved(modules[k], to)
    BY <1>3 DEF TypeOK
  <2> QED  BY <1>1, <2>1, NoRecordAssumption DEF LifecycleStep
<1> QED  BY <1>2, <1>3

\* Every step keeps each module within the table, or begins its next incarnation.
LEMMA TableStep == TypeOK /\ [Next]_vars => [\A k \in Keys : LifecycleStep(k)]_vars
<1> SUFFICES ASSUME TypeOK, [Next]_vars PROVE (\A x \in Keys : LifecycleStep(x)) \/ UNCHANGED vars
  OBVIOUS
<1> USE NoRecordAssumption
<1>1. ASSUME NEW c \in Clients, NEW k \in Keys, NEW p \in Policies, NEW e \in Expected(c),
             RegisterNewKey(c, k, p, e)
      PROVE  \A x \in Keys : LifecycleStep(x)
  BY <1>1 DEF RegisterNewKey, LifecycleStep, TypeOK
<1>2. ASSUME NEW c \in Clients, NEW k \in Keys, NEW p \in Policies, NEW e \in Expected(c),
             EnsureCurrent(c, k, p, e)
      PROVE  \A x \in Keys : LifecycleStep(x)
  <2>1. modules[k] \in Module  BY <1>2 DEF EnsureCurrent, TypeOK
  <2>2. CASE modules[k].state = "Discovered"
    <3>1. modules' = [modules EXCEPT ![k] = Moved(modules[k], "Registered")]
      BY <1>2, <2>2 DEF EnsureCurrent
    <3>2. "Registered" \in LifecycleState  BY DEF LifecycleState
    <3> QED  BY <2>1, <2>2, <3>1, <3>2, ImpliedMoves, MovedFollowsTable
  <2>3. CASE modules[k].state # "Discovered"
    <3>1. modules' = [modules EXCEPT ![k] = Trimmed(modules[k])]
      BY <1>2, <2>3 DEF EnsureCurrent
    <3>2. /\ Trimmed(modules[k]) \in Module
          /\ Trimmed(modules[k]).state = modules[k].state
          /\ Trimmed(modules[k]).incarnation = modules[k].incarnation
      BY <2>1, TrimType DEF Trimmed, Module
    <3> QED  BY <2>1, <3>1, <3>2 DEF LifecycleStep, TypeOK
  <2> QED  BY <2>2, <2>3
<1>3. ASSUME NEW c \in Clients, NEW k \in Keys, NEW p \in Policies, NEW e \in Expected(c),
             NewIncarnation(c, k, p, e)
      PROVE  \A x \in Keys : LifecycleStep(x)
  <2>1. modules[k] \in Module  BY <1>3 DEF NewIncarnation, TypeOK
  <2>2. /\ NextIncarnation(modules[k]) \in Module
        /\ NextIncarnation(modules[k]).incarnation = modules[k].incarnation + 1
        /\ NextIncarnation(modules[k]).state = "Registered"
    BY <2>1, NextIncarnationType
  <2>3. modules' = [modules EXCEPT ![k] = NextIncarnation(modules[k])]
    BY <1>3 DEF NewIncarnation
  <2> QED  BY <2>1, <2>2, <2>3 DEF LifecycleStep, TypeOK
<1>4. ASSUME NEW c \in Clients, NEW s \in Slots, NEW p \in Policies, Attach(c, s, p)
      PROVE  \A x \in Keys : LifecycleStep(x)
  <2> DEFINE k == handle[c].key
  <2>1. k \in Keys /\ modules[k] \in Module
    BY <1>4 DEF Attach, HandleCurrent, TypeOK, Handle
  <2>2. CASE modules' = modules
    BY <2>2 DEF LifecycleStep
  <2>3. CASE modules' # modules
    <3>1. /\ modules' = [modules EXCEPT ![k] = Moved(modules[k], "Attached")]
          /\ TransitionAllowed(modules[k].state, "Attached")
      BY <1>4, <2>3 DEF Attach
    <3>2. "Attached" \in LifecycleState  BY DEF LifecycleState
    <3> QED  BY <2>1, <3>1, <3>2, MovedFollowsTable
  <2> QED  BY <2>2, <2>3
<1>5. ASSUME NEW c \in Clients, NEW s \in Slots, NEW p \in Policies, Detach(c, s, p)
      PROVE  \A x \in Keys : LifecycleStep(x)
  <2> DEFINE k == attachments[s].key
  <2>1. k \in Keys  BY <1>5 DEF Detach, TypeOK, Attachment
  <2>2. CASE modules' = modules
    BY <2>2 DEF LifecycleStep
  <2>3. CASE modules' # modules
    <3>1. /\ modules[k] \in Module /\ modules[k].state \in LifecycleState
          /\ modules' = [modules EXCEPT ![k] = Moved(modules[k], "Removed")]
          /\ ImpliesAttachment(modules[k].state)
      BY <1>5, <2>1, <2>3 DEF Detach, TypeOK, Module
    <3>2. "Removed" \in LifecycleState  BY DEF LifecycleState
    <3>3. TransitionAllowed(modules[k].state, "Removed")  BY <3>1, ImpliedMoves
    <3> QED  BY <2>1, <3>1, <3>2, <3>3, MovedFollowsTable
  <2> QED  BY <2>2, <2>3
<1>6. ASSUME NEW c \in Clients, NEW p \in Policies, NEW to \in LifecycleState,
             Transition(c, to, p)
      PROVE  \A x \in Keys : LifecycleStep(x)
  <2>1. handle[c].key \in Keys /\ modules[handle[c].key] \in Module
    BY <1>6 DEF Transition, HandleCurrent, TypeOK, Handle
  <2> QED  BY <1>6, <2>1, MovedFollowsTable DEF Transition
<1>7. ASSUME NEW c \in Clients, NEW p \in Policies,
             NEW v \in {"healthy", "unhealthy", "none"}, Reconcile(c, v, p)
      PROVE  \A x \in Keys : LifecycleStep(x)
  <2> DEFINE k == handle[c].key
             to == ReconcileTarget(modules[k].state, v)
  <2>1. k \in Keys /\ modules[k] \in Module
    BY <1>7 DEF Reconcile, HandleCurrent, TypeOK, Handle
  <2>2. to \in LifecycleState
    BY <2>1 DEF ReconcileTarget, LifecycleState, Module
  <2>3. /\ modules' = modules \/ modules' = [modules EXCEPT ![k] = Moved(modules[k], to)]
        /\ to = modules[k].state \/ TransitionAllowed(modules[k].state, to)
    BY <1>7 DEF Reconcile
  <2> HIDE DEF to
  <2> QED  BY <2>1, <2>2, <2>3, MovedFollowsTable
<1>8. ASSUME NEW c \in Clients, NEW p \in Policies,
             \/ \E n \in SourceNames, i \in Instances \cup {NoInstance} : RegisterSource(c, n, i)
             \/ PublishEvidence(c, p)
             \/ PublishPolicy(c, p)
             \/ Read(c)
      PROVE  \A x \in Keys : LifecycleStep(x)
  <2>1. modules' = modules
    BY <1>8 DEF RegisterSource, PublishEvidence, PublishPolicy, Read, ReadSource, ReadModule,
                RefreshGeneration, ReadState, stateVars
  <2> QED  BY <2>1 DEF LifecycleStep
<1>9. ASSUME NEW c \in Clients, NEW p \in Policies, Mutate(c, p)
      PROVE  \A x \in Keys : LifecycleStep(x)
  BY <1>1, <1>2, <1>3, <1>4, <1>5, <1>6, <1>7, <1>8, <1>9 DEF Mutate
<1> QED  BY <1>8, <1>9 DEF Next, Policies

\* Whatever the callers do, a module's state only moves along the lifecycle
\* table within an incarnation, so Retired is final, and the only way out of an
\* incarnation is the next one.
THEOREM TableObeyed == Spec => LifecycleFollowsTable
<1> QED
  BY TypeCorrect, TableStep, PTL DEF Spec, LifecycleFollowsTable

-----------------------------------------------------------------------------
(* The audit trail.                                                        *)

\* What HistoryExplainsState says of one module record.
Unbroken(h) == \A i \in 1..Len(h) - 1 : Follows(h[i], h[i + 1])

Explained(m) ==
    LET h == m.lifecycle
    IN  /\ Len(h) <= MaxLifecycleHistory
        /\ Unbroken(h)
        /\ h # <<>> => /\ h[Len(h)].to = m.state
                       /\ h[Len(h)].incarnation = m.incarnation

\* An event that follows the last one keeps the chain unbroken.
LEMMA AppendUnbroken ==
  ASSUME NEW h \in Seq(Event), NEW e \in Event, Unbroken(h),
         h # <<>> => Follows(h[Len(h)], e)
  PROVE  /\ Append(h, e) \in Seq(Event)
         /\ Append(h, e) # <<>>
         /\ Len(Append(h, e)) = Len(h) + 1
         /\ Append(h, e)[Len(h) + 1] = e
         /\ Unbroken(Append(h, e))
<1> DEFINE g == Append(h, e)
<1>1. /\ g \in Seq(Event) /\ Len(h) \in Nat /\ Len(g) = Len(h) + 1
      /\ g[Len(h) + 1] = e /\ \A i \in 1..Len(h) : g[i] = h[i]
      /\ g # <<>>
  BY AppendProperties
<1> HIDE DEF g
<1>2. ASSUME NEW i \in 1..Len(g) - 1 PROVE Follows(g[i], g[i + 1])
  <2>1. i \in 1..Len(h)  BY <1>1
  <2>2. CASE i = Len(h)
    <3>1. h # <<>>  BY <2>1, <2>2
    <3>2. g[i] = h[Len(h)] /\ g[i + 1] = e  BY <1>1, <2>1, <2>2
    <3> QED  BY <3>1, <3>2
  <2>3. CASE i # Len(h)
    <3>1. i \in 1..Len(h) - 1 /\ i + 1 \in 1..Len(h)  BY <1>1, <2>1, <2>3
    <3>2. g[i] = h[i] /\ g[i + 1] = h[i + 1]  BY <1>1, <2>1, <3>1
    <3> QED  BY <3>1, <3>2 DEF Unbroken
  <2> QED  BY <2>2, <2>3
<1>3. Unbroken(g)  BY <1>2 DEF Unbroken
<1> QED  BY <1>1, <1>3 DEF g

\* Erasing the oldest events keeps the chain and its end, within the bound.
LEMMA TrimUnbroken ==
  ASSUME NEW h \in Seq(Event), Unbroken(h)
  PROVE  /\ Trim(h) \in Seq(Event)
         /\ Len(Trim(h)) <= MaxLifecycleHistory
         /\ Unbroken(Trim(h))
         /\ Trim(h) # <<>> => h # <<>> /\ Trim(h)[Len(Trim(h))] = h[Len(h)]
<1>0. Len(h) \in Nat /\ MaxLifecycleHistory \in Nat  BY ConstantsAssumption
<1>1. CASE Len(h) > MaxLifecycleHistory
  <2> DEFINE first == Len(h) - MaxLifecycleHistory + 1
             t == SubSeq(h, first, Len(h))
  <2>1. first \in 1..Len(h) + 1 /\ first \in Int  BY <1>0, <1>1
  <2>2. t = Trim(h)  BY <1>1 DEF Trim
  <2>3. /\ t \in Seq(Event)
        /\ Len(t) = MaxLifecycleHistory
        /\ \A i \in 1..MaxLifecycleHistory : t[i] = h[first + i - 1]
    BY <1>0, <2>1, SubSeqProperties
  <2> HIDE DEF t
  <2>4. ASSUME NEW i \in 1..MaxLifecycleHistory - 1 PROVE Follows(t[i], t[i + 1])
    <3>1. i \in 1..MaxLifecycleHistory /\ i + 1 \in 1..MaxLifecycleHistory  BY <1>0
    <3>2. t[i] = h[first + i - 1] /\ t[i + 1] = h[first + (i + 1) - 1]
      BY <2>3, <3>1
    <3>3. first + i - 1 \in 1..Len(h) - 1 /\ first + (i + 1) - 1 = (first + i - 1) + 1
      BY <1>0, <1>1, <2>1
    <3> HIDE DEF first
    <3> QED  BY <3>2, <3>3 DEF Unbroken
  <2>5. Unbroken(t)  BY <2>3, <2>4 DEF Unbroken
  <2>6. ASSUME t # <<>> PROVE h # <<>> /\ t[Len(t)] = h[Len(h)]
    <3>1. MaxLifecycleHistory \in 1..MaxLifecycleHistory
      BY <1>0, <2>3, <2>6, EmptySeq
    <3>2. t[MaxLifecycleHistory] = h[first + MaxLifecycleHistory - 1]  BY <2>3, <3>1
    <3>3. first + MaxLifecycleHistory - 1 = Len(h)  BY <1>0
    <3> QED  BY <1>0, <1>1, <2>3, <3>2, <3>3
  <2> QED  BY <1>0, <2>2, <2>3, <2>5, <2>6
<1>2. CASE ~(Len(h) > MaxLifecycleHistory)
  BY <1>0, <1>2 DEF Trim
<1> QED  BY <1>1, <1>2

\* A record whose history was trimmed from an unbroken one that ends in the
\* record's state and incarnation is explained.
LEMMA TrimExplained ==
  ASSUME NEW h \in Seq(Event), Unbroken(h), NEW m, m.lifecycle = Trim(h),
         h # <<>> => h[Len(h)].to = m.state /\ h[Len(h)].incarnation = m.incarnation
  PROVE  Explained(m)
  BY TrimUnbroken DEF Explained

\* A recorded transition is explained.
LEMMA MovedExplained ==
  ASSUME NEW m \in Module, Explained(m), NEW to \in LifecycleState
  PROVE  Explained(Moved(m, to))
<1> DEFINE e == [from |-> m.state, to |-> to, incarnation |-> m.incarnation]
           h == m.lifecycle
<1>1. e \in Event /\ h \in Seq(Event)  BY DEF Event, Module
<1>2. Unbroken(h)  BY DEF Explained
<1>3. h # <<>> => Follows(h[Len(h)], e)
  BY DEF Explained, Follows
<1>4. /\ Append(h, e) \in Seq(Event) /\ Unbroken(Append(h, e))
      /\ Len(Append(h, e)) = Len(h) + 1 /\ Append(h, e)[Len(h) + 1] = e
  <2> HIDE DEF e
  <2> QED  BY <1>1, <1>2, <1>3, AppendUnbroken
<1>5. /\ Append(h, e)[Len(Append(h, e))].to = Moved(m, to).state
      /\ Append(h, e)[Len(Append(h, e))].incarnation = Moved(m, to).incarnation
  BY <1>4 DEF Moved
<1>6. Moved(m, to).lifecycle = Trim(Append(h, e))
  BY DEF Moved
<1> HIDE DEF e
<1> QED  BY <1>4, <1>5, <1>6, TrimExplained

\* The two events of an incarnation that is registered at once follow the end
\* of the one before.
LEMMA DiscoveryUnbroken ==
  ASSUME NEW h \in Seq(Event), Unbroken(h), NEW i \in Nat,
         h # <<>> => Ended(h[Len(h)].to) /\ i = h[Len(h)].incarnation + 1
  PROVE  /\ h \o Discovery(i) \in Seq(Event)
         /\ Unbroken(h \o Discovery(i))
         /\ h \o Discovery(i) # <<>>
         /\ (h \o Discovery(i))[Len(h \o Discovery(i))].to = "Registered"
         /\ (h \o Discovery(i))[Len(h \o Discovery(i))].incarnation = i
<1> DEFINE d == [from |-> "Discovered", to |-> "Discovered", incarnation |-> i]
           r == [from |-> "Discovered", to |-> "Registered", incarnation |-> i]
           g == Append(h, d)
<1>1. d \in Event /\ r \in Event  BY DEF Event, LifecycleState
<1>2. h # <<>> => Follows(h[Len(h)], d)
  <2> SUFFICES ASSUME h # <<>> PROVE Follows(h[Len(h)], d)
    OBVIOUS
  <2>1. Len(h) \in 1..Len(h)  BY EmptySeq
  <2>2. h[Len(h)] \in Event  BY <2>1, ElementOfSeq
  <2>3. h[Len(h)].incarnation \in Nat  BY <2>2 DEF Event
  <2> QED  BY <2>3 DEF Follows
<1>3. Follows(d, r)  BY DEF Follows
<1> HIDE DEF d, r
<1>4. /\ g \in Seq(Event) /\ Unbroken(g) /\ g[Len(g)] = d
  BY <1>1, <1>2, AppendUnbroken
<1> HIDE DEF g
<1>5. /\ Append(g, r) \in Seq(Event) /\ Unbroken(Append(g, r))
      /\ Append(g, r) # <<>> /\ Append(g, r)[Len(Append(g, r))] = r
  BY <1>1, <1>3, <1>4, AppendUnbroken
<1>6. h \o Discovery(i) = Append(g, r)
  <2>1. Discovery(i) = <<d, r>>  BY DEF Discovery, d, r
  <2>2. h \o <<d, r>> = Append(Append(h, d), r)  BY <1>1
  <2> QED  BY <2>1, <2>2 DEF g
<1> QED  BY <1>5, <1>6 DEF r

\* The record of the next incarnation is explained.
LEMMA NextIncarnationExplained ==
  ASSUME NEW m \in Module, Explained(m)
  PROVE  Explained(NextIncarnation(m))
<1> DEFINE e == [from |-> m.state, to |-> "Replaced", incarnation |-> m.incarnation]
           h == m.lifecycle
           g == IF Ended(m.state) THEN h ELSE Append(h, e)
           d == Discovery(m.incarnation + 1)
<1>0. /\ m.incarnation \in Nat /\ m.incarnation + 1 \in Nat
      /\ e \in Event /\ h \in Seq(Event)
  BY DEF Event, Module, LifecycleState
<1>1. e \in Event /\ h \in Seq(Event) /\ d \in Seq(Event)
  BY <1>0, DiscoveryType
<1>2. /\ g \in Seq(Event) /\ Unbroken(g)
      /\ g # <<>> => Ended(g[Len(g)].to) /\ m.incarnation + 1 = g[Len(g)].incarnation + 1
  <2>1. CASE Ended(m.state)
    BY <1>1, <2>1 DEF Explained
  <2>2. CASE ~Ended(m.state)
    <3>1. h # <<>> => Follows(h[Len(h)], e)  BY DEF Explained, Follows
    <3>2. Ended(e.to) /\ e.incarnation = m.incarnation  BY DEF Ended
    <3> HIDE DEF e
    <3>3. /\ Append(h, e) \in Seq(Event) /\ Unbroken(Append(h, e))
          /\ Append(h, e)[Len(Append(h, e))] = e
      BY <1>1, <3>1, AppendUnbroken DEF Explained
    <3> QED  BY <2>2, <3>2, <3>3
  <2> QED  BY <2>1, <2>2
<1>3. NextIncarnation(m).lifecycle = Trim(g \o d)
  <2>1. CASE Ended(m.state)
    <3>1. h \o <<>> = h  BY <1>1, ConcatEmptySeq
    <3> QED  BY <2>1, <3>1 DEF NextIncarnation
  <2>2. CASE ~Ended(m.state)
    <3>1. NextIncarnation(m).lifecycle = Trim(h \o <<e>> \o d)
      BY <2>2 DEF NextIncarnation
    <3> HIDE DEF e
    <3>2. h \o <<e>> = Append(h, e)  BY <1>1, AppendIsConcat
    <3> QED  BY <2>2, <3>1, <3>2
  <2> QED  BY <2>1, <2>2
<1>4. /\ NextIncarnation(m).state = "Registered"
      /\ NextIncarnation(m).incarnation = m.incarnation + 1
  BY DEF NextIncarnation
<1> HIDE DEF g
<1>5. /\ g \o d \in Seq(Event) /\ Unbroken(g \o d)
      /\ (g \o d)[Len(g \o d)].to = "Registered"
      /\ (g \o d)[Len(g \o d)].incarnation = m.incarnation + 1
  BY <1>0, <1>1, <1>2, DiscoveryUnbroken
<1> HIDE DEF d, h
<1> QED  BY <1>3, <1>4, <1>5, TrimExplained

\* The record a first registration creates.
NewRecord == [incarnation |-> 1, state |-> "Registered", lifecycle |-> Trim(Discovery(1))]

\* A first registration is explained.
LEMMA NewRecordExplained == Explained(NewRecord)
<1>1. <<>> \in Seq(Event) /\ Unbroken(<<>>)  BY DEF Unbroken
<1>2. Discovery(1) \in Seq(Event)  BY DiscoveryType
<1>3. <<>> \o Discovery(1) = Discovery(1)  BY <1>2, ConcatEmptySeq
<1>4. /\ Unbroken(Discovery(1))
      /\ Discovery(1)[Len(Discovery(1))].to = "Registered"
      /\ Discovery(1)[Len(Discovery(1))].incarnation = 1
  <2> DEFINE h == <<>>
  <2> HIDE DEF h
  <2>1. /\ Unbroken(h \o Discovery(1))
        /\ (h \o Discovery(1))[Len(h \o Discovery(1))].to = "Registered"
        /\ (h \o Discovery(1))[Len(h \o Discovery(1))].incarnation = 1
    <3>1. h \in Seq(Event) /\ Unbroken(h) /\ h = <<>>  BY <1>1 DEF h
    <3> QED  BY <3>1, DiscoveryUnbroken
  <2> QED  BY <1>3, <2>1 DEF h
<1> QED  BY <1>2, <1>4, TrimExplained DEF NewRecord

\* Everything a step can do to one module record.
RecordStep(k) ==
    \/ modules'[k] = modules[k]
    \/ modules[k] = NoRecord /\ modules'[k] = NewRecord
    \/ /\ modules[k] \in Module
       /\ \/ modules'[k] = Trimmed(modules[k])
          \/ \E to \in LifecycleState : modules'[k] = Moved(modules[k], to)
          \/ modules'[k] = NextIncarnation(modules[k])

\* Steps only do these things to module records.
LEMMA RecordSteps == TypeOK /\ [Next]_vars => \A k \in Keys : RecordStep(k)
<1> SUFFICES ASSUME TypeOK, [Next]_vars, NEW x \in Keys PROVE RecordStep(x)
  OBVIOUS
<1> USE NoRecordAssumption
<1>1. ASSUME NEW k \in Keys, modules[k] \in Module, NEW to \in LifecycleState,
             modules' = modules \/ modules' = [modules EXCEPT ![k] = Moved(modules[k], to)]
      PROVE  RecordStep(x)
  BY <1>1 DEF RecordStep, TypeOK
<1>2. ASSUME NEW c \in Clients, NEW k \in Keys, NEW p \in Policies, NEW e \in Expected(c),
             RegisterNewKey(c, k, p, e)
      PROVE  RecordStep(x)
  BY <1>2 DEF RegisterNewKey, RecordStep, NewRecord, TypeOK
<1>3. ASSUME NEW c \in Clients, NEW k \in Keys, NEW p \in Policies, NEW e \in Expected(c),
             EnsureCurrent(c, k, p, e)
      PROVE  RecordStep(x)
  <2>1. modules[k] \in Module  BY <1>3 DEF EnsureCurrent, TypeOK
  <2>2. "Registered" \in LifecycleState  BY DEF LifecycleState
  <2>3. CASE modules[k].state = "Discovered"
    <3>1. modules' = [modules EXCEPT ![k] = Moved(modules[k], "Registered")]
      BY <1>3, <2>3 DEF EnsureCurrent
    <3> QED  BY <1>1, <2>1, <2>2, <3>1
  <2>4. CASE modules[k].state # "Discovered"
    <3>1. modules' = [modules EXCEPT ![k] = Trimmed(modules[k])]
      BY <1>3, <2>4 DEF EnsureCurrent
    <3> QED  BY <2>1, <3>1 DEF RecordStep, TypeOK
  <2> QED  BY <2>3, <2>4
<1>4. ASSUME NEW c \in Clients, NEW k \in Keys, NEW p \in Policies, NEW e \in Expected(c),
             NewIncarnation(c, k, p, e)
      PROVE  RecordStep(x)
  <2>1. /\ modules[k] \in Module
        /\ modules' = [modules EXCEPT ![k] = NextIncarnation(modules[k])]
    BY <1>4 DEF NewIncarnation, TypeOK
  <2> QED  BY <2>1 DEF RecordStep, TypeOK
<1>5. ASSUME NEW c \in Clients, NEW s \in Slots, NEW p \in Policies, Attach(c, s, p)
      PROVE  RecordStep(x)
  <2> DEFINE k == handle[c].key
  <2>1. k \in Keys /\ modules[k] \in Module
    BY <1>5 DEF Attach, HandleCurrent, TypeOK, Handle
  <2>2. modules' = modules \/ modules' = [modules EXCEPT ![k] = Moved(modules[k], "Attached")]
    BY <1>5 DEF Attach
  <2>3. "Attached" \in LifecycleState  BY DEF LifecycleState
  <2> QED  BY <1>1, <2>1, <2>2, <2>3
<1>6. ASSUME NEW c \in Clients, NEW s \in Slots, NEW p \in Policies, Detach(c, s, p)
      PROVE  RecordStep(x)
  <2> DEFINE k == attachments[s].key
  <2>1. k \in Keys  BY <1>6 DEF Detach, TypeOK, Attachment
  <2>2. CASE modules' = modules
    BY <2>2 DEF RecordStep
  <2>3. CASE modules' # modules
    <3>1. /\ modules[k] \in Module
          /\ modules' = [modules EXCEPT ![k] = Moved(modules[k], "Removed")]
      BY <1>6, <2>1, <2>3 DEF Detach, TypeOK
    <3>2. "Removed" \in LifecycleState  BY DEF LifecycleState
    <3> QED  BY <1>1, <2>1, <3>1, <3>2
  <2> QED  BY <2>2, <2>3
<1>7. ASSUME NEW c \in Clients, NEW p \in Policies, NEW to \in LifecycleState,
             Transition(c, to, p)
      PROVE  RecordStep(x)
  <2>1. handle[c].key \in Keys /\ modules[handle[c].key] \in Module
    BY <1>7 DEF Transition, HandleCurrent, TypeOK, Handle
  <2> QED  BY <1>1, <1>7, <2>1 DEF Transition
<1>8. ASSUME NEW c \in Clients, NEW p \in Policies,
             NEW v \in {"healthy", "unhealthy", "none"}, Reconcile(c, v, p)
      PROVE  RecordStep(x)
  <2> DEFINE k == handle[c].key
             to == ReconcileTarget(modules[k].state, v)
  <2>1. k \in Keys /\ modules[k] \in Module
    BY <1>8 DEF Reconcile, HandleCurrent, TypeOK, Handle
  <2>2. to \in LifecycleState
    BY <2>1 DEF ReconcileTarget, LifecycleState, Module
  <2>3. modules' = modules \/ modules' = [modules EXCEPT ![k] = Moved(modules[k], to)]
    BY <1>8 DEF Reconcile
  <2> HIDE DEF to
  <2> QED  BY <1>1, <2>1, <2>2, <2>3
<1>9. ASSUME NEW c \in Clients, NEW p \in Policies,
             \/ \E n \in SourceNames, i \in Instances \cup {NoInstance} : RegisterSource(c, n, i)
             \/ PublishEvidence(c, p)
             \/ PublishPolicy(c, p)
             \/ Read(c)
      PROVE  RecordStep(x)
  <2>1. modules' = modules
    BY <1>9 DEF RegisterSource, PublishEvidence, PublishPolicy, Read, ReadSource, ReadModule,
                RefreshGeneration, ReadState, stateVars
  <2> QED  BY <2>1 DEF RecordStep
<1>10. ASSUME NEW c \in Clients, NEW p \in Policies, Mutate(c, p) PROVE RecordStep(x)
  BY <1>2, <1>3, <1>4, <1>5, <1>6, <1>7, <1>8, <1>9, <1>10 DEF Mutate
<1>11. CASE UNCHANGED vars
  BY <1>11 DEF vars, stateVars, RecordStep
<1> QED  BY <1>9, <1>10, <1>11 DEF Next, Policies

\* Steps keep every history explained.
LEMMA HistoryStep ==
  TypeOK /\ HistoryExplainsState /\ [Next]_vars => HistoryExplainsState'
<1> SUFFICES ASSUME TypeOK, HistoryExplainsState, [Next]_vars, NEW k \in Keys,
                    modules'[k] # NoRecord
             PROVE  Explained(modules'[k])
  BY DEF HistoryExplainsState, Explained, Unbroken
<1>1. RecordStep(k)  BY RecordSteps
<1>2. modules[k] # NoRecord => modules[k] \in Module /\ Explained(modules[k])
  BY DEF HistoryExplainsState, Explained, Unbroken, TypeOK
<1>3. CASE modules'[k] = modules[k]
  BY <1>2, <1>3
<1>4. CASE modules'[k] = NewRecord
  BY <1>4, NewRecordExplained
<1>5. ASSUME modules[k] \in Module, modules'[k] = Trimmed(modules[k])
      PROVE  Explained(modules'[k])
  <2>1. Explained(modules[k])  BY <1>2, <1>5, NoRecordAssumption
  <2> QED  BY <1>5, <2>1, TrimExplained DEF Trimmed, Explained, Module
<1>6. ASSUME modules[k] \in Module, NEW to \in LifecycleState,
             modules'[k] = Moved(modules[k], to)
      PROVE  Explained(modules'[k])
  BY <1>2, <1>6, MovedExplained, NoRecordAssumption
<1>7. ASSUME modules[k] \in Module, modules'[k] = NextIncarnation(modules[k])
      PROVE  Explained(modules'[k])
  BY <1>2, <1>7, NextIncarnationExplained, NoRecordAssumption
<1> QED  BY <1>1, <1>3, <1>4, <1>5, <1>6, <1>7 DEF RecordStep

\* The audit trail of every module explains its state: however the callers
\* interleave and however short the kept history is, the kept events are an
\* unbroken chain that ends in the module's incarnation and state.
THEOREM HistorySound == Spec => []HistoryExplainsState
<1>1. Init => HistoryExplainsState
  BY DEF Init, HistoryExplainsState
<1> QED  BY <1>1, InitType, NextType, HistoryStep, PTL DEF Spec
=============================================================================
