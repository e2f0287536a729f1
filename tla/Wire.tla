-------------------------------- MODULE Wire --------------------------------
(***************************************************************************)
(* The request protocol: wire::Client, the frames between it and the       *)
(* server's connection threads, and dispatch().                            *)
(*                                                                         *)
(* A client has one call outstanding at a time and no timeout.  The link   *)
(* may break at any moment, before or after the server has taken the       *)
(* request; a thread that has taken it still applies it.  A caller whose   *)
(* call failed without an answer may connect again and repeat it.          *)
(*                                                                         *)
(* The registry is its generation and the fence: what else it checks is    *)
(* one nondeterministic refusal here and the subject of module Registry.   *)
(* A request frame that is cut short, fails its CRC or does not decode     *)
(* ends the connection without an answer, which is a break of the link.    *)
(* The client reads the same of an answer as an error of its own.          *)
(***************************************************************************)
EXTENDS Naturals, FiniteSets

CONSTANTS
    Clients,        \* callers, one wire::Client at a time each
    Ops,            \* operations they ask for
    MaxCalls,       \* bound: different calls made, by all clients together
    MaxTries,       \* bound: times one call is sent
    MaxGeneration,  \* bound: commits explored
    None            \* nothing there

ASSUME WireAssumption ==
    /\ MaxCalls \in Nat
    /\ {MaxTries, MaxGeneration} \subseteq Nat \ {0}

(***************************************************************************)
(* dispatch(): what each operation does to the registry, the generation it *)
(* is fenced with ("handle": ModuleHandle::generation, "param": the        *)
(* request's expected_generation), the parameters it refuses to go without *)
(* and whether its answer is a list that can outgrow a frame.              *)
(***************************************************************************)
Row(effect, fence, params, list) ==
    [effect |-> effect, fence |-> fence, params |-> params, list |-> list]
Query(params) == Row("none", None, params, FALSE)
Listing(params) == Row("none", None, params, TRUE)
Mutation(fence, params) == Row("commit", fence, params, FALSE)

SessionRow(op) ==
    CASE op \in {"hello", "ping", "registry.stats", "registry.generation"} ->
            Query({})
      [] op = "registry.save"   -> Row("save", None, {"path"}, FALSE)
      [] op = "source.register" -> Mutation(None, {"name", "kind"})
SessionOps == {"hello", "ping", "registry.stats", "registry.generation",
               "registry.save", "source.register"}

RegisterRow(op) ==
    Mutation("param", {"key", "intent", "identity", "provenance", "policy",
                       "authority"})
RegisterOps == {"module.register"}

ReadRow(op) ==
    CASE op = "attachment.get" -> Query({"slot"})
      [] op \in {"module.identity", "lifecycle.state", "evidence.summary",
                 "health.report"} -> Query({"reference"})
      [] op \in {"module.capabilities", "lifecycle.history"} ->
            Listing({"reference"})
ReadOps == {"attachment.get", "module.identity", "lifecycle.state",
            "evidence.summary", "health.report", "module.capabilities",
            "lifecycle.history"}

EvidenceRow(op) ==
    CASE op = "identity.update" ->
            Mutation("handle", {"authority", "module", "field", "provenance",
                                "policy"})
      [] op = "capability.publish" ->
            Mutation("handle", {"authority", "key", "value", "provenance",
                                "policy", "module"})
      [] op = "port.capability.publish" ->
            Mutation(None, {"authority", "key", "value", "provenance",
                            "policy", "port"})
EvidenceOps == {"identity.update", "capability.publish",
                "port.capability.publish"}

SlotRow(op) ==
    CASE op = "port.capabilities" -> Listing({"port"})
      [] op = "attachment.attach" ->
            Mutation("handle", {"authority", "module", "slot", "policy",
                                "port_index"})
      [] op = "attachment.detach" ->
            Mutation(None, {"authority", "slot", "policy"})
SlotOps == {"port.capabilities", "attachment.attach", "attachment.detach"}

HealthRow(op) ==
    CASE op = "health.ingest" ->
            Mutation("handle", {"authority", "module", "sample", "policy"})
      [] op = "health.threshold.publish" ->
            Mutation(None, {"authority", "threshold", "policy"})
      [] op = "health.samples" ->
            Listing({"reference", "metric", "lane", "limit"})
      [] op = "evidence.claims" -> Listing({"reference", "field", "limit"})
      [] op = "evidence.declarations" -> Listing({"reference", "key", "limit"})
HealthOps == {"health.ingest", "health.threshold.publish", "health.samples",
              "evidence.claims", "evidence.declarations"}

PolicyRow(op) ==
    CASE op = "compat.rule.publish" ->
            Mutation(None, {"authority", "rule", "policy"})
      [] op = "compat.query" -> Listing({"port", "reference"})
      [] op = "lifecycle.transition" ->
            Mutation("handle", {"authority", "module", "policy", "state"})
      [] op = "lifecycle.reconcile" ->
            Mutation("handle", {"authority", "module", "policy"})
PolicyOps == {"compat.rule.publish", "compat.query", "lifecycle.transition",
              "lifecycle.reconcile"}

\* Any other name is answered with Unsupported.
DispatchRow(op) ==
    CASE op \in SessionOps  -> SessionRow(op)
      [] op \in RegisterOps -> RegisterRow(op)
      [] op \in ReadOps     -> ReadRow(op)
      [] op \in EvidenceOps -> EvidenceRow(op)
      [] op \in SlotOps     -> SlotRow(op)
      [] op \in HealthOps   -> HealthRow(op)
      [] op \in PolicyOps   -> PolicyRow(op)
      [] OTHER              -> Query({"known"})

\* What dispatch() may answer when one parameter is missing, malformed or out
\* of range, before it calls the registry.  A field of a required type and a
\* record are decoded (Malformed); what may be absent has a default, and a
\* name is looked up (InvalidArgument).
Decoded(op) ==
    {"reference", "identity", "provenance", "authority", "module", "value",
     "sample", "threshold", "rule"}
        \cup (IF op = "module.register" THEN {"key"} ELSE {})
        \cup (IF op = "attachment.get" THEN {"slot"} ELSE {})

ParamErrors(op, bad) ==
    CASE bad = None                      -> {"Ok"}
      [] bad \in {"object", "op", "name"} -> {"Malformed"}
      [] bad = "known"                   -> {"Unsupported"}
      [] bad = "limit"                   -> {"CapacityExceeded"}
      [] bad \in Decoded(op)             -> {"Malformed", "InvalidArgument"}
      [] OTHER                           -> {"InvalidArgument"}

\* The parameters that may be at fault in a request for op.
Faults(op) ==
    IF DispatchRow(op).params = {"known"}
    THEN {"known"}
    ELSE {None, "object", "op"} \cup DispatchRow(op).params

\* What dispatch() makes of a request whose parameters it answers with error:
\* nothing, or a registry call.  A mutation is fenced when the policy says so,
\* the caller has named the generation it observed and the operation has a
\* place for it.
Parsed(op, error, policy, named) ==
    LET row == DispatchRow(op) IN
    IF error # "Ok"
    THEN [effect |-> "none", list |-> FALSE, error |-> error, fenced |-> FALSE]
    ELSE [effect |-> row.effect, list |-> row.list, error |-> "Ok",
          fenced |-> /\ row.effect = "commit" /\ row.fence # None
                     /\ policy = "require_generation" /\ named]

\* The requests that can be made, as dispatch() tells them apart.
Requests ==
    UNION {UNION {{Parsed(op, error, policy, named) :
                      error \in ParamErrors(op, bad),
                      policy \in {"require_generation", "auto_retry"},
                      named \in BOOLEAN}
                  : bad \in Faults(op)}
           : op \in Ops}

Effects == {"none", "save", "commit"}
Errors == {"Ok", "Malformed", "Unsupported", "CapacityExceeded",
           "InvalidArgument"}
Call == [effect : Effects, list : BOOLEAN, error : Errors, fenced : BOOLEAN]

\* Codes a client can come up with by itself: the stream ended (IoError), or
\* ended inside a frame, or the frame fails its CRC (Corrupt); what arrived is
\* no answer to this call (Malformed) or exceeds the client's limits
\* (CapacityExceeded); the request or the failure reported has no encoding
\* (Internal).
OwnCodes == {"IoError", "Corrupt", "Malformed", "CapacityExceeded", "Internal"}
Codes == Errors \cup OwnCodes \cup {"StaleGeneration", "Refused"}

\* The frame an answer comes in: whole; with a body that is larger than the
\* client accepts; whole, but with a document past the client's limits; or
\* with its body cut or altered on the way.
Frames == {"whole", "large", "dense", "broken"}
Reply == [code : Codes, frame : Frames]

ASSUME NoneAssumption == None \notin Codes \cup Call \cup Reply

VARIABLES
    generation,  \* of the registry
    call,        \* what each client calls, or None
    observed,    \* the generation it observed before it did
    nr,          \* how many calls were made
    tries,       \* how often it has sent this one
    outcome,     \* what the last attempt returned, or None while it waits
    up,          \* attempts the server has not dispatched: their numbers
    link,        \* the connection of the last attempt: "closed", "open",
                 \*   "desynced" (the rest of a frame is unread)
    reply,       \* the answer under way on it: its code and its frame
    applied      \* history: how often the call in hand was committed

vars == <<generation, call, observed, nr, tries, outcome, up, link, reply, applied>>

Init ==
    /\ generation = 1
    /\ call = [c \in Clients |-> None]
    /\ observed = [c \in Clients |-> 1]
    /\ nr = 0
    /\ tries = [c \in Clients |-> 0]
    /\ outcome = [c \in Clients |-> "Ok"]
    /\ up = [c \in Clients |-> {}]
    /\ link = [c \in Clients |-> "closed"]
    /\ reply = [c \in Clients |-> None]
    /\ applied = [c \in Clients |-> 0]

Idle(c) == outcome[c] # None

\* Client::connect: a new socket and a new Client.
Connect(c) ==
    /\ Idle(c) /\ link[c] = "closed"
    /\ nr < MaxCalls \/ tries[c] < MaxTries
    /\ link' = [link EXCEPT ![c] = "open"]
    /\ UNCHANGED <<generation, call, observed, nr, tries, outcome, up, reply, applied>>

\* exchange writes the request frame; the attempt is in the server's hands or
\* lost on the way.
SendRequest(c, n) ==
    /\ outcome' = [outcome EXCEPT ![c] = None]
    /\ up' = [up EXCEPT ![c] = @ \cup {n}]

\* write_frame refuses a request that exceeds the client's own frame limit or
\* has no canonical encoding.
RequestRefused(c) ==
    /\ \E code \in {"CapacityExceeded", "Internal"} :
         outcome' = [outcome EXCEPT ![c] = code]
    /\ UNCHANGED up

\* A new call.  The caller fences it with what it has observed.  Its
\* predecessor is over: every copy of it was dispatched.
NewCall(c) ==
    /\ Idle(c) /\ link[c] # "closed"
    /\ nr < MaxCalls /\ up[c] = {}
    /\ \E r \in Requests : call' = [call EXCEPT ![c] = r]
    /\ observed' = [observed EXCEPT ![c] = generation]
    /\ nr' = nr + 1
    /\ tries' = [tries EXCEPT ![c] = 1]
    /\ applied' = [applied EXCEPT ![c] = 0]
    /\ SendRequest(c, 1) \/ RequestRefused(c)
    /\ UNCHANGED <<generation, link, reply>>

\* The caller got no answer it can use and sends the same request again.
Retry(c) ==
    /\ Idle(c) /\ link[c] # "closed"
    /\ outcome[c] \in OwnCodes
    /\ tries[c] \in 1..(MaxTries - 1)
    /\ tries' = [tries EXCEPT ![c] = @ + 1]
    /\ SendRequest(c, tries[c] + 1)
    /\ UNCHANGED <<generation, call, observed, nr, link, reply, applied>>

\* An answer under way is cut inside its body or altered there.  (A header that
\* announces too large a body has decided the matter before.)
BreakFrame(c) ==
    /\ reply[c] # None /\ reply[c].frame # "large"
    /\ reply' = [reply EXCEPT ![c].frame = "broken"]

\* The link breaks.  An answer under way is lost or cut, and a request the
\* server has not read may be lost.
Break(c) ==
    /\ link[c] # "closed"
    /\ link' = [link EXCEPT ![c] = "closed"]
    /\ reply' = [reply EXCEPT ![c] = None] \/ BreakFrame(c)
    /\ \/ UNCHANGED up
       \/ ~Idle(c) /\ up' = [up EXCEPT ![c] = @ \ {tries[c]}]
    /\ UNCHANGED <<generation, call, observed, nr, tries, outcome, applied>>

\* An answer is altered on a link that stays open.
Damage(c) ==
    /\ BreakFrame(c)
    /\ UNCHANGED <<generation, call, observed, nr, tries, outcome, up, link, applied>>

\* Mutant: the generation the request was fenced with is not compared.
ResultsUnfenced(c) ==
    LET r == call[c] IN
    CASE r.error # "Ok"    -> {r.error}
      [] r.effect = "none" -> {"Ok", "Refused"}
      [] r.effect = "save" -> {"Ok", "IoError"}
      [] OTHER             -> {"Ok", "Refused", "CapacityExceeded"}

\* The answers a registry call may have: the fence first, then what else the
\* registry checks, and last the commit.
Results(c) ==
    LET r == call[c] IN
    CASE r.error # "Ok"                          -> {r.error}
      [] r.effect = "none"                       -> {"Ok", "Refused"}
      [] r.effect = "save"                       -> {"Ok", "IoError"}
      [] r.fenced /\ observed[c] # generation     -> {"StaleGeneration"}
      [] OTHER -> {"Ok", "Refused", "CapacityExceeded"}

\* Mutant: the connection stays open behind an answer that was not sent.
AnswerSkipped(c, n, code) ==
    IF n = tries[c] /\ ~Idle(c) /\ link[c] # "closed"
    THEN \/ /\ reply' = [reply EXCEPT ![c] = [code |-> code, frame |-> "whole"]]
            /\ UNCHANGED link
         \/ /\ call[c].list /\ code = "Ok"
            /\ UNCHANGED <<link, reply>>
    ELSE UNCHANGED <<reply, link>>

\* The server's write of an answer: one that is too large for the server's
\* frame limit is not sent and ends the connection; one that is too large for
\* the client, as a frame or as a document, is sent all the same.
Answer(c, n, code) ==
    IF n = tries[c] /\ ~Idle(c) /\ link[c] # "closed"
    THEN \/ /\ \E frame \in (IF call[c].list /\ code = "Ok"
                             THEN {"whole", "large", "dense"} ELSE {"whole"}) :
                 reply' = [reply EXCEPT ![c] = [code |-> code, frame |-> frame]]
            /\ UNCHANGED link
         \/ /\ call[c].list /\ code = "Ok"
            /\ link' = [link EXCEPT ![c] = "closed"]
            /\ UNCHANGED reply
    ELSE UNCHANGED <<reply, link>>

\* Mutant: a refusal is written into the answer and then overwritten by the
\* success that follows (a missing return).
DispatchFallsThrough(c, n) ==
    /\ n \in up[c]
    /\ up' = [up EXCEPT ![c] = @ \ {n}]
    /\ \E code \in Results(c) :
         /\ Answer(c, n, "Ok")
         /\ IF code = "Ok" /\ call[c].effect = "commit"
            THEN /\ generation < MaxGeneration
                 /\ generation' = generation + 1
                 /\ applied' = [applied EXCEPT ![c] = @ + 1]
            ELSE UNCHANGED <<generation, applied>>
    /\ UNCHANGED <<call, observed, nr, tries, outcome>>

\* Mutant: what fails behind the commit is reported as the call's failure.
DispatchLateFailure(c, n) ==
    /\ n \in up[c]
    /\ up' = [up EXCEPT ![c] = @ \ {n}]
    /\ \E code \in Results(c) :
         /\ Answer(c, n, code)
         /\ IF code \in {"Ok", "Refused"} /\ call[c].effect = "commit"
            THEN /\ generation < MaxGeneration
                 /\ generation' = generation + 1
                 /\ applied' = [applied EXCEPT ![c] = @ + 1]
            ELSE UNCHANGED <<generation, applied>>
    /\ UNCHANGED <<call, observed, nr, tries, outcome>>

\* A connection thread dispatches the request it holds, whether or not its
\* client is still there.
Dispatch(c, n) ==
    /\ n \in up[c]
    /\ up' = [up EXCEPT ![c] = @ \ {n}]
    /\ \E code \in Results(c) :
         /\ Answer(c, n, code)
         /\ IF code = "Ok" /\ call[c].effect = "commit"
            THEN /\ generation < MaxGeneration
                 /\ generation' = generation + 1
                 /\ applied' = [applied EXCEPT ![c] = @ + 1]
            ELSE UNCHANGED <<generation, applied>>
    /\ UNCHANGED <<call, observed, nr, tries, outcome>>

\* What Client::call makes of the frame it reads.
Received(c) ==
    CASE reply[c].frame = "broken"           -> "Corrupt"
      [] reply[c].frame \in {"large", "dense"} -> "CapacityExceeded"
      [] OTHER                               -> reply[c].code

\* A frame arrives.  A header that announces too large a body leaves the body
\* in the stream.
Receive(c) ==
    /\ ~Idle(c) /\ reply[c] # None /\ link[c] # "desynced"
    /\ outcome' = [outcome EXCEPT ![c] = Received(c)]
    /\ link' = [link EXCEPT ![c] = IF reply[c].frame = "large" THEN "desynced" ELSE @]
    /\ reply' = [reply EXCEPT ![c] = None]
    /\ UNCHANGED <<generation, call, observed, nr, tries, up, applied>>

\* The rest of an earlier frame is read in place of a header, whether or not
\* the answer has been sent.
ReceiveRest(c) ==
    /\ ~Idle(c) /\ link[c] = "desynced"
    /\ outcome' = [outcome EXCEPT ![c] = "Malformed"]
    /\ reply' = [reply EXCEPT ![c] = None]
    /\ UNCHANGED <<generation, call, observed, nr, tries, up, link, applied>>

\* The stream ends or fails before a header is complete, or fails in a body.
ReceiveFails(c) ==
    /\ ~Idle(c) /\ reply[c] = None /\ link[c] = "closed"
    /\ outcome' = [outcome EXCEPT ![c] = "IoError"]
    /\ UNCHANGED <<generation, call, observed, nr, tries, up, link, reply, applied>>

Next ==
    \E c \in Clients :
        \/ Connect(c) \/ NewCall(c) \/ Retry(c) \/ Break(c) \/ Damage(c)
        \/ (\E n \in 1..MaxTries : Dispatch(c, n))
        \/ Receive(c) \/ ReceiveRest(c) \/ ReceiveFails(c)

Spec == Init /\ [][Next]_vars

\* The server's threads and the client's read are scheduled; nothing is
\* assumed of the link.
Fairness ==
    \A c \in Clients :
        /\ \A n \in 1..MaxTries : WF_vars(Dispatch(c, n))
        /\ WF_vars(Receive(c) \/ ReceiveRest(c) \/ ReceiveFails(c))

FairSpec == Spec /\ Fairness

-----------------------------------------------------------------------------
\* Every variable keeps its type.
TypeOK ==
    /\ generation \in 1..MaxGeneration
    /\ call \in [Clients -> Call \cup {None}]
    /\ observed \in [Clients -> 1..MaxGeneration]
    /\ nr \in 0..MaxCalls
    /\ tries \in [Clients -> 0..MaxTries]
    /\ outcome \in [Clients -> Codes \cup {None}]
    /\ up \in [Clients -> SUBSET (1..MaxTries)]
    /\ link \in [Clients -> {"closed", "open", "desynced"}]
    /\ reply \in [Clients -> Reply \cup {None}]
    /\ applied \in [Clients -> Nat]

\* A request fenced with an observed generation is committed at most once,
\* however often it is repeated over broken links and whenever the copies
\* reach the registry; one that is sent once is too, fenced or not.
AtMostOnce ==
    \A c \in Clients :
        call[c] # None /\ (call[c].fenced \/ tries[c] = 1)
            => applied[c] <= 1

\* A caller told that its mutation succeeded is told the truth, even on a
\* connection that was broken or out of step before.
OkMeansApplied ==
    \A c \in Clients :
        call[c] # None /\ call[c].effect = "commit" /\ outcome[c] = "Ok"
            => applied[c] >= 1

\* A refusal in the server's own words is final when the request was sent
\* once: nothing was committed, and nothing will be.  (OwnCodes may be the
\* client's words and say nothing: a committed call whose answer is cut ends
\* with Corrupt.)
RefusalIsFinal ==
    \A c \in Clients :
        tries[c] = 1 /\ outcome[c] \notin OwnCodes \cup {None, "Ok"}
            => applied[c] = 0 /\ up[c] = {}

\* Every call returns, whatever happens to the link.
CallReturns == \A c \in Clients : ~Idle(c) ~> Idle(c)

-----------------------------------------------------------------------------
(* What makes the invariants above inductive.                              *)

\* Each attempt is dispatched once, and an answer is waited for by the call it
\* belongs to.
AttemptsCounted ==
    \A c \in Clients :
        /\ up[c] \subseteq 1..tries[c]
        /\ call[c] = None => tries[c] = 0
        /\ Idle(c) => reply[c] = None
        /\ tries[c] = 1 => applied[c] = 0 \/ (applied[c] = 1 /\ up[c] = {})

\* A commit uses up the generation its call was fenced with.
FenceSpent ==
    \A c \in Clients :
        /\ observed[c] <= generation
        /\ call[c] # None /\ call[c].fenced /\ applied[c] # 0
             => applied[c] = 1 /\ observed[c] < generation

\* An answer under way says what the attempt it answers has done.
AnswersTrue ==
    \A c \in Clients :
        reply[c] # None =>
          /\ reply[c].code = "Ok" /\ call[c].effect = "commit" => applied[c] >= 1
          /\ tries[c] = 1 /\ reply[c].code # "Ok" => applied[c] = 0 /\ up[c] = {}

Inv ==
    /\ TypeOK /\ AttemptsCounted /\ FenceSpent /\ AnswersTrue
    /\ OkMeansApplied /\ RefusalIsFinal
=============================================================================
