----------------------------- MODULE WireProofs -----------------------------
(***************************************************************************)
(* Proofs about Wire, for any number of clients, calls, repetitions and    *)
(* commits.                                                                *)
(***************************************************************************)
EXTENDS Wire, TLAPS

-----------------------------------------------------------------------------
(* Type correctness.                                                       *)

\* What the type of a call needs of a row of the dispatch table.
Shaped(row) == row.effect \in Effects /\ row.list \in BOOLEAN

LEMMA RowsShaped ==
  \A fence, params :
     /\ Shaped(Query(params)) /\ Shaped(Listing(params))
     /\ Shaped(Mutation(fence, params))
     /\ Shaped(Row("save", fence, params, FALSE))
  BY DEF Shaped, Query, Listing, Mutation, Row, Effects

\* Every operation, known or not, has such a row.
LEMMA TableShaped == \A op : Shaped(DispatchRow(op))
<1> SUFFICES ASSUME NEW op PROVE Shaped(DispatchRow(op))
  OBVIOUS
<1>1. op \in SessionOps => Shaped(SessionRow(op))
  BY RowsShaped, Zenon DEF SessionOps, SessionRow
<1>2. op \in RegisterOps => Shaped(RegisterRow(op))
  BY RowsShaped, Zenon DEF RegisterOps, RegisterRow
<1>3. op \in ReadOps => Shaped(ReadRow(op))
  BY RowsShaped, Zenon DEF ReadOps, ReadRow
<1>4. op \in EvidenceOps => Shaped(EvidenceRow(op))
  BY RowsShaped, Zenon DEF EvidenceOps, EvidenceRow
<1>5. op \in SlotOps => Shaped(SlotRow(op))
  BY RowsShaped, Zenon DEF SlotOps, SlotRow
<1>6. op \in HealthOps => Shaped(HealthRow(op))
  BY RowsShaped, Zenon DEF HealthOps, HealthRow
<1>7. op \in PolicyOps => Shaped(PolicyRow(op))
  BY RowsShaped, Zenon DEF PolicyOps, PolicyRow
<1>8. Shaped(Query({"known"}))
  BY RowsShaped
<1> QED
  BY <1>1, <1>2, <1>3, <1>4, <1>5, <1>6, <1>7, <1>8, Zenon DEF DispatchRow

\* Every request dispatch() can be given is a call.
LEMMA RequestsType == Requests \subseteq Call
<1>1. ASSUME NEW op, NEW bad, NEW error \in ParamErrors(op, bad), NEW policy,
             NEW named \in BOOLEAN
      PROVE  Parsed(op, error, policy, named) \in Call
  <2>1. DispatchRow(op).effect \in Effects /\ DispatchRow(op).list \in BOOLEAN
    BY TableShaped DEF Shaped
  <2>2. error \in Errors
    BY DEF ParamErrors, Errors
  <2> QED  BY <2>1, <2>2 DEF Parsed, Call, Errors, Effects
<1> QED  BY <1>1 DEF Requests

-----------------------------------------------------------------------------
(* The initial state and the steps of the clients and the link.            *)

LEMMA InitInv == Init => Inv
  BY WireAssumption, NoneAssumption
  DEF Init, Inv, TypeOK, AttemptsCounted, FenceSpent, AnswersTrue, OkMeansApplied,
      RefusalIsFinal, Idle, Codes, Errors, OwnCodes

LEMMA ConnectStep ==
  ASSUME Inv, NEW c \in Clients, Connect(c)
  PROVE  Inv'
<1>1. TypeOK'
  BY DEF Inv, TypeOK, Connect
<1>2. (AttemptsCounted /\ FenceSpent /\ AnswersTrue /\ OkMeansApplied /\ RefusalIsFinal)'
  BY DEF Inv, AttemptsCounted, FenceSpent, AnswersTrue, OkMeansApplied, RefusalIsFinal,
         Connect, Idle
<1> QED  BY <1>1, <1>2 DEF Inv

\* A call begins with nothing in flight: its predecessor has been dispatched
\* to the last copy, and no answer is under way to a client that does not wait.
LEMMA NewCallStep ==
  ASSUME Inv, NEW c \in Clients, NewCall(c)
  PROVE  Inv'
<1>1. PICK r \in Call : call' = [call EXCEPT ![c] = r]
  BY RequestsType DEF NewCall
<1>2. /\ (outcome[c] = None \/ outcome[c] \in {"CapacityExceeded", "Internal"})'
      /\ (outcome \in [Clients -> Codes \cup {None}])'
      /\ (up \in [Clients -> SUBSET (1..MaxTries)])'
      /\ (tries \in [Clients -> 0..MaxTries])'
  BY WireAssumption
  DEF Inv, TypeOK, NewCall, SendRequest, RequestRefused, Codes, OwnCodes,
      Errors
<1>3. TypeOK'
  BY <1>1, <1>2, WireAssumption DEF Inv, TypeOK, NewCall
<1>4. AttemptsCounted'
  BY <1>1, NoneAssumption
  DEF Inv, TypeOK, AttemptsCounted, NewCall, SendRequest, RequestRefused, Idle
<1>5. FenceSpent'
  BY <1>1 DEF Inv, TypeOK, FenceSpent, NewCall
<1>6. AnswersTrue'
  <2>1. reply' = reply /\ reply[c] = None
    BY DEF Inv, AttemptsCounted, NewCall
  <2>2. \A d \in Clients \ {c} : /\ call'[d] = call[d] /\ tries'[d] = tries[d]
                                 /\ applied'[d] = applied[d] /\ up'[d] = up[d]
    BY DEF Inv, TypeOK, NewCall, SendRequest, RequestRefused
  <2> QED  BY <2>1, <2>2 DEF Inv, AnswersTrue
<1>7. OkMeansApplied'
  BY NoneAssumption
  DEF Inv, TypeOK, OkMeansApplied, NewCall, SendRequest, RequestRefused, Codes, OwnCodes,
      Errors
<1>8. RefusalIsFinal'
  BY NoneAssumption
  DEF Inv, TypeOK, RefusalIsFinal, NewCall, SendRequest, RequestRefused, Codes, OwnCodes,
      Errors
<1> QED  BY <1>3, <1>4, <1>5, <1>6, <1>7, <1>8 DEF Inv

LEMMA RetryStep ==
  ASSUME Inv, NEW c \in Clients, Retry(c)
  PROVE  Inv'
<1> USE DEF Retry, SendRequest
<1>1. TypeOK'
  BY WireAssumption DEF Inv, TypeOK
<1>2. AttemptsCounted'
  BY NoneAssumption DEF Inv, TypeOK, AttemptsCounted, Idle
<1>3. AnswersTrue'
  BY NoneAssumption DEF Inv, TypeOK, AttemptsCounted, AnswersTrue, Idle
<1>4. FenceSpent'
  BY DEF Inv, TypeOK, FenceSpent
<1>5. OkMeansApplied'
  BY NoneAssumption DEF Inv, TypeOK, OkMeansApplied, Codes, OwnCodes, Errors
<1>6. RefusalIsFinal'
  BY NoneAssumption DEF Inv, TypeOK, RefusalIsFinal, Codes, OwnCodes, Errors
<1> QED  BY <1>1, <1>2, <1>3, <1>4, <1>5, <1>6 DEF Inv

\* What breaks with the link is only what was under way on it, and a frame that
\* is cut or altered keeps the code it was sent with.
LEMMA BrokenFrame ==
  ASSUME Inv, NEW c \in Clients,
         reply' = [reply EXCEPT ![c] = None] \/ BreakFrame(c)
  PROVE  /\ (reply \in [Clients -> Reply \cup {None}])'
         /\ \A d \in Clients :
              \/ reply'[d] = None
              \/ reply[d] # None /\ reply'[d].code = reply[d].code
<1>1. reply \in [Clients -> Reply \cup {None}]
  BY DEF Inv, TypeOK
<1>2. CASE reply' = [reply EXCEPT ![c] = None]
  BY <1>1, <1>2
<1>3. CASE BreakFrame(c)
  <2>1. /\ reply[c] \in Reply
        /\ reply' = [reply EXCEPT ![c] = [reply[c] EXCEPT !.frame = "broken"]]
    BY <1>1, <1>3 DEF BreakFrame
  <2>2. /\ [reply[c] EXCEPT !.frame = "broken"] \in Reply
        /\ [reply[c] EXCEPT !.frame = "broken"].code = reply[c].code
    BY <2>1 DEF Reply, Frames
  <2> QED  BY <1>1, <1>3, <2>1, <2>2 DEF BreakFrame
<1> QED  BY <1>2, <1>3

LEMMA BreakStep ==
  ASSUME Inv, NEW c \in Clients, Break(c) \/ Damage(c)
  PROVE  Inv'
<1>1. /\ (reply \in [Clients -> Reply \cup {None}])'
      /\ \A d \in Clients :
           \/ reply'[d] = None
           \/ reply[d] # None /\ reply'[d].code = reply[d].code
  BY BrokenFrame DEF Break, Damage
<1>2. /\ UNCHANGED <<generation, call, observed, nr, tries, outcome, applied>>
      /\ (up \in [Clients -> SUBSET (1..MaxTries)])'
      /\ (link \in [Clients -> {"closed", "open", "desynced"}])'
      /\ \A d \in Clients : up'[d] \subseteq up[d]
  BY DEF Inv, TypeOK, Break, Damage
<1>3. TypeOK'
  BY <1>1, <1>2 DEF Inv, TypeOK
<1>4. AttemptsCounted'
  BY <1>1, <1>2 DEF Inv, TypeOK, AttemptsCounted, Idle
<1>5. AnswersTrue'
  BY <1>1, <1>2 DEF Inv, AnswersTrue
<1>6. (FenceSpent /\ OkMeansApplied /\ RefusalIsFinal)'
  BY <1>2 DEF Inv, TypeOK, FenceSpent, OkMeansApplied, RefusalIsFinal
<1> QED  BY <1>3, <1>4, <1>5, <1>6 DEF Inv

-----------------------------------------------------------------------------
(* The server's step, and the answer's way back.                           *)

LEMMA DispatchStep ==
  ASSUME Inv, NEW c \in Clients, NEW n \in 1..MaxTries, Dispatch(c, n)
  PROVE  Inv'
<1>1. /\ n \in up[c] /\ n \in 1..tries[c]
      /\ call[c] \in Call
      /\ up' = [up EXCEPT ![c] = @ \ {n}]
      /\ UNCHANGED <<call, observed, nr, tries, outcome>>
  BY DEF Inv, TypeOK, AttemptsCounted, Dispatch
<1>2. PICK code \in Results(c) :
        /\ Answer(c, n, code)
        /\ \/ /\ code = "Ok" /\ call[c].effect = "commit"
              /\ generation < MaxGeneration /\ generation' = generation + 1
              /\ applied' = [applied EXCEPT ![c] = @ + 1]
           \/ /\ ~(code = "Ok" /\ call[c].effect = "commit")
              /\ UNCHANGED <<generation, applied>>
  BY DEF Dispatch
<1>3. /\ code \in Codes
      /\ code = "Ok" /\ call[c].effect = "commit" /\ call[c].fenced
           => observed[c] = generation
  BY <1>1, <1>2 DEF Results, Call, Codes, Errors, OwnCodes
<1>4. /\ (reply \in [Clients -> Reply \cup {None}])'
      /\ (link \in [Clients -> {"closed", "open", "desynced"}])'
      /\ \A d \in Clients :
           \/ reply'[d] = reply[d]
           \/ /\ d = c /\ n = tries[c] /\ ~Idle(c)
              /\ reply'[d].code = code
  <2>1. \/ UNCHANGED reply
        \/ /\ n = tries[c] /\ ~Idle(c)
           /\ \E frame \in Frames :
                reply' = [reply EXCEPT ![c] = [code |-> code, frame |-> frame]]
    BY <1>2 DEF Answer, Frames
  <2>2. link' = link \/ link' = [link EXCEPT ![c] = "closed"]
    BY <1>2 DEF Answer
  <2>3. /\ reply \in [Clients -> Reply \cup {None}]
        /\ link \in [Clients -> {"closed", "open", "desynced"}]
    BY DEF Inv, TypeOK
  <2>4. (reply \in [Clients -> Reply \cup {None}])'
    BY <1>3, <2>1, <2>3 DEF Reply
  <2>5. (link \in [Clients -> {"closed", "open", "desynced"}])'
    BY <2>2, <2>3
  <2>6. ASSUME NEW d \in Clients
        PROVE  \/ reply'[d] = reply[d]
               \/ d = c /\ n = tries[c] /\ ~Idle(c) /\ reply'[d].code = code
    BY <2>1, <2>3
  <2> QED  BY <2>4, <2>5, <2>6
<1>5. /\ (generation \in 1..MaxGeneration)' /\ generation <= generation'
      /\ (applied \in [Clients -> Nat])'
      /\ \A d \in Clients : applied[d] <= applied'[d]
      /\ \A d \in Clients \ {c} : applied'[d] = applied[d]
  BY <1>2, WireAssumption DEF Inv, TypeOK
<1>6. TypeOK'
  BY <1>1, <1>4, <1>5 DEF Inv, TypeOK
<1>7. AttemptsCounted'
  <2>1. \A d \in Clients : reply'[d] = reply[d] \/ ~Idle(d)
    BY <1>4
  <2>2. tries[c] = 1 => applied[c] = 0 /\ n = 1 /\ up'[c] = {}
    BY <1>1 DEF Inv, TypeOK, AttemptsCounted
  <2>3. applied'[c] \in {applied[c], applied[c] + 1}
    BY <1>2 DEF Inv, TypeOK
  <2> QED
    BY <1>1, <1>5, <2>1, <2>2, <2>3 DEF Inv, TypeOK, AttemptsCounted, Idle
<1>8. FenceSpent'
  BY NoneAssumption, WireAssumption
  DEF Inv, TypeOK, FenceSpent, Dispatch, Results, Answer, Call, Errors, Effects
<1>9. AnswersTrue'
  <2>1. ASSUME NEW d \in Clients, reply'[d] = reply[d], reply[d] # None
        PROVE  /\ reply[d].code = "Ok" /\ call[d].effect = "commit" => applied'[d] >= 1
               /\ tries[d] = 1 /\ reply[d].code # "Ok" => applied'[d] = 0 /\ up'[d] = {}
    <3>1. reply[d].code = "Ok" /\ call[d].effect = "commit" => applied'[d] >= 1
      BY <1>5, <2>1 DEF Inv, TypeOK, AnswersTrue
    <3>2. tries[d] = 1 /\ reply[d].code # "Ok" => d # c
      BY <1>1, <2>1 DEF Inv, AnswersTrue
    <3>3. tries[d] = 1 /\ reply[d].code # "Ok" => applied[d] = 0 /\ up[d] = {}
      BY <2>1 DEF Inv, AnswersTrue
    <3>4. d # c => up'[d] = up[d]
      BY <1>1 DEF Inv, TypeOK
    <3> QED  BY <1>5, <3>1, <3>2, <3>3, <3>4
  <2>2. ASSUME n = tries[c]
        PROVE  /\ code = "Ok" /\ call[c].effect = "commit" => applied'[c] >= 1
               /\ tries[c] = 1 /\ code # "Ok" => applied'[c] = 0 /\ up'[c] = {}
    BY <1>1, <1>2, <2>2 DEF Inv, TypeOK, AttemptsCounted
  <2> QED  BY <1>1, <1>4, <2>1, <2>2 DEF AnswersTrue
<1>10. OkMeansApplied'
  <2>1. ASSUME NEW d \in Clients, call[d] # None, call[d].effect = "commit",
               outcome[d] = "Ok"
        PROVE  applied'[d] >= 1
    <3>1. applied[d] >= 1 /\ applied[d] \in Nat /\ applied'[d] \in Nat
      BY <1>5, <2>1 DEF Inv, TypeOK, OkMeansApplied
    <3> QED  BY <1>5, <3>1
  <2> QED  BY <1>1, <2>1 DEF OkMeansApplied
<1>11. RefusalIsFinal'
  BY NoneAssumption, WireAssumption
  DEF Inv, TypeOK, AttemptsCounted, AnswersTrue, RefusalIsFinal, Idle, Dispatch, Answer,
      OwnCodes, Codes
<1> QED  BY <1>6, <1>7, <1>8, <1>9, <1>10, <1>11 DEF Inv

\* What a client is told is what was under way to it, or one of its own codes.
LEMMA ReceiveStep ==
  ASSUME Inv, NEW c \in Clients, Receive(c) \/ ReceiveRest(c) \/ ReceiveFails(c)
  PROVE  Inv'
<1> USE DEF Receive, ReceiveRest, ReceiveFails
<1>1. /\ (outcome \in [Clients -> Codes \cup {None}])'
      /\ (reply \in [Clients -> Reply \cup {None}])' /\ reply'[c] = None
      /\ \/ outcome'[c] \in OwnCodes
         \/ reply[c] # None /\ outcome'[c] = reply[c].code
  BY DEF Inv, TypeOK, Received, Reply, Codes, OwnCodes
<1>2. TypeOK'
  BY <1>1 DEF Inv, TypeOK
<1>3. (AttemptsCounted /\ FenceSpent /\ AnswersTrue)'
  BY <1>1 DEF Inv, TypeOK, AttemptsCounted, FenceSpent, AnswersTrue, Idle
<1>4. (OkMeansApplied /\ RefusalIsFinal)'
  BY <1>1 DEF Inv, TypeOK, OkMeansApplied, RefusalIsFinal, AnswersTrue, OwnCodes
<1> QED  BY <1>2, <1>3, <1>4 DEF Inv

-----------------------------------------------------------------------------
(* The theorems.                                                           *)

LEMMA Invariance == Spec => []Inv
<1>1. Inv /\ [Next]_vars => Inv'
  <2> SUFFICES ASSUME Inv, [Next]_vars PROVE Inv'
    OBVIOUS
  <2>1. CASE UNCHANGED vars
    BY <2>1 DEF vars, Inv, TypeOK, AttemptsCounted, FenceSpent, AnswersTrue,
                OkMeansApplied, RefusalIsFinal, Idle
  <2> QED
    BY <2>1, ConnectStep, NewCallStep, RetryStep, BreakStep, DispatchStep, ReceiveStep
    DEF Next
<1> QED  BY InitInv, <1>1, PTL DEF Spec

\* Every variable keeps its type.
THEOREM TypeCorrect == Spec => []TypeOK
<1>1. Inv => TypeOK
  BY DEF Inv
<1> QED  BY Invariance, <1>1, PTL

\* A request that carries an observed generation, and one that is sent once, is
\* committed at most once, however often the first kind is repeated.
THEOREM OnceAtMost == Spec => []AtMostOnce
<1>1. Inv => AtMostOnce
  BY DEF Inv, TypeOK, AttemptsCounted, FenceSpent, AtMostOnce
<1> QED  BY Invariance, <1>1, PTL

\* A caller told "ok" of a mutation is told the truth.
THEOREM OkIsTrue == Spec => []OkMeansApplied
<1>1. Inv => OkMeansApplied
  BY DEF Inv
<1> QED  BY Invariance, <1>1, PTL

\* A code that the client does not come up with by itself, other than Ok, is the
\* server's refusal: the request sent once is not and will not be committed.
THEOREM RefusalIsTrue == Spec => []RefusalIsFinal
<1>1. Inv => RefusalIsFinal
  BY DEF Inv
<1> QED  BY Invariance, <1>1, PTL
=============================================================================
