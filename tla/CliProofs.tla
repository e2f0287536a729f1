------------------------------ MODULE CliProofs ------------------------------
(***************************************************************************)
(* Proofs about Cli, for any number of runs, any keys and any files from   *)
(* other registries.                                                       *)
(*                                                                         *)
(* Nearly every action ends in a new state of one session and of the       *)
(* registry it speaks to.  SessionStep names what such a step must         *)
(* respect for the invariant to hold again, StepInv proves it once, and    *)
(* each action is shown to respect it.                                     *)
(***************************************************************************)
EXTENDS Cli, FiniteSetTheorems, TLAPS

-----------------------------------------------------------------------------
(* The operators the actions are built from.                               *)

\* A subcommand on a module names a key, source-register an instance or none.
LEMMA CommandFacts ==
  ASSUME NEW c \in Commands
  PROVE  /\ c.kind \in Keyed \cup {"module"} => c.key \in Keys
         /\ c.kind = "source" => c.given \in Instances \cup {None}
         /\ c.kind \in Keyed /\ c.given # None => c.given \in Handles
  BY DEF Commands, Command, Keyed, KeyedReads, KeyedChanges, KeyedQueries,
         SlotsAndPorts, Policies, Queries, Handles

\* An older state is one of itself, and of what came after a newer one.
LEMMA SameUidsOrder ==
  /\ \A a \in Registries : SameUids(a, a)
  /\ \A a, b, c \in Registries : SameUids(a, b) /\ SameUids(b, c) => SameUids(a, c)
  BY DEF SameUids

\* source.register leaves the modules alone, and the epoch of a source whose
\* instance comes back.
LEMMA RegisterSourceFacts ==
  ASSUME NEW r \in Registries, NEW i \in Instances \cup {CliInstance, None}
  PROVE  LET q == RegisterSource(r, i)
         IN  /\ q \in Registries
             /\ q.modules = r.modules /\ q.instance = i
             /\ r.instance = i => q.epoch = r.epoch
<1> DEFINE e == IF r.instance = i THEN r.epoch ELSE r.epoch + 1
<1>1. e \in Nat /\ (r.instance = i => e = r.epoch)  BY DEF Registries
<1>2. RegisterSource(r, i) = [r EXCEPT !.epoch = e, !.instance = i]
  BY DEF RegisterSource
<1> HIDE DEF e
<1> QED  BY <1>1, <1>2 DEF Registries

\* module.register keeps every uid; what it changes, it changes for the caller.
LEMMA RegisterModuleFacts ==
  ASSUME NEW r \in Registries, NEW k \in Keys, NEW intent, NEW s \in Sessions
  PROVE  LET q == RegisterModule(r, k, intent, s)
         IN  /\ q \in Registries /\ SameUids(r, q)
             /\ q.epoch = r.epoch /\ q.instance = r.instance
             /\ q.modules[k] # None
             /\ \A x \in Keys : \/ q.modules[x] = r.modules[x]
                                \/ x = k /\ q.modules[x].by = s
<1> DEFINE m == r.modules[k]
           q == RegisterModule(r, k, intent, s)
           opened == [uid |-> r.next, inc |-> 1, by |-> s]
           again == [uid |-> m.uid, inc |-> m.inc + 1, by |-> s]
<1>1. /\ r.modules \in [Keys -> Module \cup {None}] /\ r.next \in Nat
      /\ r.epoch \in Nat /\ r.instance \in Instances \cup {CliInstance, None}
      /\ r = [modules |-> r.modules, next |-> r.next, epoch |-> r.epoch,
              instance |-> r.instance]
  BY DEF Registries
\* One module is put in place of none, or of one with the same uid.
<1>2. ASSUME NEW n \in Module, NEW next \in Nat, n.by = s,
             m = None \/ (m # None /\ n.uid = m.uid),
             q = [modules |-> [r.modules EXCEPT ![k] = n], next |-> next,
                  epoch |-> r.epoch, instance |-> r.instance]
      PROVE  /\ q \in Registries /\ SameUids(r, q)
             /\ q.epoch = r.epoch /\ q.instance = r.instance
             /\ q.modules[k] # None
             /\ \A x \in Keys : \/ q.modules[x] = r.modules[x]
                                \/ x = k /\ q.modules[x].by = s
  <2> DEFINE f == [r.modules EXCEPT ![k] = n]
  <2>1. f \in [Keys -> Module \cup {None}]  BY <1>1
  <2>2. f[k] = n /\ \A x \in Keys : x # k => f[x] = r.modules[x]  BY <1>1
  <2>3. q = [modules |-> f, next |-> next, epoch |-> r.epoch, instance |-> r.instance]
    BY <1>2
  <2> HIDE DEF f, q
  <2>4. q \in Registries  BY <1>1, <1>2, <2>1, <2>3 DEF Registries
  <2>5. q.modules = f /\ q.epoch = r.epoch /\ q.instance = r.instance  BY <2>3
  <2>6. SameUids(r, q)  BY <1>2, <2>2, <2>5, NoneAssumption DEF SameUids
  <2>7. q.modules[k] # None /\ q.modules[k].by = s
    BY <1>2, <2>2, <2>5, NoneAssumption
  <2>8. \A x \in Keys : x # k => q.modules[x] = r.modules[x]
    BY <2>2, <2>5
  <2> QED  BY <2>4, <2>5, <2>6, <2>7, <2>8
<1>3. CASE m = None
  <2>1. opened \in Module /\ opened.by = s  BY <1>1 DEF Module
  <2>2. q = [r EXCEPT !.modules[k] = opened, !.next = @ + 1]
    BY <1>3 DEF RegisterModule
  <2>3. q = [modules |-> [r.modules EXCEPT ![k] = opened], next |-> r.next + 1,
             epoch |-> r.epoch, instance |-> r.instance]
    BY <1>1, <2>2
  <2> HIDE DEF opened, q
  <2>4. r.next + 1 \in Nat  BY <1>1
  <2> QED  BY <1>2, <1>3, <2>1, <2>3, <2>4 DEF q
<1>4. CASE m # None /\ intent = "new_incarnation"
  <2>1. m \in Module  BY <1>1, <1>4
  <2>2. again \in Module /\ again.by = s /\ again.uid = m.uid
    BY <2>1 DEF Module
  <2>3. q = [r EXCEPT !.modules[k] = again]
    BY <1>4 DEF RegisterModule
  <2>4. q = [modules |-> [r.modules EXCEPT ![k] = again], next |-> r.next,
             epoch |-> r.epoch, instance |-> r.instance]
    BY <1>1, <2>3
  <2> HIDE DEF again, q
  <2> QED  BY <1>1, <1>2, <1>4, <2>2, <2>4 DEF q
<1>5. CASE m # None /\ intent # "new_incarnation"
  <2>1. q = r  BY <1>5 DEF RegisterModule
  <2>2. r.modules[k] # None  BY <1>5
  <2>3. SameUids(r, r)  BY SameUidsOrder
  <2> QED  BY <2>1, <2>2, <2>3
<1> QED  BY <1>3, <1>4, <1>5

\* The handle of a module is a handle.
LEMMA HandleType ==
  ASSUME NEW m \in Module
  PROVE  Handle(m) \in Handles /\ Handle(m).uid = m.uid
  BY DEF Handle, Handles, Module

-----------------------------------------------------------------------------
(* One step of a run.                                                      *)

\* Session s goes on as x, or is over, and its registry becomes r.
Kept(s, r, x) ==
    /\ x.mode = ses[s].mode
    /\ \A k \in Keys :
          /\ x.cache[k] # None =>
                r.modules[k] # None /\ r.modules[k].uid = x.cache[k].uid
          /\ r.modules[k] # None /\ r.modules[k].by = s =>
                x.cache[k] = Handle(r.modules[k])
    /\ x.scratch # None /\ x.scratch.own => SameUids(x.scratch.registry, reg'[Server])
    /\ x.target # None =>
          /\ x.cmd # None /\ x.cmd.kind \in Keyed
          /\ x.target.how = "remote" => x.scratch # None
          /\ x.target.how # "explicit" /\ (x.target.how = "remote" => x.scratch.own) =>
                r.modules[x.cmd.key] # None /\ r.modules[x.cmd.key].uid = x.target.uid
    /\ x.token # None /\ Home(s) \notin fenced' =>
          x.token = r.epoch /\ r.instance = CliInstance

\* The registry of s becomes r, and a file it may have written is its own.
Grown(s, r) ==
    /\ Running(s)
    /\ r \in Registries
    /\ reg' = [reg EXCEPT ![Home(s)] = r]
    /\ file' \in {file, [registry |-> Registry(s), exists |-> TRUE, own |-> Remote(s)]}
    /\ fenced \subseteq fenced'
    /\ SameUids(Registry(s), r)
    /\ \A k \in Keys : r.modules[k] = Registry(s).modules[k] \/ r.modules[k].by = s
    /\ Registry(s).instance = CliInstance /\ Home(s) \notin fenced' =>
          r.epoch = Registry(s).epoch /\ r.instance = CliInstance

SessionStep(s, r, x) ==
    /\ Grown(s, r)
    /\ x \in SessionRecords /\ ses' = [ses EXCEPT ![s] = x]
    /\ x = Over \/ Kept(s, r, x)

\* Such a step keeps the invariant.
LEMMA StepInv ==
  ASSUME Inv, NEW s \in Sessions, NEW r, NEW x, SessionStep(s, r, x)
  PROVE  Inv'
<1> USE RegistryAssumption
<1>1. /\ TypeOK /\ Home(s) \in Homes /\ Registry(s) \in Registries
      /\ ses[s] \in SessionRecords /\ r \in Registries /\ x \in SessionRecords
  BY DEF Inv, TypeOK, SessionStep, Grown, Home, Homes, Registry
<1>2. /\ reg' = [reg EXCEPT ![Home(s)] = r] /\ ses' = [ses EXCEPT ![s] = x]
      /\ Running(s) /\ fenced \subseteq fenced'
      /\ SameUids(Registry(s), r)
      /\ file' \in {file, [registry |-> Registry(s), exists |-> TRUE, own |-> Remote(s)]}
      /\ x = Over \/ Kept(s, r, x)
  BY DEF SessionStep, Grown
<1>3. /\ reg'[Home(s)] = r
      /\ \A h \in Homes : h # Home(s) => reg'[h] = reg[h]
      /\ ses'[s] = x /\ \A u \in Sessions : u # s => ses'[u] = ses[u]
  BY <1>1, <1>2 DEF TypeOK
<1>4. \A h \in Homes : /\ reg[h] \in Registries /\ reg'[h] \in Registries
                       /\ SameUids(reg[h], reg'[h])
  <2> SUFFICES ASSUME NEW h \in Homes
               PROVE  /\ reg[h] \in Registries /\ reg'[h] \in Registries
                      /\ SameUids(reg[h], reg'[h])
    OBVIOUS
  <2>1. CASE h = Home(s)  BY <1>1, <1>2, <1>3, <2>1 DEF TypeOK, Registry
  <2>2. CASE h # Home(s)  BY <1>1, <1>3, <2>2, SameUidsOrder DEF TypeOK
  <2> QED  BY <2>1, <2>2
<1>5. TypeOK'
  <2>1. file' \in Files
    <3>1. Remote(s) \in BOOLEAN  BY DEF Remote
    <3>2. [registry |-> Registry(s), exists |-> TRUE, own |-> Remote(s)] \in Files
      BY <1>1, <3>1 DEF Files
    <3> QED  BY <1>1, <1>2, <3>2 DEF TypeOK
  <2>2. reg' \in [Homes -> Registries] /\ ses' \in [Sessions -> SessionRecords]
    BY <1>1, <1>2 DEF TypeOK
  <2> QED  BY <2>1, <2>2 DEF TypeOK
<1>6. Server \in Homes /\ s \in Homes  BY DEF Homes
\* The other runs.
<1>7. ASSUME NEW u \in Sessions, u # s
      PROVE  /\ ses'[u] = ses[u] /\ Home(u)' = Home(u) /\ Home(u) \in Homes
             /\ (Running(u)' <=> Running(u)) /\ Cmd(u)' = Cmd(u)
             /\ Registry(u)' = reg'[Home(u)] /\ SameUids(Registry(u), Registry(u)')
             /\ Registry(u)' \in Registries
  <2>1. /\ ses'[u] = ses[u] /\ Home(u)' = Home(u) /\ Home(u) \in Homes
        /\ (Running(u)' <=> Running(u)) /\ Cmd(u)' = Cmd(u)
    BY <1>3, <1>7 DEF Home, Homes, Running, Remote, Local, Cmd
  <2> QED  BY <1>4, <2>1 DEF Registry
\* The run itself.
<1>8. x = Over => /\ x.cache = [k \in Keys |-> None] /\ x.target = None
                  /\ x.token = None /\ x.scratch = None /\ x.mode = "over"
  BY DEF Over, Fresh
<1>9. Kept(s, r, x) => /\ Home(s)' = Home(s) /\ Registry(s)' = r /\ Running(s)'
                       /\ Cmd(s)' = x.cmd
  BY <1>2, <1>3 DEF Kept, Home, Remote, Local, Running, Registry, Cmd
<1>10. x = Over => ~Running(s)'
  BY <1>3, <1>8 DEF Running, Remote, Local
<1>11. MirrorsAgree'
  <2>1. file'.own => SameUids(file'.registry, reg'[Server])
    <3>1. CASE file' = file
      <4>1. file.own => file.registry \in Registries /\ SameUids(file.registry, reg[Server])
        BY <1>1 DEF Inv, MirrorsAgree, TypeOK, Files
      <4> QED  BY <1>4, <1>6, <3>1, <4>1, SameUidsOrder
    <3>2. CASE file' = [registry |-> Registry(s), exists |-> TRUE, own |-> Remote(s)]
      <4>1. file'.registry = Registry(s) /\ (file'.own => Home(s) = Server)
        BY <3>2 DEF Home
      <4> QED  BY <1>2, <1>3, <4>1
    <3> QED  BY <1>2, <3>1, <3>2
  <2>2. ASSUME NEW u \in Sessions, ses'[u].scratch # None, ses'[u].scratch.own
        PROVE  SameUids(ses'[u].scratch.registry, reg'[Server])
    <3>1. CASE u = s
      <4>1. x # Over  BY <1>3, <1>8, <2>2, <3>1
      <4> QED  BY <1>2, <1>3, <2>2, <3>1, <4>1 DEF Kept
    <3>2. CASE u # s
      <4>1. /\ ses'[u].scratch = ses[u].scratch /\ ses[u].scratch.registry \in Registries
            /\ SameUids(ses[u].scratch.registry, reg[Server])
        BY <1>1, <1>3, <2>2, <3>2 DEF Inv, MirrorsAgree, TypeOK, SessionRecords, Files
      <4> QED  BY <1>4, <1>6, <4>1, SameUidsOrder
    <3> QED  BY <3>1, <3>2
  <2> QED  BY <2>1, <2>2 DEF MirrorsAgree
<1>12. CachesAgree'
  <2> SUFFICES ASSUME NEW u \in Sessions, NEW k \in Keys, ses'[u].cache[k] # None
               PROVE  /\ Registry(u)'.modules[k] # None
                      /\ Registry(u)'.modules[k].uid = ses'[u].cache[k].uid
    BY DEF CachesAgree
  <2>1. CASE u = s
    <3>1. x # Over  BY <1>3, <1>8, <2>1
    <3> QED  BY <1>2, <1>3, <1>9, <2>1, <3>1 DEF Kept
  <2>2. CASE u # s
    <3>1. /\ Registry(u).modules[k] # None
          /\ Registry(u).modules[k].uid = ses[u].cache[k].uid
      BY <1>7, <2>2 DEF Inv, CachesAgree
    <3> QED  BY <1>7, <2>2, <3>1 DEF SameUids
  <2> QED  BY <2>1, <2>2
<1>13. TargetsFit'
  <2> SUFFICES ASSUME NEW u \in Sessions, ses'[u].target # None
               PROVE  /\ Cmd(u)' # None /\ Cmd(u)'.kind \in Keyed
                      /\ ses'[u].target.how = "remote" => ses'[u].scratch # None
    BY DEF TargetsFit
  <2>1. CASE u = s
    <3>1. x # Over  BY <1>3, <1>8, <2>1
    <3> QED  BY <1>2, <1>3, <1>9, <2>1, <3>1 DEF Kept
  <2>2. CASE u # s
    BY <1>7, <2>2 DEF Inv, TargetsFit
  <2> QED  BY <2>1, <2>2
<1>14. NothingBefore'
  <2> SUFFICES ASSUME NEW u \in Sessions, NEW k \in Keys, ses'[u].mode = "off"
               PROVE  /\ file'.registry.modules[k] # None => file'.registry.modules[k].by # u
                      /\ \A h \in Homes : reg'[h].modules[k] # None => reg'[h].modules[k].by # u
    BY DEF NothingBefore
  <2>1. u # s
    BY <1>2, <1>3, <1>8 DEF Kept, Running, Remote, Local
  <2>2. ses[u].mode = "off"  BY <1>7, <2>1
  <2>3. /\ file.registry.modules[k] # None => file.registry.modules[k].by # u
        /\ \A h \in Homes : reg[h].modules[k] # None => reg[h].modules[k].by # u
    BY <2>2 DEF Inv, NothingBefore
  <2>4. \A h \in Homes : reg'[h].modules[k] # None => reg'[h].modules[k].by # u
    <3>1. r.modules[k] = Registry(s).modules[k] \/ r.modules[k].by = s
      BY DEF SessionStep, Grown
    <3> QED  BY <1>1, <1>3, <2>1, <2>3, <3>1 DEF Registry
  <2>5. file'.registry \in {file.registry, Registry(s)}  BY <1>2
  <2> QED  BY <1>1, <2>3, <2>4, <2>5 DEF Registry
<1>15. AddressedAsAsked'
  <2> SUFFICES ASSUME NEW u \in Sessions, ses'[u].target # None,
                      ses'[u].target.how # "explicit",
                      ses'[u].target.how = "remote" => ses'[u].scratch.own
               PROVE  /\ Registry(u)'.modules[Cmd(u)'.key] # None
                      /\ Registry(u)'.modules[Cmd(u)'.key].uid = ses'[u].target.uid
    BY DEF AddressedAsAsked
  <2>1. CASE u = s
    <3>1. x # Over  BY <1>3, <1>8, <2>1
    <3> QED  BY <1>2, <1>3, <1>9, <2>1, <3>1 DEF Kept
  <2>2. CASE u # s
    <3>1. /\ Registry(u).modules[Cmd(u).key] # None
          /\ Registry(u).modules[Cmd(u).key].uid = ses[u].target.uid
      BY <1>7, <2>2 DEF Inv, AddressedAsAsked
    <3>2. Cmd(u) \in Commands /\ Cmd(u).kind \in Keyed
      BY <1>1, <1>7, <2>2 DEF Inv, TargetsFit, TypeOK, SessionRecords, Cmd
    <3>3. Cmd(u).key \in Keys  BY <3>2, CommandFacts
    <3> QED  BY <1>7, <2>2, <3>1, <3>3 DEF SameUids
  <2> QED  BY <2>1, <2>2
<1>16. CachedIsOwnLatest'
  <2> SUFFICES ASSUME NEW u \in Sessions, NEW k \in Keys, Running(u)',
                      Registry(u)'.modules[k] # None, Registry(u)'.modules[k].by = u
               PROVE  ses'[u].cache[k] = Handle(Registry(u)'.modules[k])
    BY DEF CachedIsOwnLatest
  <2>1. CASE u = s
    <3>1. x # Over  BY <1>10, <2>1
    <3> QED  BY <1>2, <1>3, <1>9, <2>1, <3>1 DEF Kept
  <2>2. CASE u # s
    <3>1. r.modules[k] = Registry(s).modules[k] \/ r.modules[k].by = s
      BY DEF SessionStep, Grown
    <3>2. Registry(u)'.modules[k] = Registry(u).modules[k]
      BY <1>1, <1>3, <1>7, <2>2, <3>1 DEF Registry
    <3> QED  BY <1>7, <2>2, <3>2 DEF Inv, CachedIsOwnLatest
  <2> QED  BY <2>1, <2>2
<1>17. TokensNamed' /\ TokensStay'
  <2> SUFFICES ASSUME NEW u \in Sessions, Running(u)', ses'[u].token # None,
                      Home(u)' \notin fenced'
               PROVE  /\ Registry(u)'.instance = CliInstance
                      /\ ses'[u].token = Registry(u)'.epoch
    BY DEF TokensNamed, TokensStay
  <2>1. CASE u = s
    <3>1. x # Over  BY <1>10, <2>1
    <3> QED  BY <1>2, <1>3, <1>9, <2>1, <3>1 DEF Kept
  <2>2. CASE u # s
    <3>1. /\ Registry(u).instance = CliInstance /\ ses[u].token = Registry(u).epoch
          /\ Home(u) \notin fenced'
      BY <1>2, <1>7, <2>2 DEF Inv, TokensNamed, TokensStay
    <3>2. CASE Home(u) = Home(s)
      <4>1. r.epoch = Registry(s).epoch /\ r.instance = CliInstance
        BY <3>1, <3>2 DEF SessionStep, Grown, Registry
      <4> QED  BY <1>3, <1>7, <2>2, <3>1, <3>2, <4>1 DEF Registry
    <3>3. CASE Home(u) # Home(s)
      BY <1>3, <1>7, <2>2, <3>1, <3>3 DEF Registry
    <3> QED  BY <3>2, <3>3
  <2> QED  BY <2>1, <2>2
<1> QED
  BY <1>5, <1>11, <1>12, <1>13, <1>14, <1>15, <1>16, <1>17 DEF Inv

-----------------------------------------------------------------------------
(* How the actions end.                                                    *)

\* A run is over with nothing in hand.
LEMMA OverType == Over \in SessionRecords
  BY DEF Over, Fresh, SessionRecords

\* The run ends here.
LEMMA ExitInv ==
  ASSUME Inv, NEW s \in Sessions, NEW r, Grown(s, r), Exit(s)
  PROVE  Inv'
  BY OverType, StepInv DEF SessionStep, Exit, Set

\* The run goes on.
LEMMA GoOnInv ==
  ASSUME Inv, NEW s \in Sessions, NEW r, Grown(s, r), NEW x \in SessionRecords,
         Kept(s, r, x), Set(s, x)
  PROVE  Inv'
  BY StepInv DEF SessionStep, Set

\* The subcommand is over, and maybe the run.
LEMMA FinishInv ==
  ASSUME Inv, NEW s \in Sessions, NEW r, Grown(s, r), NEW y \in SessionRecords,
         Kept(s, r, y), Finish(s, y) \/ Lost(s)
  PROVE  Inv'
<1> DEFINE x == [y EXCEPT !.cmd = None, !.target = None, !.stage = 0]
<1>1. x \in SessionRecords
  <2>1. None \in Commands \cup {None} /\ None \in Targets \cup {None} /\ 0 \in 0..2
    OBVIOUS
  <2>2. DOMAIN x = {"mode", "cmd", "target", "token", "cache", "scratch", "stage"}
    BY DEF SessionRecords
  <2>3. /\ y.mode \in {"off", "remote", "local", "over"} /\ y.token \in Nat \cup {None}
        /\ y.cache \in [Keys -> Handles \cup {None}] /\ y.scratch \in Files \cup {None}
    BY DEF SessionRecords
  <2>4. /\ x.mode = y.mode /\ x.token = y.token /\ x.cache = y.cache /\ x.scratch = y.scratch
        /\ x.cmd = None /\ x.target = None /\ x.stage = 0
    BY DEF SessionRecords
  <2>5. x = [i \in DOMAIN x |-> x[i]]
    OBVIOUS
  <2> HIDE DEF x
  <2> QED  BY <2>1, <2>2, <2>3, <2>4, <2>5, SMTT(30) DEF SessionRecords
<1>2. /\ x.mode = y.mode /\ x.cache = y.cache /\ x.scratch = y.scratch
      /\ x.token = y.token /\ x.target = None
  BY DEF SessionRecords
<1>3. Set(s, x) \/ Exit(s)
  BY DEF Finish, Lost
<1> HIDE DEF x
<1>4. Kept(s, r, x)
  BY <1>2 DEF Kept
<1> QED  BY <1>1, <1>3, <1>4, ExitInv, GoOnInv

\* What a run keeps still fits when the modules of its registry are as before.
LEMMA SameModulesKept ==
  ASSUME Inv, NEW s \in Sessions, NEW r, Grown(s, r),
         r.modules = Registry(s).modules
  PROVE  ses[s] \in SessionRecords /\ Kept(s, r, ses[s])
<1> USE RegistryAssumption
<1>1. ses[s] \in SessionRecords  BY DEF Inv, TypeOK
<1>2. Running(s) /\ Home(s) \in Homes  BY DEF Grown, Home, Homes
<1>3. SameUids(reg[Server], reg'[Server])
  <2>1. Server \in Homes /\ reg[Server] \in Registries  BY DEF Inv, TypeOK, Homes
  <2> QED  BY <1>2, <2>1, SameUidsOrder DEF Grown, Registry, Inv, TypeOK
<1>4. \A k \in Keys :
         /\ ses[s].cache[k] # None =>
               r.modules[k] # None /\ r.modules[k].uid = ses[s].cache[k].uid
         /\ r.modules[k] # None /\ r.modules[k].by = s =>
               ses[s].cache[k] = Handle(r.modules[k])
  BY <1>2 DEF Inv, CachesAgree, CachedIsOwnLatest
<1>5. ses[s].scratch # None /\ ses[s].scratch.own =>
         SameUids(ses[s].scratch.registry, reg'[Server])
  BY <1>3 DEF Inv, MirrorsAgree, SameUids
<1>6. ses[s].target # None =>
         /\ ses[s].cmd # None /\ ses[s].cmd.kind \in Keyed
         /\ ses[s].target.how = "remote" => ses[s].scratch # None
         /\ ses[s].target.how # "explicit"
               /\ (ses[s].target.how = "remote" => ses[s].scratch.own) =>
               /\ r.modules[ses[s].cmd.key] # None
               /\ r.modules[ses[s].cmd.key].uid = ses[s].target.uid
  BY DEF Inv, TargetsFit, AddressedAsAsked, Cmd
<1>7. ses[s].token # None /\ Home(s) \notin fenced' =>
         ses[s].token = r.epoch /\ r.instance = CliInstance
  BY <1>2 DEF Inv, TokensNamed, TokensStay, Grown
<1> QED  BY <1>1, <1>4, <1>5, <1>6, <1>7 DEF Kept

\* The registry may well stay as it is.
LEMMA SameRegistry ==
  ASSUME Inv, NEW s \in Sessions, Running(s), reg' = reg, fenced \subseteq fenced',
         file' \in {file, [registry |-> Registry(s), exists |-> TRUE, own |-> Remote(s)]}
  PROVE  Grown(s, Registry(s))
<1>1. Home(s) \in Homes /\ Registry(s) \in Registries
  BY DEF Inv, TypeOK, Home, Homes, Registry
<1>2. reg' = [reg EXCEPT ![Home(s)] = Registry(s)]
  BY <1>1 DEF Inv, TypeOK, Registry
<1> QED  BY <1>1, <1>2, SameUidsOrder DEF Grown

\* module.register, and the handle in its answer is cached.
LEMMA RegisteredKept ==
  ASSUME Inv, NEW s \in Sessions, Running(s), NEW k \in Keys, NEW intent,
         Commit(s, RegisterModule(Registry(s), k, intent, s)),
         UNCHANGED <<file, fenced>>
  PROVE  LET r == RegisterModule(Registry(s), k, intent, s)
             y == [ses[s] EXCEPT !.cache[k] = Handle(r.modules[k])]
         IN  /\ Grown(s, r) /\ r.modules[k] # None
             /\ y \in SessionRecords /\ Kept(s, r, y)
<1> USE RegistryAssumption
<1> DEFINE q == Registry(s)
           r == RegisterModule(q, k, intent, s)
           h == Handle(r.modules[k])
           y == [ses[s] EXCEPT !.cache[k] = h]
<1>1. Home(s) \in Homes /\ q \in Registries /\ ses[s] \in SessionRecords
  BY DEF Inv, TypeOK, Home, Homes, Registry
<1>2. /\ r \in Registries /\ SameUids(q, r)
      /\ r.epoch = q.epoch /\ r.instance = q.instance /\ r.modules[k] # None
      /\ \A x \in Keys : r.modules[x] = q.modules[x] \/ (x = k /\ r.modules[x].by = s)
  BY <1>1, RegisterModuleFacts
<1>3. reg' = [reg EXCEPT ![Home(s)] = r]  BY DEF Commit
<1> HIDE DEF r
<1>4. h \in Handles /\ h.uid = r.modules[k].uid
  BY <1>2, HandleType DEF Registries
<1>5. Grown(s, r)  BY <1>2, <1>3 DEF Grown
<1> HIDE DEF h
<1>6. /\ y \in SessionRecords
      /\ y.mode = ses[s].mode /\ y.cmd = ses[s].cmd /\ y.target = ses[s].target
      /\ y.token = ses[s].token /\ y.scratch = ses[s].scratch
      /\ y.cache[k] = h /\ \A x \in Keys : x # k => y.cache[x] = ses[s].cache[x]
  BY <1>1, <1>4 DEF SessionRecords
<1> HIDE DEF y
<1>7. \A x \in Keys :
         /\ y.cache[x] # None => r.modules[x] # None /\ r.modules[x].uid = y.cache[x].uid
         /\ r.modules[x] # None /\ r.modules[x].by = s => y.cache[x] = Handle(r.modules[x])
  <2> SUFFICES ASSUME NEW x \in Keys
               PROVE  /\ y.cache[x] # None =>
                            r.modules[x] # None /\ r.modules[x].uid = y.cache[x].uid
                      /\ r.modules[x] # None /\ r.modules[x].by = s =>
                            y.cache[x] = Handle(r.modules[x])
    OBVIOUS
  <2>1. CASE x = k  BY <1>2, <1>4, <1>6, <2>1 DEF h
  <2>2. CASE x # k
    <3>1. r.modules[x] = Registry(s).modules[x] /\ y.cache[x] = ses[s].cache[x]
      BY <1>2, <1>6, <2>2
    <3> QED  BY <3>1 DEF Inv, CachesAgree, CachedIsOwnLatest
  <2> QED  BY <2>1, <2>2
<1>8. y.scratch # None /\ y.scratch.own => SameUids(y.scratch.registry, reg'[Server])
  <2> SUFFICES ASSUME ses[s].scratch # None, ses[s].scratch.own
               PROVE  SameUids(ses[s].scratch.registry, reg'[Server])
    BY <1>6
  <2>1. /\ ses[s].scratch.registry \in Registries /\ Server \in Homes
        /\ reg[Server] \in Registries /\ SameUids(ses[s].scratch.registry, reg[Server])
    BY <1>1 DEF Inv, MirrorsAgree, TypeOK, SessionRecords, Files, Homes
  <2>2. /\ reg'[Server] \in Registries /\ SameUids(reg[Server], reg'[Server])
    BY <1>1, <1>2, <1>3, <2>1, SameUidsOrder DEF Inv, TypeOK, Registry
  <2> QED  BY <2>1, <2>2, SameUidsOrder
<1>9. y.target # None =>
         /\ y.cmd # None /\ y.cmd.kind \in Keyed
         /\ y.target.how = "remote" => y.scratch # None
         /\ y.target.how # "explicit" /\ (y.target.how = "remote" => y.scratch.own) =>
               r.modules[y.cmd.key] # None /\ r.modules[y.cmd.key].uid = y.target.uid
  <2> SUFFICES ASSUME ses[s].target # None
               PROVE  /\ ses[s].cmd # None /\ ses[s].cmd.kind \in Keyed
                      /\ ses[s].target.how = "remote" => ses[s].scratch # None
                      /\ ses[s].target.how # "explicit"
                         /\ (ses[s].target.how = "remote" => ses[s].scratch.own) =>
                            /\ r.modules[ses[s].cmd.key] # None
                            /\ r.modules[ses[s].cmd.key].uid = ses[s].target.uid
    BY <1>6
  <2>1. /\ ses[s].cmd # None /\ ses[s].cmd.kind \in Keyed
        /\ ses[s].target.how = "remote" => ses[s].scratch # None
    BY DEF Inv, TargetsFit, Cmd
  <2>2. ses[s].cmd \in Commands  BY <1>1, <2>1 DEF SessionRecords
  <2>3. ses[s].cmd.key \in Keys  BY <2>1, <2>2, CommandFacts
  <2> QED  BY <1>2, <2>1, <2>3 DEF Inv, AddressedAsAsked, Cmd, SameUids
<1>10. y.token # None /\ Home(s) \notin fenced' =>
          y.token = r.epoch /\ r.instance = CliInstance
  BY <1>2, <1>6 DEF Inv, TokensNamed, TokensStay
<1>11. Kept(s, r, y)
  BY <1>6, <1>7, <1>8, <1>9, <1>10 DEF Kept
<1> QED  BY <1>2, <1>5, <1>6, <1>11 DEF r, y, h

-----------------------------------------------------------------------------
(* The actions.                                                            *)

\* A run starts: with its own copy of the file's registry, or with the server's.
LEMMA RunInv ==
  ASSUME Inv, NEW s \in Sessions, run(s)
  PROVE  Inv'
<1> USE RegistryAssumption
<1>1. ses[s].mode = "off" /\ UNCHANGED <<file, fenced>>  BY DEF run
<1>2. PICK mode \in {"remote", "local", "over"} :
         /\ ses' = [ses EXCEPT ![s] = [Fresh EXCEPT !.mode = mode]]
         /\ reg' = IF mode = "local" THEN [reg EXCEPT ![s] = file.registry] ELSE reg
  BY DEF run, Set, Over
<1> DEFINE x == [Fresh EXCEPT !.mode = mode]
<1>3. /\ x \in SessionRecords /\ x.mode = mode
      /\ x.cache = [k \in Keys |-> None] /\ x.target = None /\ x.token = None
      /\ x.scratch = None
  BY DEF Fresh, SessionRecords
<1> HIDE DEF x
<1>4. /\ ses' = [ses EXCEPT ![s] = x] /\ ses \in [Sessions -> SessionRecords]
      /\ ses'[s] = x /\ \A u \in Sessions : u # s => ses'[u] = ses[u]
  BY <1>2 DEF Inv, TypeOK, x
<1>5. /\ file.registry \in Registries /\ reg \in [Homes -> Registries]
      /\ Server \in Homes /\ s \in Homes /\ s # Server
  BY DEF Inv, TypeOK, Files, Homes
<1>6. /\ reg' \in [Homes -> Registries] /\ reg'[Server] = reg[Server]
      /\ \A h \in Homes : h # s => reg'[h] = reg[h]
      /\ mode # "local" => reg'[s] = reg[s]
      /\ mode = "local" => reg'[s] = file.registry
  BY <1>2, <1>5
<1>7. TypeOK'  BY <1>1, <1>3, <1>4, <1>6 DEF Inv, TypeOK
<1>8. ASSUME NEW u \in Sessions, u # s
      PROVE  /\ ses'[u] = ses[u] /\ Home(u)' = Home(u) /\ Cmd(u)' = Cmd(u)
             /\ (Running(u)' <=> Running(u)) /\ Registry(u)' = Registry(u)
  <2>1. /\ ses'[u] = ses[u] /\ Home(u)' = Home(u) /\ Home(u) # s /\ Home(u) \in Homes
        /\ Cmd(u)' = Cmd(u) /\ (Running(u)' <=> Running(u))
    BY <1>4, <1>5, <1>8 DEF Home, Homes, Remote, Local, Running, Cmd
  <2> QED  BY <1>6, <2>1 DEF Registry
<1>9. MirrorsAgree'
  BY <1>1, <1>3, <1>4, <1>6 DEF Inv, MirrorsAgree, SameUids
<1>10. CachesAgree'
  <2> SUFFICES ASSUME NEW u \in Sessions, NEW k \in Keys, ses'[u].cache[k] # None
               PROVE  /\ Registry(u)'.modules[k] # None
                      /\ Registry(u)'.modules[k].uid = ses'[u].cache[k].uid
    BY DEF CachesAgree
  <2>1. u # s  BY <1>3, <1>4
  <2> QED  BY <1>8, <2>1 DEF Inv, CachesAgree
<1>11. TargetsFit'
  <2> SUFFICES ASSUME NEW u \in Sessions, ses'[u].target # None
               PROVE  /\ Cmd(u)' # None /\ Cmd(u)'.kind \in Keyed
                      /\ ses'[u].target.how = "remote" => ses'[u].scratch # None
    BY DEF TargetsFit
  <2>1. u # s  BY <1>3, <1>4
  <2> QED  BY <1>8, <2>1 DEF Inv, TargetsFit
<1>12. AddressedAsAsked'
  <2> SUFFICES ASSUME NEW u \in Sessions, ses'[u].target # None,
                      ses'[u].target.how # "explicit",
                      ses'[u].target.how = "remote" => ses'[u].scratch.own
               PROVE  /\ Registry(u)'.modules[Cmd(u)'.key] # None
                      /\ Registry(u)'.modules[Cmd(u)'.key].uid = ses'[u].target.uid
    BY DEF AddressedAsAsked
  <2>1. u # s  BY <1>3, <1>4
  <2> QED  BY <1>8, <2>1 DEF Inv, AddressedAsAsked
<1>13. NothingBefore'
  <2> SUFFICES ASSUME NEW u \in Sessions, NEW k \in Keys, ses'[u].mode = "off"
               PROVE  /\ file'.registry.modules[k] # None => file'.registry.modules[k].by # u
                      /\ \A h \in Homes : reg'[h].modules[k] # None => reg'[h].modules[k].by # u
    BY DEF NothingBefore
  <2>1. u # s  BY <1>3, <1>4
  <2>2. /\ file.registry.modules[k] # None => file.registry.modules[k].by # u
        /\ \A h \in Homes : reg[h].modules[k] # None => reg[h].modules[k].by # u
    BY <1>8, <2>1 DEF Inv, NothingBefore
  <2> QED  BY <1>1, <1>5, <1>6, <2>2
<1>14. CachedIsOwnLatest'
  <2> SUFFICES ASSUME NEW u \in Sessions, NEW k \in Keys, Running(u)',
                      Registry(u)'.modules[k] # None, Registry(u)'.modules[k].by = u
               PROVE  ses'[u].cache[k] = Handle(Registry(u)'.modules[k])
    BY DEF CachedIsOwnLatest
  <2>1. CASE u = s
    <3>1. /\ file.registry.modules[k] # None => file.registry.modules[k].by # s
          /\ \A h \in Homes : reg[h].modules[k] # None => reg[h].modules[k].by # s
      BY <1>1 DEF Inv, NothingBefore
    <3>2. Registry(s)' \in {file.registry} \cup {reg[h] : h \in Homes}
      <4>1. Home(s)' \in Homes  BY <1>5 DEF Home
      <4> QED  BY <1>5, <1>6, <4>1 DEF Registry
    <3> QED  BY <2>1, <3>1, <3>2
  <2>2. CASE u # s
    BY <1>8, <2>2 DEF Inv, CachedIsOwnLatest
  <2> QED  BY <2>1, <2>2
<1>15. TokensNamed' /\ TokensStay'
  <2> SUFFICES ASSUME NEW u \in Sessions, Running(u)', ses'[u].token # None,
                      Home(u)' \notin fenced'
               PROVE  /\ Registry(u)'.instance = CliInstance
                      /\ ses'[u].token = Registry(u)'.epoch
    BY DEF TokensNamed, TokensStay
  <2>1. u # s  BY <1>3, <1>4
  <2> QED  BY <1>1, <1>8, <2>1 DEF Inv, TokensNamed, TokensStay
<1> QED  BY <1>7, <1>9, <1>10, <1>11, <1>12, <1>13, <1>14, <1>15 DEF Inv

\* The next subcommand: nothing is resolved for it yet.
LEMMA ParseInv ==
  ASSUME Inv, NEW s \in Sessions, parse_arguments(s)
  PROVE  Inv'
<1> DEFINE r == Registry(s)
<1>1. Running(s) /\ Cmd(s) = None /\ UNCHANGED <<reg, file, fenced>>
  BY DEF parse_arguments
<1>2. Grown(s, r)  BY <1>1, SameRegistry
<1>3. ses[s] \in SessionRecords /\ Kept(s, r, ses[s])
  BY <1>2, SameModulesKept
<1>4. PICK c \in Commands : Set(s, [ses[s] EXCEPT !.cmd = c])
  BY DEF parse_arguments
<1> DEFINE x == [ses[s] EXCEPT !.cmd = c]
<1>5. x \in SessionRecords  BY <1>3 DEF SessionRecords
<1>6. /\ x.mode = ses[s].mode /\ x.cache = ses[s].cache /\ x.scratch = ses[s].scratch
      /\ x.token = ses[s].token /\ x.target = ses[s].target
  BY <1>3 DEF SessionRecords
<1>7. ses[s].target = None  BY <1>1 DEF Inv, TargetsFit
<1> HIDE DEF x, r
<1>8. Kept(s, r, x)  BY <1>3, <1>6, <1>7 DEF Kept
<1> QED  BY <1>2, <1>4, <1>5, <1>8, GoOnInv DEF x

\* The mirror is an older state of the server, or another registry's file.
LEMMA MirrorInv ==
  ASSUME Inv, NEW s \in Sessions, ensure_scratch(s)
  PROVE  Inv'
<1> DEFINE r == Registry(s)
<1>1. Remote(s) /\ Running(s) /\ ses[s].scratch = None /\ UNCHANGED <<reg, file, fenced>>
  BY DEF ensure_scratch, Running
<1>2. Grown(s, r)  BY <1>1, SameRegistry
<1>3. ses[s] \in SessionRecords /\ Kept(s, r, ses[s])
  BY <1>2, SameModulesKept
<1>4. PICK m \in {file, NoFile} : Set(s, [ses[s] EXCEPT !.scratch = m])
  BY DEF ensure_scratch
<1> DEFINE x == [ses[s] EXCEPT !.scratch = m]
<1>5. NoFile \in Files /\ ~NoFile.own
  BY DEF NoFile, Files, Registries, Empty
<1>6. m \in Files /\ (m.own => SameUids(m.registry, reg[Server]))
  BY <1>4, <1>5 DEF Inv, TypeOK, MirrorsAgree
<1>7. x \in SessionRecords  BY <1>3, <1>6 DEF SessionRecords
<1>8. /\ x.mode = ses[s].mode /\ x.cache = ses[s].cache /\ x.scratch = m
      /\ x.token = ses[s].token /\ x.target = ses[s].target /\ x.cmd = ses[s].cmd
  BY <1>3 DEF SessionRecords
<1>9. ses[s].target # None => ses[s].target.how # "remote"
  BY <1>1 DEF Inv, TargetsFit
<1> HIDE DEF x, r
<1>10. Kept(s, r, x)  BY <1>1, <1>3, <1>6, <1>8, <1>9 DEF Kept, SameUids
<1> QED  BY <1>2, <1>4, <1>7, <1>10, GoOnInv DEF x

\* The token a run takes is of the epoch of the instance all runs share.
LEMMA SourceInv ==
  ASSUME Inv, NEW s \in Sessions, EnsureSource(s)
  PROVE  Inv'
<1> DEFINE r == RegisterSource(Registry(s), CliInstance)
           x == [ses[s] EXCEPT !.token = r.epoch]
<1>1. /\ Running(s) /\ Commit(s, r) /\ (Set(s, x) \/ Exit(s))
      /\ UNCHANGED <<file, fenced>>
  BY DEF EnsureSource, NeedsToken, MustRegister, Unknown, At, Lost
<1>2. Registry(s) \in Registries /\ CliInstance \in Instances \cup {CliInstance, None}
  BY DEF Inv, TypeOK, Home, Homes, Registry
<1>3. /\ r \in Registries /\ r.modules = Registry(s).modules /\ r.instance = CliInstance
      /\ Registry(s).instance = CliInstance => r.epoch = Registry(s).epoch
  BY <1>2, RegisterSourceFacts
<1> HIDE DEF r
<1>4. Grown(s, r)
  BY <1>1, <1>3 DEF Grown, Commit, SameUids
<1>5. ses[s] \in SessionRecords /\ Kept(s, r, ses[s])
  BY <1>3, <1>4, SameModulesKept
<1>6. x \in SessionRecords  BY <1>3, <1>5 DEF SessionRecords, Registries
<1>7. /\ x.mode = ses[s].mode /\ x.cache = ses[s].cache /\ x.scratch = ses[s].scratch
      /\ x.token = r.epoch /\ x.target = ses[s].target /\ x.cmd = ses[s].cmd
  BY <1>5 DEF SessionRecords
<1> HIDE DEF x
<1>8. Kept(s, r, x)  BY <1>3, <1>5, <1>7 DEF Kept
<1> QED  BY <1>1, <1>4, <1>6, <1>8, ExitInv, GoOnInv

\* The handle that is resolved by look-up is of the key.
LEMMA ResolveInv ==
  ASSUME Inv, NEW s \in Sessions, resolve_module(s)
  PROVE  Inv'
<1> DEFINE r == Registry(s)
           t == Resolved(s)
           x == [ses[s] EXCEPT !.target = t]
<1>1. /\ Running(s) /\ Cmd(s) # None /\ Cmd(s).kind \in Keyed /\ ses[s].target = None
      /\ t # None /\ Set(s, x) /\ UNCHANGED <<reg, file, fenced>>
  BY DEF resolve_module, At
<1>2. Grown(s, r)  BY <1>1, SameRegistry
<1>3. ses[s] \in SessionRecords /\ Kept(s, r, ses[s])
  BY <1>2, SameModulesKept
<1>4. Cmd(s) \in Commands /\ r \in Registries
  BY <1>1, <1>2, <1>3 DEF SessionRecords, Cmd, Grown
<1>5. Cmd(s).key \in Keys /\ (Cmd(s).given # None => Cmd(s).given \in Handles)
  BY <1>1, <1>4, CommandFacts
<1> DEFINE cached == ses[s].cache[Cmd(s).key]
<1>6. cached \in Handles \cup {None}  BY <1>3, <1>5 DEF SessionRecords
<1>7. /\ cached # None => t = Target(cached, "cached")
      /\ cached = None /\ Cmd(s).given # None => t = Target(Cmd(s).given, "explicit")
      /\ cached = None /\ Cmd(s).given = None =>
            Known(s) # None /\ t = Target(Known(s), ses[s].mode)
  BY <1>1 DEF Resolved, Unknown, At
<1> HIDE DEF t
\* What is to be shown of the handle.
<1> DEFINE Good == /\ t \in Targets
                   /\ t.how = "remote" => ses[s].scratch # None
                   /\ t.how # "explicit" /\ (t.how = "remote" => ses[s].scratch.own) =>
                         r.modules[Cmd(s).key] # None /\ r.modules[Cmd(s).key].uid = t.uid
<1>8. ASSUME cached # None PROVE Good
  <2>1. t = Target(cached, "cached")  BY <1>7, <1>8
  <2>2. t \in Targets /\ t.how = "cached" /\ t.uid = cached.uid
    BY <1>6, <1>8, <2>1 DEF Target, Targets, Handles
  <2>3. r.modules[Cmd(s).key] # None /\ r.modules[Cmd(s).key].uid = cached.uid
    BY <1>5, <1>8 DEF Inv, CachesAgree
  <2> HIDE DEF r
  <2> QED  BY <2>2, <2>3
<1>9. ASSUME cached = None, Cmd(s).given # None PROVE Good
  <2>1. t = Target(Cmd(s).given, "explicit")  BY <1>7, <1>9
  <2>2. t \in Targets /\ t.how = "explicit"
    BY <1>5, <1>9, <2>1 DEF Target, Targets, Handles
  <2> QED  BY <2>2
<1>10. ASSUME cached = None, Cmd(s).given = None PROVE Good
  <2>1. t = Target(Known(s), ses[s].mode) /\ Known(s) # None
    BY <1>7, <1>10
  <2>2. ASSUME Local(s) PROVE Good
    <3>1. Known(s) = r.modules[Cmd(s).key]  BY <2>2 DEF Known, Local, Remote
    <3>2. Known(s) \in Module  BY <1>4, <1>5, <2>1, <3>1 DEF Registries
    <3>3. t \in Targets /\ t.how = "local" /\ t.uid = Known(s).uid
      BY <2>1, <2>2, <3>2 DEF Target, Targets, Module, Local
    <3> HIDE DEF r
    <3> QED  BY <2>1, <3>1, <3>3
  <2>3. ASSUME ~Local(s) PROVE Good
    <3>1. Remote(s) /\ ses[s].scratch # None /\ Known(s) = InMirror(s) /\ ses[s].scratch.exists
      BY <1>1, <2>1, <2>3 DEF Known, Running, InMirror
    <3>2. /\ Known(s) = ses[s].scratch.registry.modules[Cmd(s).key]
          /\ ses[s].scratch.registry \in Registries
      BY <1>3, <3>1 DEF InMirror, SessionRecords, Files
    <3>3. Known(s) \in Module  BY <1>5, <2>1, <3>2 DEF Registries
    <3>4. t \in Targets /\ t.how = "remote" /\ t.uid = Known(s).uid
      BY <2>1, <3>1, <3>3 DEF Target, Targets, Module, Remote
    <3>5. ses[s].scratch.own => /\ r.modules[Cmd(s).key] # None
                                /\ r.modules[Cmd(s).key].uid = Known(s).uid
      BY <1>5, <2>1, <3>1, <3>2 DEF Inv, MirrorsAgree, SameUids, Registry, Home
    <3> HIDE DEF r
    <3> QED  BY <3>1, <3>4, <3>5
  <2> QED  BY <2>2, <2>3
<1>11. Good  BY <1>8, <1>9, <1>10
<1>12. x \in SessionRecords  BY <1>3, <1>11 DEF SessionRecords
<1>13. /\ x.mode = ses[s].mode /\ x.cache = ses[s].cache /\ x.scratch = ses[s].scratch
       /\ x.token = ses[s].token /\ x.target = t /\ x.cmd = Cmd(s)
  BY <1>3 DEF SessionRecords, Cmd
<1> HIDE DEF x, r
<1>14. Kept(s, r, x)  BY <1>1, <1>3, <1>11, <1>13 DEF Kept
<1> QED  BY <1>1, <1>2, <1>12, <1>14, GoOnInv

\* A module the answer of the server names is of the key.
LEMMA ResolveByRegisteringInv ==
  ASSUME Inv, NEW s \in Sessions, ResolveByRegistering(s)
  PROVE  Inv'
<1> DEFINE k == Cmd(s).key
           r == RegisterModule(Registry(s), k, "current", s)
           h == Handle(r.modules[k])
           y == [ses[s] EXCEPT !.cache[k] = h]
           t == Target(h, "registered")
           x == [ses[s] EXCEPT !.cache[k] = h, !.target = t]
<1>1. /\ Running(s) /\ Cmd(s) # None /\ Cmd(s).kind \in Keyed
      /\ Commit(s, r) /\ UNCHANGED <<file, fenced>>
      /\ Set(s, x) \/ Exit(s)
  BY DEF ResolveByRegistering, MustRegister, Unknown, At, Lost
<1>2. Cmd(s) \in Commands  BY <1>1 DEF Inv, TypeOK, SessionRecords, Cmd
<1>3. k \in Keys  BY <1>1, <1>2, CommandFacts
<1>4. Grown(s, r) /\ r.modules[k] # None /\ y \in SessionRecords /\ Kept(s, r, y)
  BY <1>1, <1>3, RegisteredKept
<1>5. r.modules[k] \in Module  BY <1>3, <1>4 DEF Grown, Registries
<1> HIDE DEF r
<1>6. h \in Handles /\ h.uid = r.modules[k].uid  BY <1>5, HandleType
<1> HIDE DEF h
<1>7. t \in Targets /\ t.how = "registered" /\ t.uid = h.uid
  BY <1>6 DEF Target, Targets, Handles
<1> HIDE DEF t
<1>8. ses[s] \in SessionRecords  BY DEF Inv, TypeOK
<1>9. x = [y EXCEPT !.target = t]  BY <1>8 DEF SessionRecords
<1>10. y.cmd = Cmd(s)  BY <1>8 DEF SessionRecords, Cmd
<1> HIDE DEF x, y
<1>11. x \in SessionRecords  BY <1>4, <1>7, <1>9 DEF SessionRecords
<1>12. /\ x.mode = y.mode /\ x.cache = y.cache /\ x.scratch = y.scratch
       /\ x.token = y.token /\ x.target = t /\ x.cmd = y.cmd
  BY <1>4, <1>9 DEF SessionRecords
<1>13. Kept(s, r, x)  BY <1>1, <1>4, <1>6, <1>7, <1>10, <1>12 DEF Kept
<1> QED  BY <1>1, <1>4, <1>11, <1>13, ExitInv, GoOnInv

\* Subcommands that change nothing of modules and sources, but for a file that
\* is saved, and the end of a run.
LEMMA QuietInv ==
  ASSUME Inv, NEW s \in Sessions,
         \/ run_query_command(s) \/ RunModuleCommand(s) \/ RunSlotCommand(s)
         \/ run_policy_command(s) \/ SelftestSaves(s)
         \/ RunEnds(s) \/ UsageError(s) \/ CallFails(s)
  PROVE  Inv'
<1> DEFINE r == Registry(s)
<1>1. /\ Running(s) /\ UNCHANGED <<reg, fenced>>
      /\ file' \in {file, [registry |-> Registry(s), exists |-> TRUE, own |-> Remote(s)]}
      /\ Finish(s, ses[s]) \/ Lost(s) \/ Exit(s)
  BY DEF run_query_command, RunModuleCommand, RunSlotCommand, run_policy_command,
         SelftestSaves, RunEnds, UsageError, CallFails, At, Accepted, Ready
<1>2. Grown(s, r)  BY <1>1, SameRegistry
<1>3. ses[s] \in SessionRecords /\ Kept(s, r, ses[s])
  BY <1>2, SameModulesKept
<1> HIDE DEF r
<1> QED  BY <1>1, <1>2, <1>3, FinishInv, ExitInv

\* selftest goes from its registration to its evidence.
LEMMA SelftestPublishesInv ==
  ASSUME Inv, NEW s \in Sessions, SelftestPublishes(s)
  PROVE  Inv'
<1> DEFINE r == Registry(s)
           x == [ses[s] EXCEPT !.stage = 2]
<1>1. /\ Running(s) /\ UNCHANGED <<reg, file, fenced>> /\ (Set(s, x) \/ Exit(s))
  BY DEF SelftestPublishes, At, Lost
<1>2. Grown(s, r)  BY <1>1, SameRegistry
<1>3. ses[s] \in SessionRecords /\ Kept(s, r, ses[s])
  BY <1>2, SameModulesKept
<1>4. x \in SessionRecords  BY <1>3 DEF SessionRecords
<1>5. /\ x.mode = ses[s].mode /\ x.cache = ses[s].cache /\ x.scratch = ses[s].scratch
      /\ x.token = ses[s].token /\ x.target = ses[s].target /\ x.cmd = ses[s].cmd
  BY <1>3 DEF SessionRecords
<1> HIDE DEF x, r
<1>6. Kept(s, r, x)  BY <1>3, <1>5 DEF Kept
<1> QED  BY <1>1, <1>2, <1>4, <1>6, ExitInv, GoOnInv

\* Another instance that takes the CLI's name is what the tokens are fenced by.
LEMMA AnySourceInv ==
  ASSUME Inv, NEW s \in Sessions, RegisterAnySource(s)
  PROVE  Inv'
<1> DEFINE g == Cmd(s).given
           r == IF g = None THEN Registry(s) ELSE RegisterSource(Registry(s), g)
<1>1. /\ Running(s) /\ Cmd(s) # None /\ Cmd(s).kind = "source" /\ UNCHANGED file
      /\ fenced' = IF g \in {None, CliInstance} THEN fenced ELSE fenced \cup {Home(s)}
      /\ Finish(s, ses[s]) \/ Lost(s)
  BY DEF RegisterAnySource, At
<1>2. /\ Registry(s) \in Registries /\ Home(s) \in Homes /\ Cmd(s) \in Commands
      /\ reg \in [Homes -> Registries]
  BY <1>1 DEF Inv, TypeOK, SessionRecords, Home, Homes, Registry, Cmd
<1>3. g \in Instances \cup {None}  BY <1>1, <1>2, CommandFacts
<1>4. reg' = [reg EXCEPT ![Home(s)] = r]
  BY <1>2 DEF RegisterAnySource, Commit, Registry
<1>5. /\ r \in Registries /\ r.modules = Registry(s).modules
      /\ g \in {None, CliInstance} /\ Registry(s).instance = CliInstance =>
            r.epoch = Registry(s).epoch /\ r.instance = CliInstance
  BY <1>2, <1>3, RegisterSourceFacts
<1> HIDE DEF r, g
<1>6. Grown(s, r)
  BY <1>1, <1>4, <1>5 DEF Grown, SameUids
<1>7. ses[s] \in SessionRecords /\ Kept(s, r, ses[s])
  BY <1>5, <1>6, SameModulesKept
<1> QED  BY <1>1, <1>6, <1>7, FinishInv

\* The handle in the answer to module.register is cached.
LEMMA ModuleInv ==
  ASSUME Inv, NEW s \in Sessions, RegisterOneModule(s)
  PROVE  Inv'
<1> DEFINE k == Cmd(s).key
           r == RegisterModule(Registry(s), k, Cmd(s).given, s)
           y == [ses[s] EXCEPT !.cache[k] = Handle(r.modules[k])]
<1>1. /\ Running(s) /\ Cmd(s) # None /\ Cmd(s).kind = "module"
      /\ Commit(s, r) /\ UNCHANGED <<file, fenced>>
      /\ Finish(s, y) \/ Lost(s)
  BY DEF RegisterOneModule, Accepted, Ready, At
<1>2. Cmd(s) \in Commands  BY <1>1 DEF Inv, TypeOK, SessionRecords, Cmd
<1>3. k \in Keys  BY <1>1, <1>2, CommandFacts
<1>4. Grown(s, r) /\ y \in SessionRecords /\ Kept(s, r, y)
  BY <1>1, <1>3, RegisteredKept
<1> HIDE DEF r, y
<1> QED  BY <1>1, <1>4, FinishInv

\* selftest registers a module of its own.
LEMMA SelftestRegistersInv ==
  ASSUME Inv, NEW s \in Sessions, SelftestRegisters(s)
  PROVE  Inv'
<1> DEFINE k == SelftestKey
           r == RegisterModule(Registry(s), k, "current", s)
           h == Handle(r.modules[k])
           y == [ses[s] EXCEPT !.cache[k] = h]
           x == [ses[s] EXCEPT !.stage = 1, !.cache[k] = h]
<1>1. /\ Running(s) /\ Commit(s, r) /\ UNCHANGED <<file, fenced>>
      /\ Set(s, x) \/ Exit(s)
  BY DEF SelftestRegisters, At, Lost
<1>2. Grown(s, r) /\ y \in SessionRecords /\ Kept(s, r, y)
  BY <1>1, KeyAssumption, RegisteredKept
<1>3. ses[s] \in SessionRecords  BY DEF Inv, TypeOK
<1> HIDE DEF r, h
<1>4. x = [y EXCEPT !.stage = 1]  BY <1>3 DEF SessionRecords
<1> HIDE DEF x, y
<1>5. x \in SessionRecords  BY <1>2, <1>4 DEF SessionRecords
<1>6. /\ x.mode = y.mode /\ x.cache = y.cache /\ x.scratch = y.scratch
      /\ x.token = y.token /\ x.target = y.target /\ x.cmd = y.cmd
  BY <1>2, <1>4 DEF SessionRecords
<1>7. Kept(s, r, x)  BY <1>2, <1>6 DEF Kept
<1> QED  BY <1>1, <1>2, <1>5, <1>7, ExitInv, GoOnInv

-----------------------------------------------------------------------------
(* The invariant and the theorems.                                         *)

\* Nothing is cached, and the file is nobody's or another registry's.
LEMMA InitInv == Init => Inv
<1> SUFFICES ASSUME Init PROVE Inv
  OBVIOUS
<1> USE RegistryAssumption
<1>1. Empty \in Registries /\ Empty.modules = [k \in Keys |-> None]
  BY DEF Empty, Registries
<1>2. Fresh \in SessionRecords /\ Fresh.cache = [k \in Keys |-> None]
      /\ Fresh.target = None /\ Fresh.token = None /\ Fresh.scratch = None
      /\ Fresh.mode = "off"
  BY DEF Fresh, SessionRecords
<1>3. /\ file \in Files /\ ~file.own
      /\ \A k \in Keys, s \in Sessions : file.registry.modules[k] # None =>
            file.registry.modules[k].by # s
  <2>1. CASE file = NoFile
    <3>1. file \in Files /\ ~file.own /\ file.registry = Empty
      BY <1>1, <2>1 DEF NoFile, Files
    <3> QED  BY <1>1, <3>1
  <2>2. ASSUME NEW m \in Strangers, file = Foreign(m)
        PROVE  /\ file \in Files /\ ~file.own
               /\ \A k \in Keys, s \in Sessions : file.registry.modules[k] # None =>
                     file.registry.modules[k].by # s
    <3> DEFINE n == Cardinality(Keys) + 1
               q == [Empty EXCEPT !.modules = m, !.next = n]
    <3>1. m \in [Keys -> [uid : Nat, inc : Nat, by : {None}] \cup {None}]
      OBVIOUS
    <3>2. m \in [Keys -> Module \cup {None}]  BY <3>1 DEF Module
    <3>3. n \in Nat  BY KeyAssumption, FS_CardinalityType
    <3> HIDE DEF n
    <3>4. q \in Registries /\ q.modules = m
      BY <1>1, <3>2, <3>3 DEF Registries
    <3>5. file = [registry |-> q, exists |-> TRUE, own |-> FALSE]
      BY <2>2 DEF Foreign, n
    <3> HIDE DEF q
    <3>6. file \in Files /\ ~file.own /\ file.registry.modules = m
      BY <3>4, <3>5 DEF Files
    <3> QED  BY <3>1, <3>6, NoneAssumption
  <2> QED  BY <2>1, <2>2 DEF Init
<1>4. /\ \A s \in Sessions : ses[s] = Fresh
      /\ \A h \in Homes : reg[h] = Empty
  BY DEF Init
<1>5. TypeOK  BY <1>1, <1>2, <1>3 DEF Init, TypeOK
<1>6. MirrorsAgree /\ CachesAgree /\ TargetsFit /\ TokensNamed /\ AddressedAsAsked
      /\ TokensStay
  BY <1>2, <1>3, <1>4 DEF MirrorsAgree, CachesAgree, TargetsFit, TokensNamed,
                          AddressedAsAsked, TokensStay
<1>7. NothingBefore
  BY <1>1, <1>3, <1>4 DEF NothingBefore
<1>8. CachedIsOwnLatest
  BY <1>2, <1>4 DEF CachedIsOwnLatest, Running, Remote, Local
<1> QED  BY <1>5, <1>6, <1>7, <1>8 DEF Inv

\* Every step keeps the invariant.
LEMMA StepKeepsInv == Inv /\ [Next]_vars => Inv'
<1> SUFFICES ASSUME Inv, [Next]_vars PROVE Inv'
  OBVIOUS
<1>1. ASSUME NEW s \in Sessions,
             \/ run(s) \/ parse_arguments(s) \/ RunEnds(s)
             \/ ensure_scratch(s) \/ EnsureSource(s)
             \/ resolve_module(s) \/ ResolveByRegistering(s)
             \/ run_query_command(s) \/ RegisterAnySource(s) \/ RegisterOneModule(s)
             \/ RunModuleCommand(s) \/ RunSlotCommand(s) \/ run_policy_command(s)
             \/ UsageError(s) \/ CallFails(s)
             \/ SelftestRegisters(s) \/ SelftestPublishes(s) \/ SelftestSaves(s)
      PROVE  Inv'
  BY <1>1, RunInv, ParseInv, MirrorInv, SourceInv, ResolveInv, ResolveByRegisteringInv,
     QuietInv, SelftestPublishesInv, AnySourceInv, ModuleInv, SelftestRegistersInv
<1>2. CASE UNCHANGED vars
  BY <1>2 DEF vars, Inv, TypeOK, MirrorsAgree, CachesAgree, TargetsFit, NothingBefore,
              TokensNamed, AddressedAsAsked, CachedIsOwnLatest, TokensStay, SameUids,
              Registry, Home, Remote, Local, Running, Cmd
<1> QED  BY <1>1, <1>2 DEF Next

\* The invariant holds in every reachable state.
LEMMA InvHolds == Spec => []Inv
<1> QED  BY InitInv, StepKeepsInv, PTL DEF Spec

\* A subcommand reaches the module whose key it was given, whatever other runs
\* register between the look-up of the key and the call.
THEOREM Addressed == Spec => []AddressedAsAsked
<1>1. Inv => AddressedAsAsked  BY DEF Inv
<1> QED  BY <1>1, InvHolds, PTL

\* A run does not go stale by its own doing: its cached handle is of the
\* incarnation it opened last, as long as nobody has opened a later one.
THEOREM CacheFresh == Spec => []CachedIsOwnLatest
<1>1. Inv => CachedIsOwnLatest  BY DEF Inv
<1> QED  BY <1>1, InvHolds, PTL

\* Runs at work at the same time do not fence one another.
THEOREM TokensKept == Spec => []TokensStay
<1>1. Inv => TokensStay  BY DEF Inv
<1> QED  BY <1>1, InvHolds, PTL
=============================================================================
