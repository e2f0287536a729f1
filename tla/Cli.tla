--------------------------------- MODULE Cli --------------------------------
(***************************************************************************)
(* The command line utility: one Session per run of the program, which     *)
(* carries out its subcommands one after the other and stops at the first  *)
(* that fails.  A run either owns a registry in its process (loaded from   *)
(* --snapshot) or speaks to a server, where other runs are at work; there  *)
(* --snapshot is the mirror in which module keys are looked up.            *)
(*                                                                         *)
(* A subcommand is several calls, and between two of them the server may   *)
(* serve others.  Module keys become handles, sources become tokens; both  *)
(* are cached in the Session.  A registry is what those caches are about:  *)
(* its modules and the source that all runs share.  Options, values,       *)
(* documents and the exit code are left out, but every place where a bad   *)
(* argument or a refused call ends the run is kept.                        *)
(***************************************************************************)
EXTENDS Naturals, FiniteSets

CONSTANTS
    Sessions,     \* runs of the program
    Server,       \* the registry behind --server
    Keys,         \* module keys
    SelftestKey,  \* the key selftest registers
    Instances,    \* instance ids given with source-register
    CliInstance,  \* "trxreg-cli"
    MaxCommands,  \* bound: subcommands carried out, by all runs together
    Strangers,    \* module maps a file from another registry may hold
    None          \* nothing there

ASSUME KeyAssumption == SelftestKey \in Keys /\ IsFiniteSet(Keys)

Homes == {Server} \cup Sessions

\* The registry of a process is not the server's; a file from another registry
\* holds modules, none of them registered by one of these runs.
ASSUME RegistryAssumption ==
    /\ Server \notin Sessions
    /\ Strangers \subseteq [Keys -> [uid : Nat, inc : Nat, by : {None}] \cup {None}]

\* A registry: its modules by key (by: the run that opened the incarnation
\* last), the next uid, the epoch and the instance of source "trxreg-cli".
Empty == [modules |-> [k \in Keys |-> None], next |-> 1, epoch |-> 0,
          instance |-> None]

VARIABLES
    reg,     \* the registries: the server's and one in each process
    file,    \* the --snapshot file: a registry and whether it is the server's
    ses,     \* what each run keeps
    taken,   \* how many subcommands were taken up
    fenced   \* history: registries where the CLI's own name was taken over

vars == <<reg, file, ses, taken, fenced>>

(***************************************************************************)
(* A Session: its mode, the subcommand it is at (or None), the handle that  *)
(* one's key was resolved to and how, the epoch of its source (or None),   *)
(* the handles by key, the mirror (None before it is tried) and how far a  *)
(* selftest is.                                                            *)
(***************************************************************************)
Fresh == [mode |-> "off", cmd |-> None, target |-> None,
          token |-> None, cache |-> [k \in Keys |-> None], scratch |-> None,
          stage |-> 0]
Over == [Fresh EXCEPT !.mode = "over"]

Handle(m) == [uid |-> m.uid, inc |-> m.inc]

Module == [uid : Nat, inc : Nat, by : Sessions \cup {None}]

\* Nothing there: told apart from a module and from a run.
ASSUME NoneAssumption == None \notin Module \cup Sessions
NoFile == [registry |-> Empty, exists |-> FALSE, own |-> FALSE]
Foreign(modules) ==
    [registry |-> [Empty EXCEPT !.modules = modules,
                                !.next = Cardinality(Keys) + 1],
     exists |-> TRUE, own |-> FALSE]

Init ==
    /\ reg = [h \in Homes |-> Empty]
    /\ file \in {NoFile} \cup {Foreign(m) : m \in Strangers}
    /\ ses = [s \in Sessions |-> Fresh]
    /\ taken = 0
    /\ fenced = {}

Remote(s) == ses[s].mode = "remote"
Local(s) == ses[s].mode = "local"
Running(s) == Remote(s) \/ Local(s)
Home(s) == IF Remote(s) THEN Server ELSE s
Registry(s) == reg[Home(s)]
Cmd(s) == ses[s].cmd

Set(s, session) == ses' = [ses EXCEPT ![s] = session]
Commit(s, registry) == reg' = [reg EXCEPT ![Home(s)] = registry]

-----------------------------------------------------------------------------
\* What the registry does for a run (modules Registry and Lifecycle).

\* source.register of the CLI's name: the instance that holds it keeps its
\* epoch, another one opens a new one.
RegisterSource(r, instance) ==
    [r EXCEPT !.epoch = IF r.instance = instance THEN @ ELSE @ + 1,
              !.instance = instance]

\* module.register: a key that is new gets the next uid.
RegisterModule(r, key, intent, s) ==
    LET m == r.modules[key] IN
    CASE m = None -> [r EXCEPT !.modules[key] = [uid |-> r.next, inc |-> 1, by |-> s],
                               !.next = @ + 1]
      [] m # None /\ intent = "new_incarnation" ->
            [r EXCEPT !.modules[key] = [uid |-> m.uid, inc |-> m.inc + 1, by |-> s]]
      [] OTHER -> r

\* The handle names a module by uid and incarnation; its key is not compared.
Names(r, h) ==
    \E k \in Keys : r.modules[k] # None /\ Handle(r.modules[k]) = Handle(h)

-----------------------------------------------------------------------------
\* The subcommands.
KeyedReads == {"read"}      \* identity, capabilities, evidence, health
KeyedChanges == {"change"}  \* capability-publish, attach, health-ingest,
                            \*   transition, reconcile
KeyedQueries == {"compat-query"}
Keyed == KeyedReads \cup KeyedChanges \cup KeyedQueries
SlotsAndPorts == {"slot"}   \* detach, capability-publish --port
Policies == {"policy"}      \* health-threshold, compat-rule
Queries == {"stats", "save", "rules"}

Command(kind, key, given) == [kind |-> kind, key |-> key, given |-> given]

\* given: what the user puts in place of what the run would find out by itself,
\* a handle, an instance or a token; or the intent.
Commands ==
    {Command(q, None, None) :
        q \in Queries \cup SlotsAndPorts \cup Policies \cup {"unknown"}}
    \cup {Command("selftest", SelftestKey, None)}
    \cup {Command("source", None, i) : i \in Instances \cup {None}}
    \cup {Command("module", k, i) :
            k \in Keys, i \in {"current", "new_incarnation", "token"}}
    \cup {Command(q, k, h) :
            q \in Keyed, k \in Keys, h \in {None, [uid |-> 1, inc |-> 1]}}

At(s, kinds) == Running(s) /\ Cmd(s) # None /\ Cmd(s).kind \in kinds

\* The process starts: it connects, or loads the snapshot if there is one, or
\* comes to nothing.
run(s) ==
    /\ ses[s].mode = "off"
    /\ \/ Set(s, [Fresh EXCEPT !.mode = "remote"]) /\ UNCHANGED reg
       \/ /\ Set(s, [Fresh EXCEPT !.mode = "local"])
          /\ reg' = [reg EXCEPT ![s] = file.registry]
       \/ Set(s, Over) /\ UNCHANGED reg
    /\ UNCHANGED <<file, taken, fenced>>

\* The next subcommand of the command line.
parse_arguments(s) ==
    /\ Running(s) /\ Cmd(s) = None
    /\ taken < MaxCommands /\ taken' = taken + 1
    /\ \E c \in Commands : Set(s, [ses[s] EXCEPT !.cmd = c])
    /\ UNCHANGED <<reg, file, fenced>>

\* The run is at its end, and its Session with it.  What it did stays done.
Exit(s) == Set(s, Over)

\* The subcommand is over.  An option it did not look at is noticed only now,
\* and so is a handle given for a key that was cached: the run ends, with what
\* the subcommand did done.
Finish(s, session) ==
    \/ Exit(s)
    \/ /\ ~(session.target # None /\ session.target.how = "cached"
              /\ Cmd(s).given # None)
       /\ Set(s, [session EXCEPT !.cmd = None, !.target = None, !.stage = 0])

\* The server has applied the call and its answer did not arrive.
Lost(s) == Remote(s) /\ Exit(s)

\* The last subcommand is done.
RunEnds(s) ==
    /\ Running(s) /\ Cmd(s) = None /\ Exit(s)
    /\ UNCHANGED <<reg, file, taken, fenced>>

-----------------------------------------------------------------------------
\* What the mirror says of the key.
InMirror(s) ==
    IF ses[s].scratch.exists
    THEN ses[s].scratch.registry.modules[Cmd(s).key] ELSE None

\* The look-up gets past the cache and the user's own words.
Unknown(s) ==
    /\ At(s, Keyed) /\ ses[s].target = None
    /\ ses[s].cache[Cmd(s).key] = None /\ Cmd(s).given = None

\* The mirror is loaded once: a file that appears or changes later is not
\* looked at, and one that could not be loaded is not tried again.
ensure_scratch(s) ==
    /\ Unknown(s) \/ At(s, {"rules"})
    /\ Remote(s) /\ ses[s].scratch = None
    /\ \E f \in {file, NoFile} : Set(s, [ses[s] EXCEPT !.scratch = f])
    /\ UNCHANGED <<reg, file, taken, fenced>>

\* The key has to be registered to learn its handle.
MustRegister(s) ==
    /\ Unknown(s) /\ Remote(s)
    /\ ses[s].scratch # None /\ InMirror(s) = None

\* The subcommand is at the point where it speaks as a source.
NeedsToken(s) ==
    \/ At(s, SlotsAndPorts \cup Policies)
    \/ At(s, {"module"}) /\ Cmd(s).given # "token"
    \/ At(s, KeyedChanges \cup KeyedQueries) /\ ses[s].target # None
    \/ MustRegister(s)

\* Mutant: each run speaks as an instance of its own.
EnsureSourceOwnInstance(s) ==
    /\ NeedsToken(s) /\ ses[s].token = None
    /\ LET r == RegisterSource(Registry(s), s) IN
         /\ Commit(s, r)
         /\ Set(s, [ses[s] EXCEPT !.token = r.epoch]) \/ Lost(s)
    /\ UNCHANGED <<file, taken, fenced>>

\* Every run speaks as the same instance of the same source.
EnsureSource(s) ==
    /\ NeedsToken(s) /\ ses[s].token = None
    /\ LET r == RegisterSource(Registry(s), CliInstance) IN
         /\ Commit(s, r)
         /\ Set(s, [ses[s] EXCEPT !.token = r.epoch]) \/ Lost(s)
    /\ UNCHANGED <<file, taken, fenced>>

Target(h, how) == [uid |-> h.uid, inc |-> h.inc, how |-> how]

\* What the registry in the process or the mirror says of the key.
Known(s) ==
    CASE Local(s)                           -> Registry(s).modules[Cmd(s).key]
      [] Remote(s) /\ ses[s].scratch # None -> InMirror(s)
      [] OTHER                              -> None

\* Mutant: the session remembers one handle, not one per key.
ResolvedOneHandle(s) ==
    LET cached == {k \in Keys : ses[s].cache[k] # None}
    IN  CASE cached # {} ->
                Target(ses[s].cache[CHOOSE k \in cached : TRUE], "cached")
          [] cached = {} /\ Cmd(s).given # None -> Target(Cmd(s).given, "explicit")
          [] cached = {} /\ Cmd(s).given = None /\ Known(s) # None ->
                Target(Known(s), ses[s].mode)
          [] OTHER -> None

\* What was cached, then what the user says, then the look-up.
Resolved(s) ==
    LET cached == ses[s].cache[Cmd(s).key]
    IN  CASE cached # None -> Target(cached, "cached")
          [] cached = None /\ Cmd(s).given # None -> Target(Cmd(s).given, "explicit")
          [] Unknown(s) /\ Known(s) # None -> Target(Known(s), ses[s].mode)
          [] OTHER -> None

resolve_module(s) ==
    /\ At(s, Keyed) /\ ses[s].target = None
    /\ Resolved(s) # None
    /\ Set(s, [ses[s] EXCEPT !.target = Resolved(s)])
    /\ UNCHANGED <<reg, file, taken, fenced>>

\* The last resort over the wire: module.register, which makes the module when
\* the key is new, also for a subcommand that only reads.
ResolveByRegistering(s) ==
    /\ MustRegister(s) /\ ses[s].token = Registry(s).epoch
    /\ LET r == RegisterModule(Registry(s), Cmd(s).key, "current", s)
           h == Handle(r.modules[Cmd(s).key])
       IN  /\ Commit(s, r)
           /\ \/ Set(s, [ses[s] EXCEPT !.cache[Cmd(s).key] = h,
                                       !.target = Target(h, "registered")])
              \/ Lost(s)
    /\ UNCHANGED <<file, taken, fenced>>

\* Everything the subcommand needs before its own call is there.
Ready(s, kinds) ==
    /\ At(s, kinds)
    /\ Cmd(s).kind \in Keyed => ses[s].target # None
    /\ NeedsToken(s) => ses[s].token # None

\* ... and the registry accepts it.
Accepted(s, kinds) ==
    /\ Ready(s, kinds)
    /\ NeedsToken(s) /\ Cmd(s).kind \notin KeyedQueries
          => ses[s].token = Registry(s).epoch
    /\ Cmd(s).kind \in Keyed => Names(Registry(s), ses[s].target)

-----------------------------------------------------------------------------
\* stats and info only read; save writes this file or another; the rules are
\* those of the registry in the process or of the mirror.
run_query_command(s) ==
    /\ \/ /\ \/ At(s, {"stats"})
             \/ At(s, {"rules"}) /\ Local(s)
             \/ At(s, {"rules"}) /\ ses[s].scratch # None /\ ses[s].scratch.exists
          /\ Finish(s, ses[s]) /\ UNCHANGED file
       \/ /\ At(s, {"save"})
          /\ file' \in {file, [registry |-> Registry(s), exists |-> TRUE,
                               own |-> Remote(s)]}
          /\ Finish(s, ses[s]) \/ Lost(s)
    /\ UNCHANGED <<reg, taken, fenced>>

\* source-register takes any name, the CLI's own among them (given), but does
\* not touch the token the run has cached.
RegisterAnySource(s) ==
    /\ At(s, {"source"})
    /\ IF Cmd(s).given = None
       THEN UNCHANGED reg
       ELSE Commit(s, RegisterSource(Registry(s), Cmd(s).given))
    /\ fenced' = IF Cmd(s).given \in {None, CliInstance}
                 THEN fenced ELSE fenced \cup {Home(s)}
    /\ Finish(s, ses[s]) \/ Lost(s)
    /\ UNCHANGED <<file, taken>>

\* Mutant: the handle in the answer is not cached.
RegisterOneModuleUncached(s) ==
    /\ Accepted(s, {"module"})
    /\ Commit(s, RegisterModule(Registry(s), Cmd(s).key, Cmd(s).given, s))
    /\ Finish(s, ses[s]) \/ Lost(s)
    /\ UNCHANGED <<file, taken, fenced>>

\* module-register, with the run's token or the one the user gives.
RegisterOneModule(s) ==
    /\ Accepted(s, {"module"})
    /\ LET r == RegisterModule(Registry(s), Cmd(s).key, Cmd(s).given, s) IN
         /\ Commit(s, r)
         /\ \/ Finish(s, [ses[s] EXCEPT !.cache[Cmd(s).key] =
                                            Handle(r.modules[Cmd(s).key])])
            \/ Lost(s)
    /\ UNCHANGED <<file, taken, fenced>>

\* Reads and changes of what a handle names.  What a change commits does not
\* concern modules and sources.
RunModuleCommand(s) ==
    /\ Accepted(s, Keyed)
    /\ Finish(s, ses[s]) \/ Lost(s)
    /\ UNCHANGED <<reg, file, taken, fenced>>

\* detach, and capability-publish for a port.
RunSlotCommand(s) ==
    /\ Accepted(s, SlotsAndPorts)
    /\ Finish(s, ses[s]) \/ Lost(s)
    /\ UNCHANGED <<reg, file, taken, fenced>>

run_policy_command(s) ==
    /\ Accepted(s, Policies)
    /\ Finish(s, ses[s]) \/ Lost(s)
    /\ UNCHANGED <<reg, file, taken, fenced>>

\* Bad arguments are found before anything is asked of the registry, but by
\* the subcommands on a module behind the resolution and the token, and by
\* both kinds of policy behind the token.
UsageError(s) ==
    /\ \/ At(s, {"save", "source", "unknown"})
       \/ At(s, {"module"} \cup SlotsAndPorts)
       \/ At(s, Keyed) /\ ses[s].target = None
       \/ Ready(s, KeyedChanges \cup KeyedQueries \cup Policies)
    /\ Exit(s)
    /\ UNCHANGED <<reg, file, taken, fenced>>

\* A call is refused, or the connection is gone before it is served, or the
\* key is not in the registry of the process.
CallFails(s) ==
    /\ Running(s) /\ Cmd(s) # None /\ Cmd(s).kind # "unknown"
    /\ Exit(s)
    /\ UNCHANGED <<reg, file, taken, fenced>>

-----------------------------------------------------------------------------
(***************************************************************************)
(* selftest: a source and a module of its own, evidence and policy about   *)
(* it, a save, and last a comparison of what a reload of the saved file    *)
(* gives with the registry of that moment, which is only reported.         *)
(***************************************************************************)
SelftestRegisters(s) ==
    /\ At(s, {"selftest"}) /\ ses[s].stage = 0
    /\ LET r == RegisterModule(Registry(s), SelftestKey, "current", s) IN
         /\ Commit(s, r)
         /\ \/ Set(s, [ses[s] EXCEPT !.stage = 1,
                         !.cache[SelftestKey] = Handle(r.modules[SelftestKey])])
            \/ Lost(s)
    /\ UNCHANGED <<file, taken, fenced>>

SelftestPublishes(s) ==
    /\ At(s, {"selftest"}) /\ ses[s].stage = 1
    /\ Names(Registry(s), ses[s].cache[SelftestKey])
    /\ Set(s, [ses[s] EXCEPT !.stage = 2]) \/ Lost(s)
    /\ UNCHANGED <<reg, file, taken, fenced>>

\* The save goes to --out, which may be the file of --snapshot.
SelftestSaves(s) ==
    /\ At(s, {"selftest"}) /\ ses[s].stage = 2
    /\ file' \in {file, [registry |-> Registry(s), exists |-> TRUE,
                         own |-> Remote(s)]}
    /\ Finish(s, ses[s]) \/ Lost(s)
    /\ UNCHANGED <<reg, taken, fenced>>

Next ==
    \E s \in Sessions :
        \/ run(s) \/ parse_arguments(s) \/ RunEnds(s)
        \/ ensure_scratch(s) \/ EnsureSource(s)
        \/ resolve_module(s) \/ ResolveByRegistering(s)
        \/ run_query_command(s) \/ RegisterAnySource(s) \/ RegisterOneModule(s)
        \/ RunModuleCommand(s) \/ RunSlotCommand(s) \/ run_policy_command(s)
        \/ UsageError(s) \/ CallFails(s)
        \/ SelftestRegisters(s) \/ SelftestPublishes(s) \/ SelftestSaves(s)

Spec == Init /\ [][Next]_vars

-----------------------------------------------------------------------------
\* A subcommand reaches the module whose key it was given: the handle a run
\* found for it by itself, in the cache, by registration, in its own registry
\* or in a mirror this server wrote, has the uid of that key, whatever other
\* runs register between the look-up and the call.
AddressedAsAsked ==
    \A s \in Sessions :
        LET target == ses[s].target IN
        target # None /\ target.how # "explicit"
            /\ (target.how = "remote" => ses[s].scratch.own)
        => LET m == Registry(s).modules[Cmd(s).key]
           IN  m # None /\ m.uid = target.uid

\* A run does not go stale by its own doing: as long as the last incarnation
\* of a module was opened by it, the handle it has cached is of that
\* incarnation.  (An answer that was lost has ended the run.)
CachedIsOwnLatest ==
    \A s \in Sessions, k \in Keys :
        LET m == Registry(s).modules[k] IN
        Running(s) /\ m # None /\ m.by = s => ses[s].cache[k] = Handle(m)

\* Runs at work at the same time do not fence one another: a cached token stays
\* current until someone registers the CLI's own name as another instance.
TokensStay ==
    \A s \in Sessions :
        Running(s) /\ ses[s].token # None /\ Home(s) \notin fenced
            => ses[s].token = Registry(s).epoch

-----------------------------------------------------------------------------
\* What makes the invariants above inductive.

Registries ==
    [modules : [Keys -> Module \cup {None}], next : Nat, epoch : Nat,
     instance : Instances \cup {CliInstance, None}]
Files == [registry : Registries, exists : BOOLEAN, own : BOOLEAN]
Handles == [uid : Nat, inc : Nat]
Targets ==
    [uid : Nat, inc : Nat,
     how : {"cached", "explicit", "local", "remote", "registered"}]
SessionRecords ==
    [mode : {"off", "remote", "local", "over"}, cmd : Commands \cup {None},
     target : Targets \cup {None}, token : Nat \cup {None},
     cache : [Keys -> Handles \cup {None}], scratch : Files \cup {None},
     stage : 0..2]

\* Every variable has its type.
TypeOK ==
    /\ reg \in [Homes -> Registries]
    /\ file \in Files
    /\ ses \in [Sessions -> SessionRecords]

\* What an older state of a registry says of a key is still said of it, but for
\* the incarnation.
SameUids(older, newer) ==
    \A k \in Keys : older.modules[k] # None =>
        newer.modules[k] # None /\ newer.modules[k].uid = older.modules[k].uid

\* A file or a mirror the server wrote is an older state of the server.
MirrorsAgree ==
    /\ file.own => SameUids(file.registry, reg[Server])
    /\ \A s \in Sessions : ses[s].scratch # None /\ ses[s].scratch.own
                            => SameUids(ses[s].scratch.registry, reg[Server])

\* A cached handle has the uid of the key it was cached under.
CachesAgree ==
    \A s \in Sessions, k \in Keys : ses[s].cache[k] # None =>
        LET m == Registry(s).modules[k]
        IN  m # None /\ m.uid = ses[s].cache[k].uid

\* A handle is resolved for a subcommand that is about a module, and from the
\* mirror only if there is one.
TargetsFit ==
    \A s \in Sessions : ses[s].target # None =>
        /\ Cmd(s) # None /\ Cmd(s).kind \in Keyed
        /\ ses[s].target.how = "remote" => ses[s].scratch # None

\* A run that has not started has opened no incarnation anywhere.
NothingBefore ==
    \A s \in Sessions, k \in Keys : ses[s].mode = "off" =>
        /\ file.registry.modules[k] # None => file.registry.modules[k].by # s
        /\ \A h \in Homes : reg[h].modules[k] # None => reg[h].modules[k].by # s

\* Whoever holds a token speaks for the instance the registry knows.
TokensNamed ==
    \A s \in Sessions :
        Running(s) /\ ses[s].token # None /\ Home(s) \notin fenced
            => Registry(s).instance = CliInstance

Inv ==
    /\ TypeOK /\ MirrorsAgree /\ CachesAgree /\ TargetsFit /\ NothingBefore
    /\ TokensNamed
    /\ AddressedAsAsked /\ CachedIsOwnLatest /\ TokensStay
=============================================================================
