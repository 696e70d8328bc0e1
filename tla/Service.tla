------------------------------ MODULE Service ------------------------------
(***************************************************************************)
(* The HTTP service around the engine (server/src): its configuration, the *)
(* registry of masterdata snapshots, reloads that read the disk while an   *)
(* operator edits it, and the requests that build decks from one snapshot. *)
(* The search pool takes part as the bounded service it implements (see    *)
(* SearchPool), with one job for each call.                                *)
(*                                                                         *)
(* A file is the number of the edit that wrote it, or Broken when it is    *)
(* missing or does not parse.  A handler's steps between two awaits are    *)
(* one step, except where another thread can change what they read.        *)
(***************************************************************************)
EXTENDS Integers, Sequences, FiniteSets

CONSTANTS
  Call,          \* requests for one of the computing endpoints
  Reload,        \* requests for /admin/reload
  Worker, MaxQueue,   \* the pool's threads and queue
  Region,        \* names a request may use
  CommandLines,  \* what the process may be started with
  Asks,          \* what a call may ask for
  MaxEdits,      \* edits of the files by the operator
  Broken, None, Startup

Loader == Reload \cup {Startup}
Files == {"tables", "metas"}
Searches == {"recommend", "challenge_all"}
Endpoints == Searches \cup
  {"world_bloom_support_cards", "music_recommend", "live_exact_score", "area_items_recommend"}
Outcomes == {"Ok", "BadRequest", "Overloaded", "Timeout", "Error"}
Answers == {"none", "Ok", "BadRequest", "UnknownRegion", "Overloaded", "Timeout", "Internal", "gone"}

VARIABLES
  config,    \* the resolved configuration
  phase,     \* of the process
  disk,      \* the files of each region
  edits,     \* edits made so far
  registry,  \* the registry in service: who loaded it, and its snapshots
  load,      \* of each loader: where it is, and the files read so far
  place,     \* where each call is in its handler
  ask,       \* what each call asks for
  held,      \* the snapshot a call holds, by the loader of its registry
  used,      \* the loads a call's job has read masterdata of
  fate, told, open,   \* the pool: see BoundedService
  result,    \* what a call's job returned
  answer,    \* what each call and reload was answered
  requests, searchTimeouts, reloads,   \* Metrics
  during     \* history: the registries in service during each call or load

files == <<disk, edits>>
calls == <<place, ask, held, used, result>>
poolState == <<fate, told, open>>
metrics == <<requests, searchTimeouts, reloads>>
vars == <<config, phase, files, registry, load, calls, poolState, answer,
          metrics, during>>

Pool == INSTANCE BoundedService WITH Request <- Call, answer <- told

-----------------------------------------------------------------------------
(* config::parse.  A command line gives flags and an environment, each with *)
(* the repeatable options as sequences and the others as a value or None.   *)

Value(args, name) == IF args.flag[name] # None THEN args.flag[name] ELSE args.env[name]
Pairs(args, name) == IF args.flag[name] # <<>> THEN args.flag[name] ELSE args.env[name]
ValueOr(args, name, default) == IF Value(args, name) # None THEN Value(args, name) ELSE default
Named(seq) == {seq[i] : i \in DOMAIN seq}
AtLeastOne(n) == IF n = 0 THEN 1 ELSE n

DefaultRegion(args) == ValueOr(args, "default_region", Pairs(args, "masterdata")[1])

Accepted(args) ==
  /\ Pairs(args, "masterdata") # <<>>
  /\ Named(Pairs(args, "masterdata")) \subseteq Named(Pairs(args, "music_metas"))
  /\ DefaultRegion(args) \in Named(Pairs(args, "masterdata"))

Settings(args) ==
  [regions |-> Pairs(args, "masterdata"),
   default_region |-> DefaultRegion(args),
   max_search_timeout |-> ValueOr(args, "max_search_timeout", 2),
   max_limit |-> AtLeastOne(ValueOr(args, "max_limit", 2)),
   admin_token |-> Value(args, "admin_token")]

\* A request: its endpoint and region, the part of it that does not parse, and
\* the timeoutMs and limit among its parameters, and whether it lists tiers.
AskType == [endpoint : Endpoints, region : Region \cup {None},
            flaw : {"none", "body", "user", "params"},
            timeout : Nat, limit : Nat \ {0}, tiers : BOOLEAN]

\* Names are names and numbers numbers (config.rs), and nobody is two things.
ASSUME ServiceAssumption ==
  /\ IsFiniteSet(Call) /\ IsFiniteSet(Reload)
  /\ Startup \notin Reload /\ Call \cap Reload = {}
  /\ None \notin Region \cup Loader \cup Nat /\ Broken \notin Nat
  /\ Asks \subseteq AskType
  /\ \A args \in CommandLines : \A given \in {args.flag, args.env} :
       /\ given.masterdata \in Seq(Region)
       /\ {given.max_search_timeout, given.max_limit} \subseteq Nat \cup {None}

Unasked == [endpoint |-> "recommend", region |-> None, flaw |-> "none",
            timeout |-> 0, limit |-> 1, tiers |-> FALSE]
NoResult == [value |-> "none", timedOut |-> FALSE]

Init ==
  /\ disk = [r \in Region |-> [f \in Files |-> 0]] /\ edits = 0
  /\ \E args \in CommandLines :
       IF Accepted(args) THEN phase = "starting" /\ config = Settings(args)
                         ELSE phase = "failed" /\ config = None
  /\ registry = [loader |-> None, snapshots |-> <<>>]
  /\ load = [l \in Loader |-> [at |-> IF l = Startup /\ phase = "starting" THEN "reading" ELSE "idle", read |-> <<>>]]
  /\ place = [c \in Call |-> "new"] /\ ask = [c \in Call |-> Unasked]
  /\ held = [c \in Call |-> None] /\ used = [c \in Call |-> {}]
  /\ result = [c \in Call |-> NoResult]
  /\ Pool!Init
  /\ answer = [c \in Call \cup Reload |-> "none"]
  /\ requests = [e \in Endpoints |-> [o \in Outcomes |-> 0]]
  /\ searchTimeouts = 0 /\ reloads = 0
  /\ during = [x \in Call \cup Reload |-> {}]

-----------------------------------------------------------------------------
(* The operator's edits, one file at a time, while somebody may read them.  *)

Edit(r, f) ==
  /\ \E l \in Loader :
       load[l].at = "reading" \/ (load[l].at = "idle" /\ phase = "serving" /\ config.admin_token # None)
  /\ edits < MaxEdits
  /\ edits' = edits + 1
  /\ \E v \in {edits + 1, Broken} : disk' = [disk EXCEPT ![r][f] = v]
  /\ UNCHANGED <<config, phase, registry, load, calls, poolState, answer, metrics, during>>

-----------------------------------------------------------------------------
(* Registry::load: region by region, the tables before the music metas.     *)

Reading(l) ==
  /\ load[l].at = "reading"
  /\ Len(load[l].read) < 2 * Len(config.regions)

NextFile(l) ==
  LET n == Len(load[l].read)
  IN  disk[config.regions[n \div 2 + 1]][IF n % 2 = 0 THEN "tables" ELSE "metas"]

\* Mutant: a file that does not parse is taken as it is.
ReadFileUnchecked(l) ==
  /\ Reading(l)
  /\ load' = [load EXCEPT ![l].read = Append(@, NextFile(l))]
  /\ UNCHANGED <<config, phase, files, registry, calls, poolState, answer, metrics, during>>

\* Mutant: an unreadable file is replaced by the one the service came with.
ReadFileOrFallBack(l) ==
  /\ Reading(l)
  /\ load' = [load EXCEPT ![l].read = Append(@, IF NextFile(l) # Broken THEN NextFile(l) ELSE 0)]
  /\ UNCHANGED <<config, phase, files, registry, calls, poolState, answer, metrics, during>>

ReadFile(l) ==
  /\ Reading(l)
  /\ NextFile(l) # Broken
  /\ load' = [load EXCEPT ![l].read = Append(@, NextFile(l))]
  /\ UNCHANGED <<config, phase, files, registry, calls, poolState, answer, metrics, during>>

Loaded(l) ==
  /\ load[l].at = "reading"
  /\ Len(load[l].read) = 2 * Len(config.regions)

\* A region configured twice keeps its later snapshot.
LastOf(r) ==
  CHOOSE i \in DOMAIN config.regions :
    /\ config.regions[i] = r
    /\ \A j \in i + 1..Len(config.regions) : config.regions[j] # r

RegistryOf(l) ==
  [loader |-> l,
   snapshots |-> [r \in Named(config.regions) |->
                    [tables |-> load[l].read[2 * LastOf(r) - 1],
                     metas |-> load[l].read[2 * LastOf(r)]]]]

Finished(l, how) == load' = [load EXCEPT ![l] = [at |-> how, read |-> <<>>]]

OnItsWay(x) ==
  IF x \in Call THEN place[x] \notin {"new", "ended"} ELSE load[x].at = "reading"

\* The registry goes into service; whoever is on its way may see it.
Install(l) ==
  /\ registry' = RegistryOf(l)
  /\ Finished(l, "done")
  /\ during' = [x \in DOMAIN during |-> IF OnItsWay(x) THEN during[x] \cup {l} ELSE during[x]]

Fail(l) ==
  /\ Reading(l) /\ NextFile(l) = Broken
  /\ Finished(l, "failed")

-----------------------------------------------------------------------------
(* main and serve.                                                          *)

Listen ==
  /\ phase = "starting" /\ Loaded(Startup)
  /\ Install(Startup)
  /\ phase' = "serving"
  /\ UNCHANGED <<config, files, calls, poolState, answer, metrics>>

FailToStart ==
  /\ phase = "starting" /\ Fail(Startup)
  /\ phase' = "failed"
  /\ UNCHANGED <<config, files, registry, calls, poolState, answer, metrics, during>>

Signal ==
  /\ phase = "serving"
  /\ phase' = "draining"
  /\ UNCHANGED <<config, files, registry, load, calls, poolState, answer, metrics, during>>

\* Mutant: the pool stops with the signal, not after the connections.
StopAtOnce ==
  /\ phase = "draining"
  /\ phase' = "stopped"
  /\ Pool!Close
  /\ UNCHANGED <<config, files, registry, load, calls, answer, metrics, during>>

\* with_graceful_shutdown drains the connections, then pool.shutdown.
Stop ==
  /\ phase = "draining"
  /\ \A c \in Call : place[c] \in {"new", "ended"}
  /\ \A a \in Reload : load[a].at # "reading"
  /\ phase' = "stopped"
  /\ Pool!Close
  /\ UNCHANGED <<config, files, registry, load, calls, answer, metrics, during>>

-----------------------------------------------------------------------------
(* POST /admin/reload                                                       *)

Answer(x, a) == answer' = [answer EXCEPT ![x] = a]

\* The token of the request, or None without a bearer header.
RefuseReload(a, token) ==
  /\ phase = "serving" /\ load[a].at = "idle"
  /\ config.admin_token = None \/ token # config.admin_token
  /\ Finished(a, "refused")
  /\ Answer(a, "BadRequest")
  /\ UNCHANGED <<config, phase, files, registry, calls, poolState, metrics, during>>

StartReload(a, token) ==
  /\ phase = "serving" /\ load[a].at = "idle"
  /\ config.admin_token # None /\ token = config.admin_token
  /\ load' = [load EXCEPT ![a].at = "reading"]
  /\ during' = [during EXCEPT ![a] = {registry.loader}]
  /\ UNCHANGED <<config, phase, files, registry, calls, poolState, answer, metrics>>

Replace(a) ==
  /\ Loaded(a)
  /\ Install(a)
  /\ reloads' = reloads + 1
  /\ Answer(a, "Ok")
  /\ UNCHANGED <<config, phase, files, calls, poolState, requests, searchTimeouts>>

FailReload(a) ==
  /\ Fail(a)
  /\ Answer(a, "BadRequest")
  /\ UNCHANGED <<config, phase, files, registry, calls, poolState, metrics, during>>

\* The client leaves: the blocking task reads on, and nobody takes its result.
AbandonReload(a) ==
  /\ load[a].at = "reading"
  /\ Finished(a, "abandoned")
  /\ Answer(a, "gone")
  /\ UNCHANGED <<config, phase, files, registry, calls, poolState, metrics, during>>

-----------------------------------------------------------------------------
(* The computing endpoints.                                                 *)

Outcome(a) ==
  CASE a = "UnknownRegion" -> "BadRequest" [] a = "Internal" -> "Error" [] OTHER -> a

Record(c, a) ==
  /\ requests' = [requests EXCEPT ![ask[c].endpoint][Outcome(a)] = @ + 1]
  /\ searchTimeouts' = searchTimeouts +
       (IF a = "Ok" /\ ask[c].endpoint \in Searches /\ result[c].timedOut THEN 1 ELSE 0)
  /\ UNCHANGED reloads

\* finish and record: the handler's answer, counted once.
Finish(c, a) ==
  /\ place' = [place EXCEPT ![c] = "ended"]
  /\ Answer(c, a)
  /\ Record(c, a)

Step(c, from, to) == place[c] = from /\ place' = [place EXCEPT ![c] = to]

\* A body that is no JSON of the endpoint's shape never reaches the handler.
Arrive(c) ==
  /\ phase = "serving"
  /\ \E q \in Asks :
       /\ ask' = [ask EXCEPT ![c] = q]
       /\ \/ /\ q.flaw = "body"
             /\ Step(c, "new", "ended") /\ Answer(c, "BadRequest") /\ UNCHANGED during
          \/ /\ q.flaw # "body"
             /\ Step(c, "new", "arrived") /\ UNCHANGED answer
             /\ during' = [during EXCEPT ![c] = {registry.loader}]
  /\ UNCHANGED <<config, phase, files, registry, load, held, used, result, poolState, metrics>>

Asked(c) == IF ask[c].region = None THEN config.default_region ELSE ask[c].region

\* AppState::snapshot, before anything else of the request is looked at.
TakeSnapshot(c) ==
  /\ place[c] = "arrived"
  /\ IF Asked(c) \notin DOMAIN registry.snapshots
     THEN Finish(c, "UnknownRegion") /\ UNCHANGED held
     ELSE IF ask[c].flaw # "none"
          THEN Finish(c, "BadRequest") /\ UNCHANGED held
          ELSE /\ Step(c, "arrived", "resolved")
               /\ held' = [held EXCEPT ![c] = registry.loader]
               /\ UNCHANGED <<answer, metrics>>
  /\ UNCHANGED <<config, phase, files, registry, load, ask, used, result, poolState, during>>

Min(a, b) == IF a < b THEN a ELSE b

\* Mutant: a request without a deadline keeps none.
ClampDown(q) ==
  [q EXCEPT !.limit = Min(@, config.max_limit), !.timeout = Min(@, config.max_search_timeout)]

\* AppState::clamp
Clamp(q) ==
  [q EXCEPT !.limit = Min(@, config.max_limit),
            !.timeout = IF @ = 0 THEN config.max_search_timeout
                        ELSE Min(@, config.max_search_timeout)]

\* The support endpoint parses parameters but has no search to bound.  The
\* pool answers at once when it is full, or already without its sender.
Submit(c) ==
  /\ Step(c, "resolved", "submitted")
  /\ ask' = IF ask[c].endpoint \in Searches THEN [ask EXCEPT ![c] = Clamp(@)] ELSE ask
  /\ IF open THEN Pool!Admit(c) \/ Pool!Refuse(c) ELSE Pool!Answer(c)
  /\ UNCHANGED <<config, phase, files, registry, load, held, used, result, answer, metrics, during>>

\* Mutant: the job looks its region up again when its turn comes.
RunJobAfresh(c) ==
  /\ Pool!Begin(c)
  /\ used' = [used EXCEPT ![c] = {held[c], registry.loader}]
  /\ UNCHANGED <<config, phase, files, registry, load, place, ask, held, result,
                 answer, metrics, during>>

\* The closure owns the snapshot: its tables and the indexes built from them.
RunJob(c) ==
  /\ Pool!Begin(c)
  /\ used' = [used EXCEPT ![c] = {held[c]}]
  /\ UNCHANGED <<config, phase, files, registry, load, place, ask, held, result,
                 answer, metrics, during>>

Failed == [value |-> "error", timedOut |-> FALSE]
Completed == [value |-> "answer", timedOut |-> FALSE]
CutShort == [value |-> "answer", timedOut |-> TRUE]

\* Only a search with a deadline can be cut short.
Searched(q) == IF q.timeout = 0 THEN {Completed} ELSE {Completed, CutShort}

\* With tiers an empty pool is an empty answer: no tier is reachable.
SearchOne(q, built) ==
  CASE built = "pool" -> Searched(q)
    [] built = "EmptyPool" /\ q.tiers -> {Completed}
    [] OTHER -> {Failed}

SweepCharacters(q, built) == IF built = "pool" THEN Searched(q) ELSE {Failed}

Auxiliary == {Completed, Failed}

Results(q, built) ==
  CASE q.endpoint = "recommend" -> SearchOne(q, built)
    [] q.endpoint = "challenge_all" -> SweepCharacters(q, built)
    [] OTHER -> Auxiliary

EndJob(c) ==
  /\ Pool!End(c)
  /\ IF fate'[c] = "finished"
     THEN \E built \in {"pool", "EmptyPool", "error"} :
            \E out \in Results(ask[c], built) : result' = [result EXCEPT ![c] = out]
     ELSE UNCHANGED result
  /\ UNCHANGED <<config, phase, files, registry, load, place, ask, held, used,
                 answer, metrics, during>>

\* From<Rejection>, and the job's own error.
Response(c, heard) ==
  CASE heard = "QueueFull" -> "Overloaded"
    [] heard = "QueueTimeout" -> "Timeout"
    [] heard = "Failed" -> "Internal"
    [] heard = "Ok" /\ result[c].value = "error" -> "BadRequest"
    [] OTHER -> "Ok"

Respond(c) ==
  /\ place[c] = "submitted"
  /\ \/ told[c] # "none" /\ UNCHANGED poolState
     \/ Pool!Answer(c)
  /\ Finish(c, Response(c, told'[c]))
  /\ UNCHANGED <<config, phase, files, registry, load, ask, held, used, result, during>>

\* The client leaves while its job waits or runs: nothing is counted.
Abandon(c) ==
  /\ Step(c, "submitted", "ended")
  /\ told[c] = "none"
  /\ Answer(c, "gone")
  /\ UNCHANGED <<config, phase, files, registry, load, ask, held, used, result,
                 poolState, metrics, during>>

-----------------------------------------------------------------------------

Handle(c) ==
  \/ Arrive(c) \/ TakeSnapshot(c) \/ Submit(c)
  \/ RunJob(c) \/ EndJob(c) \/ Respond(c) \/ Abandon(c)

HandleReload(a) ==
  \/ \E token \in {None, "secret", "wrong"} : RefuseReload(a, token) \/ StartReload(a, token)
  \/ Replace(a) \/ FailReload(a) \/ AbandonReload(a)

Next ==
  \/ phase # "failed" /\ \E r \in Named(config.regions), f \in Files : Edit(r, f)
  \/ \E l \in Loader : ReadFile(l)
  \/ Listen \/ FailToStart \/ Signal \/ Stop
  \/ \E a \in Reload : HandleReload(a)
  \/ \E c \in Call : Handle(c)

Spec == Init /\ [][Next]_vars

-----------------------------------------------------------------------------

TypeOK ==
  /\ phase \in {"starting", "failed", "serving", "draining", "stopped"}
  /\ edits \in Nat /\ disk \in [Region -> [Files -> (0..edits) \cup {Broken}]]
  /\ registry.loader \in Loader \cup {None}
  /\ registry.loader = None <=> phase \in {"starting", "failed"}
  /\ registry.loader # None =>
       registry.snapshots \in [Named(config.regions) -> [tables : 0..edits, metas : 0..edits]]
  /\ \A l \in Loader : load[l].read \in Seq(0..edits)
  /\ place \in [Call -> {"new", "arrived", "resolved", "submitted", "ended"}]
  /\ ask \in [Call -> AskType] /\ held \in [Call -> Loader \cup {None}]
  /\ answer \in [Call \cup Reload -> Answers]
  /\ requests \in [Endpoints -> [Outcomes -> 0..Cardinality(Call)]]
  /\ searchTimeouts \in 0..Cardinality(Call) /\ reloads \in 0..Cardinality(Reload)

(***************************************************************************)
(* Everything a request is computed from - the region's tables, the        *)
(* indexes built over them, the event and music tables - comes from one    *)
(* load, and from one that was in service at some moment of the request,   *)
(* whatever reloads finish while it waits in the queue or runs.            *)
(***************************************************************************)
AnsweredFromOneLoad ==
  \A c \in Call :
    /\ Cardinality(used[c]) <= 1
    /\ used[c] \subseteq during[c]
    /\ answer[c] = "Ok" => used[c] # {}

(***************************************************************************)
(* A reload may put older files into service than those it replaces only   *)
(* when another reload went into service while it was reading: reloads are *)
(* not ordered among each other, but one that nobody overtook never goes   *)
(* back.                                                                   *)
(***************************************************************************)
ReloadsMoveForward ==
  [][/\ registry.loader # None /\ registry' # registry
     /\ during[registry'.loader] = {registry.loader}
     => \A r \in Named(config.regions), f \in Files :
          registry'.snapshots[r][f] >= registry.snapshots[r][f]]_vars

(***************************************************************************)
(* AppState::clamp: under a configured ceiling no search runs without a    *)
(* deadline or past it, whatever a request asks for.  (A ceiling of 0 is   *)
(* accepted and means none: every request then runs unlimited.)            *)
(***************************************************************************)
SearchesAreBounded ==
  \A c \in Call :
    fate[c] = "running" /\ ask[c].endpoint \in Searches /\ config.max_search_timeout > 0
      => ask[c].timeout \in 1..config.max_search_timeout /\ ask[c].limit <= config.max_limit

(***************************************************************************)
(* An error says what happened: a region is unknown only when it is not    *)
(* configured, after any reloads, and never for a request that names none; *)
(* an internal error means a job panicked, so the shutdown of the pool     *)
(* never fails a request that was let in.                                  *)
(***************************************************************************)
ErrorsAreDeserved ==
  \A c \in Call :
    /\ answer[c] = "UnknownRegion" => ask[c].region \notin Named(config.regions) \cup {None}
    /\ answer[c] = "Internal" => fate[c] = "panicked"
=============================================================================
