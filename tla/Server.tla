------------------------------- MODULE Server -------------------------------
(* The server's life: the loop of runProxy with its signals, the handlers of *)
(* the admin server that write into its channels, reloads from either of     *)
(* them, the background loops of every generation of the routing state, and  *)
(* requests that are routed while all this goes on.                          *)
EXTENDS ModelLookup, Integers, FiniteSets

CONSTANTS
    Callers,    \* goroutines of the admin server and of commands in requests
    Requests,   \* the requests that may be in flight at the same time
    Histories,  \* what the file may hold, each time that it is read
    Names,      \* the models that clients ask for
    MaxGen,     \* bound on the generations of the routing state
    MaxSignals  \* bound on the calls to stop and start

ASSUME BoundsAssumption == MaxGen \in Nat \ {0} /\ MaxSignals \in Nat

Loop == "loop"      \* the goroutine of runProxy
ASSUME LoopAssumption == Loop \notin Callers

Reloaders == Callers \union {Loop}
Gens == 1..MaxGen
ASSUME HistoriesAssumption ==
    \A h \in Histories : DOMAIN h = Gens /\ \A g \in Gens : WellFormed(h[g])
ASSUME NamesAssumption == Names \subseteq Seq(STRING)

VARIABLES
    config,     \* the configuration that each generation is built from
    built,      \* how many generations have been built
    cancelOf,   \* the generation whose loops Server.credSourceCancel ends
    routerCfg,  \* the generation of BuiltinRouter.cfg
    table,      \* the generation of BuiltinRouter.table
    loops,      \* the background loops of each generation
    store,      \* the local state store: "open" or "closed"
    reload,     \* the reloads: what they do next, what they built, whose loops they end
    overlapped, \* history: whether two reloads have been under way at the same time
    mode,       \* where the loop of runProxy is
    running,    \* Server.proxyRunning
    stopCh,     \* whether there is a token in stopProxyCh
    startCh,    \* the same for startProxyCh
    quit,       \* whether a signal to quit is pending
    admin,      \* whether the admin server answers
    caller,     \* what a handler that has looked at proxyRunning is about to send
    signals,    \* how many calls to stop and start there have been
    request     \* the requests in flight and what they were routed by

pointers == <<cancelOf, routerCfg, table>>
background == <<loops, store>>
control == <<stopCh, startCh, quit, admin, caller, signals>>
vars == <<config, built, pointers, background, reload, overlapped, mode, running,
          control, request>>

-----------------------------------------------------------------------------
NoReload == [pc |-> "idle", gen |-> 1, old |-> 1]
NoRequest == [pc |-> "idle", name |-> NoName, cfgGen |-> 1, tableGen |-> 1]

\* Server.New has run, and the first listener is up.
Init ==
    /\ config \in Histories
    /\ built = 1
    /\ cancelOf = 1 /\ routerCfg = 1 /\ table = 1
    /\ loops = [g \in Gens |-> IF g = 1 THEN "running" ELSE "none"]
    /\ store = "open"
    /\ reload = [r \in Reloaders |-> NoReload]
    /\ overlapped = FALSE
    /\ mode = "serving" /\ running = TRUE
    /\ stopCh = FALSE /\ startCh = FALSE /\ quit = FALSE /\ admin = TRUE
    /\ caller = [c \in Callers |-> "idle"]
    /\ signals = 0
    /\ request = [q \in Requests |-> NoRequest]

-----------------------------------------------------------------------------
(* Server.Reload. *)

Reloading(r) == reload[r].pc # "idle"

\* The file is read, its checks pass, and buildRoutingState restores the pools from
\* the store and starts their loops.
Build(r) ==
    /\ ~Reloading(r) /\ built < MaxGen
    /\ built' = built + 1
    /\ loops' = [loops EXCEPT ![built + 1] = "running"]
    /\ reload' = [reload EXCEPT ![r] = [pc |-> "cancelOf", gen |-> built + 1, old |-> 1]]
    /\ overlapped' = (overlapped \/ \E s \in Reloaders : Reloading(s))
    /\ UNCHANGED <<config, pointers, store>>

Moves(r, from, to) ==
    /\ reload[r].pc = from
    /\ reload' = [reload EXCEPT ![r].pc = to]

\* The field credSourceCancel has no lock: the reload reads it, and writes it later.
ReadCancel(r) ==
    /\ reload[r].pc = "cancelOf"
    /\ reload' = [reload EXCEPT ![r].pc = "cancel", ![r].old = cancelOf]
    /\ UNCHANGED <<pointers, background>>

\* Mutant of StoreCancel: the field keeps what it had.
StoreNoCancel(r) ==
    /\ Moves(r, "cancel", "routerCfg")
    /\ UNCHANGED <<pointers, background>>

StoreCancel(r) ==
    /\ Moves(r, "cancel", "routerCfg")
    /\ cancelOf' = reload[r].gen
    /\ UNCHANGED <<routerCfg, table, background>>

UpdateConfig(r) ==
    /\ Moves(r, "routerCfg", "table")
    /\ routerCfg' = reload[r].gen
    /\ UNCHANGED <<cancelOf, table, background>>

UpdateRouting(r) ==
    /\ Moves(r, "table", "end")
    /\ table' = reload[r].gen
    /\ UNCHANGED <<cancelOf, routerCfg, background>>

\* The loops of a generation flush once more and end.
Cancelled(g) ==
    [loops EXCEPT ![g] = IF @ = "running" THEN "cancelled" ELSE @]

CancelOld(r) ==
    /\ reload[r].pc = "end"
    /\ loops' = Cancelled(reload[r].old)
    /\ reload' = [reload EXCEPT ![r] = NoReload]
    /\ UNCHANGED <<pointers, store>>

ReloadStep(r) ==
    /\ ReadCancel(r) \/ StoreCancel(r) \/ UpdateConfig(r)
        \/ UpdateRouting(r) \/ CancelOld(r)
    /\ UNCHANGED <<config, built, overlapped>>

-----------------------------------------------------------------------------
(* The handlers of the admin server. *)

\* The loop of runProxy is at one of its two select statements.
Selecting == mode \in {"serving", "paused"} /\ ~Reloading(Loop)

\* adminReload, and the command of a request. A reload that is rejected changes
\* nothing.
CallReload(c) ==
    /\ admin /\ caller[c] = "idle" /\ Build(c)
    /\ UNCHANGED <<mode, running, control, request>>

CallerReloads(c) ==
    /\ ReloadStep(c)
    /\ UNCHANGED <<mode, running, control, request>>

\* adminProxyStop and adminProxyStart look at proxyRunning first.
CallStopOrStart(c) ==
    /\ admin /\ caller[c] = "idle" /\ ~Reloading(c) /\ signals < MaxSignals
    /\ caller' = [caller EXCEPT ![c] = IF running THEN "stop" ELSE "start"]
    /\ signals' = signals + 1
    /\ UNCHANGED <<config, built, pointers, background, reload, overlapped, mode, running,
                   stopCh, startCh, quit, admin, request>>

\* Mutant of Signal: no buffer, so that the send is lost unless the loop is waiting.
SignalUnbuffered(c) ==
    /\ caller[c] # "idle"
    /\ stopCh' = (stopCh \/ (Selecting /\ caller[c] = "stop"))
    /\ startCh' = (startCh \/ (Selecting /\ caller[c] = "start"))
    /\ caller' = [caller EXCEPT ![c] = "idle"]
    /\ UNCHANGED <<config, built, pointers, background, reload, overlapped, mode, running,
                   quit, admin, signals, request>>

\* SignalStop and SignalStart: a send that does not block, into a buffer of one.
Signal(c) ==
    /\ caller[c] # "idle"
    /\ stopCh' = (stopCh \/ caller[c] = "stop")
    /\ startCh' = (startCh \/ caller[c] = "start")
    /\ caller' = [caller EXCEPT ![c] = "idle"]
    /\ UNCHANGED <<config, built, pointers, background, reload, overlapped, mode, running,
                   quit, admin, signals, request>>

-----------------------------------------------------------------------------
(* The loop of runProxy. *)

\* The operating system's signal, with a buffer of one.
GetsQuit ==
    /\ ~quit
    /\ quit' = TRUE
    /\ UNCHANGED <<config, built, pointers, background, reload, overlapped, mode, running,
                   stopCh, startCh, admin, caller, signals, request>>

TakeStop ==
    /\ Selecting /\ mode = "serving" /\ stopCh
    /\ stopCh' = FALSE /\ running' = FALSE /\ mode' = "stopping"
    /\ UNCHANGED <<config, built, pointers, background, reload, overlapped,
                   startCh, quit, admin, caller, signals, request>>

TakeStart ==
    /\ Selecting /\ mode = "paused" /\ startCh
    /\ startCh' = FALSE /\ running' = TRUE /\ mode' = "serving"
    /\ UNCHANGED <<config, built, pointers, background, reload, overlapped,
                   stopCh, quit, admin, caller, signals, request>>

\* SIGHUP, which may come at any time: the loop reloads.
TakeHup ==
    /\ Selecting /\ Build(Loop)
    /\ UNCHANGED <<mode, running, control, request>>

LoopReloads ==
    /\ ReloadStep(Loop)
    /\ UNCHANGED <<mode, running, control, request>>

\* A paused server is closed already.
TakeQuit ==
    /\ Selecting /\ quit
    /\ quit' = FALSE /\ running' = FALSE /\ admin' = FALSE
    /\ mode' = IF mode = "serving" THEN "quitting" ELSE "exited"
    /\ UNCHANGED <<config, built, pointers, background, reload, overlapped,
                   stopCh, startCh, caller, signals, request>>

\* The listener fails: the process ends without closing the server.
ListenFails ==
    /\ Selecting /\ mode = "serving"
    /\ running' = FALSE /\ admin' = FALSE /\ mode' = "exited"
    /\ UNCHANGED <<config, built, pointers, background, reload, overlapped,
                   stopCh, startCh, quit, caller, signals, request>>

InFlight == {q \in Requests : request[q].pc # "idle"}

\* Mutant of Close: it waits for every request.
CloseDrained ==
    /\ mode \in {"stopping", "quitting"} /\ InFlight = {}
    /\ mode' = IF mode = "stopping" THEN "paused" ELSE "exited"
    /\ loops' = Cancelled(cancelOf)
    /\ store' = "closed"
    /\ UNCHANGED <<config, built, pointers, reload, overlapped, running, control, request>>

\* gracefulShutdown: Shutdown returns when no request is left or the time is up,
\* and Server.Close cancels the loops and closes the store.
Close ==
    /\ mode \in {"stopping", "quitting"}
    /\ mode' = IF mode = "stopping" THEN "paused" ELSE "exited"
    /\ loops' = Cancelled(cancelOf)
    /\ store' = "closed"
    /\ UNCHANGED <<config, built, pointers, reload, overlapped, running, control, request>>

-----------------------------------------------------------------------------
(* BuiltinRouter.Route, for each request. *)

Looked(q) == LookupModel(config[request[q].cfgGen], request[q].name)
SelectorFor(q) == SelectorOf(config[request[q].tableGen], Looked(q))

\* A request arrives while the proxy listens, and Route loads the configuration.
RouteConfig(q) ==
    /\ mode = "serving" /\ request[q].pc = "idle"
    /\ \E n \in Names :
        /\ LookupModel(config[routerCfg], n) # NoEntry
        /\ request' = [request EXCEPT ![q] =
               [pc |-> "looked", name |-> n, cfgGen |-> routerCfg, tableGen |-> 1]]
    /\ UNCHANGED <<config, built, pointers, background, reload, overlapped, mode, running,
                   control>>

\* It loads the table, and the request goes on with the selector, if there is one.
RouteTable(q) ==
    /\ request[q].pc = "looked"
    /\ request' = [request EXCEPT ![q].pc = "routed", ![q].tableGen = table]
    /\ UNCHANGED <<config, built, pointers, background, reload, overlapped, mode, running,
                   control>>

RequestEnds(q) ==
    /\ request[q].pc = "routed"
    /\ request' = [request EXCEPT ![q] = NoRequest]
    /\ UNCHANGED <<config, built, pointers, background, reload, overlapped, mode, running,
                   control>>

-----------------------------------------------------------------------------
CallerStep(c) == CallReload(c) \/ CallerReloads(c) \/ CallStopOrStart(c) \/ Signal(c)
RequestStep(q) == RouteConfig(q) \/ RouteTable(q) \/ RequestEnds(q)
LoopStep == TakeStop \/ TakeStart \/ TakeHup \/ TakeQuit \/ ListenFails \/ LoopReloads \/ Close

\* The process is gone: nothing of it runs.
Next ==
    /\ mode # "exited"
    /\ \/ \E c \in Callers : CallerStep(c)
       \/ \E q \in Requests : RequestStep(q)
       \/ LoopStep
       \/ GetsQuit

Spec == Init /\ [][Next]_vars

(* Fairness: the scheduler lets every goroutine go on, a shutdown ends by its *)
(* timeout, and a select that comes back to a channel with a token will take  *)
(* it at some time, since it chooses among the ready ones at random.          *)
Fairness ==
    /\ \A c \in Callers : WF_vars(CallerReloads(c)) /\ WF_vars(Signal(c))
    /\ WF_vars(LoopReloads) /\ WF_vars(Close)
    /\ SF_vars(TakeStop) /\ SF_vars(TakeStart) /\ SF_vars(TakeQuit)
FairSpec == Spec /\ Fairness

-----------------------------------------------------------------------------
LoopStates == {"none", "running", "cancelled"}
ReloadStates == {"idle", "cancelOf", "cancel", "routerCfg", "table", "end"}

TypeOK ==
    /\ config \in Histories
    /\ built \in Gens
    /\ cancelOf \in 1..built /\ routerCfg \in 1..built /\ table \in 1..built
    /\ loops \in [Gens -> LoopStates]
    /\ \A g \in Gens : loops[g] = "none" <=> g > built
    /\ store \in {"open", "closed"}
    /\ reload \in [Reloaders -> [pc : ReloadStates, gen : 1..built, old : 1..built]]
    /\ overlapped \in BOOLEAN
    /\ mode \in {"serving", "stopping", "quitting", "paused", "exited"}
    /\ running = (mode = "serving")
    /\ stopCh \in BOOLEAN /\ startCh \in BOOLEAN /\ quit \in BOOLEAN /\ admin \in BOOLEAN
    /\ caller \in [Callers -> {"idle", "stop", "start"}]
    /\ signals \in 0..MaxSignals
    /\ request \in [Requests -> [pc : {"idle", "looked", "routed"},
                                 name : Names \union {NoName},
                                 cfgGen : 1..built, tableGen : 1..built]]

\* Reloads that come one after the other, of a server that has not been closed:
\* the generation that serves always has its loops, without a gap while a reload
\* replaces it; and between reloads nothing of another generation runs on, and
\* the pointers agree.
ServedGenerationLives ==
    ~overlapped /\ store = "open" =>
        /\ loops[table] = "running"
        /\ (\A r \in Reloaders : ~Reloading(r)) =>
               /\ routerCfg = table /\ cancelOf = table
               /\ \A g \in Gens \ {table} : loops[g] # "running"

\* A reload on its way, with nobody else's: what it has replaced and what it has not
\* follows from how far it is, and it knows whose loops it has to end.
HandingOver(w) ==
    LET old == IF w.pc = "end" THEN w.old ELSE table
    IN /\ w.gen = built /\ old # w.gen
       /\ loops[old] = "running" /\ loops[w.gen] = "running"
       /\ \A g \in Gens \ {old, w.gen} : loops[g] # "running"
       /\ cancelOf = IF w.pc \in {"cancelOf", "cancel"} THEN old ELSE w.gen
       /\ routerCfg = IF w.pc \in {"table", "end"} THEN w.gen ELSE old
       /\ table = IF w.pc = "end" THEN w.gen ELSE old
       /\ w.pc # "cancelOf" => w.old = old

OneAtATime == \A r, s \in Reloaders : Reloading(r) /\ Reloading(s) => r = s

\* The inductive invariant behind ServedGenerationLives.
Handover ==
    ~overlapped /\ store = "open" =>
        /\ OneAtATime
        /\ \A r \in Reloaders : Reloading(r) => HandingOver(reload[r])
IInv == TypeOK /\ ServedGenerationLives /\ Handover

\* A request that has been routed has a selector, unless a reload came between the
\* two reads of Route: LookupModel and buildRoutingState agree on what a
\* configuration serves, native passthrough with it.
RoutedHasSelector ==
    \A q \in Requests :
        request[q].pc = "routed" /\ SelectorFor(q).kind = "none"
            => request[q].cfgGen # request[q].tableGen

\* Whoever asks for a configured name, with or without "claude-" before it, gets
\* that; whoever asks for another one that some configured name fits gets one of
\* those, and none with a longer name was passed over.
MostSpecificRoute ==
    \A q \in Requests : request[q].pc # "idle" =>
        LET c == config[request[q].cfgGen]
            name == request[q].name
            fitting == {i \in DOMAIN c.routes : FitsRoute(c, i, name)}
        IN CASE name \in RouteNames(c) -> Looked(q).name = name
             [] name \notin RouteNames(c) /\ TrimClaude(name) \in RouteNames(c)
                  -> Looked(q).name = TrimClaude(name)
             [] OTHER -> fitting # {} =>
                  \E i \in fitting :
                      /\ c.routes[i].name = Looked(q).name
                      /\ \A j \in fitting : RouteLength(c, j) <= RouteLength(c, i)

\* A signal to quit ends the process, whatever reloads, stops, starts and requests
\* that do not end come in the way. A stop that the admin server accepts is obeyed:
\* at some time the proxy is stopped; and a start is, whatever the loop is doing
\* when the handler sends it.
SignalsObeyed ==
    /\ quit ~> (mode = "exited")
    /\ \A c \in Callers :
        /\ (caller[c] = "stop") ~> (mode \in {"paused", "exited"})
        /\ (caller[c] = "start") ~> (mode \in {"serving", "exited"})
=============================================================================
