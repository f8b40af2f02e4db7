---------------------------- MODULE ServerProofs ----------------------------
(* Proofs about the server's reloads: for any number of handlers, requests,  *)
(* generations and signals, the generation that serves has its background    *)
(* loops and, between reloads, no other has; and for any configuration, a    *)
(* request is routed by the most specific of the names that fit it, and      *)
(* finds a selector.                                                         *)
EXTENDS Server, WellFoundedInduction, TLAPS

-----------------------------------------------------------------------------
(* The type invariant, part by part. *)

ReloadTypes ==
    /\ config \in Histories
    /\ built \in Gens
    /\ cancelOf \in 1..built /\ routerCfg \in 1..built /\ table \in 1..built
    /\ loops \in [Gens -> LoopStates]
    /\ \A g \in Gens : loops[g] = "none" <=> g > built
    /\ store \in {"open", "closed"}
    /\ reload \in [Reloaders -> [pc : ReloadStates, gen : 1..built, old : 1..built]]
    /\ overlapped \in BOOLEAN

ControlTypes ==
    /\ mode \in {"serving", "stopping", "quitting", "paused", "exited"}
    /\ running = (mode = "serving")
    /\ stopCh \in BOOLEAN /\ startCh \in BOOLEAN /\ quit \in BOOLEAN /\ admin \in BOOLEAN
    /\ caller \in [Callers -> {"idle", "stop", "start"}]
    /\ signals \in 0..MaxSignals

RequestTypes ==
    request \in [Requests -> [pc : {"idle", "looked", "routed"},
                              name : Names \union {NoName},
                              cfgGen : 1..built, tableGen : 1..built]]

\* TypeOK is the three parts together.
LEMMA TypesByPart == TypeOK <=> ReloadTypes /\ ControlTypes /\ RequestTypes
    BY DEF TypeOK, ReloadTypes, ControlTypes, RequestTypes

\* What the reloads touch, the rest but the requests, and the requests.
reloading == <<config, built, pointers, background, reload, overlapped>>
controlling == <<mode, running, control>>

\* A step that leaves what the reloads touch leaves their types.
LEMMA ReloadTypesStay ==
    ASSUME ReloadTypes, UNCHANGED reloading PROVE ReloadTypes'
    BY DEF ReloadTypes, reloading, pointers, background, Gens

\* So it is for the loop and its channels.
LEMMA ControlTypesStay ==
    ASSUME ControlTypes, UNCHANGED controlling PROVE ControlTypes'
    BY DEF ControlTypes, controlling, control

\* So it is for the requests.
LEMMA RequestTypesStay ==
    ASSUME RequestTypes, UNCHANGED <<built, request>> PROVE RequestTypes'
    BY DEF RequestTypes

\* There are generations, and the first is one.
LEMMA FirstGeneration == 1 \in Gens /\ \A g \in Gens : g \in Nat /\ g >= 1 /\ g <= MaxGen
    BY BoundsAssumption DEF Gens

-----------------------------------------------------------------------------
(* The invariant of the reloads where they do nothing, and where it is void. *)

\* A step that leaves what the reloads touch leaves both parts of the invariant.
LEMMA QuietReloads ==
    ASSUME ServedGenerationLives, Handover, UNCHANGED reloading
    PROVE  ServedGenerationLives' /\ Handover'
    BY DEF ServedGenerationLives, Handover, OneAtATime, HandingOver, Reloading,
           reloading, pointers, background

\* What Handover says while a reload is on its way, and while there is none, says
\* that the generation that serves lives.
SomeReload == \E r \in Reloaders : Reloading(r)

LEMMA HandoverCovers == ReloadTypes /\ Handover /\ SomeReload => ServedGenerationLives
  <1> SUFFICES ASSUME ReloadTypes, Handover, ~overlapped, store = "open",
                      NEW r \in Reloaders, Reloading(r)
               PROVE  ServedGenerationLives
    BY DEF ServedGenerationLives, SomeReload
  <1>1. HandingOver(reload[r])
    BY DEF Handover
  <1>2. loops[table] = "running"
    BY <1>1 DEF HandingOver
  <1> QED
    BY <1>2 DEF ServedGenerationLives

-----------------------------------------------------------------------------
(* Init. *)

\* A server that has just started serves with the loops of its first generation.
LEMMA InitHolds == Init => IInv
  <1> SUFFICES ASSUME Init PROVE IInv
    OBVIOUS
  <1>1. 1 \in Gens /\ 1..1 = {1}
    BY FirstGeneration
  <1>2. ReloadTypes
    <2>1. \A g \in Gens : loops[g] = "none" <=> g > built
      BY FirstGeneration DEF Init
    <2>2. reload \in [Reloaders -> [pc : ReloadStates, gen : 1..built, old : 1..built]]
      BY DEF Init, NoReload, ReloadStates
    <2>3. loops \in [Gens -> LoopStates]
      BY DEF Init, LoopStates
    <2> QED
      BY <1>1, <2>1, <2>2, <2>3 DEF ReloadTypes, Init
  <1>3. ControlTypes
    <2>1. running = (mode = "serving")
      BY Zenon DEF Init
    <2>2. stopCh \in BOOLEAN /\ startCh \in BOOLEAN /\ quit \in BOOLEAN /\ admin \in BOOLEAN
      BY Zenon DEF Init
    <2>3. signals \in 0..MaxSignals
      BY BoundsAssumption DEF Init
    <2>4. mode \in {"serving", "stopping", "quitting", "paused", "exited"}
      BY DEF Init
    <2>5. caller \in [Callers -> {"idle", "stop", "start"}]
      BY DEF Init
    <2> QED
      BY <2>1, <2>2, <2>3, <2>4, <2>5, Zenon DEF ControlTypes
  <1>4. RequestTypes
    BY DEF RequestTypes, Init, NoRequest
  <1>5. \A r \in Reloaders : ~Reloading(r)
    BY DEF Init, Reloading, NoReload
  <1>6. ServedGenerationLives
    BY <1>1, FirstGeneration DEF Init, ServedGenerationLives
  <1>7. Handover
    BY <1>5 DEF Handover, OneAtATime
  <1> QED
    BY <1>2, <1>3, <1>4, <1>6, <1>7, TypesByPart DEF IInv

-----------------------------------------------------------------------------
(* The steps of a reload. *)

\* A reload begins: the new generation is the last one built, and its loops run
\* beside those of the generation that serves.
LEMMA BuildKeeps ==
    ASSUME ReloadTypes, ServedGenerationLives, Handover, NEW r \in Reloaders, Build(r)
    PROVE  ReloadTypes' /\ ServedGenerationLives' /\ Handover'
  <1> DEFINE g == built + 1
  <1>1. /\ built \in Gens /\ g \in Gens /\ built' = g /\ built \in Nat
        /\ 1..built \subseteq 1..g /\ g \in 1..g /\ 1 \in 1..g
    BY FirstGeneration, BoundsAssumption DEF Build, ReloadTypes, Gens
  <1>2. /\ reload' = [reload EXCEPT ![r] = [pc |-> "cancelOf", gen |-> g, old |-> 1]]
        /\ loops' = [loops EXCEPT ![g] = "running"]
        /\ UNCHANGED <<config, cancelOf, routerCfg, table, store>>
        /\ overlapped' = (overlapped \/ \E s \in Reloaders : Reloading(s))
    BY DEF Build, pointers
  <1>3. ReloadTypes'
    <2>1. loops' \in [Gens -> LoopStates]
      BY <1>1, <1>2 DEF ReloadTypes, LoopStates
    <2>2. \A h \in Gens : loops'[h] = "none" <=> h > g
      BY <1>1, <1>2, FirstGeneration DEF ReloadTypes
    <2>3. reload' \in [Reloaders -> [pc : ReloadStates, gen : 1..g, old : 1..g]]
      BY <1>1, <1>2 DEF ReloadTypes, ReloadStates
    <2>4. overlapped' \in BOOLEAN
      BY <1>2 DEF ReloadTypes
    <2> QED
      BY <1>1, <1>2, <2>1, <2>2, <2>3, <2>4 DEF ReloadTypes
  <1>4. Handover'
    <2> SUFFICES ASSUME ~overlapped', store' = "open"
                 PROVE  /\ OneAtATime'
                        /\ \A s \in Reloaders : Reloading(s)' => HandingOver(reload[s])'
      BY DEF Handover
    <2>1. ~overlapped /\ store = "open" /\ \A s \in Reloaders : ~Reloading(s)
      BY <1>2
    <2>2. \A s \in Reloaders : Reloading(s)' => s = r
      BY <1>2, <2>1 DEF ReloadTypes, Reloading
    <2>3. /\ loops[table] = "running" /\ routerCfg = table /\ cancelOf = table
          /\ \A h \in Gens \ {table} : loops[h] # "running"
      BY <2>1 DEF ServedGenerationLives
    <2>4. table \in Gens /\ table # g
      <3>1. table \in 1..built
        BY DEF ReloadTypes
      <3> QED
        BY <1>1, <3>1, BoundsAssumption DEF Gens
    <2>5. /\ reload'[r].pc = "cancelOf" /\ reload'[r].gen = g
      BY <1>2 DEF ReloadTypes
    <2>6. /\ loops'[table] = "running" /\ loops'[g] = "running"
          /\ \A h \in Gens \ {table, g} : loops'[h] # "running"
      BY <1>1, <1>2, <2>3, <2>4 DEF ReloadTypes
    <2>7. HandingOver(reload[r])'
      BY <1>1, <1>2, <2>3, <2>4, <2>5, <2>6 DEF HandingOver
    <2> QED
      BY <2>2, <2>7 DEF OneAtATime
  <1>5. ServedGenerationLives'
    <2>1. SomeReload'
      BY <1>2 DEF ReloadTypes, SomeReload, Reloading
    <2> QED
      BY <1>3, <1>4, <2>1, HandoverCovers, PTL
  <1> QED
    BY <1>3, <1>4, <1>5

\* What the later steps of a reload have in common: only their own reload moves, no
\* generation is built, and while reloads do not overlap there is no other one.
LEMMA StepFrame ==
    ASSUME ReloadTypes, NEW r \in Reloaders, ReloadStep(r)
    PROVE  /\ UNCHANGED <<config, built, overlapped, store>>
           /\ \A s \in Reloaders : s # r => reload'[s] = reload[s]
           /\ Reloading(r)
           /\ reload' \in [Reloaders -> [pc : ReloadStates, gen : 1..built, old : 1..built]]
           /\ loops' \in [Gens -> LoopStates]
           /\ \A g \in Gens : loops'[g] = "none" <=> g > built
           /\ cancelOf' \in 1..built /\ routerCfg' \in 1..built /\ table' \in 1..built
  <1>1. NoReload \in [pc : ReloadStates, gen : 1..built, old : 1..built]
    BY FirstGeneration DEF NoReload, ReloadStates, ReloadTypes, Gens
  <1>2. UNCHANGED <<config, built, overlapped>>
    BY DEF ReloadStep
  <1>3. CASE ReadCancel(r)
    BY <1>2, <1>3 DEF ReadCancel, ReloadTypes, ReloadStates, Reloading, pointers, background
  <1>4. CASE StoreCancel(r)
    BY <1>2, <1>4 DEF StoreCancel, Moves, ReloadTypes, ReloadStates, Reloading, background
  <1>5. CASE UpdateConfig(r)
    BY <1>2, <1>5 DEF UpdateConfig, Moves, ReloadTypes, ReloadStates, Reloading, background
  <1>6. CASE UpdateRouting(r)
    BY <1>2, <1>6 DEF UpdateRouting, Moves, ReloadTypes, ReloadStates, Reloading, background
  <1>7. CASE CancelOld(r)
    BY <1>1, <1>2, <1>7 DEF CancelOld, Cancelled, ReloadTypes, ReloadStates, LoopStates,
                            Reloading, pointers
  <1> QED
    BY <1>3, <1>4, <1>5, <1>6, <1>7 DEF ReloadStep

\* A step that leaves the reload on its way keeps the handover, if it does so for this
\* reload.
LEMMA StepHandover ==
    ASSUME ReloadTypes, Handover, NEW r \in Reloaders, ReloadStep(r),
           ~overlapped /\ store = "open" /\ HandingOver(reload[r])
               => HandingOver(reload[r])'
    PROVE  Handover'
  <1> SUFFICES ASSUME ~overlapped', store' = "open"
               PROVE  /\ OneAtATime'
                      /\ \A s \in Reloaders : Reloading(s)' => HandingOver(reload[s])'
    BY DEF Handover
  <1>1. ~overlapped /\ store = "open" /\ Reloading(r)
    BY StepFrame
  <1>2. \A s \in Reloaders : s # r => ~Reloading(s)
    BY <1>1 DEF Handover, OneAtATime
  <1>3. \A s \in Reloaders : Reloading(s)' => s = r
    BY <1>2, StepFrame DEF Reloading
  <1>4. HandingOver(reload[r])'
    BY <1>1 DEF Handover
  <1> QED
    BY <1>3, <1>4 DEF OneAtATime

\* Every step of a reload keeps the invariant; the last needs that the generation it
\* ends is not the one that serves.
LEMMA ReloadStepKeeps ==
    ASSUME ReloadTypes, ServedGenerationLives, Handover, NEW r \in Reloaders, ReloadStep(r)
    PROVE  ReloadTypes' /\ ServedGenerationLives' /\ Handover'
  <1>1. ReloadTypes'
    BY StepFrame DEF ReloadTypes
  <1>2. ASSUME reload'[r].pc # "idle", Handover' PROVE ServedGenerationLives'
    <2>1. SomeReload'
      BY <1>2 DEF SomeReload, Reloading
    <2> QED
      BY <1>1, <1>2, <2>1, HandoverCovers, PTL
  <1>3. CASE ReadCancel(r)
    <2>1. reload[r].pc = "cancelOf" /\ UNCHANGED <<pointers, background>> /\ UNCHANGED built
      BY <1>3 DEF ReadCancel, ReloadStep
    <2>2. reload'[r] = [reload[r] EXCEPT !.pc = "cancel", !.old = cancelOf]
      BY <1>3 DEF ReadCancel, ReloadTypes
    <2>3. /\ reload'[r].pc = "cancel" /\ reload'[r].gen = reload[r].gen
          /\ reload'[r].old = cancelOf
      BY <2>2 DEF ReloadTypes
    <2>4. HandingOver(reload[r]) => HandingOver(reload[r])'
      BY <2>1, <2>3 DEF HandingOver, pointers, background
    <2>5. Handover'
      BY <2>4, StepHandover
    <2> QED
      BY <1>1, <1>2, <2>3, <2>5
  <1>4. CASE StoreCancel(r)
    <2>1. /\ reload[r].pc = "cancel" /\ UNCHANGED <<routerCfg, table, background>>
          /\ UNCHANGED built /\ cancelOf' = reload[r].gen
      BY <1>4 DEF StoreCancel, Moves, ReloadStep
    <2>2. reload'[r] = [reload[r] EXCEPT !.pc = "routerCfg"]
      BY <1>4 DEF StoreCancel, Moves, ReloadTypes
    <2>3. /\ reload'[r].pc = "routerCfg" /\ reload'[r].gen = reload[r].gen
          /\ reload'[r].old = reload[r].old
      BY <2>2 DEF ReloadTypes
    <2>4. HandingOver(reload[r]) => HandingOver(reload[r])'
      BY <2>1, <2>3 DEF HandingOver, background
    <2>5. Handover'
      BY <2>4, StepHandover
    <2> QED
      BY <1>1, <1>2, <2>3, <2>5
  <1>5. CASE UpdateConfig(r)
    <2>1. /\ reload[r].pc = "routerCfg" /\ UNCHANGED <<cancelOf, table, background>>
          /\ UNCHANGED built /\ routerCfg' = reload[r].gen
      BY <1>5 DEF UpdateConfig, Moves, ReloadStep
    <2>2. reload'[r] = [reload[r] EXCEPT !.pc = "table"]
      BY <1>5 DEF UpdateConfig, Moves, ReloadTypes
    <2>3. /\ reload'[r].pc = "table" /\ reload'[r].gen = reload[r].gen
          /\ reload'[r].old = reload[r].old
      BY <2>2 DEF ReloadTypes
    <2>4. HandingOver(reload[r]) => HandingOver(reload[r])'
      BY <2>1, <2>3 DEF HandingOver, background
    <2>5. Handover'
      BY <2>4, StepHandover
    <2> QED
      BY <1>1, <1>2, <2>3, <2>5
  <1>6. CASE UpdateRouting(r)
    <2>1. /\ reload[r].pc = "table" /\ UNCHANGED <<cancelOf, routerCfg, background>>
          /\ UNCHANGED built /\ table' = reload[r].gen
      BY <1>6 DEF UpdateRouting, Moves, ReloadStep
    <2>2. reload'[r] = [reload[r] EXCEPT !.pc = "end"]
      BY <1>6 DEF UpdateRouting, Moves, ReloadTypes
    <2>3. /\ reload'[r].pc = "end" /\ reload'[r].gen = reload[r].gen
          /\ reload'[r].old = reload[r].old
      BY <2>2 DEF ReloadTypes
    <2>4. HandingOver(reload[r]) => HandingOver(reload[r])'
      BY <2>1, <2>3 DEF HandingOver, background
    <2>5. Handover'
      BY <2>4, StepHandover
    <2> QED
      BY <1>1, <1>2, <2>3, <2>5
  <1>7. CASE CancelOld(r)
    <2>1. /\ reload[r].pc = "end" /\ loops' = Cancelled(reload[r].old)
          /\ UNCHANGED <<cancelOf, routerCfg, table, store, overlapped>>
          /\ reload' = [reload EXCEPT ![r] = NoReload]
      BY <1>7 DEF CancelOld, pointers, ReloadStep
    <2>2. ~Reloading(r)'
      BY <2>1 DEF ReloadTypes, Reloading, NoReload
    <2> SUFFICES ASSUME ~overlapped, store = "open"
                 PROVE  ServedGenerationLives' /\ Handover'
      BY <1>1, <2>1 DEF ServedGenerationLives, Handover
    <2>3. \A s \in Reloaders : ~Reloading(s)'
      BY <2>2, StepFrame DEF Handover, OneAtATime, Reloading
    <2>4. HandingOver(reload[r])
      BY StepFrame DEF Handover
    <2>5. /\ routerCfg = table /\ cancelOf = table /\ reload[r].old # table
          /\ loops[table] = "running"
          /\ \A g \in Gens \ {reload[r].old, table} : loops[g] # "running"
      BY <2>1, <2>4 DEF HandingOver
    <2>6. table \in Gens
      BY BoundsAssumption DEF ReloadTypes, Gens
    <2>7. /\ loops'[table] = "running"
          /\ \A g \in Gens \ {table} : loops'[g] # "running"
      BY <2>1, <2>5, <2>6 DEF Cancelled, ReloadTypes
    <2>8. ServedGenerationLives'
      BY <2>1, <2>5, <2>7 DEF ServedGenerationLives
    <2>9. Handover'
      BY <2>3 DEF Handover, OneAtATime
    <2> QED
      BY <2>8, <2>9
  <1> QED
    BY <1>3, <1>4, <1>5, <1>6, <1>7 DEF ReloadStep

\* Once the server is closed, nothing is said of its loops any more.
LEMMA CloseKeeps ==
    ASSUME ReloadTypes, Close
    PROVE  ReloadTypes' /\ ServedGenerationLives' /\ Handover'
  <1>1. /\ store' = "closed" /\ loops' = Cancelled(cancelOf)
        /\ UNCHANGED <<config, built, pointers, reload, overlapped>>
    BY DEF Close
  <1>2. ServedGenerationLives' /\ Handover'
    BY <1>1 DEF ServedGenerationLives, Handover
  <1>3. /\ loops' \in [Gens -> LoopStates]
        /\ \A g \in Gens : loops'[g] = "none" <=> g > built
    BY <1>1 DEF Cancelled, ReloadTypes, LoopStates
  <1>4. ReloadTypes'
    BY <1>1, <1>3 DEF ReloadTypes, pointers
  <1> QED
    BY <1>2, <1>4

-----------------------------------------------------------------------------
(* The other variables. *)

\* Steps of handlers and of the loop that have nothing to do with a reload.
Switch ==
    \/ \E c \in Callers : CallStopOrStart(c) \/ Signal(c)
    \/ GetsQuit \/ TakeStop \/ TakeStart \/ TakeQuit \/ ListenFails

\* They touch neither reloads nor requests.
LEMMA SwitchFrame == Switch => UNCHANGED <<reloading, request>>
    BY DEF Switch, CallStopOrStart, Signal, GetsQuit, TakeStop, TakeStart, TakeQuit,
           ListenFails, reloading

\* They keep the types, and proxyRunning is true exactly while the loop serves.
LEMMA SwitchTypes ==
    ASSUME ControlTypes, Switch
    PROVE  ControlTypes'
  <1>1. running' = (mode' = "serving")
    <2>1. CASE UNCHANGED <<mode, running>>
      BY <2>1, Zenon DEF ControlTypes
    <2>2. CASE mode' = "serving" /\ running' = TRUE
      BY <2>2, Zenon
    <2>3. CASE mode' # "serving" /\ running' = FALSE
      BY <2>3, Zenon
    <2>4. TakeStop => mode' # "serving" /\ running' = FALSE
      BY DEF TakeStop
    <2>5. TakeQuit => mode' # "serving" /\ running' = FALSE
      BY DEF TakeQuit
    <2>6. ListenFails => mode' # "serving" /\ running' = FALSE
      BY DEF ListenFails
    <2>7. TakeStart => mode' = "serving" /\ running' = TRUE
      BY DEF TakeStart
    <2> QED
      BY <2>1, <2>2, <2>3, <2>4, <2>5, <2>6, <2>7
         DEF Switch, CallStopOrStart, Signal, GetsQuit
  <1>2. mode' \in {"serving", "stopping", "quitting", "paused", "exited"}
    BY DEF ControlTypes, Switch, CallStopOrStart, Signal, GetsQuit, TakeStop, TakeStart,
           TakeQuit, ListenFails
  <1>3. /\ stopCh' \in BOOLEAN /\ startCh' \in BOOLEAN
        /\ quit' \in BOOLEAN /\ admin' \in BOOLEAN
    BY Zenon DEF ControlTypes, Switch, CallStopOrStart, Signal, GetsQuit, TakeStop,
                 TakeStart, TakeQuit, ListenFails
  <1>4. caller' \in [Callers -> {"idle", "stop", "start"}]
    BY DEF ControlTypes, Switch, CallStopOrStart, Signal, GetsQuit, TakeStop, TakeStart,
           TakeQuit, ListenFails
  <1>5. signals' \in 0..MaxSignals
    <2>1. CASE signals' = signals + 1 /\ signals < MaxSignals
      BY <2>1, BoundsAssumption DEF ControlTypes
    <2>2. CASE signals' = signals
      BY <2>2 DEF ControlTypes
    <2> QED
      BY <2>1, <2>2 DEF Switch, CallStopOrStart, Signal, GetsQuit, TakeStop, TakeStart,
                        TakeQuit, ListenFails
  <1> QED
    BY <1>1, <1>2, <1>3, <1>4, <1>5, Zenon DEF ControlTypes

\* So does a shutdown.
LEMMA CloseTypes ==
    ASSUME ControlTypes, Close
    PROVE  ControlTypes'
  <1>1. running' = (mode' = "serving")
    <2>1. mode # "serving" /\ mode' # "serving" /\ running' = running
      BY DEF Close
    <2> QED
      BY <2>1, Zenon DEF ControlTypes
  <1>2. mode' \in {"serving", "stopping", "quitting", "paused", "exited"}
    BY DEF Close
  <1> QED
    BY <1>1, <1>2, Zenon DEF ControlTypes, Close, control

\* A request records only generations that have been built.
LEMMA RequestStepTypes ==
    ASSUME ReloadTypes, RequestTypes, NEW q \in Requests, RequestStep(q)
    PROVE  RequestTypes' /\ UNCHANGED <<reloading, controlling>>
  <1>1. UNCHANGED <<reloading, controlling>>
    BY DEF RequestStep, RouteConfig, RouteTable, RequestEnds, reloading, controlling
  <1>2. UNCHANGED built
    BY <1>1 DEF reloading
  <1>3. /\ 1 \in 1..built /\ table \in 1..built /\ routerCfg \in 1..built
        /\ NoRequest \in [pc : {"idle", "looked", "routed"}, name : Names \union {NoName},
                          cfgGen : 1..built, tableGen : 1..built]
    BY FirstGeneration DEF ReloadTypes, NoRequest
  <1>4. CASE RouteConfig(q)
    BY <1>1, <1>2, <1>3, <1>4 DEF RouteConfig, RequestTypes
  <1>5. CASE RouteTable(q)
    BY <1>1, <1>2, <1>3, <1>5 DEF RouteTable, RequestTypes
  <1>6. CASE RequestEnds(q)
    BY <1>1, <1>2, <1>3, <1>6 DEF RequestEnds, RequestTypes
  <1> QED
    BY <1>4, <1>5, <1>6 DEF RequestStep

\* A generation that is built leaves the requests those they have.
LEMMA BuildTypes ==
    ASSUME ReloadTypes, RequestTypes, UNCHANGED request, built' = built + 1
    PROVE  RequestTypes'
  <1>1. 1..built \subseteq 1..built'
    BY FirstGeneration DEF ReloadTypes
  <1> QED
    BY <1>1 DEF RequestTypes

-----------------------------------------------------------------------------
(* The invariant. *)

\* Every step of the server keeps the invariant.
LEMMA StepHolds == IInv /\ [Next]_vars => IInv'
  <1> SUFFICES ASSUME IInv, [Next]_vars
               PROVE  /\ ReloadTypes' /\ ControlTypes' /\ RequestTypes'
                      /\ ServedGenerationLives' /\ Handover'
    BY TypesByPart, PTL DEF IInv
  <1>0. /\ ReloadTypes /\ ControlTypes /\ RequestTypes
        /\ ServedGenerationLives /\ Handover
    BY TypesByPart DEF IInv
  <1>1. ASSUME NEW r \in Reloaders, Build(r), UNCHANGED <<controlling, request>>
        PROVE  /\ ReloadTypes' /\ ControlTypes' /\ RequestTypes'
               /\ ServedGenerationLives' /\ Handover'
    <2>1. built' = built + 1
      BY <1>1 DEF Build
    <2> QED
      BY <1>0, <1>1, <2>1, BuildKeeps, BuildTypes, ControlTypesStay
  <1>2. ASSUME NEW r \in Reloaders, ReloadStep(r), UNCHANGED <<controlling, request>>
        PROVE  /\ ReloadTypes' /\ ControlTypes' /\ RequestTypes'
               /\ ServedGenerationLives' /\ Handover'
    <2>1. UNCHANGED <<built, request>>
      BY <1>2 DEF ReloadStep
    <2> QED
      BY <1>0, <1>2, <2>1, ReloadStepKeeps, RequestTypesStay, ControlTypesStay
  <1>3. CASE Switch
    <2>1. UNCHANGED reloading /\ UNCHANGED <<built, request>>
      BY <1>3, SwitchFrame DEF reloading
    <2> QED
      BY <1>0, <1>3, <2>1, SwitchTypes, QuietReloads, ReloadTypesStay, RequestTypesStay
  <1>4. CASE Close
    <2>1. UNCHANGED <<built, request>>
      BY <1>4 DEF Close
    <2> QED
      BY <1>0, <1>4, <2>1, CloseTypes, CloseKeeps, RequestTypesStay
  <1>5. CASE \E q \in Requests : RequestStep(q)
    BY <1>0, <1>5, RequestStepTypes, QuietReloads, ReloadTypesStay, ControlTypesStay
  <1>6. CASE \E c \in Callers : CallReload(c) \/ CallerReloads(c)
    <2>1. PICK c \in Callers : CallReload(c) \/ CallerReloads(c)
      BY <1>6
    <2>2. c \in Reloaders
      BY DEF Reloaders
    <2>3. (Build(c) \/ ReloadStep(c)) /\ UNCHANGED <<controlling, request>>
      BY <2>1 DEF CallReload, CallerReloads, controlling
    <2> QED
      BY <1>1, <1>2, <2>2, <2>3
  <1>7. CASE TakeHup \/ LoopReloads
    <2>1. Loop \in Reloaders
      BY DEF Reloaders
    <2>2. (Build(Loop) \/ ReloadStep(Loop)) /\ UNCHANGED <<controlling, request>>
      BY <1>7 DEF TakeHup, LoopReloads, controlling
    <2> QED
      BY <1>1, <1>2, <2>1, <2>2
  <1>8. CASE UNCHANGED vars
    <2>1. UNCHANGED reloading /\ UNCHANGED controlling /\ UNCHANGED <<built, request>>
      BY <1>8 DEF vars, reloading, controlling
    <2> QED
      BY <1>0, <2>1, QuietReloads, ReloadTypesStay, ControlTypesStay, RequestTypesStay
  <1> QED
    BY <1>3, <1>4, <1>5, <1>6, <1>7, <1>8 DEF Next, CallerStep, LoopStep, Switch

\* The inductive invariant of the server: its types, the generation that serves, and
\* how far each reload has handed over.
THEOREM ServerInvariant == Spec => []IInv
    BY InitHolds, StepHolds, PTL DEF Spec

\* Every variable of the server keeps its type; no pointer names a generation that has
\* not been built, and a loop once started never looks as if it had not been.
THEOREM ServerTypeCorrect == Spec => []TypeOK
  <1>1. IInv => TypeOK
    BY DEF IInv
  <1> QED
    BY <1>1, ServerInvariant, PTL

\* Reloads that come one after the other never leave the generation in service without
\* its pollers and snapshots, nor another one with them (Server.Reload, server.go).
THEOREM ServedAlwaysLives == Spec => []ServedGenerationLives
  <1>1. IInv => ServedGenerationLives
    BY DEF IInv
  <1> QED
    BY <1>1, ServerInvariant, PTL

-----------------------------------------------------------------------------
(* What the lookup of a model finds, for any configuration and any name. *)

\* Every non-empty set of naturals has a least element, and Min is it.
LEMMA MinOfNaturals ==
    ASSUME NEW R \in SUBSET Nat, R # {}
    PROVE  Min(R) \in R /\ \A m \in R : Min(R) <= m
  <1> DEFINE Less == OpToRel(<, Nat)
  <1>1. IsWellFoundedOn(Less, Nat)
    BY NatLessThanWellFounded
  <1> HIDE DEF Less
  <1>2. PICK n \in R : \A m \in R : <<m, n>> \notin Less
    BY <1>1, WFMin
  <1>3. \A m \in R : ~(m < n)
    BY <1>2 DEF Less, OpToRel
  <1>4. \A m \in R : n <= m
    BY <1>3
  <1> QED
    BY <1>4 DEF Min

\* A name without its "claude-" is a name, and no name becomes empty.
LEMMA Trimmed ==
    ASSUME NEW name \in Seq(STRING)
    PROVE  /\ TrimClaude(name) \in Seq(STRING) /\ Len(TrimClaude(name)) \in Nat
           /\ name # NoName => Len(TrimClaude(name)) > 0
  <1>1. CASE Len(name) > 1 /\ name[1] = "claude"
    <2>1. TrimClaude(name) = Tail(name) /\ Len(Tail(name)) = Len(name) - 1
      BY <1>1 DEF TrimClaude
    <2> QED
      BY <1>1, <2>1
  <1>2. CASE ~(Len(name) > 1 /\ name[1] = "claude")
    <2>1. TrimClaude(name) = name
      BY <1>2 DEF TrimClaude
    <2>2. name # <<>> => Len(name) > 0
      OBVIOUS
    <2> QED
      BY <2>1, <2>2 DEF NoName
  <1> QED
    BY <1>1, <1>2

\* A route has a length, which is positive.
LEMMA RouteLengths ==
    ASSUME NEW c, WellFormed(c)
    PROVE  /\ Len(c.routes) \in Nat /\ DOMAIN c.routes = 1..Len(c.routes)
           /\ RouteLength(c, 0) = 0
           /\ \A i \in 1..Len(c.routes) : RouteLength(c, i) \in Nat /\ RouteLength(c, i) > 0
  <1>1. Len(c.routes) \in Nat /\ DOMAIN c.routes = 1..Len(c.routes)
    BY DEF WellFormed
  <1>2. ASSUME NEW i \in 1..Len(c.routes)
        PROVE  RouteLength(c, i) \in Nat /\ RouteLength(c, i) > 0
    <2>1. c.routes[i] \in [name : Seq(STRING) \ {NoName}, provider : STRING]
      <3> DEFINE Routes == [name : Seq(STRING) \ {NoName}, provider : STRING]
      <3>1. c.routes \in Seq(Routes)
        BY DEF WellFormed
      <3> HIDE DEF Routes
      <3>2. c.routes[i] \in Routes
        BY <3>1
      <3> QED
        BY <3>2 DEF Routes
    <2>2. c.routes[i].name \in Seq(STRING) /\ c.routes[i].name # NoName
      BY <2>1
    <2>3. RouteLength(c, i) = Len(TrimClaude(c.routes[i].name))
      BY <1>1 DEF RouteLength
    <2> QED
      BY <2>2, <2>3, Trimmed
  <1>3. RouteLength(c, 0) = 0
    BY DEF RouteLength
  <1> QED
    BY <1>1, <1>2, <1>3

\* The scan by name finds a route of this name exactly if there is one.
LEMMA IndexOfFinds ==
    ASSUME NEW c, WellFormed(c), NEW name
    PROVE  /\ IndexOf(c, name) \in 0..Len(c.routes)
           /\ IndexOf(c, name) > 0 => c.routes[IndexOf(c, name)].name = name
           /\ IndexOf(c, name) > 0 <=> name \in RouteNames(c)
  <1> DEFINE found == {i \in DOMAIN c.routes : c.routes[i].name = name}
  <1>1. Len(c.routes) \in Nat /\ DOMAIN c.routes = 1..Len(c.routes)
    BY RouteLengths
  <1>2. found = {} <=> name \notin RouteNames(c)
    BY DEF RouteNames
  <1>3. CASE found = {}
    <2>1. IndexOf(c, name) = 0
      BY <1>3 DEF IndexOf
    <2> QED
      BY <1>1, <1>2, <1>3, <2>1
  <1>4. CASE found # {}
    <2>1. IndexOf(c, name) = Min(found)
      BY <1>4 DEF IndexOf
    <2>2. Min(found) \in found
      <3>1. found \in SUBSET Nat
        BY <1>1
      <3> HIDE DEF found
      <3> QED
        BY <1>4, <3>1, MinOfNaturals
    <2> QED
      BY <1>1, <1>2, <1>4, <2>1, <2>2
  <1> QED
    BY <1>3, <1>4

\* One turn of the scan for the longest prefix, after the turns that h holds.
Turn(c, name, h, i) ==
    IF i = 0 THEN 0
    ELSE IF FitsRoute(c, i, name) /\ RouteLength(c, i) > RouteLength(c, h[i - 1])
         THEN i ELSE h[i - 1]

\* The turns follow from one another for any number of routes.
LEMMA ScanExists ==
    ASSUME NEW c, NEW name, NEW n \in Nat
    PROVE  \E h : h = [i \in 0..n |-> Turn(c, name, h, i)]
  <1> DEFINE Good(k) == \E h : /\ h = [i \in 0..k |-> h[i]]
                               /\ \A i \in 0..k : h[i] = Turn(c, name, h, i)
  <1>1. Good(0)
    <2> DEFINE h == [i \in 0..0 |-> 0]
    <2>1. h = [i \in 0..0 |-> h[i]] /\ \A i \in 0..0 : h[i] = Turn(c, name, h, i)
      BY DEF Turn
    <2> QED
      BY <2>1
  <1>2. ASSUME NEW k \in Nat, Good(k)
        PROVE  Good(k + 1)
    <2>1. PICK h : h = [i \in 0..k |-> h[i]] /\ \A i \in 0..k : h[i] = Turn(c, name, h, i)
      BY <1>2
    <2> DEFINE g == [i \in 0..(k + 1) |-> Turn(c, name, h, i)]
    <2>2. \A i \in 0..k : i \in 0..(k + 1) /\ g[i] = h[i]
      BY <2>1
    <2>3. \A i \in 0..(k + 1) : i # 0 => i - 1 \in 0..k
      OBVIOUS
    <2>4. \A i \in 0..(k + 1) : g[i] = Turn(c, name, g, i)
      BY <2>2, <2>3 DEF Turn
    <2> QED
      BY <2>4
  <1> DEFINE bad == {k \in Nat : ~Good(k)}
  <1> HIDE DEF Good
  <1>3. bad = {}
    <2> SUFFICES ASSUME bad # {} PROVE FALSE
      OBVIOUS
    <2>1. Min(bad) \in bad /\ \A k \in bad : Min(bad) <= k
      BY MinOfNaturals
    <2>2. Min(bad) \in Nat /\ Min(bad) # 0 /\ ~Good(Min(bad))
      BY <1>1, <2>1
    <2>3. Min(bad) - 1 \in Nat /\ Min(bad) - 1 \notin bad
      BY <2>1, <2>2
    <2>4. Good((Min(bad) - 1) + 1)
      BY <1>2, <2>3
    <2> QED
      BY <2>2, <2>4
  <1>4. Good(n)
    BY <1>3
  <1> QED
    BY <1>4 DEF Good

\* The scan ends at a route that fits, if there is one, and no other that fits is
\* longer.
LEMMA LongestPrefixFinds ==
    ASSUME NEW c, WellFormed(c), NEW name
    PROVE  LET i == LongestPrefix(c, name)
           IN  /\ i \in 0..Len(c.routes)
               /\ i > 0 => FitsRoute(c, i, name)
               /\ \A j \in DOMAIN c.routes : FitsRoute(c, j, name) =>
                     i > 0 /\ RouteLength(c, j) <= RouteLength(c, i)
  <1> DEFINE n == Len(c.routes)
  <1> DEFINE best == CHOOSE h : h = [i \in 0..n |-> Turn(c, name, h, i)]
  <1>1. n \in Nat /\ DOMAIN c.routes = 1..n
    BY RouteLengths
  <1>2. best = [i \in 0..n |-> Turn(c, name, best, i)]
    BY <1>1, ScanExists
  <1>3. LongestPrefix(c, name) = best[n]
    BY Zenon DEF LongestPrefix, Turn
  <1> HIDE DEF best
  <1>4. \A i \in 0..n : best[i] = Turn(c, name, best, i)
    BY <1>2
  <1> DEFINE Right(i) ==
          /\ best[i] \in 0..i
          /\ best[i] > 0 => FitsRoute(c, best[i], name)
          /\ \A j \in 1..i : FitsRoute(c, j, name) =>
                best[i] > 0 /\ RouteLength(c, j) <= RouteLength(c, best[i])
  <1>5. Right(0)
    BY <1>1, <1>4 DEF Turn
  <1>6. ASSUME NEW k \in Nat, k + 1 <= n, Right(k)
        PROVE  Right(k + 1)
    <2>1. k + 1 \in 1..n /\ k + 1 \in 0..n /\ (k + 1) - 1 = k /\ k + 1 # 0
      BY <1>1, <1>6
    <2>2. best[k + 1] = IF /\ FitsRoute(c, k + 1, name)
                           /\ RouteLength(c, k + 1) > RouteLength(c, best[k])
                        THEN k + 1 ELSE best[k]
      BY <1>4, <2>1 DEF Turn
    <2>3. /\ RouteLength(c, k + 1) \in Nat /\ RouteLength(c, k + 1) > 0
          /\ RouteLength(c, best[k]) \in Nat /\ (best[k] = 0 => RouteLength(c, best[k]) = 0)
          /\ \A j \in 1..k : RouteLength(c, j) \in Nat
      <3>1. best[k] = 0 \/ best[k] \in 1..n
        BY <1>1, <1>6, <2>1
      <3>2. \A j \in 1..k : j \in 1..n
        BY <1>1, <2>1
      <3> QED
        BY <2>1, <3>1, <3>2, RouteLengths
    <2>4. best[k + 1] \in 0..(k + 1) /\ (best[k + 1] > 0 => FitsRoute(c, best[k + 1], name))
      BY <1>6, <2>2
    <2>5. ASSUME NEW j \in 1..(k + 1), FitsRoute(c, j, name)
          PROVE  best[k + 1] > 0 /\ RouteLength(c, j) <= RouteLength(c, best[k + 1])
      <3>1. CASE j = k + 1 /\ RouteLength(c, k + 1) > RouteLength(c, best[k])
        BY <2>2, <2>3, <2>5, <3>1
      <3>2. CASE j = k + 1 /\ ~(RouteLength(c, k + 1) > RouteLength(c, best[k]))
        <4>1. best[k + 1] = best[k]
          BY <2>2, <3>2
        <4>2. best[k] # 0
          BY <2>3, <3>2
        <4>3. best[k] > 0
          BY <1>6, <4>2
        <4> QED
          BY <2>3, <3>2, <4>1, <4>3
      <3>3. CASE j # k + 1
        <4>1. j \in 1..k
          BY <3>3
        <4>2. best[k] > 0 /\ RouteLength(c, j) <= RouteLength(c, best[k])
          BY <1>6, <2>5, <4>1
        <4> QED
          BY <2>2, <2>3, <4>1, <4>2
      <3> QED
        BY <3>1, <3>2, <3>3
    <2> QED
      BY <2>4, <2>5
  <1> HIDE DEF Right
  <1> DEFINE bad == {i \in 0..n : ~Right(i)}
  <1>7. bad = {}
    <2> SUFFICES ASSUME bad # {} PROVE FALSE
      OBVIOUS
    <2>1. Min(bad) \in bad /\ \A k \in bad : Min(bad) <= k
      <3>1. bad \in SUBSET Nat
        BY <1>1
      <3> HIDE DEF bad
      <3> QED
        BY <3>1, MinOfNaturals
    <2>2. Min(bad) \in 0..n /\ Min(bad) # 0 /\ ~Right(Min(bad))
      BY <1>5, <2>1
    <2>3. /\ Min(bad) - 1 \in Nat /\ Min(bad) - 1 \notin bad /\ Min(bad) - 1 \in 0..n
          /\ (Min(bad) - 1) + 1 <= n /\ (Min(bad) - 1) + 1 = Min(bad)
      BY <1>1, <2>1, <2>2
    <2>4. Right((Min(bad) - 1) + 1)
      BY <1>6, <2>3
    <2> QED
      BY <2>2, <2>3, <2>4
  <1>8. Right(n)
    BY <1>1, <1>7
  <1> QED
    BY <1>1, <1>3, <1>8 DEF Right

\* The first step of the cascade that finds something decides.
LEMMA LookupByRoute ==
    ASSUME NEW c, WellFormed(c), NEW name,
           NEW k \in {IndexOf(c, name), IndexOf(c, TrimClaude(name)), LongestPrefix(c, name)},
           k > 0
    PROVE  LET byName == IndexOf(c, name)
               byTrim == IndexOf(c, TrimClaude(name))
               byPrefix == LongestPrefix(c, name)
               i == IF byName > 0 THEN byName ELSE IF byTrim > 0 THEN byTrim ELSE byPrefix
           IN  /\ i \in 1..Len(c.routes)
               /\ LookupModel(c, name) = RouteEntry(c, i)
  <1> DEFINE found == <<IndexOf(c, name), IndexOf(c, TrimClaude(name)), LongestPrefix(c, name)>>
  <1> DEFINE matching == {step \in 1..3 : found[step] > 0}
  <1>1. Len(c.routes) \in Nat /\ \A step \in 1..3 : found[step] \in 0..Len(c.routes)
    BY RouteLengths, IndexOfFinds, LongestPrefixFinds
  <1>2. matching # {}
    OBVIOUS
  <1>3. Min(matching) \in matching /\ \A step \in matching : Min(matching) <= step
    <2>1. matching \in SUBSET Nat
      OBVIOUS
    <2> HIDE DEF matching
    <2> QED
      BY <1>2, <2>1, MinOfNaturals
  <1>4. LookupModel(c, name) = RouteEntry(c, found[Min(matching)])
    BY <1>2 DEF LookupModel
  <1> DEFINE m == Min(matching)
  <1>5. m \in 1..3 /\ found[m] > 0 /\ \A step \in 1..3 : found[step] > 0 => m <= step
    BY <1>3
  <1> HIDE DEF m, matching
  <1>6. /\ found[1] > 0 => m = 1
        /\ ~(found[1] > 0) /\ found[2] > 0 => m = 2
        /\ ~(found[1] > 0) /\ ~(found[2] > 0) => m = 3
    BY <1>5
  <1>7. found[m] \in 1..Len(c.routes)
    BY <1>1, <1>5
  <1> QED
    BY <1>4, <1>6, <1>7 DEF m

\* Without any, it is native passthrough, the default model or nothing.
LEMMA LookupElsewhere ==
    ASSUME NEW c, WellFormed(c), NEW name,
           ~(IndexOf(c, name) > 0), ~(IndexOf(c, TrimClaude(name)) > 0),
           ~(LongestPrefix(c, name) > 0)
    PROVE  \/ /\ c.passthrough
              /\ \E vendor : /\ HasNativePassthroughPool(c, vendor)
                             /\ LookupModel(c, name) = [name |-> name, provider |-> vendor]
           \/ \E i \in 1..Len(c.routes) : LookupModel(c, name) = RouteEntry(c, i)
           \/ LookupModel(c, name) = NoEntry
  <1> DEFINE found == <<IndexOf(c, name), IndexOf(c, TrimClaude(name)), LongestPrefix(c, name)>>
  <1> DEFINE matching == {step \in 1..3 : found[step] > 0}
  <1> DEFINE vendor == InferModelProvider(name)
  <1> DEFINE default == IndexOf(c, c.default)
  <1>1. matching = {}
    OBVIOUS
  <1>2. CASE c.passthrough /\ vendor # None /\ HasNativePassthroughPool(c, vendor)
    <2>1. LookupModel(c, name) = [name |-> name, provider |-> vendor]
      BY <1>1, <1>2 DEF LookupModel
    <2> QED
      BY <1>2, <2>1
  <1>3. CASE ~(c.passthrough /\ vendor # None /\ HasNativePassthroughPool(c, vendor))
    <2>1. LookupModel(c, name) = IF c.default # name /\ default > 0
                                 THEN RouteEntry(c, default) ELSE NoEntry
      BY <1>1, <1>3 DEF LookupModel
    <2>2. default \in 0..Len(c.routes) /\ Len(c.routes) \in Nat
      BY IndexOfFinds, RouteLengths
    <2> QED
      BY <2>1, <2>2
  <1> QED
    BY <1>2, <1>3

\* What the lookup finds has a selector in the table built from the same
\* configuration.
LEMMA LookupHasSelector ==
    ASSUME NEW c, WellFormed(c), NEW name, LookupModel(c, name) # NoEntry
    PROVE  SelectorOf(c, LookupModel(c, name)).kind # "none"
  <1> DEFINE entry == LookupModel(c, name)
  <1>1. DOMAIN c.routes = 1..Len(c.routes)
    BY RouteLengths
  <1>2. ASSUME NEW i \in 1..Len(c.routes), entry = RouteEntry(c, i)
        PROVE  SelectorOf(c, entry).kind # "none"
    <2>1. entry.name \in RouteNames(c)
      BY <1>1, <1>2 DEF RouteEntry, RouteNames
    <2>2. SelectorOf(c, entry) = [kind |-> "model", of |-> entry.name]
      BY <2>1 DEF SelectorOf
    <2> QED
      BY <2>2
  <1>3. CASE \/ IndexOf(c, name) > 0 \/ IndexOf(c, TrimClaude(name)) > 0
             \/ LongestPrefix(c, name) > 0
    BY <1>2, <1>3, LookupByRoute
  <1>4. CASE ~(\/ IndexOf(c, name) > 0 \/ IndexOf(c, TrimClaude(name)) > 0
               \/ LongestPrefix(c, name) > 0)
    <2>1. ASSUME c.passthrough, NEW vendor, HasNativePassthroughPool(c, vendor),
                 entry = [name |-> name, provider |-> vendor]
          PROVE  SelectorOf(c, entry).kind # "none"
      <3>1. entry.name \notin RouteNames(c)
        BY <1>4, <2>1, IndexOfFinds
      <3>2. entry.provider \in PassthroughSelectors(c)
        BY <2>1 DEF HasNativePassthroughPool, PassthroughSelectors
      <3>3. SelectorOf(c, entry) = [kind |-> "passthrough", of |-> entry.provider]
        BY <3>1, <3>2 DEF SelectorOf
      <3> QED
        BY <3>3
    <2> QED
      BY <1>2, <1>4, <2>1, LookupElsewhere
  <1> QED
    BY <1>3, <1>4

-----------------------------------------------------------------------------
(* The requests that are routed. *)

\* A request that Route has accepted was served by the configuration it had read.
RequestsServed ==
    \A q \in Requests : request[q].pc # "idle" => Looked(q) # NoEntry

\* Every configuration a request can have read is one that validation lets through.
LEMMA RequestConfig ==
    ASSUME IInv, NEW q \in Requests
    PROVE  /\ WellFormed(config[request[q].cfgGen])
           /\ request[q].name \in Seq(STRING)
  <1>1. /\ config \in Histories /\ built \in Gens
        /\ request[q].cfgGen \in 1..built /\ request[q].name \in Names \union {NoName}
    BY DEF IInv, TypeOK
  <1>2. request[q].cfgGen \in Gens
    BY <1>1, BoundsAssumption DEF Gens
  <1>3. <<>> \in Seq(STRING)
    OBVIOUS
  <1> QED
    BY <1>1, <1>2, <1>3, HistoriesAssumption, NamesAssumption DEF NoName

\* No step changes what a request under way has read; only RouteConfig reads anew.
LEMMA ServedStep ==
    ASSUME IInv, RequestsServed, [Next]_vars
    PROVE  RequestsServed'
  <1>1. config' = config
    BY DEF Next, CallerStep, RequestStep, LoopStep, CallReload, CallerReloads,
           CallStopOrStart, Signal, Build, ReloadStep, RouteConfig, RouteTable, RequestEnds,
           TakeStop, TakeStart, TakeHup, TakeQuit, ListenFails, LoopReloads, Close, GetsQuit, vars
  <1>2. CASE request' = request
    BY <1>1, <1>2 DEF RequestsServed, Looked
  <1>3. ASSUME NEW q \in Requests, RequestStep(q)
        PROVE  RequestsServed'
    <2> SUFFICES ASSUME NEW p \in Requests, request'[p].pc # "idle"
                 PROVE  LookupModel(config[request'[p].cfgGen], request'[p].name) # NoEntry
      BY <1>1 DEF RequestsServed, Looked
    <2>1. request \in [Requests -> [pc : {"idle", "looked", "routed"},
                                    name : Names \union {NoName},
                                    cfgGen : 1..built, tableGen : 1..built]]
      BY DEF IInv, TypeOK
    <2>2. \A s \in Requests : s # q => request'[s] = request[s]
      BY <1>3, <2>1 DEF RequestStep, RouteConfig, RouteTable, RequestEnds
    <2>3. CASE p # q
      BY <2>2, <2>3 DEF RequestsServed, Looked
    <2>4. CASE p = q /\ RouteConfig(q)
      <3>1. PICK n \in Names :
                /\ LookupModel(config[routerCfg], n) # NoEntry
                /\ request' = [request EXCEPT ![q] =
                       [pc |-> "looked", name |-> n, cfgGen |-> routerCfg, tableGen |-> 1]]
        BY <2>4 DEF RouteConfig
      <3>2. request'[q] = [pc |-> "looked", name |-> n, cfgGen |-> routerCfg, tableGen |-> 1]
        BY <2>1, <3>1
      <3>3. request'[q].name = n /\ request'[q].cfgGen = routerCfg
        BY <3>2
      <3> QED
        BY <2>4, <3>1, <3>3
    <2>5. CASE p = q /\ RouteTable(q)
      <3>1. request[q].pc = "looked" /\ request'[q].name = request[q].name
              /\ request'[q].cfgGen = request[q].cfgGen
        BY <2>1, <2>5 DEF RouteTable
      <3> QED
        BY <2>5, <3>1 DEF RequestsServed, Looked
    <2>6. CASE p = q /\ RequestEnds(q)
      BY <2>1, <2>6 DEF RequestEnds, NoRequest
    <2> QED
      BY <1>3, <2>3, <2>4, <2>5, <2>6 DEF RequestStep
  <1> QED
    BY <1>2, <1>3
    DEF Next, CallerStep, LoopStep, CallReload, CallerReloads, CallStopOrStart, Signal,
        TakeStop, TakeStart, TakeHup, TakeQuit, ListenFails, LoopReloads, Close, GetsQuit, vars

LEMMA RequestsAlwaysServed == Spec => []RequestsServed
  <1>1. Init => RequestsServed
    BY DEF Init, RequestsServed, NoRequest
  <1>2. IInv /\ RequestsServed /\ [Next]_vars => RequestsServed'
    BY ServedStep
  <1> QED
    BY <1>1, <1>2, ServerInvariant, PTL DEF Spec

\* A request that is routed finds a selector, for every configuration that
\* validation lets through, unless a reload came between the two reads of Route
\* (LookupModel in config.go, buildRoutingState in server.go, builtin.go).
THEOREM RoutedAlwaysHasSelector == Spec => []RoutedHasSelector
  <1>1. IInv /\ RequestsServed => RoutedHasSelector
    <2> SUFFICES ASSUME IInv, RequestsServed, NEW q \in Requests,
                        request[q].pc = "routed", SelectorFor(q).kind = "none",
                        request[q].cfgGen = request[q].tableGen
                 PROVE  FALSE
      BY DEF RoutedHasSelector
    <2>1. WellFormed(config[request[q].cfgGen]) /\ Looked(q) # NoEntry
      BY RequestConfig DEF RequestsServed
    <2> QED
      BY <2>1, LookupHasSelector DEF SelectorFor, Looked
  <1> QED
    BY <1>1, ServerInvariant, RequestsAlwaysServed, PTL

\* Whoever asks for a configured name gets it, and whoever asks for another one
\* that some configured name fits gets the longest of those, whatever the order of
\* the routes (LookupModel, config.go).
THEOREM RoutesMostSpecific == Spec => []MostSpecificRoute
  <1>1. IInv => MostSpecificRoute
    <2> SUFFICES ASSUME IInv, NEW q \in Requests PROVE
          LET c == config[request[q].cfgGen]
              name == request[q].name
              fitting == {i \in DOMAIN c.routes : FitsRoute(c, i, name)}
          IN CASE name \in RouteNames(c) -> Looked(q).name = name
               [] name \notin RouteNames(c) /\ TrimClaude(name) \in RouteNames(c)
                    -> Looked(q).name = TrimClaude(name)
               [] OTHER -> fitting # {} =>
                    \E i \in fitting :
                        /\ c.routes[i].name = Looked(q).name
                        /\ \A j \in fitting : RouteLength(c, j) <= RouteLength(c, i)
      BY DEF MostSpecificRoute
    <2> DEFINE c == config[request[q].cfgGen]
    <2> DEFINE name == request[q].name
    <2> DEFINE trim == TrimClaude(name)
    <2>1. WellFormed(c)
      BY RequestConfig
    <2>2. DOMAIN c.routes = 1..Len(c.routes) /\ Looked(q) = LookupModel(c, name)
      BY <2>1, RouteLengths DEF Looked
    <2> HIDE DEF c, name
    <2>3. \A i : RouteEntry(c, i).name = c.routes[i].name
      BY DEF RouteEntry
    <2>4. ASSUME name \in RouteNames(c)
          PROVE  Looked(q).name = name
      <3>1. IndexOf(c, name) > 0 /\ c.routes[IndexOf(c, name)].name = name
        BY <2>1, <2>4, IndexOfFinds
      <3>2. LookupModel(c, name) = RouteEntry(c, IndexOf(c, name))
        BY <2>1, <3>1, LookupByRoute
      <3> QED
        BY <2>2, <2>3, <3>1, <3>2
    <2>5. ASSUME name \notin RouteNames(c), trim \in RouteNames(c)
          PROVE  Looked(q).name = trim
      <3>1. /\ ~(IndexOf(c, name) > 0) /\ IndexOf(c, trim) > 0
            /\ c.routes[IndexOf(c, trim)].name = trim
        BY <2>1, <2>5, IndexOfFinds
      <3>2. LookupModel(c, name) = RouteEntry(c, IndexOf(c, trim))
        BY <2>1, <3>1, LookupByRoute
      <3> QED
        BY <2>2, <2>3, <3>1, <3>2
    <2> DEFINE fitting == {i \in DOMAIN c.routes : FitsRoute(c, i, name)}
    <2>6. ASSUME name \notin RouteNames(c), trim \notin RouteNames(c), fitting # {}
          PROVE  \E i \in fitting :
                    /\ c.routes[i].name = Looked(q).name
                    /\ \A j \in fitting : RouteLength(c, j) <= RouteLength(c, i)
      <3> DEFINE i == LongestPrefix(c, name)
      <3>1. ~(IndexOf(c, name) > 0) /\ ~(IndexOf(c, trim) > 0)
        BY <2>1, <2>6, IndexOfFinds
      <3>2. /\ i \in 0..Len(c.routes) /\ i > 0 /\ FitsRoute(c, i, name)
            /\ \A j \in fitting : RouteLength(c, j) <= RouteLength(c, i)
        BY <2>1, <2>6, LongestPrefixFinds
      <3>3. LookupModel(c, name) = RouteEntry(c, i) /\ i \in 1..Len(c.routes)
        BY <2>1, <3>1, <3>2, LookupByRoute
      <3> QED
        BY <2>2, <2>3, <3>2, <3>3
    <2> QED
      BY <2>4, <2>5, <2>6 DEF c, name
  <1> QED
    BY <1>1, ServerInvariant, PTL
=============================================================================
