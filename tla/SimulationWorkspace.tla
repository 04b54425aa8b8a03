--------------------------- MODULE SimulationWorkspace ---------------------------
(***************************************************************************)
(* The life of one owner's simulation sessions (simulation.py): the API    *)
(* handlers, the background operations tick (runtime_ops.py, api.py) and   *)
(* the projection refresh (frontend_projections.py) on one database.       *)
(*                                                                         *)
(* Every API handler begins with record_account_presence, whose UPDATE     *)
(* takes SQLite's write lock, reads the sessions after it and commits at   *)
(* its end: a handler is one action, and a refused one changes nothing.    *)
(* Two callers read before they hold the lock.  The tick loads the session *)
(* in advance_running_simulation_session, and its later query returns the  *)
(* object already in its identity map with the values it had then.  The    *)
(* projection refresh calls ensure_simulation_session without recording    *)
(* presence.  Each of them is two actions.                                 *)
(*                                                                         *)
(* Which orders pass validation is the subject of SimulationLedger; here   *)
(* an order is counted.  Times are the moments of market bars and steps.   *)
(***************************************************************************)
EXTENDS Integers, Sequences, FiniteSets

CONSTANTS
    CashValues,     \* amounts a user may configure
    DefaultCash,    \* DEFAULT_INITIAL_CASH
    MaxSessions,    \* bound: sessions of the owner
    MaxTime,        \* bound: moments
    MaxStep,        \* bound: steps a user asks for in one session
    MaxOrders       \* bound: orders of one track in one session

ASSUME WorkspaceAssumption ==
    /\ DefaultCash \in CashValues
    /\ MaxSessions \in Nat /\ MaxTime \in Nat
    /\ MaxStep \in Nat /\ MaxOrders \in Nat

Status == {"draft", "running", "paused", "ended"}
Tracks == {"manual", "model"}
Time == 0..MaxTime

VARIABLES
    sessions,       \* rows of simulation_sessions with their two portfolios
    market,         \* moment of the latest committed market bar
    watchlist,      \* whether the owner's active watchlist has a symbol
    othersTrade,    \* whether other accounts follow stocks and trade automatically
    tick,           \* what the background tick has read
    projection,     \* what the projection refresh has read
    staleCommit,    \* history: a tick wrote from values that had changed
    blindDraft      \* history: a session was created from an outdated read

vars == <<sessions, market, watchlist, othersTrade, tick, projection, staleCommit, blindDraft>>

Portfolio == [status : Status, startingCash : CashValues, orders : Nat]

Session == [status : Status, step : Nat, clock : Time, initialCash : CashValues,
            auto : BOOLEAN, started : BOOLEAN, restarts : Nat,
            symbols : BOOLEAN,      \* session_payload["watch_symbols"] is set
            refreshes : Nat,        \* its refresh_step events
            tracks : [Tracks -> Portfolio]]

Idle == [pc |-> "idle"]

---------------------------------------------------------------------------
(* Helpers *)

\* _latest_session: the newest session that has not ended, else the newest.
Latest(ss) ==
    LET live == {i \in DOMAIN ss : ss[i].status # "ended"}
        newest(S) == CHOOSE i \in S : \A j \in S : j <= i
    IN  IF live = {} THEN Len(ss) ELSE newest(live)

\* _watch_symbols: the configured symbols, else those of the watchlist.
HasSymbols(s) == s.symbols \/ watchlist

\* _default_data_time: the latest bar of the symbols, the current time
\* without one.
StartTimes(hasSymbols) == IF hasSymbols THEN {market} ELSE market..MaxTime

\* _new_session with its two portfolios.
NewSession(status, cash, auto, restarts, symbols, clock) ==
    [status |-> status, step |-> 0, clock |-> clock, initialCash |-> cash,
     auto |-> auto, started |-> status = "running", restarts |-> restarts,
     symbols |-> symbols, refreshes |-> 0,
     tracks |-> [t \in Tracks |->
                    [status |-> status, startingCash |-> cash, orders |-> 0]]]

\* Mutant of Draft: a first session without money.
MutantDraft(clock) == NewSession("draft", 0, FALSE, 0, watchlist, clock)

Draft(clock) == NewSession("draft", DefaultCash, FALSE, 0, watchlist, clock)

\* ensure_simulation_session: what a handler finds, a first draft included.
Ensured ==
    IF sessions # <<>> THEN {sessions}
    ELSE {<<Draft(c)>> : c \in StartTimes(watchlist)}

\* Mutant of WithTrackStatus: the model portfolio is forgotten.
MutantWithTrackStatus(s, status) == [s EXCEPT !.tracks["manual"].status = status]

WithTrackStatus(s, status) ==
    [s EXCEPT !.tracks = [t \in Tracks |-> [@[t] EXCEPT !.status = status]]]

\* A handler ends with _workspace_payload, which copies the watchlist into a
\* session without symbols, and commits.
Commit(ss, i, s) ==
    sessions' = [ss EXCEPT ![i] = [s EXCEPT !.symbols = HasSymbols(s)]]

\* Mutant of Stepped: the step is recorded only when the model trades.
MutantStepped(row, seen, clock, modelOrders) ==
    [row EXCEPT !.step = seen.step + 1,
                !.clock = clock,
                !.refreshes = @ + modelOrders,
                !.tracks["model"].orders = @ + modelOrders]

\* The refresh step of a session seen with the values of "seen": a new clock
\* and, when it executes automatically, an order of the model track.  The
\* columns it does not assign keep the values of the row.
Stepped(row, seen, clock, modelOrders) ==
    [row EXCEPT !.step = seen.step + 1,
                !.clock = clock,
                !.refreshes = @ + 1,
                !.tracks["model"].orders = @ + modelOrders]

ModelOrders(seen, row) ==
    IF seen.auto /\ row.tracks["model"].orders < MaxOrders THEN {0, 1} ELSE {0}

---------------------------------------------------------------------------
(* Requests *)

Init ==
    /\ sessions = <<>>
    /\ market = 0
    /\ watchlist \in BOOLEAN
    /\ othersTrade \in BOOLEAN
    /\ tick = Idle
    /\ projection = "idle"
    /\ staleCommit = FALSE
    /\ blindDraft = FALSE

UnchangedByRequest == UNCHANGED <<market, watchlist, othersTrade, tick, projection,
                                  staleCommit, blindDraft>>

\* get_simulation_workspace
View ==
    /\ \E ss \in Ensured : Commit(ss, Latest(ss), ss[Latest(ss)])
    /\ UnchangedByRequest

\* update_simulation_config.  An empty list of symbols means the watchlist.
UpdateConfig(cash, auto, listed) ==
    /\ \E ss \in Ensured :
        LET i == Latest(ss)
            s == ss[i]
        IN  /\ s.status # "ended"
            /\ listed \/ watchlist
            /\ s.step > 0 => cash = s.initialCash
            /\ Commit(ss, i,
                   [s EXCEPT !.initialCash = cash,
                             !.auto = auto,
                             !.symbols = TRUE,
                             !.tracks = [t \in Tracks |->
                                 [@[t] EXCEPT !.startingCash = cash,
                                              !.status = s.status]]])
    /\ UnchangedByRequest

\* start_simulation_session on a draft or a paused session; on a running one
\* it returns the workspace, as View does.
Start ==
    /\ \E ss \in Ensured :
        LET i == Latest(ss)
            s == ss[i]
        IN  /\ s.status \in {"draft", "paused"}
            /\ HasSymbols(s)
            /\ Commit(ss, i, WithTrackStatus(
                   [s EXCEPT !.status = "running", !.started = TRUE], "running"))
    /\ UnchangedByRequest

\* pause_simulation_session
Pause ==
    /\ \E ss \in Ensured :
        LET i == Latest(ss)
            s == ss[i]
        IN  /\ s.status = "running"
            /\ Commit(ss, i, WithTrackStatus([s EXCEPT !.status = "paused"], "paused"))
    /\ UnchangedByRequest

\* Mutant of Resume: the status is not looked at.
MutantResume ==
    /\ \E ss \in Ensured :
        LET i == Latest(ss)
        IN  Commit(ss, i, WithTrackStatus([ss[i] EXCEPT !.status = "running"], "running"))
    /\ UnchangedByRequest

\* resume_simulation_session
Resume ==
    /\ \E ss \in Ensured :
        LET i == Latest(ss)
            s == ss[i]
        IN  /\ s.status = "paused"
            /\ Commit(ss, i, WithTrackStatus([s EXCEPT !.status = "running"], "running"))
    /\ UnchangedByRequest

\* Mutant of ManualOrder: only an ended session refuses an order.
MutantManualOrder ==
    /\ \E ss \in Ensured :
        LET i == Latest(ss)
            s == ss[i]
        IN  /\ s.status # "ended"
            /\ s.tracks["manual"].orders < MaxOrders
            /\ Commit(ss, i, [s EXCEPT !.tracks["manual"].orders = @ + 1])
    /\ UnchangedByRequest

\* place_manual_order, accepted.
ManualOrder ==
    /\ \E ss \in Ensured :
        LET i == Latest(ss)
            s == ss[i]
        IN  /\ s.status \in {"running", "paused"}
            /\ s.tracks["manual"].orders < MaxOrders
            /\ Commit(ss, i, [s EXCEPT !.tracks["manual"].orders = @ + 1])
    /\ UnchangedByRequest

\* step_simulation_session asked for by the user: the clock moves by the
\* session's interval.
Step ==
    /\ \E ss \in Ensured :
        LET i == Latest(ss)
            s == ss[i]
        IN  /\ s.status = "running"
            /\ s.step < MaxStep
            /\ \E clock \in s.clock + 1..MaxTime, n \in ModelOrders(s, s) :
                   Commit(ss, i, Stepped(s, s, clock, n))
    /\ UnchangedByRequest

\* Mutant of Restart: the current session is not ended.
MutantRestart ==
    /\ \E ss \in Ensured :
        LET s == ss[Latest(ss)]
        IN  /\ Len(ss) < MaxSessions
            /\ \E clock \in StartTimes(HasSymbols(s)) :
                   sessions' = Append(ss,
                       NewSession("running", s.initialCash, s.auto,
                                  s.restarts + 1, HasSymbols(s), clock))
    /\ UnchangedByRequest

\* restart_simulation_session: the current session ends, its portfolios keep
\* their status, and a new one runs with its parameters.
Restart ==
    /\ \E ss \in Ensured :
        LET i == Latest(ss)
            s == ss[i]
            ended == [ss EXCEPT ![i].status = "ended",
                                ![i].symbols = HasSymbols(s)]
        IN  /\ Len(ss) < MaxSessions
            /\ \E clock \in StartTimes(HasSymbols(s)) :
                   sessions' = Append(ended,
                       NewSession("running", s.initialCash, s.auto,
                                  s.restarts + 1, HasSymbols(s), clock))
    /\ UnchangedByRequest

\* end_simulation_session, confirmed; on an ended session it returns the
\* workspace, as View does.
End ==
    /\ \E ss \in Ensured :
        LET i == Latest(ss)
            s == ss[i]
        IN  /\ s.status # "ended"
            /\ Commit(ss, i, WithTrackStatus([s EXCEPT !.status = "ended"], "ended"))
    /\ UnchangedByRequest

---------------------------------------------------------------------------
(* The projection refresh: ensure_simulation_session outside the lock *)

\* It finds no session; when it finds one it does what View does.
ProjectionReads ==
    /\ projection = "idle"
    /\ sessions = <<>>
    /\ projection' = "absent"
    /\ UNCHANGED <<sessions, market, watchlist, othersTrade, tick, staleCommit, blindDraft>>

ProjectionCommits ==
    /\ projection = "absent"
    /\ projection' = "idle"
    /\ Len(sessions) < MaxSessions
    /\ \E clock \in StartTimes(watchlist) :
           sessions' = Append(sessions, Draft(clock))
    /\ blindDraft' = (blindDraft \/ sessions # <<>>)
    /\ UNCHANGED <<market, watchlist, othersTrade, tick, staleCommit>>

---------------------------------------------------------------------------
(* The background tick *)

SomeRunning == \E i \in DOMAIN sessions : sessions[i].status = "running"

\* Mutant of Behind: the clocks are not compared.
MutantBehind(s, bar) == s.status = "running" /\ HasSymbols(s)

\* advance_running_simulation_session goes on when the session runs and its
\* clock is behind the latest bar of its symbols.
Behind(s, bar) == s.status = "running" /\ HasSymbols(s) /\ s.clock < bar

\* run_operations_tick with fresh market data: nothing has been written when
\* the session is loaded, so the lock is still free.  The tick looks at the
\* stocks that any account follows.
TickReads ==
    /\ tick = Idle
    /\ watchlist \/ othersTrade
    /\ SomeRunning
    /\ LET i == Latest(sessions)
           s == sessions[i]
       IN  /\ Behind(s, market)
           /\ tick' = [pc |-> "loaded", index |-> i, anchor |-> market,
                       step |-> s.step, auto |-> s.auto]
    /\ UNCHANGED <<sessions, market, watchlist, othersTrade, projection, staleCommit, blindDraft>>

\* The rows as the tick's second query returns them: the loaded object keeps
\* the values it had, of which the step reads these; other rows are read anew.
SeenByTick ==
    [sessions EXCEPT ![tick.index].status = "running",
                     ![tick.index].step = tick.step,
                     ![tick.index].auto = tick.auto]

\* What the tick loaded no longer describes the session.
Outdated ==
    \/ Latest(SeenByTick) # tick.index
    \/ sessions[tick.index].status # "running"
    \/ sessions[tick.index].step # tick.step

\* step_simulation_session called by the tick, under the lock, and committed.
TickSteps ==
    /\ tick # Idle
    /\ LET i == Latest(SeenByTick)
           seen == SeenByTick[i]
       IN  /\ seen.status = "running"
           /\ \E n \in ModelOrders(seen, sessions[i]) :
                  Commit(sessions, i, Stepped(sessions[i], seen, tick.anchor, n))
           /\ staleCommit' = (staleCommit \/ Outdated)
    /\ tick' = Idle
    /\ UNCHANGED <<market, watchlist, othersTrade, projection, blindDraft>>

\* Mutant of TickFails: comparing the two clocks may raise for any session.
MutantTickFails ==
    /\ tick # Idle
    /\ tick' = Idle
    /\ UNCHANGED <<sessions, market, watchlist, othersTrade, projection, staleCommit, blindDraft>>

\* An exception leaves the tick's transaction without a commit: a refused model
\* order, a session no longer running, or a refused model order of any other
\* owner, whose sessions the same transaction advances.
TickFails ==
    /\ tick # Idle
    /\ LET seen == SeenByTick[Latest(SeenByTick)]
       IN  seen.auto \/ seen.status # "running" \/ othersTrade
    /\ tick' = Idle
    /\ UNCHANGED <<sessions, market, watchlist, othersTrade, projection, staleCommit, blindDraft>>

\* run_operations_tick with stale market data: sync_intraday_market writes the
\* new bar first, so the rest of the transaction holds the lock.
TickSyncs ==
    /\ tick = Idle
    /\ watchlist \/ othersTrade
    /\ market < MaxTime
    /\ market' = market + 1
    /\ LET i == Latest(sessions)
       IN  IF SomeRunning /\ Behind(sessions[i], market + 1)
           THEN \E n \in ModelOrders(sessions[i], sessions[i]) :
                    Commit(sessions, i,
                        Stepped(sessions[i], sessions[i], market + 1, n))
           ELSE UNCHANGED sessions
    /\ UNCHANGED <<watchlist, othersTrade, tick, projection, staleCommit, blindDraft>>

---------------------------------------------------------------------------
(* Surroundings *)

\* The scheduled refresh commits a new bar.
NewBar ==
    /\ market < MaxTime
    /\ market' = market + 1
    /\ UNCHANGED <<sessions, watchlist, othersTrade, tick, projection, staleCommit, blindDraft>>

\* The owner follows a first stock or drops the last one.
WatchlistChanges ==
    /\ watchlist' = ~watchlist
    /\ UNCHANGED <<sessions, market, othersTrade, tick, projection, staleCommit, blindDraft>>

\* Another account starts or stops to follow stocks and trade automatically.
OthersChange ==
    /\ othersTrade' = ~othersTrade
    /\ UNCHANGED <<sessions, market, watchlist, tick, projection, staleCommit, blindDraft>>

Request ==
    \/ View \/ Start \/ Pause \/ Resume \/ ManualOrder \/ Step \/ Restart \/ End
    \/ \E cash \in CashValues, auto, listed \in BOOLEAN : UpdateConfig(cash, auto, listed)

Tick == TickReads \/ TickSteps \/ TickFails \/ TickSyncs

Next ==
    \/ Request
    \/ Tick
    \/ ProjectionReads \/ ProjectionCommits
    \/ NewBar \/ WatchlistChanges \/ OthersChange

Spec == Init /\ [][Next]_vars

\* background_operations_loop runs a tick every minute for the life of the API
\* and waits for its end before the next one.
FairSpec == Spec /\ WF_vars(TickReads) /\ WF_vars(TickSteps \/ TickFails)

---------------------------------------------------------------------------
(* Properties *)

TypeOK ==
    /\ sessions \in Seq(Session)
    /\ market \in Time
    /\ watchlist \in BOOLEAN /\ othersTrade \in BOOLEAN
    /\ \/ tick = Idle
       \/ tick \in [pc : {"loaded"}, index : DOMAIN sessions, anchor : Time,
                    step : Nat, auto : BOOLEAN]
    /\ projection \in {"idle", "absent"}
    /\ staleCommit \in BOOLEAN /\ blindDraft \in BOOLEAN

\* Whatever starts, restarts and ends, an owner has one session at most that
\* has not ended, the newest: unless a projection created a draft blindly.
OneLiveSession ==
    ~blindDraft => \A i \in DOMAIN sessions :
        i < Len(sessions) => sessions[i].status = "ended"

\* The two tracks are comparable: as long as a session lives, both portfolios
\* have its status and start from its initial cash, through every race.
TracksAligned ==
    \A i \in DOMAIN sessions : sessions[i].status # "ended" =>
        \A t \in Tracks : /\ sessions[i].tracks[t].status = sessions[i].status
                          /\ sessions[i].tracks[t].startingCash = sessions[i].initialCash

\* Only a started session has stepped or holds orders.
TradedOnlyAfterStart ==
    \A i \in DOMAIN sessions :
        (sessions[i].step > 0 \/ \E t \in Tracks : sessions[i].tracks[t].orders > 0)
            => sessions[i].started /\ sessions[i].status # "draft"

\* The refresh_step events of a session carry the numbers 1 to current_step,
\* each once, unless a tick overwrote a step it had not seen.
StepsNumbered ==
    ~staleCommit => \A i \in DOMAIN sessions : sessions[i].refreshes = sessions[i].step

\* The requests, the ticks and the projection implement the life of a session
\* as its owner is promised it: no interleaving takes a session back to draft,
\* moves one that is not current, or revives an ended one.
Lifecycle == INSTANCE SessionLifecycle WITH
    statuses <- [i \in DOMAIN sessions |-> sessions[i].status]

LifecycleRefined == Lifecycle!Spec

\* An ended session's clock, steps and orders stay as they are, and a living
\* session's clock never goes back, unless a tick writes outdated values.
TimelineKept ==
    [][~staleCommit' =>
        \A i \in DOMAIN sessions :
            /\ sessions'[i].clock >= sessions[i].clock
            /\ sessions[i].status = "ended" =>
                   /\ sessions'[i].step = sessions[i].step
                   /\ sessions'[i].clock = sessions[i].clock
                   /\ sessions'[i].tracks = sessions[i].tracks]_vars

\* simulation.py:1198 tells the user who pauses that the timeline of both
\* tracks is frozen: while a session stays paused its clock and step stand.
PausedIsFrozen ==
    [][\A i \in DOMAIN sessions :
        (sessions[i].status = "paused" /\ sessions'[i].status = "paused") =>
            /\ sessions'[i].clock = sessions[i].clock
            /\ sessions'[i].step = sessions[i].step]_vars

\* The current session lags behind the market and only the tick can help.
Lagging ==
    /\ sessions # <<>>
    /\ watchlist
    /\ LET s == sessions[Latest(sessions)] IN Behind(s, market) /\ ~s.auto

\* A running session that does not trade by itself catches up with the market,
\* unless other owners trade, whose refused orders roll its steps back too.
CatchesUp == <>[]~othersTrade => []<>~Lagging
================================================================================
