----------------------- MODULE SimulationWorkspace_proofs -----------------------
(***************************************************************************)
(* Theorems about SimulationWorkspace, for any amounts of cash and any     *)
(* number of sessions, moments, steps and orders.                          *)
(***************************************************************************)
EXTENDS SimulationWorkspace, FiniteSetTheorems, SequenceTheorems, TLAPS

---------------------------------------------------------------------------
(* The latest session *)

\* The sets of later members shrink as the member grows, so one is empty.
LEMMA NewestExists ==
    ASSUME NEW n \in Nat, NEW S \in SUBSET (1..n), S # {}
    PROVE  \E i \in S : \A j \in S : j <= i
<1> DEFINE later(i) == {j \in S : j > i}
           T == {later(i) : i \in S}
<1>1. IsFiniteSet(S)
    <2>1. IsFiniteSet(1..n)
        BY FS_Interval
    <2> QED BY <2>1, FS_Subset
<1>2. T \subseteq FiniteSubsetsOf(S)
    <2>1. ASSUME NEW i \in S PROVE later(i) \in SUBSET S /\ IsFiniteSet(later(i))
        BY <1>1, FS_Subset
    <2> QED BY <2>1 DEF FiniteSubsetsOf
<1>3. T # {}
    OBVIOUS
<1>4. \E x \in T : \A y \in T : <<y, x>> \notin StrictSubsetOrdering(S)
    BY <1>2, <1>3, FS_StrictSubsetOrderingWellFounded, WFMin
<1>5. PICK i \in S : \A y \in T : <<y, later(i)>> \notin StrictSubsetOrdering(S)
    BY <1>4
<1>6. ASSUME NEW j \in S, j > i PROVE FALSE
    <2>1. later(j) \in SUBSET S /\ later(i) \in SUBSET S
        OBVIOUS
    <2>2. later(j) \subseteq later(i)
        <3>1. ASSUME NEW k \in S, k > j PROVE k > i
            <4>1. i \in Int /\ j \in Int /\ k \in Int
                OBVIOUS
            <4> QED BY <1>6, <3>1, <4>1
        <3> QED BY <3>1
    <2>3. j \in later(i) /\ j \notin later(j)
        BY <1>6
    <2>4. later(j) \in T
        OBVIOUS
    <2> HIDE DEF later
    <2>5. later(j) # later(i)
        BY <2>3
    <2>6. <<later(j), later(i)>> \in StrictSubsetOrdering(S)
        BY <2>1, <2>2, <2>5 DEF StrictSubsetOrdering
    <2> QED BY <1>5, <2>4, <2>6
<1> QED BY <1>6

LEMMA LatestIsIn ==
    ASSUME NEW ss \in Seq(Session), ss # <<>>
    PROVE  /\ Latest(ss) \in 1..Len(ss)
           /\ ss[Latest(ss)].status = "ended" =>
                  \A i \in 1..Len(ss) : ss[i].status = "ended"
           /\ (\A i \in 1..Len(ss) : i < Len(ss) => ss[i].status = "ended") =>
                  Latest(ss) = Len(ss)
<1> DEFINE live == {i \in DOMAIN ss : ss[i].status # "ended"}
<1>1. Len(ss) \in Nat /\ Len(ss) # 0 /\ DOMAIN ss = 1..Len(ss)
    BY LenProperties, EmptySeq
<1>2. CASE live = {}
    <2>1. Latest(ss) = Len(ss)
        BY <1>2 DEF Latest
    <2> QED BY <1>1, <1>2, <2>1
<1>3. CASE live # {}
    <2>1. live \in SUBSET (1..Len(ss))
        BY <1>1
    <2>2. Latest(ss) = CHOOSE i \in live : \A j \in live : j <= i
        BY <1>3 DEF Latest
    <2> HIDE DEF live
    <2>3. \E i \in live : \A j \in live : j <= i
        BY <1>1, <1>3, <2>1, NewestExists
    <2>4. Latest(ss) \in live /\ \A j \in live : j <= Latest(ss)
        BY <2>2, <2>3
    <2> USE DEF live
    <2>5. ss[Latest(ss)].status # "ended" /\ Latest(ss) \in 1..Len(ss)
        BY <1>1, <2>4
    <2> QED BY <1>1, <2>5
<1> QED BY <1>2, <1>3

---------------------------------------------------------------------------
(* What happens to one session *)

\* The inductive part of the invariants that speaks of one row.
Sound(s) ==
    /\ s.status # "ended" =>
          \A t \in Tracks : /\ s.tracks[t].status = s.status
                            /\ s.tracks[t].startingCash = s.initialCash
    /\ s.status \in {"running", "paused"} => s.started
    /\ s.started => s.status # "draft"
    /\ (s.step > 0 \/ \E t \in Tracks : s.tracks[t].orders > 0) => s.started

Numbered(s) == s.refreshes = s.step

\* The statuses that one request may give a session.
Turns(a, b) ==
    \/ b \in {a, "ended"}
    \/ a \in {"draft", "paused"} /\ b = "running"
    \/ a = "running" /\ b = "paused"

\* What a request, or a tick that has seen the row as it is, makes of a row.
Moves(s, s2) ==
    /\ s2 \in Session
    /\ Turns(s.status, s2.status)
    /\ Sound(s) => Sound(s2)
    /\ Numbered(s) => Numbered(s2)
    /\ s.status = "ended" =>
          s2.status = "ended" /\ s2.step = s.step /\ s2.clock = s.clock /\ s2.tracks = s.tracks
    /\ s.started => s2.started
    /\ \/ s2.step = s.step /\ s2.clock = s.clock
       \/ /\ s2.step = s.step + 1 /\ s2.clock > s.clock
          /\ s.status = "running" /\ s2.status = "running"

LEMMA NewIsSound ==
    ASSUME NEW status \in {"draft", "running"}, NEW cash \in CashValues, NEW auto \in BOOLEAN,
           NEW restarts \in Nat, NEW symbols \in BOOLEAN, NEW clock \in Time
    PROVE  LET s == NewSession(status, cash, auto, restarts, symbols, clock)
           IN  s \in Session /\ Sound(s) /\ Numbered(s) /\ s.status = status
<1> DEFINE s == NewSession(status, cash, auto, restarts, symbols, clock)
<1>1. s \in Session
    <2>1. [t \in Tracks |-> [status |-> status, startingCash |-> cash, orders |-> 0]]
              \in [Tracks -> Portfolio]
        BY DEF Portfolio, Status
    <2>2. status \in Status /\ (status = "running") \in BOOLEAN
        BY DEF Status
    <2> QED BY <2>1, <2>2 DEF NewSession, Session
<1>2. Sound(s)
    <2>1. /\ s.status = status /\ s.initialCash = cash /\ s.step = 0
          /\ s.started <=> status = "running"
          /\ \A t \in Tracks : /\ s.tracks[t].status = status
                                /\ s.tracks[t].startingCash = cash
                                /\ s.tracks[t].orders = 0
        BY DEF NewSession
    <2> HIDE DEF s
    <2> QED BY <2>1 DEF Sound
<1>3. Numbered(s) /\ s.status = status
    BY DEF NewSession, Numbered
<1> QED BY <1>1, <1>2, <1>3

LEMMA SymbolsMove ==
    ASSUME NEW s \in Session, NEW b \in BOOLEAN
    PROVE  Moves(s, [s EXCEPT !.symbols = b])
BY DEF Moves, Turns, Sound, Numbered, Session

\* The status of the session and of its portfolios, with whether it was started.
LEMMA StatusMove ==
    ASSUME NEW s \in Session, s.status # "ended", NEW status \in Status, NEW b \in BOOLEAN,
           Turns(s.status, status), NEW started \in BOOLEAN, s.started => started,
           status \in {"running", "paused"} => started, started => status # "draft"
    PROVE  Moves(s, [WithTrackStatus([s EXCEPT !.status = status, !.started = started], status)
                        EXCEPT !.symbols = b])
<1> DEFINE s2 == [WithTrackStatus([s EXCEPT !.status = status, !.started = started], status)
                     EXCEPT !.symbols = b]
<1>1. /\ s2.status = status /\ s2.started = started /\ s2.symbols = b
      /\ s2.step = s.step /\ s2.clock = s.clock /\ s2.initialCash = s.initialCash
      /\ s2.refreshes = s.refreshes
      /\ s2.tracks = [t \in Tracks |-> [s.tracks[t] EXCEPT !.status = status]]
    BY DEF WithTrackStatus, Session
<1>2. s2 \in Session
    BY DEF WithTrackStatus, Session, Portfolio
<1>3. \A t \in Tracks : /\ s2.tracks[t].status = status
                        /\ s2.tracks[t].startingCash = s.tracks[t].startingCash
                        /\ s2.tracks[t].orders = s.tracks[t].orders
    BY <1>1 DEF Session, Portfolio
<1> HIDE DEF s2
<1>4. Sound(s) => Sound(s2)
    BY <1>1, <1>3 DEF Sound
<1>5. Moves(s, s2)
    BY <1>1, <1>2, <1>4 DEF Moves, Turns, Numbered
<1> QED BY <1>5 DEF s2

\* The status of a session that has been started.
LEMMA StatusOnlyMove ==
    ASSUME NEW s \in Session, s.status \in {"running", "paused"},
           NEW status \in {"running", "paused"}, Turns(s.status, status), NEW b \in BOOLEAN
    PROVE  Moves(s, [WithTrackStatus([s EXCEPT !.status = status], status) EXCEPT !.symbols = b])
<1> DEFINE s2 == [WithTrackStatus([s EXCEPT !.status = status], status) EXCEPT !.symbols = b]
<1>1. /\ s2.status = status /\ s2.started = s.started
      /\ s2.step = s.step /\ s2.clock = s.clock /\ s2.initialCash = s.initialCash
      /\ s2.refreshes = s.refreshes
      /\ s2.tracks = [t \in Tracks |-> [s.tracks[t] EXCEPT !.status = status]]
    BY DEF WithTrackStatus, Session
<1>2. s2 \in Session
    BY DEF WithTrackStatus, Session, Portfolio, Status
<1>3. \A t \in Tracks : /\ s2.tracks[t].status = status
                        /\ s2.tracks[t].startingCash = s.tracks[t].startingCash
                        /\ s2.tracks[t].orders = s.tracks[t].orders
    BY <1>1 DEF Session, Portfolio
<1> HIDE DEF s2
<1>4. Sound(s) => Sound(s2)
    BY <1>1, <1>3 DEF Sound
<1>5. Moves(s, s2)
    BY <1>1, <1>2, <1>4 DEF Moves, Turns, Numbered
<1> QED BY <1>5 DEF s2

\* The end of a session.
LEMMA EndMove ==
    ASSUME NEW s \in Session, s.status # "ended", NEW b \in BOOLEAN
    PROVE  Moves(s, [WithTrackStatus([s EXCEPT !.status = "ended"], "ended") EXCEPT !.symbols = b])
<1> DEFINE s2 == [WithTrackStatus([s EXCEPT !.status = "ended"], "ended") EXCEPT !.symbols = b]
<1>1. /\ s2.status = "ended" /\ s2.started = s.started
      /\ s2.step = s.step /\ s2.clock = s.clock /\ s2.initialCash = s.initialCash
      /\ s2.refreshes = s.refreshes
      /\ s2.tracks = [t \in Tracks |-> [s.tracks[t] EXCEPT !.status = "ended"]]
    BY DEF WithTrackStatus, Session
<1>2. s2 \in Session
    BY DEF WithTrackStatus, Session, Portfolio, Status
<1>3. \A t \in Tracks : /\ s2.tracks[t].status = "ended"
                        /\ s2.tracks[t].startingCash = s.tracks[t].startingCash
                        /\ s2.tracks[t].orders = s.tracks[t].orders
    BY <1>1 DEF Session, Portfolio
<1> HIDE DEF s2
<1>4. Sound(s) => Sound(s2)
    BY <1>1, <1>3 DEF Sound
<1>5. Moves(s, s2)
    BY <1>1, <1>2, <1>4 DEF Moves, Turns, Numbered
<1> QED BY <1>5 DEF s2

\* The columns of the configuration.
LEMMA ConfigMove ==
    ASSUME NEW s \in Session, s.status # "ended", NEW cash \in CashValues,
           NEW auto \in BOOLEAN, NEW b \in BOOLEAN
    PROVE  Moves(s, [[s EXCEPT !.initialCash = cash,
                               !.auto = auto,
                               !.symbols = TRUE,
                               !.tracks = [t \in Tracks |->
                                   [@[t] EXCEPT !.startingCash = cash,
                                                !.status = s.status]]] EXCEPT !.symbols = b])
<1> DEFINE s2 == [[s EXCEPT !.initialCash = cash,
                            !.auto = auto,
                            !.symbols = TRUE,
                            !.tracks = [t \in Tracks |->
                                [@[t] EXCEPT !.startingCash = cash,
                                             !.status = s.status]]] EXCEPT !.symbols = b]
<1>1. /\ s2.status = s.status /\ s2.started = s.started
      /\ s2.step = s.step /\ s2.clock = s.clock /\ s2.initialCash = cash
      /\ s2.refreshes = s.refreshes
      /\ s2.tracks = [t \in Tracks |->
                         [s.tracks[t] EXCEPT !.startingCash = cash, !.status = s.status]]
    BY DEF Session
<1>2. s2 \in Session
    <2>1. [t \in Tracks |-> [s.tracks[t] EXCEPT !.startingCash = cash, !.status = s.status]]
              \in [Tracks -> Portfolio]
        BY DEF Session, Portfolio
    <2> QED BY <2>1 DEF Session
<1>3. ASSUME NEW t \in Tracks
      PROVE  /\ s2.tracks[t].status = s.status
             /\ s2.tracks[t].startingCash = cash
             /\ s2.tracks[t].orders = s.tracks[t].orders
    <2>1. s2.tracks[t] = [s.tracks[t] EXCEPT !.startingCash = cash, !.status = s.status]
        BY <1>1
    <2>2. s.tracks[t] \in Portfolio
        BY DEF Session
    <2> QED BY <2>1, <2>2 DEF Portfolio
<1> HIDE DEF s2
<1>4. Sound(s) => Sound(s2)
    BY <1>1, <1>3 DEF Sound
<1>5. Moves(s, s2)
    BY <1>1, <1>2, <1>4 DEF Moves, Turns, Numbered
<1> QED BY <1>5 DEF s2

LEMMA OrderMove ==
    ASSUME NEW s \in Session, s.status \in {"running", "paused"}, NEW b \in BOOLEAN
    PROVE  Moves(s, [[s EXCEPT !.tracks["manual"].orders = @ + 1] EXCEPT !.symbols = b])
<1> DEFINE s2 == [[s EXCEPT !.tracks["manual"].orders = @ + 1] EXCEPT !.symbols = b]
<1>1. /\ s2.status = s.status /\ s2.started = s.started
      /\ s2.step = s.step /\ s2.clock = s.clock /\ s2.initialCash = s.initialCash
      /\ s2.refreshes = s.refreshes
    BY DEF Session
<1>2. s2 \in Session
    <2>1. [s.tracks EXCEPT !["manual"].orders = s.tracks["manual"].orders + 1] \in [Tracks -> Portfolio]
        BY DEF Session, Portfolio, Tracks
    <2> QED BY <2>1 DEF Session
<1>3. \A t \in Tracks : /\ s2.tracks[t].status = s.tracks[t].status
                        /\ s2.tracks[t].startingCash = s.tracks[t].startingCash
    BY DEF Session, Portfolio, Tracks
<1> HIDE DEF s2
<1>4. Sound(s) => Sound(s2)
    BY <1>1, <1>3 DEF Sound
<1>5. Moves(s, s2)
    BY <1>1, <1>2, <1>4 DEF Moves, Turns, Numbered
<1> QED BY <1>5 DEF s2

LEMMA EndingMove ==
    ASSUME NEW s \in Session, NEW b \in BOOLEAN
    PROVE  Moves(s, [s EXCEPT !.status = "ended", !.symbols = b])
BY DEF Moves, Turns, Sound, Numbered, Session, Status

\* A refresh step, whatever values it was made from.
LEMMA SteppedRow ==
    ASSUME NEW row \in Session, NEW seen \in Session, NEW clock \in Time,
           NEW n \in {0, 1}, NEW b \in BOOLEAN
    PROVE  LET s2 == [Stepped(row, seen, clock, n) EXCEPT !.symbols = b]
           IN  /\ s2 \in Session
               /\ s2.status = row.status /\ s2.started = row.started
               /\ s2.step = seen.step + 1 /\ s2.clock = clock
               /\ s2.refreshes = row.refreshes + 1
               /\ row.started /\ Sound(row) => Sound(s2)
<1> DEFINE s2 == [Stepped(row, seen, clock, n) EXCEPT !.symbols = b]
<1>1. /\ s2.status = row.status /\ s2.started = row.started
      /\ s2.step = seen.step + 1 /\ s2.clock = clock /\ s2.initialCash = row.initialCash
      /\ s2.refreshes = row.refreshes + 1
    BY DEF Session, Stepped
<1>2. s2 \in Session
    <2>1. [row.tracks EXCEPT !["model"].orders = row.tracks["model"].orders + n] \in [Tracks -> Portfolio]
        BY DEF Session, Portfolio, Tracks
    <2>2. seen.step + 1 \in Nat /\ row.refreshes + 1 \in Nat
        BY DEF Session
    <2> QED BY <2>1, <2>2 DEF Session, Stepped
<1>3. \A t \in Tracks : /\ s2.tracks[t].status = row.tracks[t].status
                        /\ s2.tracks[t].startingCash = row.tracks[t].startingCash
    BY DEF Session, Portfolio, Tracks, Stepped
<1> HIDE DEF s2
<1>4. row.started /\ Sound(row) => Sound(s2)
    BY <1>1, <1>3 DEF Sound
<1>5. /\ s2 \in Session
      /\ s2.status = row.status /\ s2.started = row.started
      /\ s2.step = seen.step + 1 /\ s2.clock = clock
      /\ s2.refreshes = row.refreshes + 1
      /\ row.started /\ Sound(row) => Sound(s2)
    BY <1>1, <1>2, <1>4
<1> QED BY <1>5 DEF s2

\* A step made from the row itself.
LEMMA StepMove ==
    ASSUME NEW s \in Session, s.status = "running", NEW clock \in Time, clock > s.clock,
           NEW n \in {0, 1}, NEW b \in BOOLEAN
    PROVE  Moves(s, [Stepped(s, s, clock, n) EXCEPT !.symbols = b])
<1> DEFINE s2 == [Stepped(s, s, clock, n) EXCEPT !.symbols = b]
<1>1. /\ s2 \in Session
      /\ s2.status = s.status /\ s2.started = s.started
      /\ s2.step = s.step + 1 /\ s2.clock = clock
      /\ s2.refreshes = s.refreshes + 1
      /\ s.started /\ Sound(s) => Sound(s2)
    BY SteppedRow
<1> HIDE DEF s2
<1>2. Sound(s) => s.started
    BY DEF Sound
<1>3. Moves(s, s2)
    BY <1>1, <1>2 DEF Moves, Turns, Numbered, Session
<1> QED BY <1>3 DEF s2

---------------------------------------------------------------------------
(* What happens to the table of sessions *)

OneLive(ss) == \A i \in 1..Len(ss) : i < Len(ss) => ss[i].status = "ended"

\* Rows move, and rows are added behind them.
Growth(ss, ss2) ==
    /\ ss2 \in Seq(Session)
    /\ Len(ss) <= Len(ss2)
    /\ \A i \in 1..Len(ss) : Moves(ss[i], ss2[i])
    /\ \A i \in 1..Len(ss2) : i > Len(ss) => Sound(ss2[i]) /\ Numbered(ss2[i])

LEMMA MovesItself ==
    ASSUME NEW s \in Session
    PROVE  Moves(s, s)
BY DEF Moves, Turns

LEMMA RowReplaced ==
    ASSUME NEW ss \in Seq(Session), NEW i \in 1..Len(ss), NEW s2, Moves(ss[i], s2)
    PROVE  /\ Growth(ss, [ss EXCEPT ![i] = s2])
           /\ Len([ss EXCEPT ![i] = s2]) = Len(ss)
           /\ OneLive(ss) => OneLive([ss EXCEPT ![i] = s2])
<1> DEFINE ss2 == [ss EXCEPT ![i] = s2]
<1>1. s2 \in Session
    BY DEF Moves
<1>2. /\ ss2 \in Seq(Session) /\ Len(ss2) = Len(ss) /\ Len(ss) \in Nat
      /\ \A j \in 1..Len(ss) : ss2[j] = IF j = i THEN s2 ELSE ss[j]
    BY <1>1, ExceptSeq, LenProperties
<1>3. \A j \in 1..Len(ss) : ss[j] \in Session
    BY ElementOfSeq
<1> HIDE DEF ss2
<1>4. \A j \in 1..Len(ss) : Moves(ss[j], ss2[j])
    BY <1>2, <1>3, MovesItself
<1>5. OneLive(ss) => OneLive(ss2)
    BY <1>2, <1>4 DEF OneLive, Moves
<1>6. Growth(ss, ss2) /\ Len(ss2) = Len(ss) /\ (OneLive(ss) => OneLive(ss2))
    BY <1>2, <1>4, <1>5 DEF Growth
<1> QED BY <1>6 DEF ss2

LEMMA RowAdded ==
    ASSUME NEW ss \in Seq(Session), NEW s \in Session, Sound(s), Numbered(s)
    PROVE  /\ Growth(ss, Append(ss, s))
           /\ \A i \in 1..Len(ss) : Append(ss, s)[i] = ss[i]
           /\ (\A i \in 1..Len(ss) : ss[i].status = "ended") => OneLive(Append(ss, s))
<1> DEFINE ss2 == Append(ss, s)
<1>1. /\ ss2 \in Seq(Session) /\ Len(ss2) = Len(ss) + 1 /\ Len(ss) \in Nat
      /\ \A j \in 1..Len(ss) : ss2[j] = ss[j]
      /\ ss2[Len(ss) + 1] = s
    BY AppendProperties, LenProperties
<1>2. \A j \in 1..Len(ss) : ss[j] \in Session
    BY ElementOfSeq
<1> HIDE DEF ss2
<1>3. \A j \in 1..Len(ss) : Moves(ss[j], ss2[j])
    BY <1>1, <1>2, MovesItself
<1>4. \A j \in 1..Len(ss2) : j > Len(ss) => j = Len(ss) + 1
    BY <1>1
<1>5. Growth(ss, ss2)
    BY <1>1, <1>3, <1>4 DEF Growth
<1>6. (\A i \in 1..Len(ss) : ss[i].status = "ended") => OneLive(ss2)
    BY <1>1 DEF OneLive
<1>7. /\ Growth(ss, ss2)
      /\ \A i \in 1..Len(ss) : ss2[i] = ss[i]
      /\ ((\A i \in 1..Len(ss) : ss[i].status = "ended") => OneLive(ss2))
    BY <1>1, <1>5, <1>6
<1> QED BY <1>7 DEF ss2

\* One of two growths in a row leaves the rows as they are.
LEMMA GrowthFollows ==
    ASSUME NEW a \in Seq(Session), NEW b, NEW c, Growth(a, b), Growth(b, c),
           \/ \A i \in 1..Len(a) : b[i] = a[i]
           \/ \A i \in 1..Len(b) : c[i] = b[i]
    PROVE  Growth(a, c)
<1>1. Len(a) \in Nat /\ Len(b) \in Nat /\ Len(c) \in Nat
    BY LenProperties DEF Growth
<1>2. \A i \in 1..Len(a) : i \in 1..Len(b) /\ Moves(a[i], c[i])
    BY <1>1 DEF Growth
<1>3. ASSUME NEW i \in 1..Len(c), i > Len(a)
      PROVE  Sound(c[i]) /\ Numbered(c[i])
    <2>1. CASE i > Len(b)
        BY <2>1 DEF Growth
    <2>2. CASE i <= Len(b)
        <3>1. i \in 1..Len(b) /\ Sound(b[i]) /\ Numbered(b[i])
            BY <1>1, <1>3, <2>2 DEF Growth
        <3> QED BY <3>1 DEF Growth, Moves
    <2> QED BY <1>1, <2>1, <2>2
<1> QED BY <1>1, <1>2, <1>3 DEF Growth

\* ensure_simulation_session hands a handler one session at least.
LEMMA WhatIsEnsured ==
    ASSUME TypeOK, NEW ss \in Ensured
    PROVE  /\ ss \in Seq(Session) /\ ss # <<>>
           /\ Growth(sessions, ss)
           /\ \A i \in 1..Len(sessions) : ss[i] = sessions[i]
           /\ OneLive(sessions) => OneLive(ss)
<1>1. sessions \in Seq(Session) /\ watchlist \in BOOLEAN /\ market \in Time
    BY DEF TypeOK
<1>2. CASE sessions # <<>>
    <2>1. ss = sessions
        BY <1>2 DEF Ensured
    <2>2. \A j \in 1..Len(sessions) : Moves(sessions[j], sessions[j])
        BY <1>1, ElementOfSeq, MovesItself
    <2>3. Len(sessions) \in Nat
        BY <1>1, LenProperties
    <2> QED BY <1>1, <1>2, <2>1, <2>2, <2>3 DEF Growth
<1>3. CASE sessions = <<>>
    <2>1. PICK c \in StartTimes(watchlist) : ss = <<Draft(c)>>
        BY <1>3 DEF Ensured
    <2>2. c \in Time
        BY <1>1, <2>1, WorkspaceAssumption DEF StartTimes, Time
    <2>3. Draft(c) \in Session /\ Sound(Draft(c)) /\ Numbered(Draft(c))
        BY <1>1, <2>2, NewIsSound, WorkspaceAssumption DEF Draft
    <2> DEFINE d == Draft(c)
    <2> HIDE DEF d
    <2>4. ss = <<d>> /\ d \in Session /\ Sound(d) /\ Numbered(d)
        BY <2>1, <2>3 DEF d
    <2>5. ss \in Seq(Session) /\ Len(ss) = 1 /\ ss[1] = d /\ ss # <<>>
        BY <2>4
    <2>6. Len(sessions) = 0
        BY <1>3
    <2>7. Growth(sessions, ss)
        BY <2>4, <2>5, <2>6 DEF Growth
    <2>8. OneLive(ss)
        BY <2>5 DEF OneLive
    <2> QED BY <2>5, <2>6, <2>7, <2>8
<1> QED BY <1>2, <1>3

---------------------------------------------------------------------------
(* Requests *)

\* What a handler makes of the current session of the table it found.
OneRow(ss) ==
    \E s2 : Moves(ss[Latest(ss)], s2) /\ sessions' = [ss EXCEPT ![Latest(ss)] = s2]

\* What a restart makes of the table it found.
Replaced(ss) ==
    \E s2, new \in Session :
        /\ Moves(ss[Latest(ss)], s2) /\ s2.status = "ended"
        /\ Sound(new) /\ Numbered(new) /\ new.status = "running"
        /\ sessions' = Append([ss EXCEPT ![Latest(ss)] = s2], new)

LEMMA CommitMoves ==
    ASSUME TypeOK, NEW ss, NEW s,
           \A b \in BOOLEAN : Moves(ss[Latest(ss)], [s EXCEPT !.symbols = b]),
           Commit(ss, Latest(ss), s)
    PROVE  OneRow(ss)
<1>1. HasSymbols(s) \in BOOLEAN
    BY DEF HasSymbols
<1>2. Moves(ss[Latest(ss)], [s EXCEPT !.symbols = HasSymbols(s)])
    BY <1>1
<1>3. sessions' = [ss EXCEPT ![Latest(ss)] = [s EXCEPT !.symbols = HasSymbols(s)]]
    BY DEF Commit
<1> QED BY <1>2, <1>3 DEF OneRow

LEMMA CurrentSession ==
    ASSUME TypeOK, NEW ss \in Ensured
    PROVE  Latest(ss) \in 1..Len(ss) /\ ss[Latest(ss)] \in Session
BY WhatIsEnsured, LatestIsIn, ElementOfSeq

\* Every request but the restart moves the current session.
LEMMA RequestMoves ==
    ASSUME TypeOK,
           \/ View \/ Start \/ Pause \/ Resume \/ ManualOrder \/ Step \/ End
           \/ \E cash \in CashValues, auto, listed \in BOOLEAN : UpdateConfig(cash, auto, listed)
    PROVE  \E ss \in Ensured : OneRow(ss)
<1>1. CASE View
    <2>1. PICK ss \in Ensured : Commit(ss, Latest(ss), ss[Latest(ss)])
        BY <1>1 DEF View
    <2>2. \A b \in BOOLEAN : Moves(ss[Latest(ss)], [ss[Latest(ss)] EXCEPT !.symbols = b])
        BY CurrentSession, SymbolsMove
    <2> QED BY <2>1, <2>2, CommitMoves
<1>2. CASE Start
    <2>1. PICK ss \in Ensured :
              /\ ss[Latest(ss)].status \in {"draft", "paused"}
              /\ Commit(ss, Latest(ss), WithTrackStatus(
                     [ss[Latest(ss)] EXCEPT !.status = "running", !.started = TRUE], "running"))
        BY <1>2 DEF Start
    <2>2. \A b \in BOOLEAN : Moves(ss[Latest(ss)], [WithTrackStatus(
              [ss[Latest(ss)] EXCEPT !.status = "running", !.started = TRUE], "running")
                  EXCEPT !.symbols = b])
        BY <2>1, CurrentSession, StatusMove DEF Status, Turns
    <2> QED BY <2>1, <2>2, CommitMoves
<1>3. CASE Pause
    <2>1. PICK ss \in Ensured :
              /\ ss[Latest(ss)].status = "running"
              /\ Commit(ss, Latest(ss), WithTrackStatus(
                     [ss[Latest(ss)] EXCEPT !.status = "paused"], "paused"))
        BY <1>3 DEF Pause
    <2>2. \A b \in BOOLEAN : Moves(ss[Latest(ss)], [WithTrackStatus(
              [ss[Latest(ss)] EXCEPT !.status = "paused"], "paused") EXCEPT !.symbols = b])
        BY <2>1, CurrentSession, StatusOnlyMove DEF Status, Turns
    <2> QED BY <2>1, <2>2, CommitMoves
<1>4. CASE Resume
    <2>1. PICK ss \in Ensured :
              /\ ss[Latest(ss)].status = "paused"
              /\ Commit(ss, Latest(ss), WithTrackStatus(
                     [ss[Latest(ss)] EXCEPT !.status = "running"], "running"))
        BY <1>4 DEF Resume
    <2>2. \A b \in BOOLEAN : Moves(ss[Latest(ss)], [WithTrackStatus(
              [ss[Latest(ss)] EXCEPT !.status = "running"], "running") EXCEPT !.symbols = b])
        BY <2>1, CurrentSession, StatusOnlyMove DEF Status, Turns
    <2> QED BY <2>1, <2>2, CommitMoves
<1>5. CASE ManualOrder
    <2>1. PICK ss \in Ensured :
              /\ ss[Latest(ss)].status \in {"running", "paused"}
              /\ Commit(ss, Latest(ss),
                     [ss[Latest(ss)] EXCEPT !.tracks["manual"].orders = @ + 1])
        BY <1>5 DEF ManualOrder
    <2>2. \A b \in BOOLEAN : Moves(ss[Latest(ss)],
              [[ss[Latest(ss)] EXCEPT !.tracks["manual"].orders = @ + 1] EXCEPT !.symbols = b])
        BY <2>1, CurrentSession, OrderMove
    <2> QED BY <2>1, <2>2, CommitMoves
<1>6. CASE Step
    <2>1. PICK ss \in Ensured :
              /\ ss[Latest(ss)].status = "running"
              /\ \E clock \in ss[Latest(ss)].clock + 1..MaxTime,
                    n \in ModelOrders(ss[Latest(ss)], ss[Latest(ss)]) :
                     Commit(ss, Latest(ss), Stepped(ss[Latest(ss)], ss[Latest(ss)], clock, n))
        BY <1>6 DEF Step
    <2>2. PICK clock \in ss[Latest(ss)].clock + 1..MaxTime,
               n \in ModelOrders(ss[Latest(ss)], ss[Latest(ss)]) :
                   Commit(ss, Latest(ss), Stepped(ss[Latest(ss)], ss[Latest(ss)], clock, n))
        BY <2>1
    <2>3. ss[Latest(ss)].clock \in Time
        BY CurrentSession DEF Session
    <2>4. clock \in Time /\ clock > ss[Latest(ss)].clock
        BY <2>3, WorkspaceAssumption DEF Time
    <2>5. n \in {0, 1}
        BY DEF ModelOrders
    <2>6. \A b \in BOOLEAN : Moves(ss[Latest(ss)],
              [Stepped(ss[Latest(ss)], ss[Latest(ss)], clock, n) EXCEPT !.symbols = b])
        BY <2>1, <2>4, <2>5, CurrentSession, StepMove
    <2> QED BY <2>2, <2>6, CommitMoves
<1>7. CASE End
    <2>1. PICK ss \in Ensured :
              /\ ss[Latest(ss)].status # "ended"
              /\ Commit(ss, Latest(ss), WithTrackStatus(
                     [ss[Latest(ss)] EXCEPT !.status = "ended"], "ended"))
        BY <1>7 DEF End
    <2>2. \A b \in BOOLEAN : Moves(ss[Latest(ss)], [WithTrackStatus(
              [ss[Latest(ss)] EXCEPT !.status = "ended"], "ended") EXCEPT !.symbols = b])
        BY <2>1, CurrentSession, EndMove
    <2> QED BY <2>1, <2>2, CommitMoves
<1>8. ASSUME NEW cash \in CashValues, NEW auto \in BOOLEAN, NEW listed \in BOOLEAN,
             UpdateConfig(cash, auto, listed)
      PROVE  \E ss \in Ensured : OneRow(ss)
    <2>1. PICK ss \in Ensured :
              /\ ss[Latest(ss)].status # "ended"
              /\ Commit(ss, Latest(ss),
                   [ss[Latest(ss)] EXCEPT !.initialCash = cash,
                             !.auto = auto,
                             !.symbols = TRUE,
                             !.tracks = [t \in Tracks |->
                                 [@[t] EXCEPT !.startingCash = cash,
                                              !.status = ss[Latest(ss)].status]]])
        BY <1>8 DEF UpdateConfig
    <2>2. \A b \in BOOLEAN : Moves(ss[Latest(ss)],
              [[ss[Latest(ss)] EXCEPT !.initialCash = cash,
                             !.auto = auto,
                             !.symbols = TRUE,
                             !.tracks = [t \in Tracks |->
                                 [@[t] EXCEPT !.startingCash = cash,
                                              !.status = ss[Latest(ss)].status]]]
                  EXCEPT !.symbols = b])
        BY <2>1, CurrentSession, ConfigMove
    <2> QED BY <2>1, <2>2, CommitMoves
<1> QED BY <1>1, <1>2, <1>3, <1>4, <1>5, <1>6, <1>7, <1>8

LEMMA RestartReplaces ==
    ASSUME TypeOK, Restart
    PROVE  \E ss \in Ensured : Replaced(ss)
<1>1. PICK ss \in Ensured : \E clock \in StartTimes(HasSymbols(ss[Latest(ss)])) :
          sessions' = Append([ss EXCEPT ![Latest(ss)].status = "ended",
                                        ![Latest(ss)].symbols = HasSymbols(ss[Latest(ss)])],
                             NewSession("running", ss[Latest(ss)].initialCash,
                                        ss[Latest(ss)].auto, ss[Latest(ss)].restarts + 1,
                                        HasSymbols(ss[Latest(ss)]), clock))
    BY DEF Restart
<1> DEFINE i == Latest(ss)
           s == ss[i]
           has == HasSymbols(s)
           s2 == [s EXCEPT !.status = "ended", !.symbols = has]
<1>2. /\ i \in 1..Len(ss) /\ s \in Session /\ has \in BOOLEAN
      /\ ss \in Seq(Session) /\ DOMAIN ss = 1..Len(ss)
    BY CurrentSession, WhatIsEnsured, LenProperties DEF HasSymbols
<1>3. PICK clock \in StartTimes(has) :
          sessions' = Append([ss EXCEPT ![i].status = "ended", ![i].symbols = has],
                             NewSession("running", s.initialCash, s.auto, s.restarts + 1,
                                        has, clock))
    BY <1>1
<1>4. [ss EXCEPT ![i].status = "ended", ![i].symbols = has] = [ss EXCEPT ![i] = s2]
    <2> HIDE DEF has
    <2> QED BY <1>2
<1>5. Moves(s, s2) /\ s2 \in Session /\ s2.status = "ended"
    <2>1. Moves(s, s2)
        BY <1>2, EndingMove
    <2>2. s2.status = "ended"
        BY <1>2 DEF Session
    <2> QED BY <2>1, <2>2 DEF Moves
<1>6. clock \in Time
    BY <1>3, WorkspaceAssumption DEF StartTimes, TypeOK, Time
<1> DEFINE new == NewSession("running", s.initialCash, s.auto, s.restarts + 1, has, clock)
<1>7. s.initialCash \in CashValues /\ s.auto \in BOOLEAN /\ s.restarts + 1 \in Nat
    BY <1>2 DEF Session
<1>8. new \in Session /\ Sound(new) /\ Numbered(new) /\ new.status = "running"
    BY <1>2, <1>6, <1>7, NewIsSound
<1>9. sessions' = Append([ss EXCEPT ![i] = s2], new)
    BY <1>3, <1>4
<1> HIDE DEF s2, new
<1>10. \E a, b \in Session : /\ Moves(ss[Latest(ss)], a) /\ a.status = "ended"
                             /\ Sound(b) /\ Numbered(b) /\ b.status = "running"
                             /\ sessions' = Append([ss EXCEPT ![Latest(ss)] = a], b)
    BY <1>5, <1>8, <1>9
<1> QED BY <1>10 DEF Replaced

\* Whatever is asked, rows move and are added, and one session lives at most.
LEMMA OneRowGrows ==
    ASSUME TypeOK, NEW ss \in Ensured, OneRow(ss)
    PROVE  Growth(sessions, sessions') /\ (OneLive(sessions) => OneLive(sessions'))
<1>1. PICK s2 : Moves(ss[Latest(ss)], s2) /\ sessions' = [ss EXCEPT ![Latest(ss)] = s2]
    BY DEF OneRow
<1>2. /\ ss \in Seq(Session) /\ Growth(sessions, ss) /\ Latest(ss) \in 1..Len(ss)
      /\ \A i \in 1..Len(sessions) : ss[i] = sessions[i]
      /\ OneLive(sessions) => OneLive(ss)
    BY WhatIsEnsured, CurrentSession
<1>3. Growth(ss, sessions') /\ (OneLive(ss) => OneLive(sessions'))
    BY <1>1, <1>2, RowReplaced
<1>4. sessions \in Seq(Session)
    BY DEF TypeOK
<1>5. Growth(sessions, sessions')
    BY <1>2, <1>3, <1>4, GrowthFollows
<1> QED BY <1>2, <1>3, <1>5

LEMMA ReplacedGrows ==
    ASSUME TypeOK, NEW ss \in Ensured, Replaced(ss)
    PROVE  Growth(sessions, sessions') /\ (OneLive(sessions) => OneLive(sessions'))
<1>1. PICK s2 \in Session, new \in Session :
          /\ Moves(ss[Latest(ss)], s2) /\ s2.status = "ended"
          /\ Sound(new) /\ Numbered(new)
          /\ sessions' = Append([ss EXCEPT ![Latest(ss)] = s2], new)
    BY DEF Replaced
<1> DEFINE ss2 == [ss EXCEPT ![Latest(ss)] = s2]
<1>2. /\ ss \in Seq(Session) /\ ss # <<>> /\ Growth(sessions, ss) /\ Latest(ss) \in 1..Len(ss)
      /\ \A i \in 1..Len(sessions) : ss[i] = sessions[i]
      /\ OneLive(sessions) => OneLive(ss)
    BY WhatIsEnsured, CurrentSession
<1>3. Growth(ss, ss2) /\ Len(ss2) = Len(ss)
    BY <1>1, <1>2, RowReplaced
<1>4. sessions \in Seq(Session) /\ ss2 \in Seq(Session)
    BY <1>3 DEF TypeOK, Growth
<1>5. Growth(sessions, ss2)
    BY <1>2, <1>3, <1>4, GrowthFollows
<1>6. OneLive(ss) => \A i \in 1..Len(ss2) : ss2[i].status = "ended"
    <2>1. SUFFICES ASSUME OneLive(ss), NEW i \in 1..Len(ss2)
                   PROVE  ss2[i].status = "ended"
        OBVIOUS
    <2>2. Latest(ss) = Len(ss)
        BY <1>2, <2>1, LatestIsIn DEF OneLive
    <2>3. Len(ss) \in Nat
        BY <1>2, LenProperties
    <2>4. CASE i = Latest(ss)
        BY <1>1, <1>2, <1>3, <2>4
    <2>5. CASE i # Latest(ss)
        <3>1. ss2[i] = ss[i] /\ i \in 1..Len(ss)
            BY <1>1, <1>2, <1>3, <2>5, ExceptSeq
        <3> QED BY <2>1, <2>2, <2>3, <2>5, <3>1 DEF OneLive
    <2> QED BY <2>4, <2>5
<1> HIDE DEF ss2
<1>7. /\ Growth(ss2, sessions')
      /\ \A i \in 1..Len(ss2) : sessions'[i] = ss2[i]
      /\ (\A i \in 1..Len(ss2) : ss2[i].status = "ended") => OneLive(sessions')
    <2>1. sessions' = Append(ss2, new)
        BY <1>1 DEF ss2
    <2> QED BY <1>1, <1>4, <2>1, RowAdded
<1>8. Growth(sessions, sessions')
    BY <1>4, <1>5, <1>7, GrowthFollows
<1> QED BY <1>2, <1>6, <1>7, <1>8

LEMMA RequestGrows ==
    ASSUME TypeOK, Request
    PROVE  Growth(sessions, sessions') /\ (OneLive(sessions) => OneLive(sessions'))
<1>1. CASE Restart
    BY <1>1, RestartReplaces, ReplacedGrows
<1>2. CASE ~Restart
    <2>1. \/ View \/ Start \/ Pause \/ Resume \/ ManualOrder \/ Step \/ End
          \/ \E cash \in CashValues, auto, listed \in BOOLEAN : UpdateConfig(cash, auto, listed)
        BY <1>2 DEF Request
    <2> QED BY <2>1, RequestMoves, OneRowGrows
<1> QED BY <1>1, <1>2

LEMMA SameGrows ==
    ASSUME TypeOK, UNCHANGED sessions
    PROVE  Growth(sessions, sessions') /\ (OneLive(sessions) => OneLive(sessions'))
<1>1. sessions \in Seq(Session)
    BY DEF TypeOK
<1>2. \A j \in 1..Len(sessions) : Moves(sessions[j], sessions[j])
    BY <1>1, ElementOfSeq, MovesItself
<1>3. Len(sessions) \in Nat
    BY <1>1, LenProperties
<1>4. Growth(sessions, sessions)
    BY <1>1, <1>2, <1>3 DEF Growth
<1>5. sessions' = sessions
    OBVIOUS
<1> QED BY <1>4, <1>5

---------------------------------------------------------------------------
(* The tick and the projection *)

\* New market data moves the current session or none.
LEMMA SyncMoves ==
    ASSUME TypeOK, TickSyncs
    PROVE  UNCHANGED sessions \/ (sessions \in Ensured /\ OneRow(sessions))
<1> DEFINE i == Latest(sessions)
           s == sessions[i]
<1>1. CASE SomeRunning /\ Behind(s, market + 1)
    <2>1. PICK n \in ModelOrders(s, s) : Commit(sessions, i, Stepped(s, s, market + 1, n))
        BY <1>1 DEF TickSyncs
    <2>2. sessions # <<>>
        BY <1>1, EmptySeq DEF SomeRunning
    <2>3. sessions \in Ensured
        BY <2>2 DEF Ensured
    <2>4. i \in 1..Len(sessions) /\ s \in Session
        BY <2>3, CurrentSession
    <2>5. s.status = "running" /\ s.clock < market + 1
        BY <1>1 DEF Behind
    <2>6. market + 1 \in Time /\ market + 1 > s.clock
        <3>1. s.clock \in Time /\ market \in Time
            BY <2>4 DEF Session, TypeOK
        <3>2. market < MaxTime
            BY DEF TickSyncs
        <3> QED BY <2>5, <3>1, <3>2, WorkspaceAssumption DEF Time
    <2>7. n \in {0, 1}
        BY DEF ModelOrders
    <2>8. \A b \in BOOLEAN : Moves(s, [Stepped(s, s, market + 1, n) EXCEPT !.symbols = b])
        BY <2>4, <2>5, <2>6, <2>7, StepMove
    <2>9. OneRow(sessions)
        BY <2>1, <2>8, CommitMoves
    <2> QED BY <2>3, <2>9
<1>2. CASE ~(SomeRunning /\ Behind(s, market + 1))
    BY <1>2 DEF TickSyncs
<1> QED BY <1>1, <1>2

LEMMA SyncGrows ==
    ASSUME TypeOK, TickSyncs
    PROVE  Growth(sessions, sessions') /\ (OneLive(sessions) => OneLive(sessions'))
BY SyncMoves, OneRowGrows, SameGrows

LEMMA ProjectionGrows ==
    ASSUME TypeOK, ProjectionCommits
    PROVE  Growth(sessions, sessions') /\ (~blindDraft' => OneLive(sessions'))
<1>1. sessions \in Seq(Session) /\ watchlist \in BOOLEAN /\ market \in Time
    BY DEF TypeOK
<1>2. PICK c \in StartTimes(watchlist) : sessions' = Append(sessions, Draft(c))
    BY DEF ProjectionCommits
<1>3. c \in Time
    BY <1>1, <1>2, WorkspaceAssumption DEF StartTimes, Time
<1>4. Draft(c) \in Session /\ Sound(Draft(c)) /\ Numbered(Draft(c))
    BY <1>1, <1>3, NewIsSound, WorkspaceAssumption DEF Draft
<1>5. /\ Growth(sessions, sessions')
      /\ (\A i \in 1..Len(sessions) : sessions[i].status = "ended") => OneLive(sessions')
    BY <1>1, <1>2, <1>4, RowAdded
<1>6. ~blindDraft' => sessions = <<>>
    BY Zenon DEF ProjectionCommits
<1>7. sessions = <<>> => Len(sessions) = 0
    OBVIOUS
<1> QED BY <1>5, <1>6, <1>7

AllSound(ss) == \A i \in 1..Len(ss) : Sound(ss[i])
AllNumbered(ss) == \A i \in 1..Len(ss) : Numbered(ss[i])

\* What a tick has loaded: the session was started, and since then its clock
\* has moved only together with its step.
LoadedBefore ==
    tick # Idle =>
        LET row == sessions[tick.index]
        IN  /\ row.started
            /\ row.step >= tick.step
            /\ row.step = tick.step => row.clock < tick.anchor

WorkspaceInv ==
    /\ TypeOK
    /\ AllSound(sessions)
    /\ ~staleCommit => AllNumbered(sessions)
    /\ ~blindDraft => OneLive(sessions)
    /\ LoadedBefore

LEMMA TickIsLoaded ==
    ASSUME TypeOK, tick # Idle
    PROVE  /\ tick.index \in 1..Len(sessions) /\ tick.anchor \in Time
           /\ tick.step \in Nat /\ tick.auto \in BOOLEAN
           /\ sessions # <<>>
<1>1. DOMAIN sessions = 1..Len(sessions)
    BY LenProperties DEF TypeOK
<1>2. /\ tick.index \in 1..Len(sessions) /\ tick.anchor \in Time
      /\ tick.step \in Nat /\ tick.auto \in BOOLEAN
    BY <1>1 DEF TypeOK
<1> QED BY <1>1, <1>2

\* The table as the tick sees it.
LEMMA WhatIsSeen ==
    ASSUME TypeOK, tick # Idle
    PROVE  /\ SeenByTick \in Seq(Session) /\ Len(SeenByTick) = Len(sessions)
           /\ Latest(SeenByTick) \in 1..Len(sessions)
           /\ \A j \in 1..Len(sessions) : j # tick.index => SeenByTick[j] = sessions[j]
           /\ SeenByTick[tick.index].step = tick.step
<1> DEFINE seen == [sessions[tick.index] EXCEPT !.status = "running", !.step = tick.step,
                                                 !.auto = tick.auto]
<1>1. /\ tick.index \in 1..Len(sessions) /\ tick.step \in Nat /\ tick.auto \in BOOLEAN
      /\ sessions # <<>> /\ sessions \in Seq(Session) /\ DOMAIN sessions = 1..Len(sessions)
    BY TickIsLoaded, LenProperties DEF TypeOK
<1>2. sessions[tick.index] \in Session
    BY <1>1, ElementOfSeq
<1>3. seen \in Session /\ seen.step = tick.step
    BY <1>1, <1>2 DEF Session, Status
<1>4. SeenByTick = [sessions EXCEPT ![tick.index] = seen]
    BY <1>1 DEF SeenByTick
<1> HIDE DEF seen
<1>5. /\ SeenByTick \in Seq(Session) /\ Len(SeenByTick) = Len(sessions)
      /\ \A j \in 1..Len(sessions) : j # tick.index => SeenByTick[j] = sessions[j]
      /\ SeenByTick[tick.index] = seen
    BY <1>1, <1>3, <1>4, ExceptSeq
<1>6. SeenByTick # <<>>
    BY <1>1, <1>5, EmptySeq, LenProperties
<1>7. Latest(SeenByTick) \in 1..Len(SeenByTick)
    BY <1>5, <1>6, LatestIsIn
<1> QED BY <1>3, <1>5, <1>7

\* A step of the tick: the row keeps its status, and unless what the tick saw
\* was outdated it gets the next number and a later clock.
LEMMA TickStepsRow ==
    ASSUME WorkspaceInv, TickSteps
    PROVE  \E i \in 1..Len(sessions), s2 \in Session :
               /\ sessions' = [sessions EXCEPT ![i] = s2]
               /\ s2.status = sessions[i].status
               /\ Sound(s2)
               /\ ~Outdated => sessions[i].status = "running"
               /\ ~staleCommit' => /\ sessions[i].status = "running"
                                   /\ Numbered(sessions[i]) => Numbered(s2)
                                   /\ s2.clock > sessions[i].clock
<1> DEFINE i == Latest(SeenByTick)
           seen == SeenByTick[i]
           row == sessions[i]
<1>1. TypeOK /\ AllSound(sessions) /\ LoadedBefore /\ tick # Idle
    BY DEF WorkspaceInv, TickSteps
<1>2. /\ i \in 1..Len(sessions) /\ seen \in Session /\ row \in Session
      /\ tick.anchor \in Time
    BY <1>1, WhatIsSeen, ElementOfSeq, TickIsLoaded DEF TypeOK
<1>3. /\ seen.status = "running"
      /\ \E n \in ModelOrders(seen, row) :
             Commit(sessions, i, Stepped(row, seen, tick.anchor, n))
      /\ staleCommit' = (staleCommit \/ Outdated)
    BY DEF TickSteps
<1>4. PICK n \in ModelOrders(seen, row) :
          Commit(sessions, i, Stepped(row, seen, tick.anchor, n))
    BY <1>3
<1> DEFINE has == HasSymbols(Stepped(row, seen, tick.anchor, n))
           s2 == [Stepped(row, seen, tick.anchor, n) EXCEPT !.symbols = has]
<1>5. sessions' = [sessions EXCEPT ![i] = s2]
    BY <1>4 DEF Commit
<1>6. n \in {0, 1} /\ has \in BOOLEAN
    BY DEF ModelOrders, HasSymbols
<1>7. /\ s2 \in Session
      /\ s2.status = row.status /\ s2.started = row.started
      /\ s2.step = seen.step + 1 /\ s2.clock = tick.anchor
      /\ s2.refreshes = row.refreshes + 1
      /\ row.started /\ Sound(row) => Sound(s2)
    BY <1>2, <1>6, SteppedRow
<1>8. Sound(row)
    BY <1>1, <1>2 DEF AllSound
<1>9. row.started
    <2>1. CASE i = tick.index
        BY <1>1, <2>1 DEF LoadedBefore
    <2>2. CASE i # tick.index
        <3>1. seen = row
            BY <1>1, <1>2, <2>2, WhatIsSeen
        <3> QED BY <1>3, <1>8, <3>1 DEF Sound
    <2> QED BY <2>1, <2>2
<1>10. ASSUME ~Outdated
       PROVE  /\ row.status = "running" /\ row.step = seen.step /\ row.clock < tick.anchor
    <2>1. i = tick.index /\ sessions[tick.index].status = "running"
              /\ sessions[tick.index].step = tick.step
        BY <1>10 DEF Outdated
    <2>2. seen.step = tick.step
        BY <1>1, <2>1, WhatIsSeen
    <2> QED BY <1>1, <2>1, <2>2 DEF LoadedBefore
<1> HIDE DEF s2
<1>11. ~staleCommit' => /\ row.status = "running"
                        /\ Numbered(row) => Numbered(s2)
                        /\ s2.clock > row.clock
    <2>1. SUFFICES ASSUME ~staleCommit'
                   PROVE  /\ row.status = "running"
                          /\ Numbered(row) => Numbered(s2)
                          /\ s2.clock > row.clock
        OBVIOUS
    <2>2. row.status = "running" /\ row.step = seen.step /\ row.clock < tick.anchor
        <3>1. ~Outdated
            BY <1>3, <2>1, Zenon
        <3> QED BY <1>10, <3>1
    <2>3. row.clock \in Int /\ tick.anchor \in Int
        BY <1>2, WorkspaceAssumption DEF Session, Time
    <2> QED BY <1>7, <2>2, <2>3 DEF Numbered
<1> QED BY <1>2, <1>5, <1>7, <1>8, <1>9, <1>10, <1>11

---------------------------------------------------------------------------
(* The inductive invariant *)

\* Every step but the tick's lets the table grow.
LEMMA StepGrows ==
    ASSUME WorkspaceInv, [Next]_vars, ~TickSteps
    PROVE  /\ Growth(sessions, sessions')
           /\ ~blindDraft' => OneLive(sessions')
           /\ staleCommit' = staleCommit
           /\ tick' = tick \/ tick' = Idle \/ TickReads
<1>1. TypeOK /\ (~blindDraft => OneLive(sessions))
    BY DEF WorkspaceInv
<1>2. CASE Request
    <2>1. Growth(sessions, sessions') /\ (OneLive(sessions) => OneLive(sessions'))
        BY <1>1, <1>2, RequestGrows
    <2>2. blindDraft' = blindDraft /\ staleCommit' = staleCommit /\ tick' = tick
        BY <1>2 DEF Request, View, Start, Pause, Resume, ManualOrder, Step, Restart, End,
                    UpdateConfig, UnchangedByRequest
    <2> QED BY <1>1, <2>1, <2>2
<1>3. CASE ProjectionCommits
    <2>1. Growth(sessions, sessions') /\ (~blindDraft' => OneLive(sessions'))
        BY <1>1, <1>3, ProjectionGrows
    <2>2. staleCommit' = staleCommit /\ tick' = tick
        BY <1>3 DEF ProjectionCommits
    <2> QED BY <2>1, <2>2
<1>4. CASE TickSyncs
    <2>1. Growth(sessions, sessions') /\ (OneLive(sessions) => OneLive(sessions'))
        BY <1>1, <1>4, SyncGrows
    <2>2. blindDraft' = blindDraft /\ staleCommit' = staleCommit /\ tick' = tick
        BY <1>4 DEF TickSyncs
    <2> QED BY <1>1, <2>1, <2>2
<1>5. CASE \/ TickReads \/ TickFails \/ ProjectionReads
           \/ NewBar \/ WatchlistChanges \/ OthersChange \/ UNCHANGED vars
    <2>1. /\ UNCHANGED sessions
          /\ blindDraft' = blindDraft /\ staleCommit' = staleCommit
          /\ tick' = tick \/ tick' = Idle \/ TickReads
        BY <1>5 DEF TickReads, TickFails, ProjectionReads, NewBar, WatchlistChanges,
                    OthersChange, vars
    <2>2. Growth(sessions, sessions') /\ (OneLive(sessions) => OneLive(sessions'))
        BY <1>1, <2>1, SameGrows
    <2> QED BY <1>1, <2>1, <2>2
<1> QED BY <1>2, <1>3, <1>4, <1>5 DEF Next, Tick

\* The variables beside the table.
LEMMA SurroundingsTyped ==
    ASSUME TypeOK, [Next]_vars
    PROVE  /\ market' \in Time /\ projection' \in {"idle", "absent"}
           /\ watchlist' \in BOOLEAN /\ othersTrade' \in BOOLEAN
           /\ staleCommit' \in BOOLEAN /\ blindDraft' \in BOOLEAN
<1>1. market' \in Time
    <2>1. market' = market \/ (market' = market + 1 /\ market < MaxTime)
        BY DEF Next, Request, View, Start, Pause, Resume, ManualOrder, Step, Restart, End,
               UpdateConfig, UnchangedByRequest, Tick, TickReads, TickSteps, TickFails,
               TickSyncs, ProjectionReads, ProjectionCommits, NewBar, WatchlistChanges,
               OthersChange, vars
    <2>2. market \in Time
        BY DEF TypeOK
    <2> QED BY <2>1, <2>2, WorkspaceAssumption DEF Time
<1>2. projection' \in {"idle", "absent"}
    <2>1. projection' = projection \/ projection' \in {"idle", "absent"}
        BY DEF Next, Request, View, Start, Pause, Resume, ManualOrder, Step, Restart, End,
               UpdateConfig, UnchangedByRequest, Tick, TickReads, TickSteps, TickFails,
               TickSyncs, ProjectionReads, ProjectionCommits, NewBar, WatchlistChanges,
               OthersChange, vars
    <2> QED BY <2>1 DEF TypeOK
<1>3. watchlist' \in BOOLEAN /\ othersTrade' \in BOOLEAN
    <2>1. /\ watchlist' = watchlist \/ watchlist' = ~watchlist
          /\ othersTrade' = othersTrade \/ othersTrade' = ~othersTrade
        BY Zenon DEF Next, Request, View, Start, Pause, Resume, ManualOrder, Step, Restart, End,
               UpdateConfig, UnchangedByRequest, Tick, TickReads, TickSteps, TickFails,
               TickSyncs, ProjectionReads, ProjectionCommits, NewBar, WatchlistChanges,
               OthersChange, vars
    <2> QED BY <2>1, Zenon DEF TypeOK
<1>4. staleCommit' \in BOOLEAN /\ blindDraft' \in BOOLEAN
    <2>1. /\ staleCommit' = staleCommit \/ staleCommit' = (staleCommit \/ Outdated)
          /\ blindDraft' = blindDraft \/ blindDraft' = (blindDraft \/ sessions # <<>>)
        BY Zenon DEF Next, Request, View, Start, Pause, Resume, ManualOrder, Step, Restart, End,
               UpdateConfig, UnchangedByRequest, Tick, TickReads, TickSteps, TickFails,
               TickSyncs, ProjectionReads, ProjectionCommits, NewBar, WatchlistChanges,
               OthersChange, vars
    <2> QED BY <2>1, Zenon DEF TypeOK
<1> QED BY <1>1, <1>2, <1>3, <1>4

LEMMA InvInit == Init => WorkspaceInv
<1> SUFFICES ASSUME Init PROVE WorkspaceInv
    OBVIOUS
<1>1. sessions = <<>> /\ sessions \in Seq(Session) /\ Len(sessions) = 0
    BY EmptySeq DEF Init
<1>2. TypeOK
    <2>1. market \in Time
        BY WorkspaceAssumption DEF Init, Time
    <2>2. /\ watchlist \in BOOLEAN /\ othersTrade \in BOOLEAN
          /\ staleCommit \in BOOLEAN /\ blindDraft \in BOOLEAN
        BY Zenon DEF Init
    <2>3. tick = Idle /\ projection \in {"idle", "absent"}
        BY DEF Init
    <2> QED BY <1>1, <2>1, <2>2, <2>3 DEF TypeOK
<1>3. AllSound(sessions) /\ AllNumbered(sessions) /\ OneLive(sessions)
    BY <1>1 DEF AllSound, AllNumbered, OneLive
<1>4. LoadedBefore
    BY DEF Init, LoadedBefore
<1> QED BY <1>2, <1>3, <1>4 DEF WorkspaceInv

\* The table of sessions after a step, the tick's included.
LEMMA TableKept ==
    ASSUME WorkspaceInv, [Next]_vars
    PROVE  /\ sessions' \in Seq(Session) /\ Len(sessions) <= Len(sessions')
           /\ AllSound(sessions')
           /\ ~staleCommit' => ~staleCommit /\ AllNumbered(sessions')
           /\ ~blindDraft' => OneLive(sessions')
<1>1. /\ sessions \in Seq(Session) /\ AllSound(sessions)
      /\ ~staleCommit => AllNumbered(sessions)
      /\ ~blindDraft => OneLive(sessions)
      /\ Len(sessions) \in Nat
    BY LenProperties DEF WorkspaceInv, TypeOK
<1>2. CASE TickSteps
    <2>1. PICK i \in 1..Len(sessions), s2 \in Session :
              /\ sessions' = [sessions EXCEPT ![i] = s2]
              /\ s2.status = sessions[i].status
              /\ Sound(s2)
              /\ ~staleCommit' => /\ sessions[i].status = "running"
                                  /\ Numbered(sessions[i]) => Numbered(s2)
                                  /\ s2.clock > sessions[i].clock
        BY <1>2, TickStepsRow
    <2>2. /\ sessions' \in Seq(Session) /\ Len(sessions') = Len(sessions)
          /\ \A j \in 1..Len(sessions) : sessions'[j] = IF j = i THEN s2 ELSE sessions[j]
        BY <1>1, <2>1, ExceptSeq
    <2>3. staleCommit' = (staleCommit \/ Outdated) /\ blindDraft' = blindDraft
        BY <1>2 DEF TickSteps
    <2>4. ~staleCommit' => ~staleCommit
        BY <2>3, Zenon
    <2>5. AllSound(sessions')
        BY <1>1, <2>1, <2>2 DEF AllSound
    <2>6. ~staleCommit' => AllNumbered(sessions')
        BY <1>1, <2>1, <2>2, <2>4 DEF AllNumbered
    <2>7. ~blindDraft' => OneLive(sessions')
        BY <1>1, <2>1, <2>2, <2>3 DEF OneLive
    <2> QED BY <1>1, <2>2, <2>4, <2>5, <2>6, <2>7
<1>3. CASE ~TickSteps
    <2>1. /\ Growth(sessions, sessions')
          /\ ~blindDraft' => OneLive(sessions')
          /\ staleCommit' = staleCommit
        BY <1>3, StepGrows
    <2>2. /\ sessions' \in Seq(Session) /\ Len(sessions) <= Len(sessions')
          /\ Len(sessions') \in Nat
        BY <2>1, LenProperties DEF Growth
    <2>3. ASSUME NEW i \in 1..Len(sessions')
          PROVE  Sound(sessions'[i]) /\ (~staleCommit => Numbered(sessions'[i]))
        <3>1. CASE i <= Len(sessions)
            <4>1. i \in 1..Len(sessions) /\ Moves(sessions[i], sessions'[i])
                BY <1>1, <2>1, <2>2, <3>1 DEF Growth
            <4> QED BY <1>1, <4>1 DEF Moves, AllSound, AllNumbered
        <3>2. CASE i > Len(sessions)
            BY <2>1, <3>2 DEF Growth
        <3> QED BY <1>1, <2>2, <3>1, <3>2
    <2> QED BY <2>1, <2>2, <2>3 DEF AllSound, AllNumbered
<1> QED BY <1>2, <1>3

\* What the tick has loaded stays behind the row.
LEMMA LoadedKept ==
    ASSUME WorkspaceInv, [Next]_vars
    PROVE  LoadedBefore'
<1>1. TypeOK /\ AllSound(sessions) /\ LoadedBefore
    BY DEF WorkspaceInv
<1>2. CASE TickSteps
    BY <1>2 DEF TickSteps, LoadedBefore
<1>3. CASE TickReads
    <2> DEFINE i == Latest(sessions)
               s == sessions[i]
    <2>1. /\ s.status = "running" /\ s.clock < market
          /\ tick' = [pc |-> "loaded", index |-> i, anchor |-> market,
                      step |-> s.step, auto |-> s.auto]
          /\ sessions' = sessions /\ sessions # <<>>
        BY <1>3, EmptySeq DEF TickReads, Behind, SomeRunning
    <2>2. sessions \in Ensured
        BY <2>1 DEF Ensured
    <2>3. i \in 1..Len(sessions) /\ s \in Session
        BY <1>1, <2>2, CurrentSession
    <2>4. s.started /\ s.step \in Nat
        BY <1>1, <2>1, <2>3 DEF AllSound, Sound, Session
    <2>5. tick'.index = i /\ tick'.step = s.step /\ tick'.anchor = market
        BY <2>1
    <2> QED BY <2>1, <2>4, <2>5 DEF LoadedBefore
<1>4. CASE tick' = Idle
    BY <1>4 DEF LoadedBefore, Idle
<1>5. CASE tick' = tick /\ tick # Idle /\ ~TickSteps
    <2> DEFINE i == tick.index
    <2>1. i \in 1..Len(sessions) /\ tick.step \in Nat
        BY <1>1, <1>5, TickIsLoaded
    <2>2. Moves(sessions[i], sessions'[i]) /\ sessions[i] \in Session
        BY <1>1, <1>5, <2>1, StepGrows, ElementOfSeq DEF Growth, TypeOK
    <2>3. /\ sessions[i].started /\ sessions[i].step >= tick.step
          /\ sessions[i].step = tick.step => sessions[i].clock < tick.anchor
        BY <1>1, <1>5 DEF LoadedBefore
    <2>4. sessions[i].step \in Nat
        BY <2>2 DEF Session
    <2>5. /\ sessions'[i].started /\ sessions'[i].step >= tick.step
          /\ sessions'[i].step = tick.step => sessions'[i].clock < tick.anchor
        BY <2>1, <2>2, <2>3, <2>4 DEF Moves
    <2> QED BY <1>5, <2>5 DEF LoadedBefore
<1>6. tick' = tick \/ tick' = Idle \/ TickReads \/ TickSteps
    BY StepGrows
<1> QED BY <1>2, <1>3, <1>4, <1>5, <1>6

LEMMA InvStep == WorkspaceInv /\ [Next]_vars => WorkspaceInv'
<1> SUFFICES ASSUME WorkspaceInv, [Next]_vars PROVE WorkspaceInv'
    OBVIOUS
<1>1. TypeOK
    BY DEF WorkspaceInv
<1>2. /\ sessions' \in Seq(Session) /\ Len(sessions) <= Len(sessions')
      /\ AllSound(sessions')
      /\ ~staleCommit' => AllNumbered(sessions')
      /\ ~blindDraft' => OneLive(sessions')
    BY TableKept
<1>3. /\ DOMAIN sessions = 1..Len(sessions) /\ DOMAIN sessions' = 1..Len(sessions')
      /\ Len(sessions) \in Nat /\ Len(sessions') \in Nat
    BY <1>1, <1>2, LenProperties DEF TypeOK
<1>4. \/ tick' = Idle
      \/ tick' \in [pc : {"loaded"}, index : DOMAIN sessions', anchor : Time,
                    step : Nat, auto : BOOLEAN]
    <2>1. CASE tick' = Idle
        BY <2>1
    <2>2. CASE tick' = tick
        <3>1. DOMAIN sessions \subseteq DOMAIN sessions'
            BY <1>2, <1>3
        <3> QED BY <1>1, <2>2, <3>1 DEF TypeOK
    <2>3. CASE TickReads
        <3> DEFINE i == Latest(sessions)
                   s == sessions[i]
        <3>1. /\ tick' = [pc |-> "loaded", index |-> i, anchor |-> market,
                          step |-> s.step, auto |-> s.auto]
              /\ sessions' = sessions /\ sessions # <<>>
            BY <2>3, EmptySeq DEF TickReads, SomeRunning
        <3>2. sessions \in Ensured
            BY <3>1 DEF Ensured
        <3>3. i \in 1..Len(sessions) /\ s \in Session /\ market \in Time
            BY <1>1, <3>2, CurrentSession DEF TypeOK
        <3>4. s.step \in Nat /\ s.auto \in BOOLEAN
            BY <3>3 DEF Session
        <3> QED BY <1>3, <3>1, <3>3, <3>4
    <2>4. CASE TickSteps
        BY <2>4 DEF TickSteps
    <2> QED BY <2>1, <2>2, <2>3, <2>4, StepGrows
<1>5. TypeOK'
    BY <1>1, <1>2, <1>4, SurroundingsTyped DEF TypeOK
<1>6. LoadedBefore'
    BY LoadedKept
<1> QED BY <1>2, <1>5, <1>6 DEF WorkspaceInv

---------------------------------------------------------------------------
(* Theorems *)

LEMMA InvAlways == Spec => []WorkspaceInv
BY InvInit, InvStep, PTL DEF Spec

\* Every variable keeps its type.
THEOREM TypeCorrect == Spec => []TypeOK
<1>1. WorkspaceInv => TypeOK
    BY DEF WorkspaceInv
<1> QED BY <1>1, InvAlways, PTL

\* _latest_session, restart and the drafts leave one session alive at most,
\* whatever the tick commits.
THEOREM OneSessionLives == Spec => []OneLiveSession
<1>1. WorkspaceInv => OneLiveSession
    <2> SUFFICES ASSUME WorkspaceInv PROVE OneLiveSession
        OBVIOUS
    <2>1. DOMAIN sessions = 1..Len(sessions)
        BY LenProperties DEF WorkspaceInv, TypeOK
    <2> QED BY <2>1 DEF WorkspaceInv, OneLive, OneLiveSession
<1> QED BY <1>1, InvAlways, PTL

\* Both portfolios of a living session have its status and its cash, through
\* every race of requests, tick and projection.
THEOREM TracksComparable == Spec => []TracksAligned
<1>1. WorkspaceInv => TracksAligned
    <2> SUFFICES ASSUME WorkspaceInv PROVE TracksAligned
        OBVIOUS
    <2>1. DOMAIN sessions = 1..Len(sessions)
        BY LenProperties DEF WorkspaceInv, TypeOK
    <2> QED BY <2>1 DEF WorkspaceInv, AllSound, Sound, TracksAligned
<1> QED BY <1>1, InvAlways, PTL

\* Steps and orders belong to sessions that were started.
THEOREM NothingBeforeStart == Spec => []TradedOnlyAfterStart
<1>1. WorkspaceInv => TradedOnlyAfterStart
    <2> SUFFICES ASSUME WorkspaceInv PROVE TradedOnlyAfterStart
        OBVIOUS
    <2>1. DOMAIN sessions = 1..Len(sessions)
        BY LenProperties DEF WorkspaceInv, TypeOK
    <2> QED BY <2>1 DEF WorkspaceInv, AllSound, Sound, TradedOnlyAfterStart
<1> QED BY <1>1, InvAlways, PTL

\* The events number the steps of a session without a gap, unless a tick has
\* committed values that had changed.
THEOREM NumbersWithoutGap == Spec => []StepsNumbered
<1>1. WorkspaceInv => StepsNumbered
    <2> SUFFICES ASSUME WorkspaceInv PROVE StepsNumbered
        OBVIOUS
    <2>1. DOMAIN sessions = 1..Len(sessions)
        BY LenProperties DEF WorkspaceInv, TypeOK
    <2> QED BY <2>1 DEF WorkspaceInv, AllNumbered, Numbered, StepsNumbered
<1> QED BY <1>1, InvAlways, PTL

\* What one step does to the rows.
LEMMA RowsKept ==
    ASSUME WorkspaceInv, [Next]_vars, NEW i \in DOMAIN sessions
    PROVE  /\ sessions[i].status = "ended" => sessions'[i].status = "ended"
           /\ ~staleCommit' =>
                /\ sessions'[i].clock >= sessions[i].clock
                /\ sessions[i].status = "ended" =>
                       /\ sessions'[i].step = sessions[i].step
                       /\ sessions'[i].clock = sessions[i].clock
                       /\ sessions'[i].tracks = sessions[i].tracks
<1>1. sessions \in Seq(Session) /\ DOMAIN sessions = 1..Len(sessions)
    BY LenProperties DEF WorkspaceInv, TypeOK
<1>2. sessions[i] \in Session /\ sessions[i].clock \in Int
    <2>1. sessions[i] \in Session
        BY <1>1, ElementOfSeq
    <2> QED BY <2>1, WorkspaceAssumption DEF Session, Time
<1>3. CASE TickSteps
    <2>1. PICK k \in 1..Len(sessions), s2 \in Session :
              /\ sessions' = [sessions EXCEPT ![k] = s2]
              /\ s2.status = sessions[k].status
              /\ ~staleCommit' => /\ sessions[k].status = "running"
                                  /\ s2.clock > sessions[k].clock
        BY <1>3, TickStepsRow
    <2>2. sessions'[i] = IF i = k THEN s2 ELSE sessions[i]
        BY <1>1, <2>1
    <2>3. s2.clock \in Int
        BY WorkspaceAssumption DEF Session, Time
    <2> QED BY <1>2, <2>1, <2>2, <2>3
<1>4. CASE ~TickSteps
    <2>1. Moves(sessions[i], sessions'[i])
        BY <1>1, <1>4, StepGrows DEF Growth
    <2>2. sessions'[i].clock \in Int
        BY <2>1, WorkspaceAssumption DEF Moves, Session, Time
    <2> QED BY <1>2, <2>1, <2>2 DEF Moves
<1> QED BY <1>3, <1>4

\* Ending is final: no request and no late tick revives a session.
EndedIsFinal ==
    [][\A i \in DOMAIN sessions :
        sessions[i].status = "ended" => sessions'[i].status = "ended"]_vars

\* The end of a session outlasts every race of requests, ticks and projection.
THEOREM NoRevival == Spec => EndedIsFinal
<1>1. WorkspaceInv /\ [Next]_vars =>
          [\A i \in DOMAIN sessions :
              sessions[i].status = "ended" => sessions'[i].status = "ended"]_vars
    BY RowsKept
<1> QED BY <1>1, InvAlways, PTL DEF Spec, EndedIsFinal

\* Clocks do not go back and ended sessions stand, unless a tick commits
\* values that had changed.
THEOREM TimelinesStand == Spec => TimelineKept
<1>1. WorkspaceInv /\ [Next]_vars =>
          [~staleCommit' =>
            \A i \in DOMAIN sessions :
                /\ sessions'[i].clock >= sessions[i].clock
                /\ sessions[i].status = "ended" =>
                       /\ sessions'[i].step = sessions[i].step
                       /\ sessions'[i].clock = sessions[i].clock
                       /\ sessions'[i].tracks = sessions[i].tracks]_vars
    BY RowsKept
<1> QED BY <1>1, InvAlways, PTL DEF Spec, TimelineKept

---------------------------------------------------------------------------
(* The exception to what simulation.py:1198 says *)

\* A tick commits what it loaded before a request changed the session.
LateTick == TickSteps /\ Outdated

\* While a session stays paused its clock and its step stand, whatever else
\* happens: a tick that loaded the session before the pause is the only way
\* to move the timeline that the pause has frozen.
FrozenUnlessLate ==
    [][~LateTick =>
        \A i \in DOMAIN sessions :
            (sessions[i].status = "paused" /\ sessions'[i].status = "paused") =>
                /\ sessions'[i].clock = sessions[i].clock
                /\ sessions'[i].step = sessions[i].step]_vars

LEMMA PausedKept ==
    ASSUME WorkspaceInv, [Next]_vars, ~LateTick, NEW i \in DOMAIN sessions,
           sessions[i].status = "paused", sessions'[i].status = "paused"
    PROVE  sessions'[i].clock = sessions[i].clock /\ sessions'[i].step = sessions[i].step
<1>1. sessions \in Seq(Session) /\ DOMAIN sessions = 1..Len(sessions)
    BY LenProperties DEF WorkspaceInv, TypeOK
<1>2. CASE TickSteps
    <2>1. ~Outdated
        BY <1>2 DEF LateTick
    <2>2. PICK k \in 1..Len(sessions), s2 \in Session :
              /\ sessions' = [sessions EXCEPT ![k] = s2]
              /\ sessions[k].status = "running"
        BY <1>2, <2>1, TickStepsRow
    <2>3. i # k
        BY <2>2
    <2> QED BY <1>1, <2>2, <2>3
<1>3. CASE ~TickSteps
    <2>1. Moves(sessions[i], sessions'[i])
        BY <1>1, <1>3, StepGrows DEF Growth
    <2> QED BY <2>1 DEF Moves
<1> QED BY <1>2, <1>3

\* Only an outdated tick moves the timeline of a paused session.
THEOREM PauseHolds == Spec => FrozenUnlessLate
<1>1. WorkspaceInv /\ [Next]_vars =>
          [~LateTick =>
            \A i \in DOMAIN sessions :
                (sessions[i].status = "paused" /\ sessions'[i].status = "paused") =>
                    /\ sessions'[i].clock = sessions[i].clock
                    /\ sessions'[i].step = sessions[i].step]_vars
    BY PausedKept
<1> QED BY <1>1, InvAlways, PTL DEF Spec, FrozenUnlessLate

---------------------------------------------------------------------------
(* The life of the sessions as their owner is promised it *)

Statuses(ss) == [i \in DOMAIN ss |-> ss[i].status]

Newest(S) == CHOOSE i \in S : \A j \in S : j <= i

LEMMA StatusesOf ==
    ASSUME NEW ss \in Seq(Session)
    PROVE  /\ Statuses(ss) \in Seq(Status) /\ Len(Statuses(ss)) = Len(ss)
           /\ DOMAIN Statuses(ss) = DOMAIN ss
           /\ \A i \in 1..Len(ss) : Statuses(ss)[i] = ss[i].status
<1>1. Len(ss) \in Nat /\ DOMAIN ss = 1..Len(ss)
    BY LenProperties
<1>2. ASSUME NEW i \in 1..Len(ss) PROVE ss[i].status \in Status
    <2>1. ss[i] \in Session
        BY ElementOfSeq
    <2> QED BY <2>1 DEF Session
<1>3. Statuses(ss) = [i \in 1..Len(ss) |-> ss[i].status]
    BY <1>1 DEF Statuses
<1>4. Statuses(ss) \in [1..Len(ss) -> Status]
    BY <1>2, <1>3
<1> QED BY <1>1, <1>3, <1>4

\* The current session is found by the statuses.
LEMMA CurrentIsLatest ==
    ASSUME NEW ss \in Seq(Session)
    PROVE  Lifecycle!Current(Statuses(ss)) = Latest(ss)
<1> DEFINE live == {i \in DOMAIN ss : ss[i].status # "ended"}
           alive == {i \in DOMAIN Statuses(ss) : Statuses(ss)[i] # "ended"}
<1>1. live = alive
    BY StatusesOf, LenProperties
<1>2. Latest(ss) = IF live = {} THEN Len(ss) ELSE Newest(live)
    BY DEF Latest, Newest
<1>3. Lifecycle!Current(Statuses(ss)) =
          IF alive = {} THEN Len(Statuses(ss)) ELSE Newest(alive)
    BY DEF Lifecycle!Current, Newest
<1> HIDE DEF live, alive
<1> QED BY <1>1, <1>2, <1>3, StatusesOf

LEMMA StatusReplaced ==
    ASSUME NEW ss \in Seq(Session), NEW i \in 1..Len(ss), NEW s \in Session
    PROVE  Statuses([ss EXCEPT ![i] = s]) = [Statuses(ss) EXCEPT ![i] = s.status]
<1> DEFINE ss2 == [ss EXCEPT ![i] = s]
<1>1. /\ ss2 \in Seq(Session) /\ Len(ss2) = Len(ss)
      /\ \A j \in 1..Len(ss) : ss2[j] = IF j = i THEN s ELSE ss[j]
    BY ExceptSeq
<1>2. s.status \in Status
    BY DEF Session
<1> HIDE DEF ss2
<1>3. /\ Statuses(ss2) \in Seq(Status) /\ Len(Statuses(ss2)) = Len(ss)
      /\ \A j \in 1..Len(ss) : Statuses(ss2)[j] = IF j = i THEN s.status ELSE ss[j].status
    BY <1>1, StatusesOf
<1> DEFINE ts == [Statuses(ss) EXCEPT ![i] = s.status]
<1>4. /\ ts \in Seq(Status) /\ Len(ts) = Len(ss)
      /\ \A j \in 1..Len(ss) : ts[j] = IF j = i THEN s.status ELSE ss[j].status
    BY <1>2, StatusesOf, ExceptSeq
<1> HIDE DEF ts
<1>5. Statuses(ss2) = ts
    BY <1>3, <1>4, SeqEqual
<1> QED BY <1>5 DEF ss2, ts

LEMMA StatusAdded ==
    ASSUME NEW ss \in Seq(Session), NEW s \in Session
    PROVE  Statuses(Append(ss, s)) = Append(Statuses(ss), s.status)
<1> DEFINE ss2 == Append(ss, s)
           ts == Append(Statuses(ss), s.status)
<1>1. /\ ss2 \in Seq(Session) /\ Len(ss2) = Len(ss) + 1 /\ Len(ss) \in Nat
      /\ \A j \in 1..Len(ss) : ss2[j] = ss[j]
      /\ ss2[Len(ss) + 1] = s
    BY AppendProperties, LenProperties
<1>2. s.status \in Status
    BY DEF Session
<1>3. /\ ts \in Seq(Status) /\ Len(ts) = Len(ss) + 1
      /\ \A j \in 1..Len(ss) : ts[j] = ss[j].status
      /\ ts[Len(ss) + 1] = s.status
    BY <1>1, <1>2, StatusesOf, AppendProperties
<1> HIDE DEF ss2, ts
<1>4. /\ Statuses(ss2) \in Seq(Status) /\ Len(Statuses(ss2)) = Len(ss) + 1
      /\ \A j \in 1..Len(ss) + 1 : Statuses(ss2)[j] = ss2[j].status
    BY <1>1, StatusesOf
<1>5. \A j \in 1..Len(ss) + 1 : Statuses(ss2)[j] = ts[j]
    <2>1. \A j \in 1..Len(ss) + 1 : j \in 1..Len(ss) \/ j = Len(ss) + 1
        BY <1>1
    <2> QED BY <1>1, <1>3, <1>4, <2>1
<1>6. Statuses(ss2) = ts
    BY <1>3, <1>4, <1>5, SeqEqual
<1> QED BY <1>6 DEF ss2, ts

\* What a handler finds, by its statuses.
Found == IF Statuses(sessions) = <<>> THEN <<"draft">> ELSE Statuses(sessions)

LEMMA StatusesFound ==
    ASSUME TypeOK, NEW ss \in Ensured
    PROVE  Statuses(ss) = Found
<1>1. sessions \in Seq(Session) /\ Len(Statuses(sessions)) = Len(sessions)
      /\ Statuses(sessions) \in Seq(Status)
    BY StatusesOf DEF TypeOK
<1>2. Statuses(sessions) = <<>> <=> sessions = <<>>
    BY <1>1, EmptySeq
<1>3. CASE sessions # <<>>
    BY <1>2, <1>3 DEF Ensured, Found
<1>4. CASE sessions = <<>>
    <2>1. PICK c \in StartTimes(watchlist) : ss = <<Draft(c)>>
        BY <1>4 DEF Ensured
    <2>2. Draft(c).status = "draft"
        BY DEF Draft, NewSession
    <2> DEFINE d == Draft(c)
    <2> HIDE DEF d
    <2>3. ss = <<d>> /\ d.status = "draft"
        BY <2>1, <2>2 DEF d
    <2>4. ss \in Seq(Session)
        BY WhatIsEnsured
    <2>5. /\ Statuses(ss) \in Seq(Status) /\ Len(Statuses(ss)) = 1
          /\ Statuses(ss)[1] = "draft"
        <3>1. Len(ss) = 1 /\ ss[1].status = "draft"
            BY <2>3
        <3> QED BY <2>4, <3>1, StatusesOf
    <2>6. /\ <<"draft">> \in Seq(Status) /\ Len(<<"draft">>) = 1
          /\ <<"draft">>[1] = "draft"
        BY DEF Status
    <2>7. Statuses(ss) = <<"draft">>
        BY <2>5, <2>6, SeqEqual
    <2> QED BY <1>2, <1>4, <2>7 DEF Found
<1> QED BY <1>3, <1>4

\* The step of the abstract life, on the statuses of the rows.
LifeStep ==
    LET old == Statuses(sessions)
        new == Statuses(sessions)'
        i == Lifecycle!Current(Found)
    IN  \/ new = old
        \/ new = Append(old, "draft")
        \/ \E status \in Lifecycle!After[Found[i]] : new = [Found EXCEPT ![i] = status]
        \/ new = Append([Found EXCEPT ![i] = "ended"], "running")

LEMMA OneRowLives ==
    ASSUME TypeOK, NEW ss \in Ensured, OneRow(ss)
    PROVE  LifeStep
<1> DEFINE i == Latest(ss)
<1>1. PICK s2 : Moves(ss[i], s2) /\ sessions' = [ss EXCEPT ![i] = s2]
    BY DEF OneRow
<1>2. /\ ss \in Seq(Session) /\ i \in 1..Len(ss) /\ ss[i] \in Session /\ s2 \in Session
      /\ Turns(ss[i].status, s2.status)
    BY <1>1, WhatIsEnsured, CurrentSession DEF Moves
<1>3. Statuses(ss) = Found /\ Lifecycle!Current(Found) = i
    BY <1>2, StatusesFound, CurrentIsLatest
<1>4. Statuses(sessions)' = [Found EXCEPT ![i] = s2.status]
    <2>1. Statuses([ss EXCEPT ![i] = s2]) = [Statuses(ss) EXCEPT ![i] = s2.status]
        BY <1>2, StatusReplaced
    <2> QED BY <1>1, <1>3, <2>1
<1>5. Found[i] = ss[i].status /\ Found \in Seq(Status)
    BY <1>2, <1>3, StatusesOf
<1>6. CASE s2.status = ss[i].status
    <2>1. [Found EXCEPT ![i] = s2.status] = Found
        BY <1>2, <1>3, <1>5, <1>6, LenProperties, StatusesOf
    <2>2. CASE Statuses(sessions) = <<>>
        <3>1. Append(<<>>, "draft") = <<"draft">>
            OBVIOUS
        <3> QED BY <1>4, <2>1, <2>2, <3>1 DEF LifeStep, Found
    <2>3. CASE Statuses(sessions) # <<>>
        BY <1>4, <2>1, <2>3 DEF LifeStep, Found
    <2> QED BY <2>2, <2>3
<1>7. CASE s2.status # ss[i].status
    <2>1. ss[i].status \in Status
        BY <1>2 DEF Session
    <2>2. s2.status \in Lifecycle!After[ss[i].status]
        BY <1>2, <1>7, <2>1 DEF Turns, Status, Lifecycle!After
    <2> QED BY <1>3, <1>4, <1>5, <2>2 DEF LifeStep
<1> QED BY <1>6, <1>7

LEMMA RestartLives ==
    ASSUME TypeOK, NEW ss \in Ensured, Replaced(ss)
    PROVE  LifeStep
<1> DEFINE i == Latest(ss)
<1>1. PICK s2 \in Session, new \in Session :
          /\ s2.status = "ended" /\ new.status = "running"
          /\ sessions' = Append([ss EXCEPT ![i] = s2], new)
    BY DEF Replaced
<1>2. ss \in Seq(Session) /\ i \in 1..Len(ss)
    BY WhatIsEnsured, CurrentSession
<1>3. Statuses(ss) = Found /\ Lifecycle!Current(Found) = i
    BY <1>2, StatusesFound, CurrentIsLatest
<1>4. [ss EXCEPT ![i] = s2] \in Seq(Session)
    BY <1>2, ExceptSeq
<1>5. Statuses([ss EXCEPT ![i] = s2]) = [Found EXCEPT ![i] = "ended"]
    BY <1>1, <1>2, <1>3, StatusReplaced
<1>6. Statuses(sessions)' = Append([Found EXCEPT ![i] = "ended"], "running")
    BY <1>1, <1>4, <1>5, StatusAdded
<1> QED BY <1>3, <1>6 DEF LifeStep

\* Every step of the requests, the ticks and the projection is a step of the
\* life of the sessions or leaves their statuses alone.
LEMMA StepLives ==
    ASSUME WorkspaceInv, [Next]_vars
    PROVE  LifeStep
<1>1. TypeOK /\ sessions \in Seq(Session)
    BY DEF WorkspaceInv, TypeOK
<1>2. CASE UNCHANGED sessions
    BY <1>2 DEF LifeStep
<1>3. CASE Request
    <2>1. CASE Restart
        BY <1>1, <2>1, RestartReplaces, RestartLives
    <2>2. CASE ~Restart
        <3>1. \/ View \/ Start \/ Pause \/ Resume \/ ManualOrder \/ Step \/ End
              \/ \E cash \in CashValues, auto, listed \in BOOLEAN : UpdateConfig(cash, auto, listed)
            BY <1>3, <2>2 DEF Request
        <3> QED BY <1>1, <3>1, RequestMoves, OneRowLives
    <2> QED BY <2>1, <2>2
<1>4. CASE ProjectionCommits
    <2>1. PICK c \in StartTimes(watchlist) : sessions' = Append(sessions, Draft(c))
        BY <1>4 DEF ProjectionCommits
    <2>2. c \in Time
        BY <1>1, <2>1, WorkspaceAssumption DEF StartTimes, Time, TypeOK
    <2>3. Draft(c) \in Session /\ Draft(c).status = "draft"
        <3>1. watchlist \in BOOLEAN
            BY <1>1 DEF TypeOK
        <3>2. Draft(c) \in Session
            BY <2>2, <3>1, NewIsSound, WorkspaceAssumption DEF Draft
        <3> QED BY <3>2 DEF Draft, NewSession
    <2>4. Statuses(sessions)' = Append(Statuses(sessions), "draft")
        BY <1>1, <2>1, <2>3, StatusAdded
    <2> QED BY <2>4 DEF LifeStep
<1>5. CASE TickSyncs
    BY <1>1, <1>2, <1>5, SyncMoves, OneRowLives
<1>6. CASE TickSteps
    <2>1. PICK i \in 1..Len(sessions), s2 \in Session :
              sessions' = [sessions EXCEPT ![i] = s2] /\ s2.status = sessions[i].status
        BY <1>6, TickStepsRow
    <2>2. Statuses(sessions)' = [Statuses(sessions) EXCEPT ![i] = sessions[i].status]
        <3>1. Statuses([sessions EXCEPT ![i] = s2]) = [Statuses(sessions) EXCEPT ![i] = s2.status]
            BY <1>1, <2>1, StatusReplaced
        <3> QED BY <2>1, <3>1
    <2>3. Statuses(sessions)[i] = sessions[i].status /\ i \in DOMAIN Statuses(sessions)
        BY <1>1, StatusesOf, LenProperties
    <2>4. [Statuses(sessions) EXCEPT ![i] = Statuses(sessions)[i]] = Statuses(sessions)
        BY <2>3 DEF Statuses
    <2> QED BY <2>2, <2>3, <2>4 DEF LifeStep
<1>7. CASE TickReads \/ TickFails \/ ProjectionReads \/ NewBar \/ WatchlistChanges \/ OthersChange
    BY <1>2, <1>7 DEF TickReads, TickFails, ProjectionReads, NewBar, WatchlistChanges, OthersChange
<1>8. CASE UNCHANGED vars
    BY <1>2, <1>8 DEF vars
<1> QED BY <1>3, <1>4, <1>5, <1>6, <1>7, <1>8 DEF Next, Tick

\* The handlers, the tick that works on what it read earlier and the projection
\* that looked before it had the lock implement the life of the sessions.
THEOREM LifecycleImplemented == Spec => LifecycleRefined
<1>1. Init => Lifecycle!Init
    <2> SUFFICES ASSUME Init PROVE Statuses(sessions) = <<>>
        BY DEF Lifecycle!Init, Statuses
    <2>1. sessions = <<>> /\ sessions \in Seq(Session) /\ Len(sessions) = 0
        BY EmptySeq DEF Init
    <2>2. Statuses(sessions) \in Seq(Status) /\ Len(Statuses(sessions)) = 0
        BY <2>1, StatusesOf
    <2> QED BY <2>2, EmptySeq
<1>2. LifeStep => [Lifecycle!Next]_(Statuses(sessions))
    BY DEF LifeStep, Lifecycle!Next, Lifecycle!Draft, Lifecycle!Move, Lifecycle!Restart,
           Lifecycle!Found, Found, Statuses
<1>3. WorkspaceInv /\ [Next]_vars => [Lifecycle!Next]_(Statuses(sessions))
    BY <1>2, StepLives
<1>4. Statuses(sessions) = [i \in DOMAIN sessions |-> sessions[i].status]
    BY DEF Statuses
<1> QED BY <1>1, <1>3, <1>4, InvAlways, PTL DEF Spec, LifecycleRefined, Lifecycle!Spec, Statuses
================================================================================
