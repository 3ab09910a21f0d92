---------------------------- MODULE CandleQuality ---------------------------
(***************************************************************************)
(* From raw candles to the frame the strategy reads: canonicalize_ohlcv    *)
(* (data/quality.py), the channel part of compute_trend_indicators         *)
(* (indicators/trend.py) and evaluate_entry (strategy/donchian_trend.py),  *)
(* recomputed as bars complete.                                            *)
(*                                                                         *)
(* Slot k of the sequence bars is the k-th four-hour interval.  A bar is a *)
(* record of its kind and its close: "ok", "flat" (high = low), "spike"    *)
(* (range too wide), "bad" (impossible or missing values, quarantined) or  *)
(* "none" (the slot is absent).  Prices are doubled so that a bar that is  *)
(* not flat reaches one above and one below its close.  Duplicate rows,    *)
(* the EMA filter, ATR and the report's counts are not modelled.           *)
(***************************************************************************)
EXTENDS Integers, Sequences, FiniteSets, FiniteSetsExt

CONSTANTS
    Lookback,      \* bars that must be clean before an entry (200)
    EntryPeriod,   \* bars of the entry channel (55)
    WarmupBars,    \* normal bars before a segment may be traded (600)
    Prices,        \* closes
    MaxBars        \* bound: slots

ASSUME QualityAssumption ==
    /\ {Lookback, EntryPeriod} \subseteq Nat \ {0} /\ {WarmupBars, MaxBars} \subseteq Nat
    /\ Lookback > EntryPeriod + 1
    /\ Prices \subseteq Nat /\ Prices # {}

VARIABLES
    bars,       \* completed slots
    forming,    \* the bar of the slot in progress
    frame       \* the enriched frame computed last

qualityVars == <<bars, forming, frame>>

Absent == [kind |-> "none", close |-> 0]
Bars == [kind : {"ok"}, close : Prices] \cup [kind : {"flat", "spike", "bad"}, close : {Min(Prices)}] \cup {Absent}

-----------------------------------------------------------------------------
\* canonicalize_ohlcv

\* Seeded fault: the bar in progress is kept.
KeepUnclosed(completed, current) == Append(completed, current)

\* _drop_unclosed_last_bar
DropUnclosed(completed, current) == completed

Present(raw) == {t \in 1..Len(raw) : raw[t].kind # "none"}
Index(raw) == IF Present(raw) = {} THEN {} ELSE Min(Present(raw))..Max(Present(raw))

\* Seeded fault: a quarantined bar's close is carried over.
FilledFromAny(raw, t) ==
    /\ raw[t].kind = "none"
    /\ raw[t - 1].kind # "none" /\ raw[t + 1].kind # "none"

\* _reindex_and_fill_single_gaps: one missing bar between two present ones takes
\* the close before it, unless that close was quarantined.
Filled(raw, t) ==
    /\ raw[t].kind = "none"
    /\ raw[t - 1].kind \notin {"none", "bad"} /\ raw[t + 1].kind # "none"

\* Any other gap ends a segment with its last missing bar.
EndsSegment(raw, t) == raw[t].kind = "none" /\ raw[t + 1].kind # "none" /\ ~Filled(raw, t)
SegmentId(raw, t) == Cardinality({u \in Index(raw) : u < t /\ EndsSegment(raw, u)})

\* _quarantine_invalid_values, _flag_spikes_and_flat_bars
Contaminated(raw, t) == raw[t].kind \in {"bad", "spike", "flat"} \/ Filled(raw, t)
HasValues(raw, t) == raw[t].kind \in {"ok", "flat", "spike"} \/ Filled(raw, t)

Segment(raw, t) == {u \in Index(raw) : SegmentId(raw, u) = SegmentId(raw, t)}

\* Seeded fault: only the bar itself must be clean.
EntryDataValidAlone(raw, t) == HasValues(raw, t) /\ ~Contaminated(raw, t)

\* _set_entry_data_valid
EntryDataValid(raw, t) ==
    /\ HasValues(raw, t)
    /\ \A u \in Segment(raw, t) : u <= t /\ u > t - Lookback => ~Contaminated(raw, u)

-----------------------------------------------------------------------------
\* compute_trend_indicators and evaluate_entry

Close(raw, t) == 2 * (IF Filled(raw, t) THEN raw[t - 1].close ELSE raw[t].close)
High(raw, t) == Close(raw, t) + (IF raw[t].kind \in {"ok", "spike"} THEN 1 ELSE 0)

\* Rows of the channel before bar t, which exists only when all of them have values.
Channel(t) == t - EntryPeriod..t - 1
EntryHighDefined(raw, t) == \A u \in Channel(t) : u \in Segment(raw, t) /\ HasValues(raw, u)
EntryHigh(raw, t) == Max({High(raw, u) : u \in Channel(t)})

\* Seeded fault: the bars of earlier segments warm up this one.
WarmupOverall(raw, t) ==
    Cardinality({u \in Index(raw) : u < t /\ HasValues(raw, u) /\ ~Contaminated(raw, u)}) >= WarmupBars

WarmupComplete(raw, t) ==
    Cardinality({u \in Segment(raw, t) : u < t /\ HasValues(raw, u) /\ ~Contaminated(raw, u)}) >= WarmupBars

EvaluateEntry(raw, t) ==
    /\ WarmupComplete(raw, t) /\ EntryDataValid(raw, t)
    /\ t - 1 \in Segment(raw, t) /\ HasValues(raw, t - 1)
    /\ EntryHighDefined(raw, t) /\ EntryHighDefined(raw, t - 1)
    /\ Close(raw, t) > EntryHigh(raw, t)
    /\ Close(raw, t - 1) <= EntryHigh(raw, t - 1)

Canonicalize(raw) ==
    [t \in Index(raw) |-> [segment |-> SegmentId(raw, t), filled |-> Filled(raw, t),
                           quarantined |-> raw[t].kind = "bad", anomaly |-> raw[t].kind \in {"spike", "flat"},
                           available |-> HasValues(raw, t), close |-> Close(raw, t),
                           valid |-> EntryDataValid(raw, t), entry |-> EvaluateEntry(raw, t)]]

-----------------------------------------------------------------------------
\* _validate_quality_surface: what the walk-forward runner demands of a frame.

Observed(f, t) == t \in DOMAIN f /\ (f[t].quarantined \/ (f[t].available /\ ~f[t].filled))
LongGap(f, t) == ~f[t].available /\ ~f[t].quarantined

FlagsPossible(f, t) ==
    /\ ~(f[t].filled /\ (f[t].quarantined \/ f[t].anomaly))
    /\ f[t].available => ~f[t].quarantined
    /\ ~f[t].available => ~f[t].filled /\ ~f[t].anomaly

\* A filled row stands alone between observed ones and repeats a usable close.
FillJustified(f, t) ==
    /\ Observed(f, t - 1) /\ f[t - 1].available /\ Observed(f, t + 1)
    /\ f[t].close = f[t - 1].close
    /\ {f[t - 1].segment, f[t + 1].segment} = {f[t].segment}

\* A long gap lies between observed rows, is a single row only after a quarantined
\* one, and the row after it starts the next segment; nothing else does.
SegmentJustified(f, t) ==
    IF t - 1 \notin DOMAIN f THEN f[t].segment = 0 /\ ~LongGap(f, t)
    ELSE LET ends == LongGap(f, t - 1) /\ ~LongGap(f, t)
         IN  /\ f[t].segment = f[t - 1].segment + (IF ends THEN 1 ELSE 0)
             /\ LongGap(f, t) /\ ~LongGap(f, t - 1) => Observed(f, t - 1)
             /\ LongGap(f, t) => t + 1 \in DOMAIN f
             /\ ends => Observed(f, t) /\ (LongGap(f, t - 2) \/ f[t - 2].quarantined)

ValidityConsistent(f, t) ==
    f[t].valid <=> /\ f[t].available
                   /\ \A u \in DOMAIN f :
                        u <= t /\ u > t - Lookback /\ f[u].segment = f[t].segment
                            => ~(f[u].filled \/ f[u].quarantined \/ f[u].anomaly)

SurfaceValid(f) ==
    \A t \in DOMAIN f :
        /\ FlagsPossible(f, t)
        /\ f[t].filled => FillJustified(f, t)
        /\ SegmentJustified(f, t)
        /\ ValidityConsistent(f, t)

-----------------------------------------------------------------------------
QualityInit ==
    /\ bars = <<>>
    /\ forming = Absent
    /\ frame = <<>>

\* The slot in progress ends with some bar and the next one begins.
Complete ==
    /\ Len(bars) < MaxBars
    /\ \E bar \in Bars : bars' = Append(bars, bar)
    /\ forming' = [kind |-> "flat", close |-> Min(Prices)]
    /\ frame' = Canonicalize(DropUnclosed(bars', forming'))

QualityNext == Complete
QualitySpec == QualityInit /\ [][QualityNext]_qualityVars

-----------------------------------------------------------------------------
\* Properties

\* Nothing looks ahead: a bar that is in the frame keeps its segment, its flags
\* and its entry signal whatever completes after it, and the bar in progress is
\* not in it (canonicalize_ohlcv, compute_trend_indicators).
BarsFinal == [][\A t \in DOMAIN frame : t \in DOMAIN frame' /\ frame'[t] = frame[t]]_qualityVars

\* An entry signal stands on real prices: the bar, the bars of its channel and
\* those of the channel before it were all observed and unremarkable, and no
\* missing bar lies among them.
EntryOnRealBars ==
    \A t \in DOMAIN frame : frame[t].entry => \A u \in t - 1 - EntryPeriod..t : u > 0 /\ bars[u].kind = "ok"

\* Every frame the quality rules produce passes the walk-forward runner's check
\* of its quality surface: the two state the same rules independently.
SurfaceAccepted == SurfaceValid(frame)

\* Since the last long gap the warm-up has been served with unremarkable bars.
WarmedUp ==
    \A t \in DOMAIN frame : frame[t].entry =>
        \A u \in 1..t - 1 :
            bars[u].kind = "none" /\ bars[u + 1].kind = "none"
                => Cardinality({w \in u + 2..t - 1 : bars[w].kind = "ok"}) >= WarmupBars

\* An entry signal stands on real bars and on a warm-up since the last long gap,
\* whatever mixture of gaps, fills and quarantined bars came before it
\* (canonicalize_ohlcv, compute_trend_indicators).
EntrySound == EntryOnRealBars /\ WarmedUp
=============================================================================
