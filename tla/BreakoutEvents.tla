--------------------------- MODULE BreakoutEvents ---------------------------
(***************************************************************************)
(* timing_probability_unified: where its events come from.  The bars of    *)
(* seconds are made into bars of a time frame, a bar that touches the      *)
(* level two (T2) or three (T3) bars back is an event                      *)
(* (multi_timeframe_builder.py, t3_event_generator.py), and the features a *)
(* source lacks are made from the hours before it (feature_computer.py).   *)
(*                                                                         *)
(* Means are whole numbers; a ratio to the ATR is in hundredths.           *)
(***************************************************************************)
EXTENDS DelayStudy

CONSTANTS SpeedSpan, SpeedBars,  \* the window of the speed, the bars it must have
          Hour, AtrBars,         \* the length of an hour, the bars of the ATR
          Lookback, Sma,         \* the hours looked back at, those of the average
          MonthBack              \* how far back the month before is looked for

Highest(bars) == Max({b.h : b \in Range(bars)})
Lowest(bars) == Min({b.l : b \in Range(bars)})
InBin(bars, k, width) == SelectSeq(bars, LAMBDA b : b.t \div width = k)
Bin(bars, start) ==
  [t |-> start, o |-> Head(bars).o, h |-> Highest(bars), l |-> Lowest(bars), c |-> Last(bars).c]

Ascending(ints) == SelectSeq([k \in 1..(Max(ints) - Min(ints) + 1) |-> Min(ints) + k - 1], LAMBDA k : k \in ints)

resample_to_timeframe(bars, width) ==
  LET bins == Ascending({b.t \div width : b \in Range(bars)})
  IN [i \in 1..Len(bins) |-> Bin(InBin(bars, bins[i], width), bins[i] * width)]

\* The mean of the ranges up to and with bar i.
compute_atr(frame, i) ==
  LET last == SubSeq(frame, Max({1, i - AtrBars + 1}), i)
  IN SumOf(last, LAMBDA b : b.h - b.l) \div Len(last)

ByTime(bars) == SortSeq(bars, LAMBDA a, b : a.t < b.t)
\* Two files may hold the same second: the first one counts.
Merge(one, other) == ByTime(one \o SelectSeq(other, LAMBDA b : \A x \in Range(one) : x.t # b.t))

\* All the bars of a symbol, month by month, then the files that span more.
load_all_1s_bars(files, ranges, symbol) ==
  FoldLeft(Merge, << >>, SetToSeq({files[k] : k \in {x \in DOMAIN files : x[1] = symbol}})
                         \o SetToSeq({ranges[k] : k \in {x \in DOMAIN ranges : x[1] = symbol}}))

---------------------------------------------------------------------------
(* multi_timeframe_builder.py                                              *)

\* The signal itself is not kept: its high and low are 0.
EventAt(symbol, frame, side, bar, level, atr, prev, window, open) ==
  [id |-> <<symbol, frame.name, bar.t, side>>, symbol |-> symbol, touch |-> bar.t, side |-> side,
   level |-> Dir(side) * level, atr |-> atr, low |-> 0, high |-> 0, signal |-> frame.start,
   speed |-> (100 * (Last(window).c - Head(window).c)) \div atr, pre |-> bar.t - frame.start, cost |-> <<10>>,
   features |->
     [extension |-> <<(100 * (Favourable(bar, side) - level)) \div atr>>,
      body |-> <<(100 * Span(prev.c, prev.o)) \div atr>>,
      position |-> <<IF prev.h = prev.l THEN 50
                     ELSE IF side = "long" THEN (100 * (prev.c - prev.l)) \div (prev.h - prev.l)
                     ELSE 100 - (100 * (prev.c - prev.l)) \div (prev.h - prev.l)>>,
      open |-> <<(100 * (Dir(side) * level - open)) \div atr>>]]

Efficient(window) ==
  Highest(window) > Lowest(window) =>
    Span(Last(window).c, Head(window).c) <= Highest(window) - Lowest(window)

\* None when the touch is late or the bars before it too few.
build_event_fast(symbol, frame, side, bar, level, atr, prev, window, open) ==
  IF bar.t - frame.start > frame.late \/ Len(window) < SpeedBars \/ ~Efficient(window) THEN << >>
  ELSE <<EventAt(symbol, frame, side, bar, level, atr, prev, window, open)>>

Touching(bars, side, level) == SelectSeq(bars, LAMBDA b : Favourable(b, side) >= level)

SpeedWindow(bars, end) == SelectSeq(bars, LAMBDA b : end - SpeedSpan <= b.t /\ b.t <= end)

\* The first bar of the signal that touches the level, if the shape is there.
TouchIn(symbol, frame, side, bars, signal, tf, i, level, ready) ==
  LET hits == Touching(signal, side, level)
      atr == compute_atr(tf, i)
  IN IF ~ready \/ atr <= 0 \/ hits = << >> THEN << >>
     ELSE build_event_fast(symbol, frame, side, Head(hits), level, atr, tf[i - 1],
                           SpeedWindow(bars, Head(hits).t), Head(signal).o)

Signal(bars, start, width) == SelectSeq(bars, LAMBDA b : start <= b.t /\ b.t < start + width)

\* T2: the last bar stays inside the one before it.
T2Ready(tf, i, side) == Favourable(tf[i - 1], side) < Favourable(tf[i - 2], side)

T2At(symbol, frame, bars, tf, i) ==
  FlattenSeq([k \in 1..2 |->
    LET side == <<"long", "short">>[k]
    IN TouchIn(symbol, [frame EXCEPT !.start = tf[i].t], side, bars, Signal(bars, tf[i].t, frame.width), tf, i,
               Favourable(tf[i - 2], side), T2Ready(tf, i, side))])

detect_pretouch_events(symbol, frame, bars, tf) ==
  IF Len(tf) < 3 THEN << >>
  ELSE FlattenSeq([k \in 1..Len(tf) - 2 |-> T2At(symbol, frame, bars, tf, k + 2)])

build_multi_timeframe_events(symbol, frames, bars) ==
  [k \in 1..Len(frames) |->
     detect_pretouch_events(symbol, frames[k], bars, resample_to_timeframe(bars, frames[k].width))]

---------------------------------------------------------------------------
(* t3_event_generator.py                                                   *)

\* T3: the third bar back stands out, the last one above the second.
T3Ready(tf, i, side) ==
  /\ Favourable(tf[i - 3], side) > Favourable(tf[i - 2], side)
  /\ Favourable(tf[i - 3], side) > Favourable(tf[i - 1], side)
  /\ Favourable(tf[i - 1], side) > Favourable(tf[i - 2], side)

T3At(symbol, frame, bars, tf, i) ==
  FlattenSeq([k \in 1..2 |->
    LET side == <<"long", "short">>[k]
    IN TouchIn(symbol, [frame EXCEPT !.start = tf[i].t], side, bars, Signal(bars, tf[i].t, frame.width), tf, i,
               Favourable(tf[i - 3], side), T3Ready(tf, i, side))])

T3Events(symbol, frame, bars, tf) ==
  IF Len(tf) < 4 THEN << >> ELSE FlattenSeq([k \in 1..Len(tf) - 3 |-> T3At(symbol, frame, bars, tf, k + 3)])

generate_t3_events(symbol, bars, late) ==
  T3Events(symbol, [name |-> "t3", width |-> Hour, late |-> late, start |-> 0], bars,
           resample_to_timeframe(bars, Hour))

---------------------------------------------------------------------------
(* feature_computer.py                                                     *)

precompute_hourly_bars(cache) == [k \in DOMAIN cache |-> resample_to_timeframe(cache[k], Hour)]

HoursOf(hourly, key) == IF key \in DOMAIN hourly THEN hourly[key] ELSE << >>
Months(symbol, end) == <<symbol, (end - MonthBack) \div 100>>

Latest(hours, n) == SubSeq(hours, Max({1, Len(hours) - n + 1}), Len(hours))

HoursBefore_at(hours, end) == SelectSeq(hours, LAMBDA h : h.t <= end)
HoursBefore(hours, end) == SelectSeq(hours, LAMBDA h : h.t < end)

\* The hours of this month and of the one before it, up to the signal.
get_hourly_bars_before(hourly, symbol, end) ==
  LET now == <<symbol, end \div 100>>
      before == IF Months(symbol, end) = now THEN << >> ELSE HoursOf(hourly, Months(symbol, end))
  IN Latest(HoursBefore(before \o HoursOf(hourly, now), end), Lookback)

FilledNames == <<"percentile", "body", "gap", "slope", "distance">>
NoFeatures == [f \in Range(FilledNames) |-> None]
MeanClose(hours) == SumOf(hours, LAMBDA h : h.c) \div Len(hours)

FilledFrom(e, hours) ==
  LET n == Len(hours)
      close == Last(hours).c
      sma == SubSeq(hours, n - Sma + 1, n)
  IN [percentile |-> IF n < Sma THEN None
                     ELSE <<(100 * Len(SelectSeq(hours, LAMBDA h : h.h - h.l < e.atr))) \div n>>,
      body |-> <<(100 * Span(close, Last(hours).o)) \div e.atr>>,
      gap |-> IF n < Sma THEN None ELSE <<(100 * (close - MeanClose(sma))) \div e.atr>>,
      slope |-> IF n < Sma + 1 THEN None
                ELSE <<(100 * (MeanClose(sma) - MeanClose(SubSeq(hours, n - Sma, n - 1)))) \div e.atr>>,
      distance |-> <<(100 * Dir(e.side) * (e.level - close)) \div e.atr>>]

ComputedFor(e, hours) == IF e.atr <= 0 \/ Len(hours) < 2 THEN NoFeatures ELSE FilledFrom(e, hours)

compute_missing_features(events, hourly) ==
  [i \in 1..Len(events) |-> ComputedFor(events[i], get_hourly_bars_before(hourly, events[i].symbol, events[i].signal))]

\* A column is made when the source lacks it or has only holes.
NeedsFill(events) ==
  {f \in Range(FilledNames) : f \in DOMAIN events[1].features => \A e \in Range(events) : e.features[f] = None}

FillWith(events, needs, made) ==
  [i \in 1..Len(events) |->
     [events[i] EXCEPT !.features = [c \in DOMAIN @ \cup needs |-> IF c \in needs THEN made[i][c] ELSE @[c]]]]

fill_missing_features(events, cache) ==
  IF NeedsFill(events) = {} THEN events
  ELSE FillWith(events, NeedsFill(events), compute_missing_features(events, precompute_hourly_bars(cache)))
============================================================================
