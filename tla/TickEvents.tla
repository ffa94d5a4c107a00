------------------------------ MODULE TickEvents ------------------------------
(***************************************************************************)
(* _build_tick_event_stream of research/backTest.py: a tick file is read   *)
(* in chunks, the ticks of the requested range are cut into minutes, a     *)
(* minute that may go on in the next chunk is carried over, and each       *)
(* minute becomes its open, high, low and close events in the order they   *)
(* happened.                                                               *)
(***************************************************************************)
EXTENDS Integers, Sequences, FiniteSets, FiniteSetsExt, SequencesExt

CONSTANTS
  Files,         \* tick files: sequences of [ts, price] in time order
  MinuteLength,  \* time units in a minute
  Ranges         \* requested ranges: [start, end], both inclusive

VARIABLES
  file, range,
  build  \* how far the stream is built, see NothingBuilt

vars == <<file, range, build>>

NothingBuilt ==
  [pos |-> 0,           \* ticks handed out by the reader
   pending |-> <<>>,    \* ticks of the last minute of the chunks so far
   summaries |-> <<>>,  \* minutes summarised, in order
   built |-> FALSE,
   events |-> <<>>]     \* the event stream

Minute(t) == t.ts \div MinuteLength

Within(s, r) == SelectSeq(s, LAMBDA t : t.ts >= r.start /\ t.ts <= r.end)

InMinute(s, m) == SelectSeq(s, LAMBDA t : Minute(t) = m)

\* The first tick of s with the extreme price p.
FirstAt(s, p) == s[Min({i \in 1..Len(s) : s[i].price = p})]

Prices(s) == {s[i].price : i \in 1..Len(s)}

\* Open, high, low and close of one minute's ticks, with their times.
summarize_complete_tick_chunk(s) ==
  [minute |-> Minute(s[1]), open |-> s[1], close |-> s[Len(s)],
   high |-> FirstAt(s, Max(Prices(s))), low |-> FirstAt(s, Min(Prices(s)))]

\* The summaries of every minute in s, in order of appearance.
Summaries(s) ==
  LET minutes == SetToSortSeq({Minute(s[i]) : i \in 1..Len(s)}, <)
  IN [n \in 1..Len(minutes) |-> summarize_complete_tick_chunk(InMinute(s, minutes[n]))]

Event(t, label) == [ts |-> t.ts, price |-> t.price, label |-> label]

\* The events of a minute: the earlier extreme first, the high on a tie, an
\* event dropped when it repeats the one before it, and the rest numbered.
EventsOf(row) ==
  LET extremes == IF row.high.ts <= row.low.ts
                    THEN <<Event(row.high, "high"), Event(row.low, "low")>>
                    ELSE <<Event(row.low, "low"), Event(row.high, "high")>>
      rows == <<Event(row.open, "open")>> \o extremes \o <<Event(row.close, "close")>>
      add(out, e) == IF out # <<>> /\ Last(out).ts = e.ts /\ Last(out).price = e.price
                       THEN out ELSE Append(out, e)
      kept == FoldLeft(add, <<>>, rows)
  IN [n \in 1..Len(kept) |-> kept[n] @@ [seq |-> n]]

Sooner(a, b) == a.ts < b.ts \/ (a.ts = b.ts /\ a.seq < b.seq)

Init == file \in Files /\ range \in Ranges /\ build = NothingBuilt

\* Fault: the ticks of the last minute are summarised with their chunk.
CarryNothing(chunk, w) ==
  [w EXCEPT !.summaries = @ \o Summaries(w.pending \o chunk), !.pending = <<>>]

\* The ticks of a chunk that lie in the range, behind the ticks carried over:
\* all minutes but the last are summarised.
Carry(chunk, w) ==
  LET all == w.pending \o chunk
      last == Minute(all[Len(all)])
  IN [w EXCEPT !.summaries = @ \o Summaries(SelectSeq(all, LAMBDA t : Minute(t) # last)),
               !.pending = InMinute(all, last)]

\* One chunk of n ticks: wholly after the range it ends the reading, wholly
\* before it is passed over, and what reaches beyond the range is cut off.
ReadChunk(n) ==
  /\ ~build.built /\ n <= Len(file) - build.pos
  /\ LET chunk == SubSeq(file, build.pos + 1, build.pos + n)
         cut == Within(chunk, range)
         next == [build EXCEPT !.pos = IF chunk[n].ts > range.end THEN Len(file) ELSE @ + n]
     IN build' = IF chunk[1].ts > range.end \/ chunk[n].ts < range.start \/ cut = <<>>
                   THEN next ELSE Carry(cut, next)
  /\ UNCHANGED <<file, range>>

\* The last minute is summarised and the events are sorted by time and number.
BuildEvents ==
  /\ ~build.built /\ build.pos = Len(file)
  /\ LET all == build.summaries \o (IF build.pending = <<>> THEN <<>> ELSE Summaries(build.pending))
     IN build' = [build EXCEPT !.summaries = all, !.pending = <<>>, !.built = TRUE,
                               !.events = SortSeq(FlattenSeq([n \in 1..Len(all) |-> EventsOf(all[n])]), Sooner)]
  /\ UNCHANGED <<file, range>>

Done == build.built /\ UNCHANGED vars

Next == (\E n \in 1..Len(file) : ReadChunk(n)) \/ BuildEvents \/ Done

Spec == Init /\ [][Next]_vars

\* The size of the chunks cannot be seen in the result: the minutes are those
\* of the whole file read at once.
ChunksAreInvisible == build.built => build.summaries = Summaries(Within(file, range))

\* The stream is a path the market really took: every event is a tick of the
\* file at its time, the times never go back, every minute of the range begins
\* with its first and ends with its last price, and no extreme is missing.
EventsFollowTheTape ==
  build.built =>
    /\ \A i \in 1..Len(build.events) : [ts |-> build.events[i].ts, price |-> build.events[i].price] \in ToSet(Within(file, range))
    /\ \A i, j \in 1..Len(build.events) : i < j => build.events[i].ts <= build.events[j].ts
    /\ \A m \in {Minute(t) : t \in ToSet(Within(file, range))} :
         LET tape == InMinute(Within(file, range), m)
             path == InMinute(build.events, m)
         IN /\ path[1].price = tape[1].price /\ Last(path).price = Last(tape).price
            /\ Max(Prices(path)) = Max(Prices(tape)) /\ Min(Prices(path)) = Min(Prices(tape))
==============================================================================
