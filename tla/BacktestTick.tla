----------------------------- MODULE BacktestTick -----------------------------
(***************************************************************************)
(* run_tick_full_scan_dual of research/backTest.py: the rules of the       *)
(* enhanced engine walked over a stream of ticks, where a quote is one     *)
(* price.  After an entry or an exit the cursor jumps past every tick of   *)
(* the same timestamp.                                                     *)
(***************************************************************************)
EXTENDS Backtest

VARIABLE skip   \* the cursor is to move past the ticks of the current timestamp

tickVars == <<vars, skip>>

Ticks == {q \in Quotes : q.o = q.h /\ q.h = q.l /\ q.l = q.c}

TickInit == Init /\ skip = FALSE

TickBarSkip == BarSkip /\ UNCHANGED skip

TickBarOpen(s) == BarOpen(s) /\ skip' = FALSE

\* A tick of the timestamp something was done at.
TickJumped(q) ==
  /\ Scans(q) /\ q \in Ticks /\ skip
  /\ Advance(q) /\ UNCHANGED <<st, skip>>

\* The handling of a tick entered or left a position.
Executed == st'.pos # st.pos /\ (Flat \/ st'.pos = NoPosition)

Move == skip' = Executed

\* A tick the loop looks at; once the cursor has moved on, it has a later
\* timestamp than the tick something was done at.
Looks(q) == Scans(q) /\ q \in Ticks

TickPaused(q) ==
  /\ Looks(q) /\ Flat /\ Paused
  /\ Advance(q) /\ UNCHANGED st /\ Move

TickFlatLong(q) ==
  /\ Looks(q) /\ Flat /\ ~Paused
  /\ "long" \in resolve_regime_ready(sig, set)
  /\ Advance(q) /\ st' = FlatSide("long", q, sig, set, st) /\ Move

TickFlatShort(q) ==
  /\ Looks(q) /\ Flat /\ ~Paused
  /\ resolve_regime_ready(sig, set) = {"short"}
  /\ Advance(q) /\ st' = FlatSide("short", q, sig, set, st) /\ Move

TickFlatIdle(q) ==
  /\ Looks(q) /\ Flat /\ ~Paused
  /\ resolve_regime_ready(sig, set) = {}
  /\ Advance(q) /\ UNCHANGED st /\ Move

TickHoldLong(q) ==
  /\ Looks(q) /\ st.pos.side = "long"
  /\ Advance(q) /\ \E breach \in BOOLEAN : st' = HoldStep(q, sig, set, st, breach)
  /\ Move

TickHoldShort(q) ==
  /\ Looks(q) /\ st.pos.side = "short"
  /\ Advance(q) /\ \E breach \in BOOLEAN : st' = HoldStep(q, sig, set, st, breach)
  /\ Move

TickBarEnd == BarEnd /\ UNCHANGED skip

TickFinish == Finish /\ UNCHANGED skip

TickNext ==
  \/ TickBarSkip
  \/ \E s \in Signals : TickBarOpen(s)
  \/ \E q \in Quotes : TickJumped(q)
  \/ \E q \in Quotes :
        \/ TickPaused(q) \/ TickFlatLong(q) \/ TickFlatShort(q)
        \/ TickFlatIdle(q) \/ TickHoldLong(q) \/ TickHoldShort(q)
  \/ TickBarEnd
  \/ TickFinish
  \/ Done /\ UNCHANGED skip

TickSpec == TickInit /\ [][TickNext]_tickVars
==============================================================================
