----------------------------- MODULE StreamPump -----------------------------
(***************************************************************************)
(* One connection of the live stream (stream-pump.ts and its route in      *)
(* subscription-routes.ts): a timer and the socket's drain both start      *)
(* ticks, a tick reads a page of the journal and then writes it in one     *)
(* turn of the event loop, and the connection may close at any time.       *)
(*                                                                         *)
(* The journal holds what readOutbox's fence lets through (module Outbox). *)
(***************************************************************************)
EXTENDS Naturals, FiniteSets, SequencesExt

CONSTANTS
  Ticks,         \* the ticks that may be under way
  PageLimit,     \* entries a page scans, at most
  HighWater,     \* frames the socket holds before it asks to wait
  MaxLen         \* bound: journal entries

ASSUME PumpLimitAssumption == PageLimit \in Nat \ {0} /\ HighWater \in Nat \ {0}
ASSUME PumpBoundAssumption == MaxLen \in Nat

VARIABLES
  entries,       \* the journal: for each entry, whether the subscription's filter keeps it
  position,      \* the pump's place in the journal
  tick,          \* where each tick stands: its stage, the cursor it asked with and
                 \* the last entry of its page
  paused,        \* whether the pump waits for the socket's drain
  stopped,       \* whether the pump was stopped
  serving,       \* whether the route set up its timers and its close handler
  open,          \* whether the connection is open
  buffer,        \* frames the socket has not sent yet
  needDrain,     \* whether the socket asked to wait and has not drained since
  sent           \* history: the entries written, in order

socket == <<open, buffer, needDrain>>
pumpVars == <<entries, position, tick, paused, stopped, serving, socket, sent>>

Tick == [stage : {"idle", "asked", "answered"}, from : 0 .. MaxLen, mark : 0 .. MaxLen]

Idle == [stage |-> "idle", from |-> 0, mark |-> 0]

InFlight == {t \in Ticks : tick[t].stage # "idle"}

PumpTypeOK ==
  /\ entries \in Seq(BOOLEAN) /\ Len(entries) <= MaxLen
  /\ position \in 0 .. Len(entries)
  /\ tick \in [Ticks -> Tick]
  /\ paused \in BOOLEAN /\ stopped \in BOOLEAN /\ serving \in BOOLEAN
  /\ open \in BOOLEAN /\ needDrain \in BOOLEAN /\ buffer \in Nat
  /\ sent \in Seq(1 .. MaxLen)

\* The route's first tick is under way.
PumpInit ==
  /\ entries = <<>>
  /\ position = 0
  /\ \E t \in Ticks : tick = [u \in Ticks |-> IF u = t THEN [Idle EXCEPT !.stage = "asked"]
                                                       ELSE Idle]
  /\ paused = FALSE /\ stopped = FALSE /\ serving = FALSE
  /\ open = TRUE /\ buffer = 0 /\ needDrain = FALSE
  /\ sent = <<>>

-----------------------------------------------------------------------------
(* The pump.                                                               *)

\* Mutant of MayTick: ticks may overlap.
MayTickTwice == ~stopped

\* A tick does nothing while the pump is stopped or a tick is under way.  Who
\* starts one sees to it that the pump is not paused.
MayTick == ~stopped /\ InFlight = {}

Ask(t) ==
  /\ tick[t].stage = "idle"
  /\ MayTick
  /\ tick' = [tick EXCEPT ![t] = [stage |-> "asked", from |-> position, mark |-> 0]]

\* The poll timer.
Poll(t) ==
  /\ serving /\ ~stopped /\ ~paused
  /\ Ask(t)
  /\ UNCHANGED <<entries, position, paused, stopped, serving, socket, sent>>

\* The journal answers with the page after the cursor asked with.
Answer(t) ==
  /\ tick[t].stage = "asked"
  /\ \E mark \in tick[t].from .. Len(entries) :
       /\ mark = Len(entries) \/ mark = tick[t].from + PageLimit
       /\ mark <= tick[t].from + PageLimit
       /\ tick' = [tick EXCEPT ![t].stage = "answered", ![t].mark = mark]
  /\ UNCHANGED <<entries, position, paused, stopped, serving, socket, sent>>

\* A tick ends, and with the first one the route's wait to set itself up.
EndTick(t) ==
  /\ tick' = [tick EXCEPT ![t] = Idle]
  /\ serving' = TRUE

\* The read fails: the next tick asks with the same cursor.
ReadFails(t) ==
  /\ tick[t].stage = "asked"
  /\ EndTick(t)
  /\ UNCHANGED <<entries, position, paused, stopped, socket, sent>>

\* Whether a sequence has some entries, each once and in the journal's order.
Lists(s, some) == Range(s) = some /\ \A i, j \in DOMAIN s : i < j => s[i] < s[j]

\* Some entries in the journal's order.
InOrder(some) == CHOOSE s \in [1 .. Cardinality(some) -> some] : Lists(s, some)

\* The page's entries the filter keeps.
Items(t) == InOrder({i \in 1 .. tick[t].mark : i > tick[t].from /\ entries[i]})

\* The frames until the socket asks to wait, that one included; a closed one
\* always does.
Room == IF open /\ buffer < HighWater THEN HighWater - buffer ELSE 1

\* Mutant of Place: a page cut short counts as written.
PlaceAtMark(t) == tick[t].mark

\* Where the pump stands after a page: at the entry the socket asked to wait at,
\* or at the last entry scanned.
Place(t) == IF Len(Items(t)) < Room THEN tick[t].mark ELSE Items(t)[Room]

\* The page is written up to the frame at which the socket asks to wait.
WriteOut(t) ==
  LET full == Len(Items(t)) >= Room
      out == IF full THEN SubSeq(Items(t), 1, Room) ELSE Items(t)
  IN /\ position' = Place(t)
     /\ paused' = full
     /\ IF open THEN /\ buffer' = buffer + Len(out)
                     /\ needDrain' = (needDrain \/ full)
                     /\ sent' = sent \o out
                ELSE UNCHANGED <<buffer, needDrain, sent>>

\* A page answered is written, in one turn of the event loop, unless the pump was
\* stopped meanwhile.
WritePage(t) ==
  /\ tick[t].stage = "answered"
  /\ EndTick(t)
  /\ IF stopped THEN UNCHANGED <<position, paused, buffer, needDrain, sent>> ELSE WriteOut(t)
  /\ UNCHANGED <<entries, stopped, open>>

-----------------------------------------------------------------------------
(* The rest of the route, the socket and the journal.                      *)

\* Mutant of Heartbeat: the timer pings whatever the socket holds.
HeartbeatAnyway ==
  /\ serving /\ ~stopped
  /\ open
  /\ buffer' = buffer + 1
  /\ needDrain' = (buffer + 1 >= HighWater)
  /\ UNCHANGED <<entries, position, tick, paused, stopped, serving, open, sent>>

\* The heartbeat's timer stands down while the pump or the socket waits.
Heartbeat ==
  /\ serving /\ ~stopped /\ ~paused /\ ~needDrain
  /\ open
  /\ buffer' = buffer + 1
  /\ needDrain' = (buffer + 1 >= HighWater)
  /\ UNCHANGED <<entries, position, tick, paused, stopped, serving, open, sent>>

\* The socket sends a frame.
Send ==
  /\ open /\ buffer > 0
  /\ buffer' = buffer - 1
  /\ UNCHANGED <<entries, position, tick, paused, stopped, serving, open, needDrain, sent>>

\* Mutant of Drain: the listener does not resume the pump.
DrainUnheard ==
  /\ open /\ needDrain /\ buffer = 0
  /\ needDrain' = FALSE
  /\ UNCHANGED <<entries, position, tick, paused, stopped, serving, open, buffer, sent>>

\* The socket has drained.  A pump that waits for it goes on with a tick at once.
Drain ==
  /\ open /\ needDrain /\ buffer = 0
  /\ needDrain' = FALSE
  /\ paused' = FALSE
  /\ IF paused /\ MayTick THEN \E t \in Ticks : Ask(t) ELSE UNCHANGED tick
  /\ UNCHANGED <<entries, position, stopped, serving, open, buffer, sent>>

\* The connection closes, and the handler stops the pump if it is there yet.
Close ==
  /\ open
  /\ open' = FALSE
  /\ stopped' = serving
  /\ UNCHANGED <<entries, position, tick, paused, serving, buffer, needDrain, sent>>

Publish(kept) ==
  /\ Len(entries) < MaxLen
  /\ entries' = Append(entries, kept)
  /\ UNCHANGED <<position, tick, paused, stopped, serving, socket, sent>>

-----------------------------------------------------------------------------
PumpNext ==
  \/ \E t \in Ticks : Poll(t) \/ Answer(t) \/ ReadFails(t) \/ WritePage(t)
  \/ Heartbeat \/ Send \/ Drain \/ Close
  \/ \E kept \in BOOLEAN : Publish(kept)

PumpSpec == PumpInit /\ [][PumpNext]_pumpVars

\* The timer fires, a read does not fail for ever, a page answered is written, and
\* the peer takes what the socket holds.
PumpFairness ==
  /\ WF_pumpVars(\E t \in Ticks : Poll(t))
  /\ SF_pumpVars(\E t \in Ticks : Answer(t))
  /\ WF_pumpVars(\E t \in Ticks : Answer(t) \/ ReadFails(t) \/ WritePage(t))
  /\ WF_pumpVars(Send) /\ WF_pumpVars(Drain)

PumpFairSpec == PumpSpec /\ PumpFairness

-----------------------------------------------------------------------------
(* Properties.                                                             *)

\* While the connection is open, what was written is every entry the filter keeps
\* up to the pump's place, once each and in order, whatever ticks the timer and
\* the drain start, and wherever the socket cut a page short.
WrittenOnce ==
  open => Lists(sent, {i \in 1 .. position : entries[i]})

\* A peer that does not read makes the process hold no more than the socket's
\* mark and one frame: the pump's, on top of a heartbeat that filled the socket.
Backpressure == buffer <= HighWater + 1

\* A peer that stays and reads is brought every entry its filter keeps, also past
\* pages the filter drops and pauses.
Caught == \A i \in 1 .. Len(entries) : entries[i] => i \in Range(sent)
CatchesUp == <>[]open => []<>Caught

\* A connection implements the feed, as the pulls of a peer do: an entry written is
\* received, and what the pump passed was written, if the filter keeps it.  Nothing
\* is owed to a connection that closed.
At(i) == [txid |-> 0, seq |-> i]
OwedRows == IF open THEN {At(i) : i \in {j \in 1 .. Len(entries) : entries[j]}} ELSE {}
SentRows == {At(i) : i \in Range(sent)}
Streamed == INSTANCE Feed WITH log <- OwedRows, mark <- At(position), seen <- SentRows
PumpFeed == Streamed!Spec
=============================================================================
