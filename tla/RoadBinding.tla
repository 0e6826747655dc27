----------------------------- MODULE RoadBinding -----------------------------
(***************************************************************************)
(* The binding of road situations to the segment spine (bind-records.ts):  *)
(* a write of a situation queues its binding, and passes of the binder     *)
(* place it.  The drain of the queue (scheduler.ts) is one pass at a time; *)
(* beside it run the passes of polls, of a boot and of the weekly rebuild  *)
(* of the spine (segment-rebuild.ts, graph-state.ts, rebind.ts).           *)
(*                                                                         *)
(* A pass reads the graph's state, the situations and their bindings, each *)
(* by a statement of its own, resolves each target over the spine's tables *)
(* and writes it behind a fence.  Only then it settles the queue.          *)
(***************************************************************************)
EXTENDS Naturals, FiniteSets

CONSTANTS
  Records,       \* the road situations
  Drain,         \* the passes of the queue's drain
  Others,        \* the passes of polls, of a boot and of a rebuild
  NoTarget,      \* no target
  DrainLimit,    \* situations a drain reads, at most
  MaxRevision,   \* bound: revisions of a situation
  MaxSpine       \* bound: changes of the spine

ASSUME PassesAssumption == Drain \notin Others /\ NoTarget \notin Records
ASSUME LimitAssumption == DrainLimit \in Nat \ {0}
ASSUME RevisionAssumption == MaxRevision \in Nat /\ MaxSpine \in Nat

VARIABLES
  situation,     \* each situation's revision, 0 before its first, and whether it is live
  work,          \* the binding queue: the revision queued for, 0 for none, and whether it is due
  binding,       \* each situation's binding, of revision 0 for none
  graph,         \* the road graph's state: its generation and whether it is ready
  spine,         \* the state the spine's tables are in
  rebuild,       \* how far the rebuild of the spine is
  pass,          \* where each pass stands
  again,         \* a drain was asked for while one runs
  stopped,       \* no drain starts any more
  overtaken,     \* history: situations queued anew, or retired by a rebuild's last stage,
                 \* after a pass that had yet to settle was done with them, or so retired
                 \* without being queued
  unserved,      \* history: due work a drain was asked for and none has read since
  fellShort      \* history: the last read of the queue left due work behind a full page,
                 \* or failed, and no drain was asked for since

bindingVars == <<situation, work, binding, graph, spine, rebuild, pass, again, stopped,
                 overtaken, unserved, fellShort>>
requests == <<unserved, fellShort>>

Pass == Others \cup {Drain}
Revision == 0 .. MaxRevision

Situation == [revision : Revision, live : BOOLEAN]
Work == [revision : Revision, due : BOOLEAN]

\* A binding names the revision and the generation it is for.  "of" is the state of
\* the spine it was resolved on.
Binding == [revision : Revision, generation : 0 .. MaxSpine, of : 0 .. MaxSpine,
            status : {"placed", "unresolved", "obsolete"}]

\* A pass: the situations handed to it, the generation it found ready, the live
\* situations it read with their revisions, those left to bind, those whose write
\* failed and those with a resolver error, and the target in hand with the state of
\* the spine it was resolved on.
PassState ==
  [stage : {"idle", "asked", "given", "opened", "looked", "binding", "resolved", "fenced"},
   ids : SUBSET Records, generation : 0 .. MaxSpine, seen : [Records -> Revision],
   todo : SUBSET Records, unfinished : SUBSET Records, retry : SUBSET Records,
   target : Records \cup {NoTarget}, of : 0 .. MaxSpine]

AtEase == [stage |-> "idle", ids |-> {}, generation |-> 0, seen |-> [r \in Records |-> 0],
           todo |-> {}, unfinished |-> {}, retry |-> {}, target |-> NoTarget, of |-> 0]

Unbound == [revision |-> 0, generation |-> 0, of |-> 0, status |-> "obsolete"]

BindingTypeOK ==
  /\ situation \in [Records -> Situation] /\ work \in [Records -> Work]
  /\ binding \in [Records -> Binding]
  /\ graph \in [generation : 0 .. MaxSpine, ready : BOOLEAN]
  /\ spine \in 0 .. MaxSpine /\ rebuild \in {"none", "begun", "changed", "activated"}
  /\ pass \in [Pass -> PassState] /\ again \in BOOLEAN /\ stopped \in BOOLEAN
  /\ overtaken \subseteq Records /\ unserved \subseteq Records /\ fellShort \in BOOLEAN

\* An instance without a graph: nothing is bound before the first rebuild.
BindingInit ==
  /\ situation = [r \in Records |-> [revision |-> 0, live |-> FALSE]]
  /\ work = [r \in Records |-> [revision |-> 0, due |-> TRUE]]
  /\ binding = [r \in Records |-> Unbound]
  /\ graph = [generation |-> 0, ready |-> FALSE]
  /\ spine = 0 /\ rebuild = "none"
  /\ pass = [p \in Pass |-> AtEase]
  /\ again = FALSE /\ stopped = FALSE
  /\ overtaken = {} /\ unserved = {} /\ fellShort = FALSE

Queued(r) == work[r].revision # 0
DueWork == {r \in Records : Queued(r) /\ work[r].due}

\* The situations whose revision a pass reads no more, though it has yet to settle.
Dealt(p) ==
  CASE pass[p].stage = "looked" -> pass[p].ids
    [] pass[p].stage \in {"binding", "resolved"} ->
         pass[p].ids \ (pass[p].todo \cup pass[p].unfinished)
    [] pass[p].stage = "fenced" ->
         pass[p].ids \ ((pass[p].todo \ {pass[p].target}) \cup pass[p].unfinished)
    [] OTHER -> {}

\* The work of situations rs is queued anew, at once due.
Enqueue(rs, revisionOf) ==
  /\ work' = [r \in Records |-> IF r \in rs THEN [revision |-> revisionOf[r], due |-> TRUE]
                                ELSE work[r]]
  /\ overtaken' = (overtaken \ rs) \cup {r \in rs : \E p \in Pass : r \in Dealt(p)}

-----------------------------------------------------------------------------
(* The writers of situations, and the rebuild of the spine.                *)

\* A write revises, tombstones or reopens a situation and queues its binding.  A
\* binder that fenced the situation holds its row.
Publish(r, live) ==
  LET n == situation[r].revision + 1 IN
    /\ n <= MaxRevision /\ (live \/ situation[r].live)
    /\ \A p \in Pass : pass[p].stage = "fenced" => pass[p].target # r
    /\ situation' = [situation EXCEPT ![r] = [revision |-> n, live |-> live]]
    /\ Enqueue({r}, [s \in {r} |-> n])
    /\ UNCHANGED <<binding, graph, spine, rebuild, pass, again, stopped, requests>>

Live == {r \in Records : situation[r].live}
RevisionOf == [r \in Records |-> situation[r].revision]
Retired(rs) == [r \in Records |-> IF r \in rs THEN [binding[r] EXCEPT !.status = "obsolete"]
                                  ELSE binding[r]]

\* Mutant of BeginRebuild: the graph stays ready while it changes.
BeginRebuildReady ==
  /\ rebuild = "none"
  /\ binding' = Retired(Records)
  /\ Enqueue(Live, RevisionOf)
  /\ rebuild' = "begun"
  /\ UNCHANGED <<situation, graph, spine, pass, again, stopped, requests>>

\* Before a table of the graph changes, every binding becomes obsolete.
BeginRebuild ==
  /\ rebuild = "none"
  /\ graph' = [graph EXCEPT !.ready = FALSE]
  /\ binding' = Retired(Records)
  /\ Enqueue(Live, RevisionOf)
  /\ rebuild' = "begun"
  /\ UNCHANGED <<situation, spine, pass, again, stopped, requests>>

\* The import and the build of a region.
ChangeSpine ==
  /\ rebuild \in {"begun", "changed"} /\ spine < MaxSpine
  /\ spine' = spine + 1
  /\ rebuild' = "changed"
  /\ UNCHANGED <<situation, work, binding, graph, pass, again, stopped, overtaken, requests>>

\* A stage failed: the graph stays as it is, without being ready.
RebuildFails ==
  /\ rebuild # "none"
  /\ rebuild' = "none"
  /\ UNCHANGED <<situation, work, binding, graph, spine, pass, again, stopped, overtaken, requests>>

\* The graph is ready under a new generation, here named for the spine's state.
Activate ==
  /\ rebuild = "changed"
  /\ graph' = [generation |-> spine, ready |-> TRUE]
  /\ binding' = Retired({r \in Records : binding[r].generation # spine})
  /\ Enqueue(Live, RevisionOf)
  /\ rebuild' = "activated"
  /\ UNCHANGED <<situation, spine, pass, again, stopped, requests>>

-----------------------------------------------------------------------------
(* The drain, and the passes beside it.                                    *)

\* A poll asks for a drain: now, or once more after the one under way.
Request ==
  /\ ~stopped
  /\ IF pass[Drain].stage = "idle"
       THEN pass' = [pass EXCEPT ![Drain].stage = "asked"] /\ UNCHANGED again
       ELSE again' = TRUE /\ UNCHANGED pass
  /\ unserved' = unserved \cup DueWork
  /\ fellShort' = FALSE
  /\ UNCHANGED <<situation, work, binding, graph, spine, rebuild, stopped, overtaken>>

StopDrain ==
  /\ ~stopped /\ stopped' = TRUE
  /\ UNCHANGED <<situation, work, binding, graph, spine, rebuild, pass, again, overtaken, requests>>

\* Mutant of Over: what was asked for while the drain ran is forgotten.
OverForgetting(p) ==
  pass' = [pass EXCEPT ![p] = AtEase] /\ again' = FALSE

\* A pass is over.  The drain runs once more when it was asked to.
Over(p) ==
  IF p = Drain /\ again /\ ~stopped
    THEN pass' = [pass EXCEPT ![p] = [AtEase EXCEPT !.stage = "asked"]] /\ again' = FALSE
    ELSE pass' = [pass EXCEPT ![p] = AtEase] /\ UNCHANGED again

\* The drain reads the work that is due, as much of it as a page takes: what has been
\* due longest, here any of it.
ReadQueue ==
  /\ pass[Drain].stage = "asked"
  /\ \E ids \in SUBSET DueWork :
       /\ Cardinality(ids) <= DrainLimit
       /\ ids = DueWork \/ Cardinality(ids) = DrainLimit
       /\ pass' = [pass EXCEPT ![Drain].stage = "given", ![Drain].ids = ids]
       /\ unserved' = unserved \ ids
       /\ fellShort' = (ids # DueWork)
  /\ UNCHANGED <<situation, work, binding, graph, spine, rebuild, again, stopped, overtaken>>

\* A poll binds a situation it changed.
BindChanged(p, r) ==
  /\ p \in Others /\ pass[p].stage = "idle" /\ situation[r].revision > 0
  /\ pass' = [pass EXCEPT ![p].stage = "given", ![p].ids = {r}]
  /\ UNCHANGED <<situation, work, binding, graph, spine, rebuild, again, stopped, overtaken, requests>>

\* The situations a boot or a rebuild hands to the binder: live, or still bound.
Rebindable == {r \in Records : situation[r].live \/ binding[r].revision # 0}

\* The last stage of a rebuild binds everything, changed or not.
RebindAll(p) ==
  /\ p \in Others /\ pass[p].stage = "idle" /\ rebuild = "activated"
  /\ rebuild' = "none"
  /\ binding' = Retired(Records)
  /\ pass' = [pass EXCEPT ![p].stage = "given", ![p].ids = Rebindable]
  /\ overtaken' = overtaken \cup {r \in Live : ~Queued(r) \/ \E q \in Pass : r \in Dealt(q)}
  /\ UNCHANGED <<situation, work, graph, spine, again, stopped, requests>>

\* The process dies, or is stopped, and boots: its first pass binds what changed.
Restart(p) ==
  /\ p \in Others
  /\ pass' = [q \in Pass |-> IF q = p THEN [AtEase EXCEPT !.stage = "given",
                                                         !.ids = Rebindable]
                             ELSE AtEase]
  /\ again' = FALSE /\ stopped' = FALSE /\ rebuild' = "none"
  /\ unserved' = {} /\ fellShort' = FALSE
  /\ UNCHANGED <<situation, work, binding, graph, spine, overtaken>>

-----------------------------------------------------------------------------
(* The steps of a pass.                                                    *)

\* With nothing to bind, or without a ready graph, a pass ends, and the work waits.
Open(p) ==
  /\ pass[p].stage = "given"
  /\ IF pass[p].ids # {} /\ graph.ready
       THEN /\ pass' = [pass EXCEPT ![p].stage = "opened", ![p].generation = graph.generation]
            /\ UNCHANGED again
       ELSE Over(p)
  /\ UNCHANGED <<situation, work, binding, graph, spine, rebuild, stopped, overtaken, requests>>

\* The situations of the pass that are live.
Look(p) ==
  /\ pass[p].stage = "opened"
  /\ pass' = [pass EXCEPT ![p].stage = "looked",
                          ![p].seen = [r \in Records |-> IF r \in Live \cap pass[p].ids
                                                         THEN situation[r].revision ELSE 0],
                          ![p].todo = Live \cap pass[p].ids]
  /\ UNCHANGED <<situation, work, binding, graph, spine, rebuild, again, stopped, overtaken, requests>>

\* A binding that still answers: of the revision read and of the pass's generation.
Unchanged(p, r) ==
  /\ binding[r].revision = pass[p].seen[r] /\ binding[r].generation = pass[p].generation
  /\ binding[r].status # "obsolete"

\* The bindings as they stand: those of situations not live are dropped, and the
\* situations whose binding still answers need none.
Compare(p) ==
  /\ pass[p].stage = "looked"
  /\ binding' = [r \in Records |-> IF r \in pass[p].ids \ pass[p].todo THEN Unbound ELSE binding[r]]
  /\ pass' = [pass EXCEPT ![p].stage = "binding", ![p].todo = {r \in @ : ~Unchanged(p, r)}]
  /\ UNCHANGED <<situation, work, graph, spine, rebuild, again, stopped, overtaken, requests>>

\* A target is resolved over the spine, or the resolver fails.
Resolve(p, r, error) ==
  /\ pass[p].stage = "binding" /\ r \in pass[p].todo
  /\ pass' = [pass EXCEPT ![p].stage = "resolved", ![p].target = r, ![p].of = spine,
                          ![p].retry = IF error THEN @ \cup {r} ELSE @]
  /\ UNCHANGED <<situation, work, binding, graph, spine, rebuild, again, stopped, overtaken, requests>>

\* The target in hand is done with, or its write failed.
DoneWith(p, failed) ==
  pass' = [pass EXCEPT ![p].stage = "binding", ![p].target = NoTarget, ![p].of = 0,
                       ![p].todo = @ \ {pass[p].target},
                       ![p].unfinished = IF failed THEN @ \cup {pass[p].target} ELSE @]

\* What the pass found still stands: the situation's revision and the graph.
Stands(p, r) ==
  /\ situation[r].live /\ situation[r].revision = pass[p].seen[r]
  /\ graph = [generation |-> pass[p].generation, ready |-> TRUE]

\* The fence, with the situation's row locked; the graph's row is only read.
Fence(p) ==
  LET r == pass[p].target IN
    /\ pass[p].stage = "resolved"
    /\ \A q \in Pass \ {p} : pass[q].stage = "fenced" => pass[q].target # r
    /\ IF Stands(p, r) THEN pass' = [pass EXCEPT ![p].stage = "fenced"]
                       ELSE DoneWith(p, TRUE)
    /\ UNCHANGED <<situation, work, binding, graph, spine, rebuild, again, stopped, overtaken, requests>>

WriteBinding(p) ==
  LET r == pass[p].target IN
    /\ pass[p].stage = "fenced"
    /\ binding' = [binding EXCEPT ![r] =
                     [revision |-> pass[p].seen[r], generation |-> pass[p].generation,
                      of |-> pass[p].of,
                      status |-> IF r \in pass[p].retry THEN "unresolved" ELSE "placed"]]
    /\ DoneWith(p, FALSE)
    /\ UNCHANGED <<situation, work, graph, spine, rebuild, again, stopped, overtaken, requests>>

WriteFails(p) ==
  /\ pass[p].stage = "fenced"
  /\ DoneWith(p, TRUE)
  /\ UNCHANGED <<situation, work, binding, graph, spine, rebuild, again, stopped, overtaken, requests>>

\* Mutant of Acknowledged: the work of a failed write is acknowledged too.
AcknowledgedAll(p) == {r \in pass[p].ids \ pass[p].retry : work[r].revision <= situation[r].revision}

\* The work a pass acknowledges: up to the revision now stored.
Acknowledged(p) ==
  {r \in pass[p].ids \ (pass[p].retry \cup pass[p].unfinished) :
     work[r].revision <= situation[r].revision}

\* The queue is settled: what had a resolver error waits for its next attempt.
Settle(p) ==
  /\ pass[p].stage = "binding" /\ pass[p].todo = {}
  /\ work' = [r \in Records |->
                IF r \in Acknowledged(p) THEN [revision |-> 0, due |-> TRUE]
                ELSE IF r \in pass[p].retry /\ Queued(r) THEN [work[r] EXCEPT !.due = FALSE]
                ELSE work[r]]
  /\ unserved' = unserved \ {r \in Records : r \in Acknowledged(p) \cup pass[p].retry}
  /\ Over(p)
  /\ UNCHANGED <<situation, binding, graph, spine, rebuild, stopped, overtaken, fellShort>>

\* A statement fails, and the pass with it.
PassFails(p) ==
  /\ pass[p].stage \notin {"idle", "fenced"}
  /\ Over(p)
  /\ fellShort' = (fellShort \/ (p = Drain /\ pass[p].stage = "asked"))
  /\ UNCHANGED <<situation, work, binding, graph, spine, rebuild, stopped, overtaken, unserved>>

\* The next attempt falls due.
FallDue(r) ==
  /\ ~work[r].due
  /\ work' = [work EXCEPT ![r].due = TRUE]
  /\ UNCHANGED <<situation, binding, graph, spine, rebuild, pass, again, stopped, overtaken, requests>>

-----------------------------------------------------------------------------
BindingNext ==
  \/ \E r \in Records :
       \/ \E live \in BOOLEAN : Publish(r, live)
       \/ FallDue(r)
       \/ \E p \in Pass : BindChanged(p, r) \/ \E error \in BOOLEAN : Resolve(p, r, error)
  \/ BeginRebuild \/ ChangeSpine \/ RebuildFails \/ Activate
  \/ Request \/ StopDrain \/ ReadQueue
  \/ \E p \in Pass :
       \/ RebindAll(p) \/ Restart(p)
       \/ Open(p) \/ Look(p) \/ Compare(p) \/ Fence(p) \/ WriteBinding(p) \/ WriteFails(p)
       \/ Settle(p) \/ PassFails(p)

BindingSpec == BindingInit /\ [][BindingNext]_bindingVars

-----------------------------------------------------------------------------
(* Properties.                                                             *)

\* The bindings routing reads: of live situations, of the graph in force.
Served ==
  {r \in Live : /\ graph.ready /\ binding[r].generation = graph.generation
                /\ binding[r].status = "placed"}

\* A served binding was resolved on the graph it is served with, although a pass
\* reads the spine's tables while a rebuild changes them and writes what it resolved
\* after the graph's row was read (bind-records.ts, writeResult; graph-state.ts).
ServedIsOfItsGraph == \A r \in Served : binding[r].of = graph.generation

\* The binding of a situation answers for its revision and the graph.
Answered(r) ==
  /\ binding[r].revision = situation[r].revision /\ binding[r].generation = graph.generation
  /\ binding[r].status # "obsolete"

\* The work of a live situation is queued until its binding answers, whatever passes
\* run at once, fail or die: only work queued anew while a pass that was done with
\* the situation had yet to settle may be gone (bind-records.ts, settleQueue).
WorkIsKept == \A r \in Live \ overtaken : Queued(r) \/ Answered(r)

\* The same without the exception, as the queue's documentation has it: the work of
\* a newer revision is not acknowledged by a delayed worker.
NewerWorkStays == \A r \in Live : Queued(r) \/ Answered(r)

\* Work that was due when a drain was asked for is read by a drain, whatever the drain
\* under way comes to, unless drains were stopped, or one that came after the request
\* read a full page or failed to read (scheduler.ts, createBindingDrain).
RequestsServed ==
  unserved # {} /\ ~stopped => again \/ pass[Drain].stage = "asked" \/ fellShort
=============================================================================
