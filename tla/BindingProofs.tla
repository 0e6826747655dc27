---------------------------- MODULE BindingProofs ----------------------------
(***************************************************************************)
(* What holds of RoadBinding for any number of situations and of passes at  *)
(* once: its types, that a served binding is of the graph in force, that    *)
(* work is kept and that requests for a drain are served.                  *)
(***************************************************************************)
EXTENDS RoadBinding, TLAPS

USE PassesAssumption, RevisionAssumption
USE DEF requests

-----------------------------------------------------------------------------
(* Types.                                                                  *)

\* A pass that resolved a target holds one of those left to it, and what it failed
\* to write is not left to it.
HandFull(s) ==
  /\ s.todo \subseteq s.ids /\ s.todo \cap s.unfinished = {}
  /\ s.stage \in {"resolved", "fenced"} => s.target \in s.todo
  /\ s.stage \in {"idle", "asked", "given", "opened"} => s.todo = {} /\ s.unfinished = {}
  /\ s.stage = "looked" => s.unfinished = {}

Typed == BindingTypeOK /\ \A p \in Pass : HandFull(pass[p])

LEMMA AtEaseTyped == AtEase \in PassState /\ HandFull(AtEase)
  BY DEF AtEase, PassState, Revision, HandFull

LEMMA EnqueueTyped ==
  ASSUME BindingTypeOK, NEW rs \in SUBSET Records, NEW revisionOf, Enqueue(rs, revisionOf),
         \A r \in rs : revisionOf[r] \in Revision
  PROVE  work' \in [Records -> Work] /\ overtaken' \subseteq Records
  BY DEF Enqueue, BindingTypeOK, Work

LEMMA RetiredTyped ==
  ASSUME BindingTypeOK, NEW rs
  PROVE  Retired(rs) \in [Records -> Binding]
  BY DEF Retired, BindingTypeOK, Binding

\* A pass moves on, and the others stay as they are.
LEMMA MoveTyped ==
  ASSUME Typed, NEW p \in Pass, NEW s \in PassState, HandFull(s), pass' = [pass EXCEPT ![p] = s]
  PROVE  pass' \in [Pass -> PassState] /\ \A q \in Pass : HandFull(pass'[q])
  BY DEF Typed, BindingTypeOK

LEMMA OverTyped ==
  ASSUME Typed, NEW p \in Pass, Over(p)
  PROVE  /\ pass' \in [Pass -> PassState] /\ again' \in BOOLEAN
         /\ \A q \in Pass : HandFull(pass'[q])
  <1>1. /\ [AtEase EXCEPT !.stage = "asked"] \in PassState
        /\ HandFull([AtEase EXCEPT !.stage = "asked"])
    BY AtEaseTyped DEF PassState, HandFull, AtEase
  <1> DEFINE once == [AtEase EXCEPT !.stage = "asked"]
  <1>2. CASE p = Drain /\ again /\ ~stopped
    <2>1. pass' = [pass EXCEPT ![p] = once] /\ again' = FALSE
      BY <1>2 DEF Over
    <2>2. once \in PassState /\ HandFull(once)
      BY <1>1
    <2> HIDE DEF once
    <2> QED
      BY <2>1, <2>2, MoveTyped
  <1>3. CASE ~(p = Drain /\ again /\ ~stopped)
    <2>1. pass' = [pass EXCEPT ![p] = AtEase] /\ again' = again
      BY <1>3 DEF Over
    <2> QED
      BY <2>1, AtEaseTyped, MoveTyped DEF Typed, BindingTypeOK
  <1> QED
    BY <1>2, <1>3

LEMMA DoneTyped ==
  ASSUME Typed, NEW p \in Pass, NEW failed \in BOOLEAN, DoneWith(p, failed),
         pass[p].stage \in {"resolved", "fenced"}
  PROVE  pass' \in [Pass -> PassState] /\ \A q \in Pass : HandFull(pass'[q])
  <1>1. pass[p] \in PassState /\ HandFull(pass[p]) /\ pass[p].target \in Records
    BY DEF Typed, BindingTypeOK, HandFull, PassState
  <1> DEFINE left == IF failed THEN pass[p].unfinished \cup {pass[p].target}
                              ELSE pass[p].unfinished
             s == [pass[p] EXCEPT !.stage = "binding", !.target = NoTarget, !.of = 0,
                       !.todo = pass[p].todo \ {pass[p].target}, !.unfinished = left]
  <1>2. s \in PassState
    <2>1. left \in SUBSET Records /\ pass[p].todo \ {pass[p].target} \in SUBSET Records
      BY <1>1 DEF PassState
    <2> DEFINE a == [pass[p] EXCEPT !.stage = "binding"]
               b == [a EXCEPT !.target = NoTarget]
               c == [b EXCEPT !.of = 0]
               d == [c EXCEPT !.todo = pass[p].todo \ {pass[p].target}]
    <2>7. s = [d EXCEPT !.unfinished = left]
      BY <1>1 DEF PassState
    <2> HIDE DEF left, a, b, c, d
    <2>2. a \in PassState
      BY <1>1 DEF PassState, a
    <2>3. b \in PassState
      BY <2>2 DEF PassState, b
    <2>4. c \in PassState
      BY <2>3 DEF PassState, c
    <2>5. d \in PassState
      BY <1>1, <2>4 DEF PassState, d
    <2>6. [d EXCEPT !.unfinished = left] \in PassState
      BY <2>1, <2>5 DEF PassState
    <2> QED
      BY <2>6, <2>7
  <1>3. HandFull(s)
    BY <1>1 DEF PassState, HandFull
  <1>4. pass' = [pass EXCEPT ![p] = s]
    BY DEF DoneWith
  <1> QED
    BY <1>2, <1>3, <1>4, MoveTyped

LEMMA InitTyped == BindingInit => Typed
  <1> SUFFICES ASSUME BindingInit PROVE Typed
    OBVIOUS
  <1>1. situation \in [Records -> Situation] /\ work \in [Records -> Work]
    BY DEF BindingInit, Situation, Work, Revision
  <1>2. binding \in [Records -> Binding] /\ graph \in [generation : 0 .. MaxSpine, ready : BOOLEAN]
    BY DEF BindingInit, Binding, Unbound, Revision
  <1>3. pass \in [Pass -> PassState] /\ \A p \in Pass : HandFull(pass[p])
    BY AtEaseTyped DEF BindingInit
  <1> QED
    BY <1>1, <1>2, <1>3 DEF BindingInit, Typed, BindingTypeOK

\* The steps beside the passes.
LEMMA WorldTyped ==
  ASSUME Typed
  PROVE  /\ \A r \in Records, live \in BOOLEAN : Publish(r, live) => Typed'
         /\ BeginRebuild \/ ChangeSpine \/ RebuildFails \/ Activate => Typed'
         /\ Request \/ StopDrain \/ ReadQueue => Typed'
         /\ \A r \in Records : FallDue(r) => Typed'
  <1>1. ASSUME NEW r \in Records, NEW live \in BOOLEAN, Publish(r, live) PROVE Typed'
    <2> DEFINE n == situation[r].revision + 1
    <2>1. situation[r] \in Situation /\ n \in Revision
      BY <1>1 DEF Typed, BindingTypeOK, Publish, Situation, Revision
    <2>2. situation' \in [Records -> Situation]
      BY <1>1, <2>1 DEF Typed, BindingTypeOK, Publish, Situation
    <2>3. Enqueue({r}, [s \in {r} |-> n])
      BY <1>1 DEF Publish
    <2>4. work' \in [Records -> Work] /\ overtaken' \subseteq Records
      BY <2>1, <2>3, EnqueueTyped DEF Typed
    <2> QED
      BY <1>1, <2>2, <2>4 DEF Typed, BindingTypeOK, Publish
  <1>2. /\ \A r \in Live : RevisionOf[r] \in Revision
        /\ Live \subseteq Records
    BY DEF Typed, BindingTypeOK, Live, RevisionOf, Situation
  <1>3. ASSUME BeginRebuild PROVE Typed'
    <2>1. work' \in [Records -> Work] /\ overtaken' \subseteq Records
      BY <1>2, <1>3, EnqueueTyped DEF Typed, BeginRebuild
    <2> QED
      BY <1>3, <2>1, RetiredTyped DEF Typed, BindingTypeOK, BeginRebuild
  <1>4. ASSUME Activate PROVE Typed'
    <2>1. work' \in [Records -> Work] /\ overtaken' \subseteq Records
      BY <1>2, <1>4, EnqueueTyped DEF Typed, Activate
    <2> QED
      BY <1>4, <2>1, RetiredTyped DEF Typed, BindingTypeOK, Activate
  <1>5. ASSUME ChangeSpine PROVE Typed'
    BY <1>5 DEF Typed, BindingTypeOK, ChangeSpine
  <1>6. ASSUME RebuildFails \/ StopDrain PROVE Typed'
    BY <1>6 DEF Typed, BindingTypeOK, RebuildFails, StopDrain
  <1> DEFINE d == pass[Drain]
  <1>d. Drain \in Pass /\ d \in PassState /\ HandFull(d) /\ DueWork \subseteq Records
    BY DEF Typed, BindingTypeOK, Pass, DueWork
  <1>7. ASSUME Request PROVE Typed'
    <2>1. CASE d.stage = "idle"
      <3>0. [d EXCEPT !.stage = "asked"] \in PassState
        BY <1>d DEF PassState
      <3>1. HandFull([d EXCEPT !.stage = "asked"])
        BY <1>d, <2>1 DEF PassState, HandFull
      <3>2. pass' = [pass EXCEPT ![Drain] = [d EXCEPT !.stage = "asked"]]
        BY <1>7, <2>1 DEF Request
      <3> QED
        BY <1>7, <1>d, <2>1, <3>0, <3>1, <3>2, MoveTyped DEF Typed, BindingTypeOK, Request
    <2>2. CASE d.stage # "idle"
      BY <1>7, <1>d, <2>2 DEF Typed, BindingTypeOK, Request
    <2> QED
      BY <2>1, <2>2
  <1>9. ASSUME ReadQueue PROVE Typed'
    <2>1. PICK ids \in SUBSET DueWork :
            /\ pass' = [pass EXCEPT ![Drain].stage = "given", ![Drain].ids = ids]
            /\ unserved' = unserved \ ids /\ fellShort' \in BOOLEAN
      BY <1>9 DEF ReadQueue
    <2> DEFINE s == [d EXCEPT !.stage = "given", !.ids = ids]
    <2>2. s \in PassState
      BY <1>d DEF PassState
    <2>4. pass' = [pass EXCEPT ![Drain] = s]
      BY <2>1
    <2>3. HandFull(s)
      BY <1>9, <1>d DEF ReadQueue, HandFull, PassState
    <2> QED
      BY <1>9, <2>1, <2>2, <2>3, <2>4, <1>d, MoveTyped DEF Typed, BindingTypeOK, ReadQueue
  <1>8. ASSUME NEW r \in Records, FallDue(r) PROVE Typed'
    BY <1>8 DEF Typed, BindingTypeOK, FallDue, Work
  <1> QED
    BY <1>1, <1>3, <1>4, <1>5, <1>6, <1>7, <1>8, <1>9

-----------------------------------------------------------------------------

\* A pass begins.
LEMMA GivenTyped ==
  ASSUME NEW s \in PassState, HandFull(s), s.stage \in {"idle", "asked"},
         NEW ids \in SUBSET Records
  PROVE  /\ [s EXCEPT !.stage = "given", !.ids = ids] \in PassState
         /\ HandFull([s EXCEPT !.stage = "given", !.ids = ids])
  <1>1. [s EXCEPT !.stage = "given", !.ids = ids] \in PassState
    BY DEF PassState
  <1> QED
    BY <1>1 DEF PassState, HandFull

LEMMA BeginTyped ==
  ASSUME Typed, NEW p \in Pass
  PROVE  /\ \A r \in Records : BindChanged(p, r) => Typed'
         /\ RebindAll(p) \/ Restart(p) => Typed'
  <1>p. pass[p] \in PassState /\ HandFull(pass[p]) /\ Rebindable \subseteq Records
    BY DEF Typed, BindingTypeOK, Rebindable
  <1>1. ASSUME NEW r \in Records, BindChanged(p, r) PROVE Typed'
    <2> DEFINE s == [pass[p] EXCEPT !.stage = "given", !.ids = {r}]
    <2>1. s \in PassState /\ HandFull(s)
      BY <1>1, <1>p, GivenTyped DEF BindChanged
    <2>2. pass' = [pass EXCEPT ![p] = s]
      BY <1>1 DEF BindChanged
    <2> HIDE DEF s
    <2> QED
      BY <1>1, <2>1, <2>2, MoveTyped DEF Typed, BindingTypeOK, BindChanged
  <1>2. ASSUME RebindAll(p) PROVE Typed'
    <2> DEFINE s == [pass[p] EXCEPT !.stage = "given", !.ids = Rebindable]
    <2>1. s \in PassState /\ HandFull(s)
      BY <1>2, <1>p, GivenTyped DEF RebindAll
    <2>2. pass' = [pass EXCEPT ![p] = s]
      BY <1>2 DEF RebindAll
    <2>3. overtaken' \subseteq Records
      BY <1>2 DEF RebindAll, Typed, BindingTypeOK, Live
    <2> HIDE DEF s
    <2> QED
      BY <1>2, <2>1, <2>2, <2>3, MoveTyped, RetiredTyped DEF Typed, BindingTypeOK, RebindAll
  <1>3. ASSUME Restart(p) PROVE Typed'
    <2> DEFINE s == [AtEase EXCEPT !.stage = "given", !.ids = Rebindable]
    <2>1. s \in PassState /\ HandFull(s)
      BY <1>p, AtEaseTyped, GivenTyped DEF AtEase
    <2>2. pass' = [q \in Pass |-> IF q = p THEN s ELSE AtEase]
      BY <1>3 DEF Restart
    <2> HIDE DEF s
    <2>3. pass' \in [Pass -> PassState] /\ \A q \in Pass : HandFull(pass'[q])
      BY <2>1, <2>2, AtEaseTyped
    <2> QED
      BY <1>3, <2>3 DEF Typed, BindingTypeOK, Restart
  <1> QED
    BY <1>1, <1>2, <1>3

LEMMA ReadTyped ==
  ASSUME Typed, NEW p \in Pass
  PROVE  Open(p) \/ Look(p) \/ Compare(p) => Typed'
  <1>p. pass[p] \in PassState /\ HandFull(pass[p])
    BY DEF Typed, BindingTypeOK
  <1>1. ASSUME Open(p) PROVE Typed'
    <2> DEFINE s == [pass[p] EXCEPT !.stage = "opened", !.generation = graph.generation]
    <2>1. CASE pass[p].ids # {} /\ graph.ready
      <3>1. s \in PassState
        BY <1>p DEF PassState, Typed, BindingTypeOK
      <3>2. HandFull(s)
        BY <1>1, <1>p DEF Open, PassState, HandFull
      <3>3. pass' = [pass EXCEPT ![p] = s]
        BY <1>1, <2>1 DEF Open
      <3> HIDE DEF s
      <3> QED
        BY <1>1, <2>1, <3>1, <3>2, <3>3, MoveTyped DEF Typed, BindingTypeOK, Open
    <2>2. CASE ~(pass[p].ids # {} /\ graph.ready)
      BY <1>1, <2>2, OverTyped DEF Typed, BindingTypeOK, Open
    <2> QED
      BY <2>1, <2>2
  <1>2. ASSUME Look(p) PROVE Typed'
    <2> DEFINE read == [r \in Records |-> IF r \in Live \cap pass[p].ids
                                          THEN situation[r].revision ELSE 0]
               a == [pass[p] EXCEPT !.stage = "looked"]
               b == [a EXCEPT !.seen = read]
               s == [pass[p] EXCEPT !.stage = "looked", !.seen = read, !.todo = Live \cap pass[p].ids]
    <2>1. read \in [Records -> Revision]
      BY DEF Typed, BindingTypeOK, Situation, Revision
    <2>2. pass' = [pass EXCEPT ![p] = s]
      BY <1>2 DEF Look
    <2> HIDE DEF read
    <2>3. s = [b EXCEPT !.todo = Live \cap pass[p].ids]
      BY <1>p DEF PassState
    <2>4. HandFull(s)
      BY <1>2, <1>p DEF Look, PassState, HandFull
    <2> HIDE DEF a, b, s
    <2>5. a \in PassState
      BY <1>p DEF PassState, a
    <2>6. b \in PassState
      BY <2>1, <2>5 DEF PassState, b
    <2>7. s \in PassState
      BY <1>p, <2>3, <2>6 DEF PassState
    <2> QED
      BY <1>2, <2>2, <2>4, <2>7, MoveTyped DEF Typed, BindingTypeOK, Look
  <1>3. ASSUME Compare(p) PROVE Typed'
    <2> DEFINE left == {r \in pass[p].todo : ~Unchanged(p, r)}
               s == [pass[p] EXCEPT !.stage = "binding", !.todo = left]
    <2>1. left \subseteq pass[p].todo
      OBVIOUS
    <2>2. pass' = [pass EXCEPT ![p] = s]
      BY <1>3 DEF Compare
    <2> HIDE DEF left
    <2>3. s \in PassState
      BY <1>p, <2>1 DEF PassState
    <2>4. HandFull(s)
      BY <1>3, <1>p, <2>1 DEF Compare, PassState, HandFull
    <2>5. binding' \in [Records -> Binding]
      BY <1>3 DEF Compare, Typed, BindingTypeOK, Binding, Unbound, Revision
    <2> HIDE DEF s
    <2> QED
      BY <1>3, <2>2, <2>3, <2>4, <2>5, MoveTyped DEF Typed, BindingTypeOK, Compare
  <1> QED
    BY <1>1, <1>2, <1>3

LEMMA BindTyped ==
  ASSUME Typed, NEW p \in Pass
  PROVE  /\ \A r \in Records, error \in BOOLEAN : Resolve(p, r, error) => Typed'
         /\ Fence(p) \/ WriteBinding(p) \/ WriteFails(p) => Typed'
  <1>p. pass[p] \in PassState /\ HandFull(pass[p])
    BY DEF Typed, BindingTypeOK
  <1>1. ASSUME NEW r \in Records, NEW error \in BOOLEAN, Resolve(p, r, error) PROVE Typed'
    <2> DEFINE retried == IF error THEN pass[p].retry \cup {r} ELSE pass[p].retry
               a == [pass[p] EXCEPT !.stage = "resolved"]
               b == [a EXCEPT !.target = r]
               c == [b EXCEPT !.of = spine]
               s == [pass[p] EXCEPT !.stage = "resolved", !.target = r, !.of = spine,
                                    !.retry = retried]
    <2>1. retried \in SUBSET Records
      BY <1>p DEF PassState
    <2>2. pass' = [pass EXCEPT ![p] = s]
      BY <1>1 DEF Resolve
    <2> HIDE DEF retried
    <2>3. s = [c EXCEPT !.retry = retried]
      BY <1>p DEF PassState
    <2>4. HandFull(s)
      BY <1>1, <1>p DEF Resolve, PassState, HandFull
    <2> HIDE DEF a, b, c, s
    <2>5. a \in PassState
      BY <1>p DEF PassState, a
    <2>6. b \in PassState
      BY <2>5 DEF PassState, b
    <2>7. c \in PassState
      BY <2>6 DEF PassState, c, Typed, BindingTypeOK
    <2>8. s \in PassState
      BY <2>1, <2>3, <2>7 DEF PassState
    <2> QED
      BY <1>1, <2>2, <2>4, <2>8, MoveTyped DEF Typed, BindingTypeOK, Resolve
  <1>2. ASSUME Fence(p) PROVE Typed'
    <2> DEFINE s == [pass[p] EXCEPT !.stage = "fenced"]
    <2>1. CASE Stands(p, pass[p].target)
      <3>1. s \in PassState
        BY <1>p DEF PassState
      <3>2. HandFull(s)
        BY <1>2, <1>p DEF Fence, PassState, HandFull
      <3>3. pass' = [pass EXCEPT ![p] = s]
        BY <1>2, <2>1 DEF Fence
      <3> HIDE DEF s
      <3> QED
        BY <1>2, <3>1, <3>2, <3>3, MoveTyped DEF Typed, BindingTypeOK, Fence
    <2>2. CASE ~Stands(p, pass[p].target)
      <3>1. DoneWith(p, TRUE) /\ pass[p].stage \in {"resolved", "fenced"}
        BY <1>2, <2>2 DEF Fence
      <3> QED
        BY <1>2, <3>1, DoneTyped DEF Typed, BindingTypeOK, Fence
    <2> QED
      BY <2>1, <2>2
  <1>3. ASSUME WriteBinding(p) PROVE Typed'
    <2>1. DoneWith(p, FALSE) /\ pass[p].stage \in {"resolved", "fenced"}
      BY <1>3 DEF WriteBinding
    <2>2. binding' \in [Records -> Binding]
      BY <1>3, <1>p DEF WriteBinding, Typed, BindingTypeOK, Binding, PassState, HandFull
    <2> QED
      BY <1>3, <2>1, <2>2, DoneTyped DEF Typed, BindingTypeOK, WriteBinding
  <1>4. ASSUME WriteFails(p) PROVE Typed'
    <2>1. DoneWith(p, TRUE) /\ pass[p].stage \in {"resolved", "fenced"}
      BY <1>4 DEF WriteFails
    <2> QED
      BY <1>4, <2>1, DoneTyped DEF Typed, BindingTypeOK, WriteFails
  <1> QED
    BY <1>1, <1>2, <1>3, <1>4

LEMMA EndTyped ==
  ASSUME Typed, NEW p \in Pass
  PROVE  Settle(p) \/ PassFails(p) => Typed'
  <1>1. ASSUME Settle(p) PROVE Typed'
    <2>1. \A r \in Records : work[r] \in Work /\ [work[r] EXCEPT !.due = FALSE] \in Work
      <3>1. \A w \in Work : [w EXCEPT !.due = FALSE] \in Work
        BY DEF Work
      <3> QED
        BY <3>1 DEF Typed, BindingTypeOK
    <2>2. [revision |-> 0, due |-> TRUE] \in Work
      BY DEF Work, Revision
    <2>3. work' \in [Records -> Work]
      BY <1>1, <2>1, <2>2 DEF Settle
    <2> QED
      BY <1>1, <2>3, OverTyped DEF Typed, BindingTypeOK, Settle
  <1>2. ASSUME PassFails(p) PROVE Typed'
    BY <1>2, OverTyped DEF Typed, BindingTypeOK, PassFails
  <1> QED
    BY <1>1, <1>2

LEMMA StepTyped == Typed /\ [BindingNext]_bindingVars => Typed'
  <1> SUFFICES ASSUME Typed, [BindingNext]_bindingVars PROVE Typed'
    OBVIOUS
  <1>1. CASE UNCHANGED bindingVars
    BY <1>1 DEF bindingVars, Typed, BindingTypeOK
  <1>2. CASE BindingNext
    BY <1>2, WorldTyped, BeginTyped, ReadTyped, BindTyped, EndTyped DEF BindingNext
  <1> QED
    BY <1>1, <1>2

LEMMA AlwaysTyped == BindingSpec => []Typed
  BY InitTyped, StepTyped, PTL DEF BindingSpec

\* Every reachable state of the binder is of its type.
THEOREM TypeCorrect == BindingSpec => []BindingTypeOK
  <1>1. Typed => BindingTypeOK
    BY DEF Typed
  <1> QED
    BY <1>1, AlwaysTyped, PTL

-----------------------------------------------------------------------------
(* A served binding is of the graph in force.                              *)

\* A pass found a generation no newer than the spine, resolved on a state no older
\* than that, and was fenced only while both were the same.
OfSpine(s) ==
  /\ s.stage \in {"opened", "looked", "binding", "resolved", "fenced"} => s.generation <= spine
  /\ s.stage \in {"resolved", "fenced"} => s.generation <= s.of /\ s.of <= spine
  /\ s.stage = "fenced" => s.of = s.generation

OfItsGraph ==
  /\ graph.generation <= spine
  /\ graph.ready => graph.generation = spine
  /\ rebuild \in {"begun", "changed"} => ~graph.ready
  /\ \A p \in Pass : OfSpine(pass[p])
  /\ \A r \in Records : binding[r].of = binding[r].generation

LEMMA InitOfItsGraph == BindingInit => OfItsGraph
  BY DEF BindingInit, OfItsGraph, OfSpine, AtEase, Unbound

LEMMA MoveOfSpine ==
  ASSUME OfItsGraph, UNCHANGED spine, NEW p \in Pass, NEW s, OfSpine(s), Typed,
         pass' = [pass EXCEPT ![p] = s]
  PROVE  \A q \in Pass : OfSpine(pass[q])'
  BY DEF OfItsGraph, OfSpine, Typed, BindingTypeOK

LEMMA OverOfSpine ==
  ASSUME OfItsGraph, UNCHANGED spine, NEW p \in Pass, Over(p), Typed
  PROVE  \A q \in Pass : OfSpine(pass[q])'
  <1>1. OfSpine(AtEase) /\ OfSpine([AtEase EXCEPT !.stage = "asked"])
    BY DEF OfSpine, AtEase
  <1> QED
    BY <1>1, MoveOfSpine DEF Over

LEMMA DoneOfSpine ==
  ASSUME OfItsGraph, UNCHANGED spine, NEW p \in Pass, NEW failed, DoneWith(p, failed), Typed,
         pass[p].stage \in {"resolved", "fenced"}
  PROVE  \A q \in Pass : OfSpine(pass[q])'
  <1> DEFINE left == IF failed THEN pass[p].unfinished \cup {pass[p].target}
                              ELSE pass[p].unfinished
             s == [pass[p] EXCEPT !.stage = "binding", !.target = NoTarget, !.of = 0,
                       !.todo = pass[p].todo \ {pass[p].target}, !.unfinished = left]
  <1>1. OfSpine(pass[p]) /\ pass[p] \in PassState
    BY DEF OfItsGraph, Typed, BindingTypeOK
  <1>2. s.stage = "binding" /\ s.generation = pass[p].generation
    BY <1>1 DEF PassState
  <1>3. pass' = [pass EXCEPT ![p] = s]
    BY DEF DoneWith
  <1> HIDE DEF s
  <1>4. OfSpine(s)
    BY <1>1, <1>2 DEF OfSpine
  <1> QED
    BY <1>3, <1>4, MoveOfSpine

LEMMA RetiredOfItsGraph ==
  ASSUME Typed, OfItsGraph, NEW rs, binding' = Retired(rs)
  PROVE  \A r \in Records : binding'[r].of = binding'[r].generation
  BY DEF Typed, BindingTypeOK, OfItsGraph, Retired, Binding

\* The steps beside the passes.
LEMMA WorldOfItsGraph ==
  ASSUME Typed, OfItsGraph
  PROVE  /\ \A r \in Records, live \in BOOLEAN : Publish(r, live) => OfItsGraph'
         /\ BeginRebuild \/ ChangeSpine \/ RebuildFails \/ Activate => OfItsGraph'
         /\ Request \/ StopDrain \/ ReadQueue => OfItsGraph'
         /\ \A r \in Records : FallDue(r) => OfItsGraph'
  <1>1. ASSUME UNCHANGED <<spine, graph, pass, binding>>,
               UNCHANGED rebuild \/ rebuild' = "none"
        PROVE  OfItsGraph'
    BY <1>1 DEF OfItsGraph, OfSpine
  <1>2. ASSUME BeginRebuild PROVE OfItsGraph'
    BY <1>2, RetiredOfItsGraph DEF BeginRebuild, OfItsGraph, OfSpine, Typed, BindingTypeOK
  <1>3. ASSUME Activate PROVE OfItsGraph'
    BY <1>3, RetiredOfItsGraph DEF Activate, OfItsGraph, OfSpine, Typed, BindingTypeOK
  <1>4. ASSUME ChangeSpine PROVE OfItsGraph'
    <2>1. ASSUME NEW p \in Pass PROVE OfSpine(pass[p])'
      <3>1. pass[p] \in PassState /\ OfSpine(pass[p])
        BY DEF Typed, BindingTypeOK, OfItsGraph
      <3> QED
        BY <1>4, <3>1 DEF ChangeSpine, OfSpine, PassState, Typed, BindingTypeOK
    <2> QED
      BY <1>4, <2>1 DEF ChangeSpine, OfItsGraph, Typed, BindingTypeOK
  <1>5. \A r \in Records, live \in BOOLEAN : Publish(r, live) => OfItsGraph'
    BY <1>1 DEF Publish
  <1>6. RebuildFails \/ StopDrain => OfItsGraph'
    BY <1>1 DEF RebuildFails, StopDrain
  <1>7. \A r \in Records : FallDue(r) => OfItsGraph'
    BY <1>1 DEF FallDue
  <1>d. Drain \in Pass /\ pass[Drain] \in PassState
    BY DEF Pass, Typed, BindingTypeOK
  <1>8. ASSUME Request PROVE OfItsGraph'
    <2>1. CASE pass[Drain].stage = "idle"
      <3>1. OfSpine([pass[Drain] EXCEPT !.stage = "asked"])
        BY <1>d DEF OfSpine, PassState
      <3>2. \A q \in Pass : OfSpine(pass[q])'
        BY <1>8, <1>d, <2>1, <3>1, MoveOfSpine DEF Request
      <3> QED
        BY <1>8, <3>2 DEF Request, OfItsGraph
    <2>2. CASE pass[Drain].stage # "idle"
      BY <1>1, <1>8, <2>2 DEF Request
    <2> QED
      BY <2>1, <2>2
  <1>9. ASSUME ReadQueue PROVE OfItsGraph'
    <2>1. PICK ids \in SUBSET DueWork :
            pass' = [pass EXCEPT ![Drain].stage = "given", ![Drain].ids = ids]
      BY <1>9 DEF ReadQueue
    <2> DEFINE s == [pass[Drain] EXCEPT !.stage = "given", !.ids = ids]
    <2>3. OfSpine(s)
      BY <1>d DEF OfSpine, PassState
    <2>4. pass' = [pass EXCEPT ![Drain] = s]
      BY <2>1
    <2> HIDE DEF s
    <2>2. \A q \in Pass : OfSpine(pass[q])'
      BY <1>9, <1>d, <2>3, <2>4, MoveOfSpine DEF ReadQueue
    <2> QED
      BY <1>9, <2>2 DEF ReadQueue, OfItsGraph
  <1> QED
    BY <1>2, <1>3, <1>4, <1>5, <1>6, <1>7, <1>8, <1>9

\* A pass begins, and reads.
LEMMA BeginOfItsGraph ==
  ASSUME Typed, OfItsGraph, NEW p \in Pass
  PROVE  /\ \A r \in Records : BindChanged(p, r) => OfItsGraph'
         /\ RebindAll(p) \/ Restart(p) \/ Open(p) \/ Look(p) \/ Compare(p) => OfItsGraph'
  <1>p. pass[p] \in PassState /\ OfSpine(pass[p])
    BY DEF Typed, BindingTypeOK, OfItsGraph
  <1>1. ASSUME NEW ids PROVE OfSpine([pass[p] EXCEPT !.stage = "given", !.ids = ids])
    BY <1>p DEF OfSpine, PassState
  <1>2. ASSUME NEW r \in Records, BindChanged(p, r) PROVE OfItsGraph'
    <2> DEFINE s == [pass[p] EXCEPT !.stage = "given", !.ids = {r}]
    <2>0. pass' = [pass EXCEPT ![p] = s] /\ OfSpine(s)
      BY <1>1, <1>2 DEF BindChanged
    <2> HIDE DEF s
    <2>1. \A q \in Pass : OfSpine(pass[q])'
      BY <1>2, <2>0, MoveOfSpine DEF BindChanged
    <2> QED
      BY <1>2, <2>1 DEF BindChanged, OfItsGraph
  <1>3. ASSUME RebindAll(p) PROVE OfItsGraph'
    <2> DEFINE s == [pass[p] EXCEPT !.stage = "given", !.ids = Rebindable]
    <2>0. pass' = [pass EXCEPT ![p] = s] /\ OfSpine(s)
      BY <1>1, <1>3 DEF RebindAll
    <2> HIDE DEF s
    <2>1. \A q \in Pass : OfSpine(pass[q])'
      BY <1>3, <2>0, MoveOfSpine DEF RebindAll
    <2> QED
      BY <1>3, <2>1, RetiredOfItsGraph DEF RebindAll, OfItsGraph
  <1>4. ASSUME Restart(p) PROVE OfItsGraph'
    <2>1. \A q \in Pass : OfSpine(pass[q])'
      BY <1>4 DEF Restart, OfSpine, AtEase
    <2> QED
      BY <1>4, <2>1 DEF Restart, OfItsGraph
  <1>5. ASSUME Open(p) PROVE OfItsGraph'
    <2> DEFINE s == [pass[p] EXCEPT !.stage = "opened", !.generation = graph.generation]
    <2>1. OfSpine(s)
      BY <1>p DEF OfSpine, PassState, OfItsGraph
    <2>3. pass' = [pass EXCEPT ![p] = s] \/ Over(p)
      BY <1>5 DEF Open
    <2> HIDE DEF s
    <2>2. \A q \in Pass : OfSpine(pass[q])'
      BY <1>5, <2>1, <2>3, MoveOfSpine, OverOfSpine DEF Open
    <2> QED
      BY <1>5, <2>2 DEF Open, OfItsGraph
  <1>6. ASSUME Look(p) PROVE OfItsGraph'
    <2> DEFINE read == [r \in Records |-> IF r \in Live \cap pass[p].ids
                                          THEN situation[r].revision ELSE 0]
               s == [pass[p] EXCEPT !.stage = "looked", !.seen = read, !.todo = Live \cap pass[p].ids]
    <2>1. s.stage = "looked" /\ s.generation = pass[p].generation
      BY <1>p DEF PassState
    <2>2. pass' = [pass EXCEPT ![p] = s] /\ pass[p].stage = "opened"
      BY <1>6 DEF Look
    <2> HIDE DEF s
    <2>3. OfSpine(s)
      BY <1>p, <2>1, <2>2 DEF OfSpine
    <2>4. \A q \in Pass : OfSpine(pass[q])'
      BY <1>6, <2>2, <2>3, MoveOfSpine DEF Look
    <2> QED
      BY <1>6, <2>4 DEF Look, OfItsGraph
  <1>7. ASSUME Compare(p) PROVE OfItsGraph'
    <2> DEFINE left == {r \in pass[p].todo : ~Unchanged(p, r)}
               s == [pass[p] EXCEPT !.stage = "binding", !.todo = left]
    <2>1. s.stage = "binding" /\ s.generation = pass[p].generation
      BY <1>p DEF PassState
    <2>2. pass' = [pass EXCEPT ![p] = s] /\ pass[p].stage = "looked"
      BY <1>7 DEF Compare
    <2> HIDE DEF s
    <2>3. OfSpine(s)
      BY <1>p, <2>1, <2>2 DEF OfSpine
    <2>4. \A q \in Pass : OfSpine(pass[q])'
      BY <1>7, <2>2, <2>3, MoveOfSpine DEF Compare
    <2>5. \A r \in Records : binding'[r].of = binding'[r].generation
      BY <1>7 DEF Compare, OfItsGraph, Unbound
    <2> QED
      BY <1>7, <2>4, <2>5 DEF Compare, OfItsGraph
  <1> QED
    BY <1>2, <1>3, <1>4, <1>5, <1>6, <1>7

\* A pass resolves, writes and ends.
LEMMA BindOfItsGraph ==
  ASSUME Typed, OfItsGraph, NEW p \in Pass
  PROVE  /\ \A r \in Records, error \in BOOLEAN : Resolve(p, r, error) => OfItsGraph'
         /\ Fence(p) \/ WriteBinding(p) \/ WriteFails(p) \/ Settle(p) \/ PassFails(p) => OfItsGraph'
  <1>p. pass[p] \in PassState /\ OfSpine(pass[p])
    BY DEF Typed, BindingTypeOK, OfItsGraph
  <1>1. ASSUME NEW r \in Records, NEW error \in BOOLEAN, Resolve(p, r, error) PROVE OfItsGraph'
    <2> DEFINE retried == IF error THEN pass[p].retry \cup {r} ELSE pass[p].retry
               s == [pass[p] EXCEPT !.stage = "resolved", !.target = r, !.of = spine,
                                    !.retry = retried]
    <2>1. s.stage = "resolved" /\ s.generation = pass[p].generation /\ s.of = spine
      BY <1>p DEF PassState
    <2>2. pass' = [pass EXCEPT ![p] = s] /\ pass[p].stage = "binding"
      BY <1>1 DEF Resolve
    <2> HIDE DEF s
    <2>3. OfSpine(s)
      BY <1>p, <2>1, <2>2 DEF OfSpine, Typed, BindingTypeOK
    <2>4. \A q \in Pass : OfSpine(pass[q])'
      BY <1>1, <2>2, <2>3, MoveOfSpine DEF Resolve
    <2> QED
      BY <1>1, <2>4 DEF Resolve, OfItsGraph
  <1>2. ASSUME Fence(p) PROVE OfItsGraph'
    <2>1. CASE Stands(p, pass[p].target)
      <3> DEFINE s == [pass[p] EXCEPT !.stage = "fenced"]
      <3>1. /\ s.stage = "fenced" /\ s.generation = pass[p].generation /\ s.of = pass[p].of
            /\ s.generation \in Nat /\ s.of \in Nat
        BY <1>p DEF PassState
      <3>2. pass' = [pass EXCEPT ![p] = s] /\ pass[p].stage = "resolved"
        BY <1>2, <2>1 DEF Fence
      <3>3. pass[p].generation = spine
        BY <2>1 DEF Stands, OfItsGraph
      <3> HIDE DEF s
      <3>4. OfSpine(s)
        BY <1>p, <3>1, <3>2, <3>3 DEF OfSpine, Typed, BindingTypeOK
      <3>5. \A q \in Pass : OfSpine(pass[q])'
        BY <1>2, <3>2, <3>4, MoveOfSpine DEF Fence
      <3> QED
        BY <1>2, <3>5 DEF Fence, OfItsGraph
    <2>2. CASE ~Stands(p, pass[p].target)
      <3>1. \A q \in Pass : OfSpine(pass[q])'
        BY <1>2, <2>2, DoneOfSpine DEF Fence
      <3> QED
        BY <1>2, <3>1 DEF Fence, OfItsGraph
    <2> QED
      BY <2>1, <2>2
  <1>3. ASSUME WriteBinding(p) PROVE OfItsGraph'
    <2>1. \A q \in Pass : OfSpine(pass[q])'
      BY <1>3, DoneOfSpine DEF WriteBinding
    <2>2. pass[p].of = pass[p].generation
      BY <1>3, <1>p DEF WriteBinding, OfSpine
    <2>3. \A r \in Records : binding'[r].of = binding'[r].generation
      BY <1>3, <2>2 DEF WriteBinding, OfItsGraph, Typed, BindingTypeOK
    <2> QED
      BY <1>3, <2>1, <2>3 DEF WriteBinding, OfItsGraph
  <1>4. ASSUME WriteFails(p) PROVE OfItsGraph'
    <2>1. \A q \in Pass : OfSpine(pass[q])'
      BY <1>4, DoneOfSpine DEF WriteFails
    <2> QED
      BY <1>4, <2>1 DEF WriteFails, OfItsGraph
  <1>5. ASSUME Settle(p) PROVE OfItsGraph'
    BY <1>5, OverOfSpine DEF Settle, OfItsGraph
  <1>6. ASSUME PassFails(p) PROVE OfItsGraph'
    BY <1>6, OverOfSpine DEF PassFails, OfItsGraph
  <1> QED
    BY <1>1, <1>2, <1>3, <1>4, <1>5, <1>6

LEMMA StepOfItsGraph == Typed /\ OfItsGraph /\ [BindingNext]_bindingVars => OfItsGraph'
  <1> SUFFICES ASSUME Typed, OfItsGraph, [BindingNext]_bindingVars PROVE OfItsGraph'
    OBVIOUS
  <1>1. CASE UNCHANGED bindingVars
    BY <1>1 DEF bindingVars, OfItsGraph, OfSpine
  <1>2. CASE BindingNext
    BY <1>2, WorldOfItsGraph, BeginOfItsGraph, BindOfItsGraph DEF BindingNext
  <1> QED
    BY <1>1, <1>2

\* A binding routing reads was resolved on the very graph it is read with, although
\* resolution reads tables that a rebuild changes and the write is fenced by a plain
\* read of the graph's row.
THEOREM ServedOfItsGraph == BindingSpec => []ServedIsOfItsGraph
  <1>1. OfItsGraph => ServedIsOfItsGraph
    BY DEF OfItsGraph, ServedIsOfItsGraph, Served, Live
  <1> QED
    BY <1>1, InitOfItsGraph, StepOfItsGraph, AlwaysTyped, PTL DEF BindingSpec

-----------------------------------------------------------------------------
(* What was asked for is read.                                             *)

\* A live situation was published.
Published == \A r \in Live : situation[r].revision # 0

LEMMA StepPublished == Typed /\ Published /\ [BindingNext]_bindingVars => Published'
  <1> SUFFICES ASSUME Typed, Published, [BindingNext]_bindingVars PROVE Published'
    OBVIOUS
  <1>1. ASSUME NEW r \in Records, NEW live \in BOOLEAN, Publish(r, live) PROVE Published'
    BY <1>1 DEF Publish, Published, Live, Typed, BindingTypeOK, Situation, Revision
  <1>2. ASSUME situation' = situation PROVE Published'
    BY <1>2 DEF Published, Live
  <1>3. CASE UNCHANGED bindingVars
    BY <1>2, <1>3 DEF bindingVars
  <1>4. CASE BindingNext
    BY <1>1, <1>2, <1>4 DEF BindingNext, FallDue, BindChanged, Resolve, BeginRebuild, ChangeSpine,
         RebuildFails, Activate, Request, StopDrain, ReadQueue, RebindAll, Restart, Open, Look,
         Compare, Fence, WriteBinding, WriteFails, Settle, PassFails
  <1> QED
    BY <1>3, <1>4

\* What a drain was asked for is due until one reads it or its work is settled.
Due == unserved \subseteq DueWork

LEMMA StepDue == Typed /\ Published /\ Due /\ [BindingNext]_bindingVars => Due'
  <1> SUFFICES ASSUME Typed, Published, Due, [BindingNext]_bindingVars PROVE Due'
    OBVIOUS
  <1> USE DEF Due, DueWork, Queued
  <1>1. ASSUME unserved' \subseteq unserved, work' = work PROVE Due'
    BY <1>1
  <1>2. ASSUME NEW rs \in SUBSET Records, NEW revisionOf, Enqueue(rs, revisionOf),
               unserved' = unserved, \A r \in rs : revisionOf[r] # 0
        PROVE  Due'
    BY <1>2 DEF Enqueue, Typed, BindingTypeOK, Work
  <1>3. ASSUME NEW r \in Records, NEW live \in BOOLEAN, Publish(r, live) PROVE Due'
    <2>1. situation[r].revision + 1 # 0
      BY DEF Typed, BindingTypeOK, Situation, Revision
    <2> QED
      BY <1>2, <1>3, <2>1 DEF Publish
  <1>4. ASSUME BeginRebuild \/ Activate PROVE Due'
    <2>1. Enqueue(Live, RevisionOf) /\ unserved' = unserved
      BY <1>4 DEF BeginRebuild, Activate
    <2>2. Live \in SUBSET Records /\ \A r \in Live : RevisionOf[r] # 0
      BY DEF Published, Live, RevisionOf
    <2> QED
      BY <1>2, <2>1, <2>2
  <1>5. ASSUME NEW r \in Records, FallDue(r) PROVE Due'
    BY <1>5 DEF FallDue, Typed, BindingTypeOK, Work
  <1>6. CASE Request
    BY <1>6 DEF Request, Typed, BindingTypeOK
  <1>7. CASE ReadQueue
    BY <1>1, <1>7 DEF ReadQueue
  <1>8. ASSUME NEW p \in Pass, Settle(p) PROVE Due'
    <2>1. \A r \in unserved' : work'[r] = work[r]
      BY <1>8 DEF Settle, Typed, BindingTypeOK
    <2> QED
      BY <1>8, <2>1 DEF Settle, Typed, BindingTypeOK
  <1>9. ASSUME NEW p \in Pass, PassFails(p) \/ Restart(p) PROVE Due'
    BY <1>1, <1>9 DEF PassFails, Restart
  <1>10. CASE ChangeSpine \/ RebuildFails \/ StopDrain \/ UNCHANGED bindingVars
    BY <1>1, <1>10 DEF ChangeSpine, RebuildFails, StopDrain, bindingVars
  <1>11. ASSUME NEW p \in Pass, NEW r \in Records, NEW error \in BOOLEAN,
                BindChanged(p, r) \/ Resolve(p, r, error)
         PROVE  Due'
    BY <1>1, <1>11 DEF BindChanged, Resolve
  <1>12. ASSUME NEW p \in Pass,
                \/ RebindAll(p) \/ Open(p) \/ Look(p) \/ Compare(p) \/ Fence(p)
                \/ WriteBinding(p) \/ WriteFails(p)
         PROVE  Due'
    BY <1>1, <1>12 DEF RebindAll, Open, Look, Compare, Fence, WriteBinding, WriteFails
  <1> QED
    BY <1>3, <1>4, <1>5, <1>6, <1>7, <1>8, <1>9, <1>10, <1>11, <1>12 DEF BindingNext

LEMMA OverServes ==
  ASSUME Typed, NEW p \in Pass, Over(p), RequestsServed, UNCHANGED stopped,
         unserved' \subseteq unserved, fellShort => fellShort',
         p = Drain /\ pass[p].stage = "asked" /\ ~again => fellShort'
  PROVE  RequestsServed'
  <1>1. pass \in [Pass -> PassState] /\ Drain \in Pass
    BY DEF Typed, BindingTypeOK, Pass
  <1>2. CASE p = Drain /\ again /\ ~stopped
    <2>1. pass'[Drain].stage = "asked"
      BY <1>1, <1>2 DEF Over, AtEase
    <2> QED
      BY <2>1 DEF RequestsServed
  <1>3. CASE p = Drain /\ ~(again /\ ~stopped)
    BY <1>3 DEF Over, RequestsServed
  <1>4. CASE p # Drain
    <2>1. pass'[Drain] = pass[Drain] /\ again' = again
      BY <1>1, <1>4 DEF Over
    <2> QED
      BY <2>1 DEF RequestsServed
  <1> QED
    BY <1>2, <1>3, <1>4

LEMMA StepServes == Typed /\ Due /\ RequestsServed /\ [BindingNext]_bindingVars => RequestsServed'
  <1> SUFFICES ASSUME Typed, Due, RequestsServed, [BindingNext]_bindingVars PROVE RequestsServed'
    OBVIOUS
  <1>d. pass \in [Pass -> PassState] /\ Drain \in Pass /\ Drain \notin Others
    BY DEF Typed, BindingTypeOK, Pass
  <1>1. ASSUME unserved' \subseteq unserved, stopped' = stopped, again' = again, pass' = pass,
               fellShort' = fellShort
        PROVE  RequestsServed'
    BY <1>1 DEF RequestsServed
  <1>2. ASSUME NEW p \in Pass, unserved' = unserved, stopped' = stopped, again' = again,
               fellShort' = fellShort,
               \/ p # Drain
               \/ pass[p].stage # "asked",
               NEW s, pass' = [pass EXCEPT ![p] = s]
        PROVE  RequestsServed'
    BY <1>2, <1>d DEF RequestsServed
  <1>3. ASSUME NEW r \in Records, NEW live \in BOOLEAN, Publish(r, live) PROVE RequestsServed'
    BY <1>1, <1>3 DEF Publish, Enqueue
  <1>4. BeginRebuild \/ ChangeSpine \/ RebuildFails \/ Activate => RequestsServed'
    BY <1>1 DEF BeginRebuild, ChangeSpine, RebuildFails, Activate, Enqueue
  <1>5. ASSUME NEW r \in Records, FallDue(r) PROVE RequestsServed'
    BY <1>1, <1>5 DEF FallDue
  <1>6. ASSUME Request PROVE RequestsServed'
    <2>1. pass'[Drain].stage = "asked" \/ again'
      BY <1>6, <1>d DEF Request, PassState
    <2> QED
      BY <2>1 DEF RequestsServed
  <1>7. StopDrain => RequestsServed'
    BY DEF StopDrain, RequestsServed
  <1>18. ASSUME ReadQueue PROVE RequestsServed'
    <2>1. PICK ids \in SUBSET DueWork : unserved' = unserved \ ids /\ fellShort' = (ids # DueWork)
      BY <1>18 DEF ReadQueue
    <2>2. ids = DueWork => unserved' = {}
      BY <2>1 DEF Due
    <2> QED
      BY <2>1, <2>2 DEF RequestsServed
  <1>8. ASSUME NEW p \in Pass, Restart(p) PROVE RequestsServed'
    BY <1>8 DEF Restart, RequestsServed
  <1>9. ASSUME NEW p \in Pass, NEW r \in Records, BindChanged(p, r) PROVE RequestsServed'
    <2> DEFINE s == [pass[p] EXCEPT !.stage = "given", !.ids = {r}]
    <2>1. pass' = [pass EXCEPT ![p] = s] /\ p # Drain
      BY <1>9, <1>d DEF BindChanged
    <2> HIDE DEF s
    <2> QED
      BY <1>2, <1>9, <2>1 DEF BindChanged
  <1>10. ASSUME NEW p \in Pass, RebindAll(p) PROVE RequestsServed'
    <2> DEFINE s == [pass[p] EXCEPT !.stage = "given", !.ids = Rebindable]
    <2>1. pass' = [pass EXCEPT ![p] = s] /\ p # Drain
      BY <1>10, <1>d DEF RebindAll
    <2> HIDE DEF s
    <2> QED
      BY <1>2, <1>10, <2>1 DEF RebindAll
  <1>11. ASSUME NEW p \in Pass, Open(p) PROVE RequestsServed'
    <2> DEFINE s == [pass[p] EXCEPT !.stage = "opened", !.generation = graph.generation]
    <2>1. \/ pass' = [pass EXCEPT ![p] = s] /\ again' = again
          \/ Over(p)
      BY <1>11 DEF Open
    <2> HIDE DEF s
    <2> QED
      BY <1>2, <1>11, <2>1, OverServes DEF Open
  <1>12. ASSUME NEW p \in Pass, Look(p) \/ Compare(p) PROVE RequestsServed'
    <2>1. PICK s : pass' = [pass EXCEPT ![p] = s]
      BY <1>12 DEF Look, Compare
    <2> QED
      BY <1>2, <1>12, <2>1 DEF Look, Compare
  <1>13. ASSUME NEW p \in Pass, NEW r \in Records, NEW error \in BOOLEAN, Resolve(p, r, error)
         PROVE  RequestsServed'
    <2>1. PICK s : pass' = [pass EXCEPT ![p] = s]
      BY <1>13 DEF Resolve
    <2> QED
      BY <1>2, <1>13, <2>1 DEF Resolve
  <1>14. ASSUME NEW p \in Pass, Fence(p) \/ WriteBinding(p) \/ WriteFails(p) PROVE RequestsServed'
    <2>1. PICK s : pass' = [pass EXCEPT ![p] = s]
      BY <1>14 DEF Fence, WriteBinding, WriteFails, DoneWith
    <2> QED
      BY <1>2, <1>14, <2>1 DEF Fence, WriteBinding, WriteFails
  <1>15. ASSUME NEW p \in Pass, Settle(p) PROVE RequestsServed'
    BY <1>15, OverServes DEF Settle
  <1>16. ASSUME NEW p \in Pass, PassFails(p) PROVE RequestsServed'
    BY <1>16, OverServes DEF PassFails
  <1>17. CASE UNCHANGED bindingVars
    BY <1>17 DEF bindingVars, RequestsServed
  <1> QED
    BY <1>3, <1>4, <1>5, <1>6, <1>7, <1>8, <1>9, <1>10, <1>11, <1>12, <1>13, <1>14, <1>15,
       <1>16, <1>17, <1>18 DEF BindingNext

\* Work that was due when a drain was asked for is read by a drain, whatever the
\* order of requests, ends and failures of drains, unless a drain that came after the
\* request read a full page or failed to read.
THEOREM RequestsAreServed == BindingSpec => []RequestsServed
  <1>1. BindingInit => RequestsServed /\ Due /\ Published
    BY DEF BindingInit, RequestsServed, Due, Published, Live
  <1> QED
    BY <1>1, StepPublished, StepDue, StepServes, AlwaysTyped, PTL DEF BindingSpec

-----------------------------------------------------------------------------
(* Work is kept.                                                           *)

\* What a pass in state s found of a live situation that was not overtaken still
\* stands: what it read before it compares, that the bindings it is done with answer,
\* and the fence of the target in hand.
KeptBy(s) ==
  /\ \A r \in Live \ overtaken :
       /\ s.stage = "looked" /\ r \in s.ids
            => r \in s.todo /\ s.seen[r] = situation[r].revision
       /\ s.stage \in {"binding", "resolved", "fenced"} /\ r \in s.ids \ (s.todo \cup s.unfinished)
            => Answered(r)
  /\ s.stage = "fenced" =>
       /\ situation[s.target].live /\ situation[s.target].revision = s.seen[s.target]
       /\ s.target \notin overtaken => s.generation = graph.generation

\* A binding of the revision stored is of the graph, unless work overtook a pass.
InForce(r) ==
  binding[r].status # "obsolete" /\ binding[r].revision = situation[r].revision
    => binding[r].generation = graph.generation

Kept ==
  /\ \A r \in Live : situation[r].revision > 0
  /\ \A r \in Records : binding[r].revision <= situation[r].revision
  /\ \A r \in Records \ overtaken : InForce(r)
  /\ WorkIsKept
  /\ \A p \in Pass : KeptBy(pass[p])

LEMMA InitKept == BindingInit => Kept
  BY DEF BindingInit, Kept, KeptBy, InForce, WorkIsKept, Live, AtEase, Unbound

\* What a pass is done with.
LEMMA HandDealt ==
  ASSUME Typed, NEW p \in Pass
  PROVE  /\ \A r \in pass[p].ids : pass[p].stage = "looked" => r \in Dealt(p)
         /\ \A r \in pass[p].ids \ (pass[p].todo \cup pass[p].unfinished) :
              pass[p].stage \in {"binding", "resolved", "fenced"} => r \in Dealt(p)
         /\ pass[p].stage = "fenced" => pass[p].target \in Dealt(p) /\ pass[p].target \in Records
  <1>1. pass[p] \in PassState /\ HandFull(pass[p])
    BY DEF Typed, BindingTypeOK
  <1>2. CASE pass[p].stage = "looked"
    BY <1>2 DEF Dealt
  <1>3. CASE pass[p].stage \in {"binding", "resolved"}
    BY <1>3 DEF Dealt
  <1>4. CASE pass[p].stage = "fenced"
    <2>1. pass[p].target \in pass[p].ids \ pass[p].unfinished /\ pass[p].target \in Records
      BY <1>1, <1>4 DEF HandFull, PassState
    <2>2. Dealt(p) = pass[p].ids \ ((pass[p].todo \ {pass[p].target}) \cup pass[p].unfinished)
      BY <1>4 DEF Dealt
    <2> QED
      BY <1>4, <2>1, <2>2
  <1> QED
    BY <1>2, <1>3, <1>4

\* Work queued anew overtakes the passes that were done with it.
LEMMA EnqueueKept ==
  ASSUME Typed, Kept, NEW rs \in SUBSET Records, NEW revisionOf, Enqueue(rs, revisionOf),
         UNCHANGED pass, \A r \in rs : revisionOf[r] # 0,
         \A r \in Records \ rs :
            situation'[r] = situation[r] /\ (situation[r].live => binding'[r] = binding[r]),
         graph' = graph \/ Live \subseteq rs, 
         \A p \in Pass : pass[p].stage = "fenced" =>
            situation'[pass[p].target] = situation[pass[p].target]
  PROVE  WorkIsKept' /\ \A p \in Pass : KeptBy(pass[p])'
  <1>1. \A r \in Records \ rs : (r \in overtaken' <=> r \in overtaken) /\ work'[r] = work[r]
    BY DEF Enqueue, Typed, BindingTypeOK
  <1>2. \A r \in rs : Queued(r)'
    BY DEF Enqueue, Queued
  <1>3. \A r \in rs \ overtaken' : \A p \in Pass : r \notin Dealt(p)
    BY DEF Enqueue
  <1>4. ASSUME NEW r \in Live' \ overtaken', r \notin rs
        PROVE  r \in Live \ overtaken /\ graph' = graph /\ (Answered(r) => Answered(r)')
    BY <1>1, <1>4 DEF Live, Answered
  <1>5. WorkIsKept'
    <2>1. ASSUME NEW r \in Live' \ overtaken' PROVE Queued(r)' \/ Answered(r)'
      BY <1>1, <1>2, <1>4 DEF Kept, WorkIsKept, Queued, Live
    <2> QED
      BY <2>1 DEF WorkIsKept
  <1>6. ASSUME NEW p \in Pass PROVE KeptBy(pass[p])'
    <2>1. KeptBy(pass[p])
      BY DEF Kept
    <2>2. ASSUME NEW r \in Live' \ overtaken'
          PROVE  /\ pass[p].stage = "looked" /\ r \in pass[p].ids
                      => r \in pass[p].todo /\ pass[p].seen[r] = situation'[r].revision
                 /\ /\ pass[p].stage \in {"binding", "resolved", "fenced"}
                    /\ r \in pass[p].ids \ (pass[p].todo \cup pass[p].unfinished)
                    => Answered(r)'
      <3>1. CASE r \in rs
        BY <1>3, <3>1, HandDealt
      <3>2. CASE r \notin rs
        BY <1>4, <2>1, <3>2 DEF KeptBy, Live
      <3> QED
        BY <3>1, <3>2
    <2>3. ASSUME pass[p].stage = "fenced"
          PROVE  /\ situation'[pass[p].target].live
                 /\ situation'[pass[p].target].revision = pass[p].seen[pass[p].target]
                 /\ pass[p].target \notin overtaken' => pass[p].generation = graph'.generation
      <3>1. pass[p].target \in Dealt(p) /\ pass[p].target \in Records
        BY <2>3, HandDealt
      <3>2. situation[pass[p].target].live
        BY <2>1, <2>3 DEF KeptBy
      <3>3. CASE pass[p].target \in rs
        BY <1>3, <2>1, <2>3, <3>1, <3>3 DEF KeptBy
      <3>4. CASE pass[p].target \notin rs
        BY <1>1, <2>1, <2>3, <3>1, <3>2, <3>4 DEF KeptBy, Live
      <3> QED
        BY <3>3, <3>4
    <2> QED
      BY <2>2, <2>3 DEF KeptBy
  <1> QED
    BY <1>5, <1>6

\* The steps beside the passes.
LEMMA WorldKept ==
  ASSUME Typed, Kept
  PROVE  /\ \A r \in Records, live \in BOOLEAN : Publish(r, live) => Kept'
         /\ BeginRebuild \/ ChangeSpine \/ RebuildFails \/ Activate => Kept'
         /\ Request \/ StopDrain \/ ReadQueue => Kept'
         /\ \A r \in Records : FallDue(r) => Kept'
  <1>t. /\ situation \in [Records -> Situation] /\ binding \in [Records -> Binding]
        /\ work \in [Records -> Work] /\ pass \in [Pass -> PassState] /\ Drain \in Pass
        /\ Live \subseteq Records /\ \A r \in Live : RevisionOf[r] # 0
    BY DEF Typed, BindingTypeOK, Live, Kept, RevisionOf, Pass
  <1>1. ASSUME NEW r \in Records, NEW live \in BOOLEAN, Publish(r, live) PROVE Kept'
    <2> DEFINE n == situation[r].revision + 1
    <2>1. n \in Nat /\ n > 0 /\ situation[r].revision \in Nat
      BY <1>t DEF Situation, Revision
    <2>2. Enqueue({r}, [s \in {r} |-> n])
      BY <1>1 DEF Publish
    <2>3. /\ situation' = [situation EXCEPT ![r] = [revision |-> n, live |-> live]]
          /\ binding' = binding /\ graph' = graph /\ pass' = pass
          /\ \A p \in Pass : pass[p].stage = "fenced" => pass[p].target # r
      BY <1>1 DEF Publish
    <2> HIDE DEF n
    <2>4. \A s \in Records \ {r} :
            situation'[s] = situation[s] /\ (situation[s].live => binding'[s] = binding[s])
      BY <1>t, <2>3
    <2>5. \A p \in Pass : pass[p].stage = "fenced" =>
            situation'[pass[p].target] = situation[pass[p].target]
      BY <2>3, <1>t, HandDealt
    <2>6. WorkIsKept' /\ \A p \in Pass : KeptBy(pass[p])'
      BY <2>1, <2>2, <2>3, <2>4, <2>5, EnqueueKept
    <2>7. situation'[r].revision = situation[r].revision + 1
      BY <1>t, <2>3 DEF n
    <2>8. binding[r].revision <= situation[r].revision /\ binding[r].revision \in Nat
      BY <1>t DEF Kept, Binding, Revision
    <2>9. \A s \in Live' : situation'[s].revision > 0
      BY <1>t, <2>1, <2>4, <2>7 DEF Kept, Live
    <2>10. \A s \in Records : binding'[s].revision <= situation'[s].revision
      BY <2>1, <2>3, <2>4, <2>7, <2>8 DEF Kept
    <2>11. \A s \in Records \ overtaken' : InForce(s)'
      <3>1. InForce(r)'
        BY <2>1, <2>3, <2>7, <2>8 DEF InForce
      <3>2. \A s \in Records \ {r} : s \in overtaken' <=> s \in overtaken
        BY <2>2 DEF Enqueue
      <3> QED
        BY <2>3, <2>4, <3>1, <3>2 DEF InForce, Kept
    <2> QED
      BY <2>6, <2>9, <2>10, <2>11 DEF Kept
  <1>2. ASSUME BeginRebuild \/ Activate PROVE Kept'
    <2>1. /\ Enqueue(Live, RevisionOf) /\ UNCHANGED <<situation, pass>>
          /\ \E rs : binding' = Retired(rs)
      BY <1>2 DEF BeginRebuild, Activate
    <2>2. \A r \in Records : /\ binding'[r].revision = binding[r].revision
                             /\ binding'[r].generation = binding[r].generation
      BY <1>t, <2>1 DEF Retired, Binding
    <2>3. \A r \in Records : InForce(r)'
      <3>1. CASE BeginRebuild
        BY <1>t, <3>1 DEF BeginRebuild, Retired, InForce, Binding
      <3>2. CASE Activate
        BY <1>t, <3>2 DEF Activate, Retired, InForce, Binding
      <3> QED
        BY <1>2, <3>1, <3>2
    <2>4. WorkIsKept' /\ \A p \in Pass : KeptBy(pass[p])'
      <3>1. \A r \in Records \ Live :
              situation'[r] = situation[r] /\ (situation[r].live => binding'[r] = binding[r])
        BY <2>1 DEF Live
      <3> QED
        BY <1>t, <2>1, <3>1, EnqueueKept
    <2> QED
      BY <2>1, <2>2, <2>3, <2>4 DEF Kept, Live
  <1>3. ASSUME UNCHANGED <<situation, binding, graph, overtaken>>,
               \A r \in Records : Queued(r) => Queued(r)',
               \A p \in Pass : KeptBy(pass'[p])
        PROVE  Kept'
    <2>1. \A p \in Pass : KeptBy(pass[p])'
      BY <1>3 DEF KeptBy, Live, Answered
    <2>2. WorkIsKept'
      BY <1>3 DEF WorkIsKept, Kept, Live, Answered
    <2> QED
      BY <1>3, <2>1, <2>2 DEF Kept, Live, InForce
  <1>4. ChangeSpine \/ RebuildFails \/ StopDrain => Kept'
    BY <1>3 DEF ChangeSpine, RebuildFails, StopDrain, Queued, Kept
  <1>5. ASSUME NEW r \in Records, FallDue(r) PROVE Kept'
    <2>1. \A s \in Records : work'[s].revision = work[s].revision
      BY <1>5, <1>t DEF FallDue, Work
    <2> QED
      BY <1>3, <1>5, <2>1 DEF FallDue, Queued, Kept
  <1>6. ASSUME Request PROVE Kept'
    <2>1. \A p \in Pass : KeptBy(pass'[p])
      <3>1. CASE pass' = pass
        BY <3>1 DEF Kept
      <3>2. CASE pass' # pass
        <4>1. pass'[Drain].stage = "asked" /\ \A p \in Pass \ {Drain} : pass'[p] = pass[p]
          BY <1>6, <1>t, <3>2 DEF Request, PassState
        <4>2. KeptBy(pass'[Drain])
          BY <4>1 DEF KeptBy
        <4> QED
          BY <4>1, <4>2 DEF Kept
      <3> QED
        BY <3>1, <3>2
    <2> QED
      BY <1>3, <1>6, <2>1 DEF Request, Queued
  <1>7. ASSUME ReadQueue PROVE Kept'
    <2>1. \A p \in Pass : KeptBy(pass'[p])
      BY <1>7, <1>t DEF ReadQueue, KeptBy, Kept, PassState
    <2> QED
      BY <1>3, <1>7, <2>1 DEF ReadQueue, Queued
  <1> QED
    BY <1>1, <1>2, <1>4, <1>5, <1>6, <1>7

\* A pass moves, and nothing it is kept by does.
LEMMA MoveKept ==
  ASSUME Typed, Kept, UNCHANGED <<situation, binding, graph, overtaken, work>>,
         NEW p \in Pass, NEW s, KeptBy(s), pass' = [pass EXCEPT ![p] = s]
  PROVE  Kept'
  <1>1. \A q \in Pass : KeptBy(pass'[q])
    BY DEF Typed, BindingTypeOK, Kept
  <1>2. \A q \in Pass : KeptBy(pass[q])'
    BY <1>1 DEF KeptBy, Live, Answered
  <1>3. WorkIsKept'
    BY DEF WorkIsKept, Kept, Live, Answered, Queued
  <1> QED
    BY <1>2, <1>3 DEF Kept, Live, InForce

LEMMA OverKept ==
  ASSUME Typed, Kept, UNCHANGED <<situation, binding, graph, overtaken>>, WorkIsKept',
         NEW p \in Pass, Over(p)
  PROVE  Kept'
  <1>1. KeptBy(AtEase) /\ KeptBy([AtEase EXCEPT !.stage = "asked"])
    BY DEF KeptBy, AtEase
  <1>2. \A q \in Pass : KeptBy(pass'[q])
    BY <1>1 DEF Typed, BindingTypeOK, Kept, Over
  <1>3. \A q \in Pass : KeptBy(pass[q])'
    BY <1>2 DEF KeptBy, Live, Answered
  <1> QED
    BY <1>3 DEF Kept, Live, InForce

LEMMA WorkStands ==
  ASSUME Kept, UNCHANGED <<situation, binding, graph, overtaken, work>>
  PROVE  WorkIsKept'
  BY DEF WorkIsKept, Kept, Live, Answered, Queued

\* A pass that is done with a target, in the state it goes on in.
LEMMA DoneState ==
  ASSUME Typed, NEW p \in Pass, NEW failed \in BOOLEAN, DoneWith(p, failed),
         pass[p].stage \in {"resolved", "fenced"}
  PROVE  /\ pass'[p].stage = "binding" /\ pass'[p].ids = pass[p].ids
         /\ pass'[p].todo = pass[p].todo \ {pass[p].target}
         /\ pass'[p].unfinished = IF failed THEN pass[p].unfinished \cup {pass[p].target}
                                  ELSE pass[p].unfinished
         /\ pass' = [pass EXCEPT ![p] = pass'[p]]
  <1> DEFINE left == IF failed THEN pass[p].unfinished \cup {pass[p].target}
                              ELSE pass[p].unfinished
             s == [pass[p] EXCEPT !.stage = "binding", !.target = NoTarget, !.of = 0,
                       !.todo = pass[p].todo \ {pass[p].target}, !.unfinished = left]
  <1>1. pass[p] \in PassState /\ pass \in [Pass -> PassState]
    BY DEF Typed, BindingTypeOK
  <1>2. pass' = [pass EXCEPT ![p] = s]
    BY DEF DoneWith
  <1>3. /\ s.stage = "binding" /\ s.ids = pass[p].ids
        /\ s.todo = pass[p].todo \ {pass[p].target} /\ s.unfinished = left
    BY <1>1 DEF PassState
  <1> HIDE DEF s
  <1>4. pass'[p] = s
    BY <1>1, <1>2
  <1> QED
    BY <1>2, <1>3, <1>4

LEMMA FailedKept ==
  ASSUME Typed, Kept, UNCHANGED <<situation, binding, graph, overtaken, work>>,
         NEW p \in Pass, DoneWith(p, TRUE), pass[p].stage \in {"resolved", "fenced"}
  PROVE  Kept'
  <1>1. KeptBy(pass[p])
    BY DEF Kept
  <1>2. KeptBy(pass'[p])
    BY <1>1, DoneState DEF KeptBy
  <1> QED
    BY <1>2, DoneState, MoveKept

\* A pass begins, and reads.
LEMMA BeginKept ==
  ASSUME Typed, Kept, NEW p \in Pass
  PROVE  /\ \A r \in Records : BindChanged(p, r) => Kept'
         /\ RebindAll(p) \/ Restart(p) \/ Open(p) \/ Look(p) => Kept'
  <1>t. /\ situation \in [Records -> Situation] /\ binding \in [Records -> Binding]
        /\ pass \in [Pass -> PassState] /\ pass[p] \in PassState /\ Live \subseteq Records
        /\ KeptBy(pass[p])
    BY DEF Typed, BindingTypeOK, Live, Kept
  <1>1. ASSUME NEW ids PROVE KeptBy([pass[p] EXCEPT !.stage = "given", !.ids = ids])
    BY <1>t DEF KeptBy, PassState
  <1>2. ASSUME NEW r \in Records, BindChanged(p, r) PROVE Kept'
    <2> DEFINE s == [pass[p] EXCEPT !.stage = "given", !.ids = {r}]
    <2>1. pass' = [pass EXCEPT ![p] = s] /\ KeptBy(s)
      BY <1>1, <1>2 DEF BindChanged
    <2> HIDE DEF s
    <2> QED
      BY <1>2, <2>1, MoveKept DEF BindChanged
  <1>3. ASSUME RebindAll(p) PROVE Kept'
    <2> DEFINE s == [pass[p] EXCEPT !.stage = "given", !.ids = Rebindable]
    <2>1. pass' = [pass EXCEPT ![p] = s] /\ KeptBy(s)
      BY <1>1, <1>3 DEF RebindAll
    <2> HIDE DEF s
    <2>2. /\ UNCHANGED <<situation, graph, work>> /\ overtaken \subseteq overtaken'
          /\ \A r \in Live \ overtaken' : Queued(r) /\ \A q \in Pass : r \notin Dealt(q)
      BY <1>3 DEF RebindAll
    <2>3. \A r \in Records : /\ binding'[r].revision = binding[r].revision
                             /\ binding'[r].status = "obsolete"
      BY <1>3, <1>t DEF RebindAll, Retired, Binding
    <2>4. WorkIsKept'
      BY <2>2 DEF WorkIsKept, Live, Queued
    <2>5. ASSUME NEW q \in Pass PROVE KeptBy(pass[q])'
      <3>1. CASE q = p
        <4>1. pass'[q].stage = "given"
          BY <1>3, <1>t, <2>1, <3>1 DEF RebindAll, PassState, s
        <4> QED
          BY <4>1 DEF KeptBy
      <3>2. CASE q # p
        <4>1. pass'[q] = pass[q] /\ KeptBy(pass[q])
          BY <1>t, <2>1, <3>2 DEF Kept
        <4>2. \A r \in Live \ overtaken' :
                /\ ~(pass[q].stage = "looked" /\ r \in pass[q].ids)
                /\ ~(/\ pass[q].stage \in {"binding", "resolved", "fenced"}
                     /\ r \in pass[q].ids \ (pass[q].todo \cup pass[q].unfinished))
          BY <2>2, HandDealt
        <4> QED
          BY <2>2, <4>1, <4>2 DEF KeptBy, Live
      <3> QED
        BY <3>1, <3>2
    <2> QED
      BY <2>2, <2>3, <2>4, <2>5 DEF Kept, Live, InForce
  <1>4. ASSUME Restart(p) PROVE Kept'
    <2>1. \A q \in Pass : pass'[q].stage \in {"idle", "given"}
      BY <1>4 DEF Restart, AtEase
    <2>2. \A q \in Pass : KeptBy(pass[q])'
      BY <2>1 DEF KeptBy
    <2> QED
      BY <1>4, <2>2, WorkStands DEF Restart, Kept, Live, InForce
  <1>5. ASSUME Open(p) PROVE Kept'
    <2> DEFINE s == [pass[p] EXCEPT !.stage = "opened", !.generation = graph.generation]
    <2>1. pass' = [pass EXCEPT ![p] = s] \/ Over(p)
      BY <1>5 DEF Open
    <2>2. KeptBy(s)
      BY <1>t DEF KeptBy, PassState
    <2> HIDE DEF s
    <2> QED
      BY <1>5, <2>1, <2>2, MoveKept, OverKept, WorkStands DEF Open
  <1>6. ASSUME Look(p) PROVE Kept'
    <2> DEFINE read == [r \in Records |-> IF r \in Live \cap pass[p].ids
                                          THEN situation[r].revision ELSE 0]
               s == [pass[p] EXCEPT !.stage = "looked", !.seen = read, !.todo = Live \cap pass[p].ids]
    <2>1. /\ s.stage = "looked" /\ s.ids = pass[p].ids /\ s.seen = read
          /\ s.todo = Live \cap pass[p].ids
      BY <1>t DEF PassState
    <2>2. pass' = [pass EXCEPT ![p] = s]
      BY <1>6 DEF Look
    <2>3. \A r \in Live \cap pass[p].ids : read[r] = situation[r].revision
      BY <1>t
    <2> HIDE DEF s, read
    <2>4. KeptBy(s)
      BY <2>1, <2>3 DEF KeptBy
    <2> QED
      BY <1>6, <2>2, <2>4, MoveKept DEF Look
  <1> QED
    BY <1>2, <1>3, <1>4, <1>5, <1>6

\* The bindings that still answer are left, and those of situations not live dropped.
LEMMA CompareKept ==
  ASSUME Typed, Kept, NEW p \in Pass, Compare(p)
  PROVE  Kept'
  <1>t. /\ situation \in [Records -> Situation] /\ binding \in [Records -> Binding]
        /\ pass \in [Pass -> PassState] /\ pass[p] \in PassState /\ HandFull(pass[p])
        /\ Live \subseteq Records /\ KeptBy(pass[p])
    BY DEF Typed, BindingTypeOK, Live, Kept
  <1> DEFINE left == {r \in pass[p].todo : ~Unchanged(p, r)}
             s == [pass[p] EXCEPT !.stage = "binding", !.todo = left]
  <1>1. /\ s.stage = "binding" /\ s.ids = pass[p].ids /\ s.todo = left
        /\ s.unfinished = {}
    BY <1>t DEF PassState, HandFull, Compare
  <1>2. /\ pass' = [pass EXCEPT ![p] = s] /\ pass[p].stage = "looked"
        /\ UNCHANGED <<situation, work, graph, overtaken>>
    BY DEF Compare
  <1>3. \A r \in Live \ overtaken : binding'[r] = binding[r] /\ (Answered(r) => Answered(r)')
    BY <1>t, <1>2 DEF Compare, KeptBy, Answered
  <1>4. \A r \in Records : binding'[r] \in {binding[r], Unbound}
    BY DEF Compare
  <1>5. WorkIsKept'
    BY <1>2, <1>3 DEF Kept, WorkIsKept, Live, Queued
  <1>6. ASSUME NEW r \in Records PROVE binding'[r].revision <= situation'[r].revision
    BY <1>t, <1>2, <1>4 DEF Kept, Unbound, Situation, Revision
  <1>7. \A r \in Records \ overtaken' : InForce(r)'
    BY <1>2, <1>4 DEF Kept, InForce, Unbound
  <1>8. ASSUME NEW r \in Live \ overtaken, r \in pass[p].ids, r \notin left PROVE Answered(r)'
    <2>1. r \in pass[p].todo /\ pass[p].seen[r] = situation[r].revision
      BY <1>t, <1>2, <1>8 DEF KeptBy
    <2>2. Unchanged(p, r)
      BY <1>8, <2>1
    <2>3. InForce(r)
      BY <1>t DEF Kept
    <2> QED
      BY <1>3, <2>1, <2>2, <2>3 DEF Unchanged, InForce, Answered
  <1> HIDE DEF s, left
  <1>9. ASSUME NEW q \in Pass PROVE KeptBy(pass[q])'
    <2>1. CASE q = p
      <3>1. pass'[q] = s
        BY <1>t, <1>2, <2>1
      <3> QED
        BY <1>1, <1>2, <1>8, <3>1 DEF KeptBy, Live
    <2>2. CASE q # p
      <3>1. pass'[q] = pass[q] /\ KeptBy(pass[q])
        BY <1>t, <1>2, <2>2 DEF Kept
      <3> QED
        BY <1>2, <1>3, <3>1 DEF KeptBy, Live
    <2> QED
      BY <2>1, <2>2
  <1> QED
    BY <1>2, <1>5, <1>6, <1>7, <1>9 DEF Kept, Live

\* The binding that is written answers, unless a rebuild overtook the pass.
LEMMA WriteKept ==
  ASSUME Typed, Kept, NEW p \in Pass, WriteBinding(p)
  PROVE  Kept'
  <1>t. /\ situation \in [Records -> Situation] /\ binding \in [Records -> Binding]
        /\ pass \in [Pass -> PassState] /\ pass[p] \in PassState /\ HandFull(pass[p])
        /\ KeptBy(pass[p])
    BY DEF Typed, BindingTypeOK, Kept
  <1> DEFINE t == pass[p].target
  <1>1. t \in Records /\ situation[t].live /\ situation[t].revision = pass[p].seen[t]
    BY <1>t DEF WriteBinding, HandFull, PassState, KeptBy
  <1>2. t \notin overtaken => pass[p].generation = graph.generation
    BY <1>t DEF WriteBinding, KeptBy
  <1>3. /\ UNCHANGED <<situation, work, graph, overtaken>> /\ DoneWith(p, FALSE)
        /\ pass[p].stage = "fenced"
    BY DEF WriteBinding
  <1>4. /\ \A r \in Records \ {t} : binding'[r] = binding[r]
        /\ binding'[t].revision = situation[t].revision
        /\ binding'[t].generation = pass[p].generation /\ binding'[t].status # "obsolete"
    BY <1>t, <1>1 DEF WriteBinding
  <1> HIDE DEF t
  <1>5. \A r \in Live \ overtaken : (Answered(r) \/ r = t) => Answered(r)'
    BY <1>2, <1>3, <1>4 DEF Answered, Live
  <1>6. WorkIsKept'
    BY <1>3, <1>5 DEF Kept, WorkIsKept, Live, Queued
  <1>7. \A r \in Records : binding'[r].revision <= situation'[r].revision
    BY <1>t, <1>1, <1>3, <1>4 DEF Kept, Situation, Revision
  <1>8. \A r \in Records \ overtaken' : InForce(r)'
    BY <1>2, <1>3, <1>4 DEF Kept, InForce
  <1>9. ASSUME NEW q \in Pass PROVE KeptBy(pass[q])'
    <2>1. CASE q = p
      <3>1. /\ pass'[q].stage = "binding" /\ pass'[q].ids = pass[p].ids
            /\ pass'[q].todo = pass[p].todo \ {t} /\ pass'[q].unfinished = pass[p].unfinished
        BY <1>3, <2>1, DoneState DEF t
      <3>2. ASSUME NEW r \in Live \ overtaken,
                   r \in pass'[q].ids \ (pass'[q].todo \cup pass'[q].unfinished)
            PROVE  Answered(r)'
        <4>1. r = t \/ Answered(r)
          BY <1>t, <1>3, <3>1, <3>2 DEF KeptBy
        <4> QED
          BY <1>5, <4>1
      <3> QED
        BY <1>3, <3>1, <3>2 DEF KeptBy, Live
    <2>2. CASE q # p
      <3>1. pass'[q] = pass[q] /\ KeptBy(pass[q])
        BY <1>t, <1>3, <2>2 DEF Kept, DoneWith
      <3> QED
        BY <1>3, <1>5, <3>1 DEF KeptBy, Live
    <2> QED
      BY <2>1, <2>2
  <1> QED
    BY <1>3, <1>6, <1>7, <1>8, <1>9 DEF Kept, Live

\* The work that is settled is of situations whose bindings answer.
LEMMA SettleKept ==
  ASSUME Typed, Kept, NEW p \in Pass, Settle(p)
  PROVE  Kept'
  <1>1. KeptBy(pass[p]) /\ pass[p].stage = "binding" /\ pass[p].todo = {}
    BY DEF Kept, Settle
  <1>2. \A r \in Acknowledged(p) \cap (Live \ overtaken) : Answered(r)
    BY <1>1 DEF Acknowledged, KeptBy
  <1>3. \A r \in Records : r \notin Acknowledged(p) /\ Queued(r) => Queued(r)'
    BY DEF Settle, Queued, Typed, BindingTypeOK, Work
  <1>4. UNCHANGED <<situation, binding, graph, overtaken>> /\ Over(p)
    BY DEF Settle
  <1>5. WorkIsKept'
    BY <1>2, <1>3, <1>4 DEF Kept, WorkIsKept, Live, Answered
  <1> QED
    BY <1>4, <1>5, OverKept

LEMMA BindKept ==
  ASSUME Typed, Kept, NEW p \in Pass
  PROVE  /\ \A r \in Records, error \in BOOLEAN : Resolve(p, r, error) => Kept'
         /\ Fence(p) \/ WriteFails(p) \/ PassFails(p) => Kept'
  <1>t. pass[p] \in PassState /\ KeptBy(pass[p]) /\ HandFull(pass[p])
    BY DEF Typed, BindingTypeOK, Kept
  <1>1. ASSUME NEW r \in Records, NEW error \in BOOLEAN, Resolve(p, r, error) PROVE Kept'
    <2> DEFINE retried == IF error THEN pass[p].retry \cup {r} ELSE pass[p].retry
               s == [pass[p] EXCEPT !.stage = "resolved", !.target = r, !.of = spine,
                                    !.retry = retried]
    <2>1. /\ s.stage = "resolved" /\ s.ids = pass[p].ids /\ s.todo = pass[p].todo
          /\ s.unfinished = pass[p].unfinished
      BY <1>t DEF PassState
    <2>2. pass' = [pass EXCEPT ![p] = s] /\ pass[p].stage = "binding"
      BY <1>1 DEF Resolve
    <2> HIDE DEF s
    <2>3. KeptBy(s)
      BY <1>t, <2>1, <2>2 DEF KeptBy
    <2> QED
      BY <1>1, <2>2, <2>3, MoveKept DEF Resolve
  <1>2. ASSUME Fence(p) PROVE Kept'
    <2>1. CASE Stands(p, pass[p].target)
      <3> DEFINE s == [pass[p] EXCEPT !.stage = "fenced"]
      <3>1. /\ s.stage = "fenced" /\ s.ids = pass[p].ids /\ s.todo = pass[p].todo
            /\ s.unfinished = pass[p].unfinished /\ s.target = pass[p].target
            /\ s.seen = pass[p].seen /\ s.generation = pass[p].generation
        BY <1>t DEF PassState
      <3>2. pass' = [pass EXCEPT ![p] = s] /\ pass[p].stage = "resolved"
        BY <1>2, <2>1 DEF Fence
      <3> HIDE DEF s
      <3>3. KeptBy(s)
        BY <1>t, <2>1, <3>1, <3>2 DEF KeptBy, Stands
      <3> QED
        BY <1>2, <3>2, <3>3, MoveKept DEF Fence
    <2>2. CASE ~Stands(p, pass[p].target)
      BY <1>2, <2>2, FailedKept DEF Fence
    <2> QED
      BY <2>1, <2>2
  <1>3. WriteFails(p) => Kept'
    BY FailedKept DEF WriteFails
  <1>4. PassFails(p) => Kept'
    BY OverKept, WorkStands DEF PassFails
  <1> QED
    BY <1>1, <1>2, <1>3, <1>4

LEMMA StepKept == Typed /\ Kept /\ [BindingNext]_bindingVars => Kept'
  <1> SUFFICES ASSUME Typed, Kept, [BindingNext]_bindingVars PROVE Kept'
    OBVIOUS
  <1>1. CASE UNCHANGED bindingVars
    BY <1>1 DEF bindingVars, Kept, KeptBy, InForce, WorkIsKept, Live, Queued, Answered
  <1>2. CASE BindingNext
    BY <1>2, WorldKept, BeginKept, CompareKept, BindKept, WriteKept, SettleKept DEF BindingNext
  <1> QED
    BY <1>1, <1>2

\* The work of a live situation is queued until its binding answers for the revision
\* stored and the graph in force, whatever passes run at once, fail or die, but for
\* work that overtook a pass.
THEOREM KeptWork == BindingSpec => []WorkIsKept
  <1>1. Kept => WorkIsKept
    BY DEF Kept
  <1> QED
    BY <1>1, InitKept, StepKept, AlwaysTyped, PTL DEF BindingSpec
=============================================================================
