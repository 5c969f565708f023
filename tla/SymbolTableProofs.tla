------------------------- MODULE SymbolTableProofs -------------------------
(***************************************************************************)
(* Theorems about SymbolTable, for every set of names and every bound:     *)
(* what every call finds, what the two traversals see, and that it         *)
(* implements Scoping.                                                     *)
(*                                                                         *)
(* The argument: count, for every level, the scopes that were opened there *)
(* and closed again ("Closed").  In the build the current scope of a level *)
(* is always the last of its queue.  In the visit the number of scopes     *)
(* polled from a queue is the number the build had closed at the same      *)
(* call; so the scope that enter() moves to is the one indent() had        *)
(* appended, and dedent() stops where leave() had stopped, because the     *)
(* symbols of a scope do not change once it is closed.                     *)
(*                                                                         *)
(* For what the traversals see: an item carries the number it was          *)
(* allocated with, so what a scope linked at an earlier call is what it    *)
(* links at the end, less the items with greater numbers ("Grows").  And a *)
(* scope is opened by exactly one call of the log ("Named"), which makes   *)
(* the places in the queues names of scopes.                               *)
(***************************************************************************)
EXTENDS SymbolTableScoping, SymbolsProofs, SequenceTheorems

-----------------------------------------------------------------------------
(* The inductive invariant. *)

\* The table the build ended with (or has so far).
Final == snap[Len(log) + 1]

Typed == /\ mode \in {"build", "visit", "over"}
         /\ log \in Seq(Call)
         /\ pos \in 1 .. Len(log) + 1
         /\ snap \in Seq({snap[p] : p \in 1 .. Len(log) + 1})
         /\ Len(snap) = Len(log) + 1
         /\ SymbolsOK(symbols)

\* The tables of the build follow one another by the calls of the log, and each
\* of them comes before the last.
History ==
    /\ snap[1] = symbols_new
    /\ \A p \in 1 .. Len(log) + 1 :
          SymbolsOK(snap[p]) /\ BuildQueues(snap[p]) /\ Before(snap[p], Final)
    /\ \A p \in 1 .. Len(log) : /\ snap[p + 1] = Apply(log[p], snap[p])
                                /\ log[p].op = "leave" => snap[p].level > 0

\* The table now, against the tables of the build.
Phases ==
    /\ mode = "build" => symbols = Final /\ pos = 1
    /\ mode # "build" => Final.level = 0 /\ VisitQueues(symbols)
    /\ mode = "visit" => Matches(symbols, snap[pos], Final)
    /\ mode = "over" => /\ symbols.level = -1
                        /\ \A l \in 0 .. symbols.depth - 1 :
                              symbols.levels[l].begin = symbols.levels[l].end

IInv == Typed /\ History /\ Phases

\* The invariant holds of a new table.
LEMMA InitIInv == Init => IInv
<1> SUFFICES ASSUME Init PROVE IInv
  OBVIOUS
<1>1. /\ symbols = symbols_new /\ mode = "build" /\ log = <<>> /\ pos = 1
      /\ snap = <<symbols_new>>
  BY DEF Init
<1>2. Len(log) = 0 /\ Len(snap) = 1 /\ snap[1] = symbols_new /\ log \in Seq(Call)
  BY <1>1
<1>3. Final = symbols_new
  BY <1>2 DEF Final
<1>4. snap \in Seq({snap[p] : p \in 1 .. Len(log) + 1})
  <2>1. symbols_new \in {snap[p] : p \in 1 .. Len(log) + 1}
    BY <1>2
  <2> QED
    BY <1>1, <2>1
<1>5. Typed
  BY <1>1, <1>2, <1>4, NewBuilds DEF Typed
<1>6. History
  <2>1. Before(symbols_new, symbols_new)
    BY NewBuilds, BeforeItself
  <2> QED
    BY <1>2, <1>3, <2>1, NewBuilds DEF History
<1>7. Phases
  BY <1>1, <1>3 DEF Phases
<1> QED
  BY <1>5, <1>6, <1>7 DEF IInv

\* A call of the build that keeps the shape of the queues keeps the invariant.
LEMMA BuildKeepsIInv ==
    ASSUME IInv, NEW call \in Call, Build(call),
           SymbolsOK(symbols'), BuildQueues(symbols'), Before(symbols, symbols'),
           call.op = "leave" => symbols.level > 0
    PROVE  IInv'
<1>1. /\ mode = "build" /\ mode' = mode /\ pos' = pos /\ pos = 1 /\ symbols = Final
      /\ symbols' = Apply(call, symbols)
      /\ log' = Append(log, call) /\ snap' = Append(snap, symbols')
  BY DEF IInv, Phases, Build
<1>2. /\ log \in Seq(Call) /\ Len(log) \in Nat /\ Len(snap) = Len(log) + 1
      /\ snap \in Seq({snap[p] : p \in 1 .. Len(log) + 1})
  BY DEF IInv, Typed
<1>3. /\ log' \in Seq(Call) /\ Len(log') = Len(log) + 1
      /\ \A p \in 1 .. Len(log) : log'[p] = log[p]
      /\ log'[Len(log) + 1] = call
  BY <1>1, <1>2
<1>4. /\ Len(snap') = Len(log) + 2
      /\ \A p \in 1 .. Len(log) + 1 : snap'[p] = snap[p]
      /\ snap'[Len(log) + 2] = symbols'
  BY <1>1, <1>2
<1>5. snap' \in Seq({snap'[p] : p \in 1 .. Len(log') + 1})
  <2> DEFINE T == {snap'[p] : p \in 1 .. Len(log') + 1}
  <2>1. \A p \in 1 .. Len(log) + 1 : snap[p] \in T
    BY <1>2, <1>3, <1>4
  <2>2. symbols' \in T
    BY <1>2, <1>3, <1>4
  <2>3. snap \in Seq(T)
    <3>1. {snap[p] : p \in 1 .. Len(log) + 1} \subseteq T
      BY <2>1
    <3> HIDE DEF T
    <3> QED
      BY <1>2, <3>1, SeqMonotonic
  <2> HIDE DEF T
  <2>4. snap' \in Seq(T)
    BY <1>1, <2>2, <2>3
  <2> QED
    BY <2>4 DEF T
<1>6. Final' = symbols'
  BY <1>2, <1>3, <1>4 DEF Final
<1>7. Typed'
  BY <1>1, <1>2, <1>3, <1>4, <1>5 DEF Typed
<1>8. History'
  <2>1. snap'[1] = symbols_new
    BY <1>2, <1>4 DEF IInv, History
  <2>2. ASSUME NEW p \in 1 .. Len(log) + 2
        PROVE  SymbolsOK(snap'[p]) /\ BuildQueues(snap'[p]) /\ Before(snap'[p], symbols')
    <3>1. CASE p = Len(log) + 2
      BY <1>4, <3>1, BeforeItself
    <3>2. CASE p # Len(log) + 2
      <4>1. p \in 1 .. Len(log) + 1 /\ Len(log) + 1 \in 1 .. Len(log) + 1
        BY <1>2, <3>2
      <4>2. SymbolsOK(snap[p]) /\ BuildQueues(snap[p]) /\ Before(snap[p], symbols)
        BY <1>1, <4>1 DEF IInv, History
      <4>3. SymbolsOK(symbols)
        BY DEF IInv, Typed
      <4>4. Before(snap[p], symbols')
        BY <4>2, <4>3, BeforeTransitive
      <4> QED
        BY <1>4, <4>1, <4>2, <4>4
    <3> QED  BY <3>1, <3>2
  <2>3. ASSUME NEW p \in 1 .. Len(log) + 1
        PROVE  /\ snap'[p + 1] = Apply(log'[p], snap'[p])
               /\ log'[p].op = "leave" => snap'[p].level > 0
    <3>1. CASE p = Len(log) + 1
      <4>1. /\ snap'[p + 1] = symbols' /\ log'[p] = call /\ snap'[p] = symbols
        BY <1>1, <1>2, <1>3, <1>4, <3>1 DEF Final
      <4> QED
        BY <1>1, <4>1
    <3>2. CASE p # Len(log) + 1
      <4>1. p \in 1 .. Len(log) /\ p + 1 \in 1 .. Len(log) + 1
        BY <1>2, <3>2
      <4>2. log'[p] = log[p] /\ snap'[p] = snap[p] /\ snap'[p + 1] = snap[p + 1]
        BY <1>2, <1>3, <1>4, <4>1
      <4>3. /\ snap[p + 1] = Apply(log[p], snap[p])
            /\ log[p].op = "leave" => snap[p].level > 0
        BY <4>1 DEF IInv, History
      <4> QED
        BY <4>2, <4>3
    <3> QED  BY <3>1, <3>2
  <2>4. Len(log') + 1 = Len(log) + 2 /\ Len(log') = Len(log) + 1
    BY <1>2, <1>3
  <2> QED
    BY <1>6, <2>1, <2>2, <2>3, <2>4 DEF History
<1>9. Phases'
  BY <1>1, <1>6 DEF Phases
<1> QED
  BY <1>7, <1>8, <1>9 DEF IInv

\* The state the visit is in, between two calls.
LEMMA VisitState ==
    ASSUME IInv, mode = "visit", NEW p, p = pos
    PROVE  /\ p \in 1 .. Len(log) + 1 /\ Len(log) \in Nat
           /\ Together(symbols, snap[p], Final)
           /\ p <= Len(log) =>
                 /\ log[p] \in Call
                 /\ snap[p + 1] = Apply(log[p], snap[p])
                 /\ log[p].op = "leave" => snap[p].level > 0
                 /\ Before(snap[p + 1], Final)
           /\ p = Len(log) + 1 => symbols.level = 0
<1>1. /\ log \in Seq(Call) /\ Len(log) \in Nat /\ p \in 1 .. Len(log) + 1
      /\ SymbolsOK(symbols)
  BY DEF IInv, Typed
<1>2. Final.level = 0 /\ VisitQueues(symbols) /\ Matches(symbols, snap[p], Final)
  BY DEF IInv, Phases
<1>3. \A q \in 1 .. Len(log) + 1 :
         SymbolsOK(snap[q]) /\ BuildQueues(snap[q]) /\ Before(snap[q], Final)
  BY DEF IInv, History
<1>4. Together(symbols, snap[p], Final)
  <2>1. Len(log) + 1 \in 1 .. Len(log) + 1
    BY <1>1
  <2> QED
    BY <1>1, <1>2, <1>3, <2>1 DEF Together, Final
<1>5. ASSUME p <= Len(log)
      PROVE  /\ log[p] \in Call
             /\ snap[p + 1] = Apply(log[p], snap[p])
             /\ log[p].op = "leave" => snap[p].level > 0
             /\ Before(snap[p + 1], Final)
  <2>1. p \in 1 .. Len(log) /\ p + 1 \in 1 .. Len(log) + 1
    BY <1>1, <1>5
  <2>2. /\ snap[p + 1] = Apply(log[p], snap[p])
        /\ log[p].op = "leave" => snap[p].level > 0
    BY <2>1 DEF IInv, History
  <2> QED
    BY <1>1, <1>3, <2>1, <2>2
<1>6. p = Len(log) + 1 => symbols.level = 0
  BY <1>2 DEF Final, Matches
<1> QED
  BY <1>1, <1>4, <1>5, <1>6

\* A call of the visit keeps the history, and moves the table with the build's.
LEMMA VisitKeepsIInv ==
    ASSUME IInv, mode = "visit", mode' = mode, UNCHANGED <<log, snap>>,
           pos <= Len(log), pos' = pos + 1,
           SymbolsOK(symbols'), VisitQueues(symbols'),
           Matches(symbols', snap[pos + 1], Final)
    PROVE  IInv'
<1>1. Final' = Final
  BY DEF Final
<1>2. pos' \in 1 .. Len(log) + 1
  BY DEF IInv, Typed
<1>3. Typed'
  BY <1>2 DEF IInv, Typed
<1>4. History'
  BY <1>1 DEF IInv, History
<1>5. Phases'
  BY <1>1 DEF IInv, Phases
<1> QED
  BY <1>3, <1>4, <1>5 DEF IInv

\* What the calls of the log are.
LEMMA CallForms ==
    ASSUME NEW call \in Call
    PROVE  /\ call.op \in {"indent", "leave", "add"}
           /\ call.op = "add" => call.key \in Name
           /\ \A s : /\ call.op = "indent" => Apply(call, s) = symbols_indent(s)
                     /\ call.op = "leave" => Apply(call, s) = symbols_leave(s)
                     /\ call.op = "add" =>
                           Apply(call, s) = symbols_add(s, call.key, "VARIABLE")
<1>1. call.op \in {"indent", "leave", "add"} /\ (call.op = "add" => call.key \in Name)
  BY DEF Call
<1> QED
  BY <1>1 DEF Apply

\* Every step keeps the invariant.
LEMMA NextIInv == IInv /\ [Next]_vars => IInv'
<1> SUFFICES ASSUME IInv, [Next]_vars PROVE IInv'
  OBVIOUS
<1>1. Len(log) + 1 \in 1 .. Len(log) + 1 /\ Len(log) \in Nat /\ SymbolsOK(symbols)
  BY DEF IInv, Typed
<1>2. mode = "build" => BuildQueues(symbols) /\ symbols = Final /\ pos = 1
  BY <1>1 DEF IInv, History, Phases, Final
<1>3. CASE Indent
  <2>1. [op |-> "indent"] \in Call /\ Build([op |-> "indent"]) /\ RoomAbove(symbols)
    BY <1>3 DEF Indent, Call
  <2>2. mode = "build" /\ symbols' = symbols_indent(symbols)
    BY <2>1 DEF Build, Apply
  <2>3. SymbolsOK(symbols') /\ BuildQueues(symbols') /\ Before(symbols, symbols')
    BY <1>1, <1>2, <2>1, <2>2, IndentBuilds
  <2> QED
    BY <2>1, <2>3, BuildKeepsIInv
<1>4. ASSUME NEW key \in Name, Add(key)
      PROVE  IInv'
  <2> DEFINE call == [op |-> "add", key |-> key]
  <2>1. call \in Call /\ Build(call) /\ call.op = "add"
    BY <1>4 DEF Add, Call
  <2>2. mode = "build" /\ symbols' = symbols_add(symbols, key, "VARIABLE")
    BY <2>1 DEF Build, Apply
  <2> HIDE DEF call
  <2>3. SymbolsOK(symbols') /\ BuildQueues(symbols') /\ Before(symbols, symbols')
    BY <1>1, <1>2, <2>2, AddBuilds DEF Tag
  <2> QED
    BY <2>1, <2>3, BuildKeepsIInv
<1>5. CASE Leave
  <2>1. [op |-> "leave"] \in Call /\ Build([op |-> "leave"]) /\ symbols.level > 0
    BY <1>5 DEF Leave, Call
  <2>2. mode = "build" /\ symbols' = symbols_leave(symbols)
    BY <2>1 DEF Build, Apply
  <2>3. SymbolsOK(symbols') /\ BuildQueues(symbols') /\ Before(symbols, symbols')
    BY <1>1, <1>2, <2>1, <2>2, LeaveBuilds
  <2> QED
    BY <2>1, <2>3, BuildKeepsIInv
<1>6. CASE Turn
  <2>1. /\ mode = "build" /\ mode' = "visit" /\ symbols.level = 0 /\ symbols' = symbols
        /\ log' = log /\ pos' = pos /\ snap' = snap
    BY <1>6 DEF Turn
  <2>2. VisitQueues(symbols) /\ Matches(symbols, symbols_new, symbols)
    BY <1>1, <1>2, <2>1, TurnMatches
  <2>3. Final' = Final
    BY <2>1 DEF Final
  <2>4. snap[1] = symbols_new
    BY DEF IInv, History
  <2>5. Typed' /\ History'
    BY <2>1, <2>3 DEF IInv, Typed, History
  <2>6. Phases'
    BY <1>2, <2>1, <2>2, <2>3, <2>4 DEF Phases
  <2> QED
    BY <2>5, <2>6 DEF IInv
<1>7. CASE Enter
  <2>1. /\ mode = "visit" /\ pos <= Len(log) /\ log[pos].op = "indent" /\ mode' = mode
        /\ pos' = pos + 1 /\ log' = log /\ snap' = snap
        /\ symbols' = symbols_enter(symbols)
    BY <1>7 DEF Enter, Visit, Visiting
  <2>2. /\ Together(symbols, snap[pos], Final) /\ log[pos] \in Call
        /\ snap[pos + 1] = Apply(log[pos], snap[pos]) /\ Before(snap[pos + 1], Final)
    BY <2>1, VisitState
  <2>3. snap[pos + 1] = symbols_indent(snap[pos])
    BY <2>1, <2>2, CallForms
  <2>4. /\ SymbolsOK(symbols') /\ VisitQueues(symbols')
        /\ Matches(symbols', snap[pos + 1], Final)
    BY <2>1, <2>2, <2>3, EnterFollows
  <2> QED
    BY <2>1, <2>4, VisitKeepsIInv
<1>8. CASE Recall
  <2>1. /\ mode = "visit" /\ pos <= Len(log) /\ log[pos].op = "add" /\ mode' = mode
        /\ pos' = pos + 1 /\ log' = log /\ snap' = snap /\ symbols' = symbols
    BY <1>8 DEF Recall, Visit, Visiting
  <2>2. /\ Together(symbols, snap[pos], Final) /\ log[pos] \in Call
        /\ snap[pos + 1] = Apply(log[pos], snap[pos])
    BY <2>1, VisitState
  <2>3. snap[pos + 1] = symbols_add(snap[pos], log[pos].key, "VARIABLE")
    BY <2>1, <2>2, CallForms
  <2>4. /\ SymbolsOK(symbols) /\ VisitQueues(symbols)
        /\ Matches(symbols, snap[pos + 1], Final)
    <3>1. /\ snap[pos + 1].level = snap[pos].level
          /\ \A k \in Nat : Closed(snap[pos + 1], k) = Closed(snap[pos], k)
      BY <2>2, <2>3, AddCloses DEF Together
    <3> QED
      BY <2>2, <3>1 DEF Together, Matches
  <2> QED
    BY <2>1, <2>4, VisitKeepsIInv
<1>9. CASE Dedent
  <2>1. /\ mode = "visit" /\ pos <= Len(log) /\ log[pos].op = "leave" /\ mode' = mode
        /\ pos' = pos + 1 /\ log' = log /\ snap' = snap
        /\ symbols' = symbols_dedent(symbols)
    BY <1>9 DEF Dedent, Visit, Visiting
  <2>2. /\ Together(symbols, snap[pos], Final) /\ log[pos] \in Call
        /\ snap[pos + 1] = Apply(log[pos], snap[pos]) /\ Before(snap[pos + 1], Final)
        /\ snap[pos].level > 0
    BY <2>1, VisitState
  <2>3. snap[pos + 1] = symbols_leave(snap[pos])
    BY <2>1, <2>2, CallForms
  <2>4. /\ SymbolsOK(symbols') /\ VisitQueues(symbols')
        /\ Matches(symbols', snap[pos + 1], Final)
    BY <2>1, <2>2, <2>3, DedentFollows
  <2> QED
    BY <2>1, <2>4, VisitKeepsIInv
<1>10. CASE Delete
  <2>1. /\ mode = "visit" /\ pos = Len(log) + 1 /\ mode' = "over"
        /\ symbols' = symbols_dedent(symbols)
        /\ log' = log /\ pos' = pos /\ snap' = snap
    BY <1>10 DEF Delete
  <2>2. Together(symbols, snap[pos], Final) /\ symbols.level = 0
    BY <2>1, VisitState
  <2>3. SymbolsOK(symbols) /\ VisitQueues(symbols) /\ snap[pos] = Final
    BY <2>1, <2>2 DEF Together, Final
  <2> DEFINE stop == DedentStop(symbols)
  <2>4. /\ stop \in 0 .. 0 /\ SymbolsOK(symbols') /\ VisitQueues(symbols')
        /\ symbols'.level = stop - 1 /\ symbols'.depth = symbols.depth
        /\ \A k \in 0 .. symbols.depth - 1 :
              /\ symbols'.levels[k].end = symbols.levels[k].end
              /\ symbols'.levels[k].begin = symbols.levels[k].begin +
                                               (IF k \in stop .. 0 THEN 1 ELSE 0)
    BY <2>1, <2>2, <2>3, DedentQueues
  <2> HIDE DEF stop
  <2>5. symbols'.level = -1 /\ stop = 0
    BY <2>4
  <2>6. ASSUME NEW k \in 0 .. symbols.depth - 1
        PROVE  symbols'.levels[k].begin = symbols'.levels[k].end
    <3>1. /\ symbols.levels[k].end = Final.levels[k].end
          /\ symbols.levels[k].begin = Closed(Final, k)
          /\ symbols.depth = Final.depth /\ Final.level = 0 /\ Final.levels[0].end = 1
      BY <2>2, <2>3 DEF Together, Matches, BuildQueues
    <3>2. symbols.depth \in Nat
      BY <1>1 DEF SymbolsOK
    <3>3. Closed(Final, k) = IF k > 0 THEN Final.levels[k].end ELSE Final.levels[k].end - 1
      BY <3>1, <3>2 DEF Closed
    <3>4. symbols.levels[k].end \in Nat
      BY <1>1, QueueTypes
    <3>5. CASE k = 0
      BY <2>4, <2>5, <3>1, <3>3, <3>5
    <3>6. CASE k # 0
      BY <2>4, <2>5, <3>1, <3>3, <3>4, <3>6
    <3> QED  BY <3>5, <3>6
  <2>7. Final' = Final
    BY <2>1 DEF Final
  <2>8. Typed' /\ History'
    BY <2>1, <2>4, <2>7 DEF IInv, Typed, History
  <2>9. Phases'
    <3>1. Final.level = 0
      BY <2>1 DEF IInv, Phases
    <3> QED
      BY <2>1, <2>4, <2>5, <2>6, <2>7, <3>1 DEF Phases
  <2> QED
    BY <2>8, <2>9 DEF IInv
<1>11. CASE UNCHANGED vars
  <2>1. /\ symbols' = symbols /\ mode' = mode /\ log' = log /\ pos' = pos /\ snap' = snap
    BY <1>11 DEF vars
  <2>2. Final' = Final
    BY <2>1 DEF Final
  <2> QED
    BY <2>1, <2>2 DEF IInv, Typed, History, Phases
<1>12. CASE Over
  BY <1>11, <1>12 DEF Over
<1> QED
  BY <1>3, <1>4, <1>5, <1>6, <1>7, <1>8, <1>9, <1>10, <1>11, <1>12 DEF Next, Revisit

-----------------------------------------------------------------------------
(* What the inductive invariant gives. *)

\* The counters of the scopes hold: the build opens a scope only where there is room,
\* and the visit opens none.
AllFit == Fits(symbols) /\ \A p \in 1 .. Len(log) + 1 : Fits(snap[p])

LEMMA NextAllFit ==
    ASSUME IInv, IInv', AllFit, [Next]_vars
    PROVE  AllFit'
<1>1. SymbolsOK(symbols) /\ Len(log) \in Nat /\ Len(snap) = Len(log) + 1
      /\ snap \in Seq({snap[p] : p \in 1 .. Len(log) + 1})
  BY DEF IInv, Typed
<1>2. mode = "build" => BuildQueues(symbols)
  BY DEF IInv, History, Phases, Final
<1>3. ASSUME NEW call \in Call, Build(call), Fits(symbols')
      PROVE  AllFit'
  <2>1. log' = Append(log, call) /\ snap' = Append(snap, symbols')
    BY <1>3 DEF Build
  <2>2. Len(log') = Len(log) + 1 /\ log \in Seq(Call)
    BY <2>1 DEF IInv, Typed
  <2>3. \A p \in 1 .. Len(log) + 2 :
           snap'[p] = IF p = Len(log) + 2 THEN symbols' ELSE snap[p]
    BY <1>1, <2>1
  <2> QED
    BY <1>1, <1>3, <2>2, <2>3 DEF AllFit
<1>4. CASE Indent
  <2>1. [op |-> "indent"] \in Call /\ Build([op |-> "indent"]) /\ RoomAbove(symbols)
    BY <1>4 DEF Indent, Call
  <2>2. mode = "build" /\ symbols' = symbols_indent(symbols)
    BY <2>1 DEF Build, Apply
  <2> DEFINE l == symbols.level + 1
             t == symbols_indent(symbols)
  <2>3. /\ t.depth \in Nat
        /\ \A j \in 0 .. symbols.depth - 1 :
              t.levels[j].end = symbols.levels[j].end + (IF j = l THEN 1 ELSE 0)
        /\ \A j \in symbols.depth .. t.depth - 1 : j = l /\ t.levels[j].end = 1
    BY <1>1, <1>2, <2>2, IndentScopes
  <2>4. \A j \in 0 .. symbols.depth - 1 : symbols.levels[j].end \in Nat
    BY <1>1, QueueTypes
  <2>5. symbols.depth \in Nat /\ (l < symbols.depth => symbols.levels[l].end < MaxScopes)
        /\ \A j \in 0 .. symbols.depth - 1 : symbols.levels[j].end <= MaxScopes
    BY <1>1, <2>1 DEF SymbolsOK, RoomAbove, AllFit, Fits
  <2> HIDE DEF l, t
  <2>6. \A j \in 0 .. t.depth - 1 : t.levels[j].end <= MaxScopes
    <3> TAKE j \in 0 .. t.depth - 1
    <3>1. CASE j < symbols.depth
      BY <2>3, <2>4, <2>5, <3>1, BoundAssumption
    <3>2. CASE ~(j < symbols.depth)
      BY <2>3, <2>5, <3>2, BoundAssumption
    <3> QED  BY <3>1, <3>2
  <2>7. Fits(symbols')
    BY <2>2, <2>6 DEF Fits, t
  <2> QED
    BY <1>3, <2>1, <2>7
<1>5. ASSUME NEW key \in Name, Add(key)
      PROVE  AllFit'
  <2>1. /\ [op |-> "add", key |-> key] \in Call /\ Build([op |-> "add", key |-> key])
        /\ symbols' = symbols_add(symbols, key, "VARIABLE") /\ mode = "build"
    BY <1>5 DEF Add, Call, Build, Apply
  <2>2. /\ symbols'.depth = symbols.depth
        /\ \A j \in 0 .. symbols.depth - 1 : symbols'.levels[j].end = symbols.levels[j].end
    BY <1>1, <1>2, <2>1, AddScopes
  <2> QED
    BY <1>3, <2>1, <2>2 DEF AllFit, Fits
<1>6. CASE Leave
  <2>1. /\ [op |-> "leave"] \in Call /\ Build([op |-> "leave"])
        /\ symbols' = symbols_leave(symbols)
    BY <1>6 DEF Leave, Call, Build, Apply
  <2>2. symbols'.depth = symbols.depth /\ symbols'.levels = symbols.levels
    BY <1>1, <2>1, SymbolsLeave DEF SymbolsOK
  <2> QED
    BY <1>3, <2>1, <2>2 DEF AllFit, Fits
<1>7. CASE Enter \/ Dedent
  <2>1. mode' = "visit" /\ log' = log /\ snap' = snap
    BY <1>7 DEF Enter, Dedent, Visit, Visiting
  <2>2. Matches(symbols, snap[pos], Final)'
    BY <2>1 DEF IInv, Phases
  <2>3. /\ symbols'.depth = Final.depth
        /\ \A j \in 0 .. Final.depth - 1 : symbols'.levels[j].end = Final.levels[j].end
    BY <2>1, <2>2 DEF Matches, Final
  <2>4. Fits(Final)
    BY <1>1 DEF AllFit, Final
  <2> QED
    BY <2>1, <2>3, <2>4 DEF AllFit, Fits
<1>8. CASE Delete
  <2>1. /\ mode = "visit" /\ symbols' = symbols_dedent(symbols) /\ log' = log
        /\ snap' = snap /\ DedentAsserts(symbols)
    BY <1>8 DEF Delete
  <2>2. VisitQueues(symbols) /\ symbols.level >= 0
    BY <2>1 DEF IInv, Phases, DedentAsserts
  <2>3. /\ symbols'.depth = symbols.depth
        /\ \A j \in 0 .. symbols.depth - 1 : symbols'.levels[j].end = symbols.levels[j].end
    BY <1>1, <2>1, <2>2, DedentQueues
  <2> QED
    BY <2>1, <2>3 DEF AllFit, Fits
<1>9. CASE Turn \/ Recall \/ Over \/ UNCHANGED vars
  BY <1>9 DEF Turn, Recall, Visit, Over, vars, AllFit, Fits
<1> QED
  BY <1>4, <1>5, <1>6, <1>7, <1>8, <1>9 DEF Next, Revisit

\* Every level always has a current scope inside its queue, so level_at is never
\* read out of bounds, whatever the client and however many scopes a level has.
THEOREM TypeCorrect == Spec => []TypeOK
<1>1. Init => IInv /\ AllFit
  BY InitIInv, NewBuilds, BoundAssumption DEF Init, AllFit, Fits
<1>2. IInv /\ [Next]_vars => IInv'
  BY NextIInv
<1>3. IInv /\ IInv' /\ AllFit /\ [Next]_vars => AllFit'
  BY NextAllFit
<1>4. IInv /\ AllFit => TypeOK
  BY DEF IInv, Typed, History, AllFit, TypeOK
<1> QED
  BY <1>1, <1>2, <1>3, <1>4, PTL DEF Spec

\* No call of the second traversal is undefined: enter() always finds a level
\* that is not freed, and the assertion of symbols_dedent never fails.
THEOREM CallsAreDefined == Spec => []CallsDefined
<1>1. Init => IInv
  BY InitIInv
<1>2. IInv /\ [Next]_vars => IInv'
  BY NextIInv
<1>3. IInv => CallsDefined
  <2> SUFFICES ASSUME IInv PROVE CallsDefined
    OBVIOUS
  <2>1. ASSUME Visiting("indent")
        PROVE  CanEnter(symbols)
    <3>1. mode = "visit" /\ pos <= Len(log) /\ log[pos].op = "indent"
      BY <2>1 DEF Visiting
    <3>2. /\ Together(symbols, snap[pos], Final) /\ log[pos] \in Call
          /\ snap[pos + 1] = Apply(log[pos], snap[pos]) /\ Before(snap[pos + 1], Final)
      BY <3>1, VisitState
    <3>3. snap[pos + 1] = symbols_indent(snap[pos])
      BY <3>1, <3>2, CallForms
    <3> QED
      BY <3>2, <3>3, EnterFollows
  <2>2. ASSUME mode = "visit"
        PROVE  DedentAsserts(symbols)
    <3>1. Together(symbols, snap[pos], Final)
      BY <2>2, VisitState
    <3>2. SymbolsOK(symbols) /\ VisitQueues(symbols) /\ symbols.level >= 0
      BY <3>1 DEF Together, Matches, BuildQueues, SymbolsOK
    <3> QED
      BY <3>2, DedentQueues
  <2> QED
    BY <2>1, <2>2 DEF CallsDefined
<1> QED
  BY <1>1, <1>2, <1>3, PTL DEF Spec

\* The second traversal is always in the scopes the first one was in at the same
\* call: what the two-pass design of the symbol table rests on.
THEOREM PathIsSame == Spec => []SamePath
<1>1. Init => IInv
  BY InitIInv
<1>2. IInv /\ [Next]_vars => IInv'
  BY NextIInv
<1>3. IInv => SamePath
  <2> SUFFICES ASSUME IInv, mode = "visit"
               PROVE  Path(symbols) = Path(snap[pos])
    BY DEF SamePath
  <2>1. Together(symbols, snap[pos], Final)
    BY VisitState
  <2>2. symbols.level = snap[pos].level
    BY <2>1 DEF Together, Matches
  <2>3. \A l \in 0 .. symbols.level : symbols.levels[l].scope = snap[pos].levels[l].scope
    <3> TAKE l \in 0 .. symbols.level
    <3> QED
      BY <2>1, OpenScopes
  <2> QED
    BY <2>2, <2>3 DEF Path
<1> QED
  BY <1>1, <1>2, <1>3, PTL DEF Spec

-----------------------------------------------------------------------------
(* The hash table against the queues. *)

\* Coherent, restated about one table and item by item.
LEMMA CoherentIsTable == Coherent <=> CoherentTable(symbols)
<1>1. (\A item : item \in symbols.table <=> Held(symbols, item)) <=>
        symbols.table = UNION {Linked(symbols.levels[l]) : l \in 0 .. symbols.depth - 1}
  <2> DEFINE U == UNION {Linked(symbols.levels[l]) : l \in 0 .. symbols.depth - 1}
  <2>1. \A item : item \in U <=> Held(symbols, item)
    BY DEF Linked, Held
  <2> HIDE DEF U
  <2>2. (\A item : item \in symbols.table <=> Held(symbols, item)) <=> symbols.table = U
    BY <2>1
  <2> QED
    BY <2>2 DEF U
<1> QED
  BY <1>1 DEF Coherent, CoherentTable, Stamped

\* The table and the queues always describe the same symbols, so the walk of a
\* bucket in symbols_dedent, which tests for no end, always meets its item.
THEOREM TableCoherent == Spec => []Coherent
<1> DEFINE J == IInv /\ CoherentTable(symbols)
<1>1. Init => J
  BY InitIInv, CoherentNew DEF Init
<1>2. J /\ [Next]_vars => J'
  <2> SUFFICES ASSUME IInv, CoherentTable(symbols), [Next]_vars
               PROVE  CoherentTable(symbols')
    BY NextIInv
  <2>1. SymbolsOK(symbols) /\ Len(log) + 1 \in 1 .. Len(log) + 1
    BY DEF IInv, Typed
  <2>2. mode = "build" => BuildQueues(symbols)
    BY <2>1 DEF IInv, History, Phases, Final
  <2>3. mode = "visit" => VisitQueues(symbols)
    BY DEF IInv, Phases
  <2>4. CASE Indent
    <3>1. mode = "build" /\ symbols' = symbols_indent(symbols)
      BY <2>4 DEF Indent, Build, Apply
    <3> QED
      BY <2>1, <2>2, <3>1, CoherentIndent
  <2>5. ASSUME NEW key \in Name, Add(key)
        PROVE  CoherentTable(symbols')
    <3>1. mode = "build" /\ symbols' = symbols_add(symbols, key, "VARIABLE")
      BY <2>5 DEF Add, Build, Apply
    <3> QED
      BY <2>1, <2>2, <3>1, CoherentAdd
  <2>6. CASE Leave
    <3>1. symbols' = symbols_leave(symbols)
      BY <2>6 DEF Leave, Build, Apply
    <3> QED
      BY <2>1, <3>1, CoherentLeave
  <2>7. CASE Enter
    BY <2>1, <2>7, CoherentEnter DEF Enter
  <2>8. CASE Dedent \/ Delete
    <3>1. mode = "visit" /\ symbols' = symbols_dedent(symbols) /\ DedentAsserts(symbols)
      BY <2>8 DEF Dedent, Delete, Visit, Visiting
    <3>2. symbols.level >= 0
      BY <3>1 DEF DedentAsserts
    <3> QED
      BY <2>1, <2>3, <3>1, <3>2, CoherentDedent
  <2>9. CASE Turn \/ Recall \/ Over \/ UNCHANGED vars
    <3>1. symbols' = symbols
      BY <2>9 DEF Turn, Recall, Over, vars
    <3> QED
      BY <3>1
  <2> QED
    BY <2>4, <2>5, <2>6, <2>7, <2>8, <2>9 DEF Next, Revisit
<1>3. J => Coherent
  BY CoherentIsTable
<1> QED
  BY <1>1, <1>2, <1>3, PTL DEF Spec

\* Nothing outlives the last symbols_dedent: every symbol is unlinked and every
\* level freed, although each call only names one block.
THEOREM EverythingFreed == Spec => []AllFreed
<1>1. Init => IInv
  BY InitIInv
<1>2. IInv /\ [Next]_vars => IInv'
  BY NextIInv
<1>3. IInv /\ Coherent => AllFreed
  <2> SUFFICES ASSUME IInv, Coherent, mode = "over"
               PROVE  /\ symbols.table = {} /\ symbols.level = -1
                      /\ \A l \in 0 .. symbols.depth - 1 : symbols.levels[l].mem = "freed"
    BY DEF AllFreed
  <2>1. /\ symbols.level = -1 /\ VisitQueues(symbols) /\ SymbolsOK(symbols)
        /\ \A l \in 0 .. symbols.depth - 1 :
              symbols.levels[l].begin = symbols.levels[l].end
    BY DEF IInv, Typed, Phases
  <2>2. ASSUME NEW l \in 0 .. symbols.depth - 1
        PROVE  /\ symbols.levels[l].mem = "freed"
               /\ \A k : k \notin symbols.levels[l].begin .. symbols.levels[l].end - 1
    <3>1. /\ symbols.levels[l].begin = symbols.levels[l].end
          /\ symbols.levels[l].end \in Nat
      BY <2>1, QueueTypes
    <3> QED
      BY <2>1, <3>1 DEF VisitQueues
  <2>3. symbols.table = {}
    <3>1. \A item : ~Held(symbols, item)
      BY <2>2 DEF Held
    <3> QED
      BY <3>1, CoherentIsTable DEF CoherentTable
  <2> QED
    BY <2>1, <2>2, <2>3
<1> QED
  BY <1>1, <1>2, <1>3, TableCoherent, PTL DEF Spec

\* A queue only moves forward, a freed level is never used again, and no queue
\* grows during the visit: every scope is destroyed at most once.
THEOREM QueuesOnlyAdvance == Spec => QueuesAdvance
<1> DEFINE Forward ==
      \A l \in 0 .. symbols.depth - 1 :
          LET old == symbols.levels[l]  new == symbols'.levels[l]
          IN  /\ old.begin <= new.begin /\ old.end <= new.end
              /\ old.mem = "freed" => new = old
              /\ mode = "visit" => new.end = old.end
<1>1. Init => IInv
  BY InitIInv
<1>2. IInv /\ [Next]_vars => IInv'
  BY NextIInv
<1>3. IInv /\ [Next]_vars => [Forward]_vars
  <2> SUFFICES ASSUME IInv, Next PROVE Forward
    OBVIOUS
  <2>1. SymbolsOK(symbols) /\ Len(log) + 1 \in 1 .. Len(log) + 1
    BY DEF IInv, Typed
  <2>2. mode = "build" => BuildQueues(symbols)
    BY <2>1 DEF IInv, History, Phases, Final
  <2>3. mode = "visit" => VisitQueues(symbols)
    BY DEF IInv, Phases
  <2> SUFFICES ASSUME NEW l \in 0 .. symbols.depth - 1
               PROVE  LET old == symbols.levels[l]  new == symbols'.levels[l]
                      IN  /\ old.begin <= new.begin /\ old.end <= new.end
                          /\ old.mem = "freed" => new = old
                          /\ mode = "visit" => new.end = old.end
    OBVIOUS
  <2> DEFINE old == symbols.levels[l]
             new == symbols'.levels[l]
  <2>4. IsLevel(old) /\ old.begin \in Nat /\ old.end \in Nat /\ symbols.depth \in Nat
    BY <2>1, QueueTypes DEF SymbolsOK
  <2>5. CASE new = old
    BY <2>4, <2>5
  <2>6. CASE Indent
    <3>1. mode = "build" /\ symbols' = symbols_indent(symbols)
      BY <2>6 DEF Indent, Build, Apply
    <3>2. CASE l = symbols.level + 1
      <4>1. new = level_offer(old, {})
        BY <2>1, <3>1, <3>2, SymbolsIndent DEF SymbolsOK
      <4>2. new.begin = old.begin /\ new.end = old.end + 1
        <5>1. IsLevel(old)
          BY <2>4
        <5> HIDE DEF old, new
        <5> QED
          BY <4>1, <5>1, LevelOffer
      <4>3. old.mem # "freed"
        BY <2>2, <3>1 DEF BuildQueues
      <4> QED
        BY <2>4, <3>1, <4>2, <4>3
    <3>3. CASE l # symbols.level + 1
      BY <2>1, <2>5, <3>1, <3>3, SymbolsIndent DEF SymbolsOK
    <3> QED  BY <3>2, <3>3
  <2>7. ASSUME NEW key \in Name, Add(key)
        PROVE  /\ old.begin <= new.begin /\ old.end <= new.end
               /\ old.mem = "freed" => new = old
               /\ mode = "visit" => new.end = old.end
    <3>1. mode = "build" /\ symbols' = symbols_add(symbols, key, "VARIABLE")
      BY <2>7 DEF Add, Build, Apply
    <3>2. BuildQueues(symbols) /\ old.mem = "held"
      BY <2>2, <3>1 DEF BuildQueues
    <3>3. new.begin = old.begin /\ new.end = old.end
      BY <2>1, <3>1, <3>2, AddQueues
    <3> QED
      BY <2>4, <3>2, <3>3
  <2>8. CASE Leave
    <3>1. symbols' = symbols_leave(symbols)
      BY <2>8 DEF Leave, Build, Apply
    <3> QED
      BY <2>1, <2>5, <3>1, SymbolsLeave DEF SymbolsOK
  <2>9. CASE Enter
    <3>1. symbols' = symbols_enter(symbols) /\ CanEnter(symbols)
      BY <2>9 DEF Enter
    <3>2. /\ symbols.level + 1 \in DOMAIN symbols.levels /\ IsSymbols(symbols)
          /\ DOMAIN symbols.levels = 0 .. symbols.depth - 1
      BY <2>1, <3>1 DEF SymbolsOK, CanEnter
    <3>3. CASE l = symbols.level + 1
      <4>1. new = level_next(old)
        BY <3>1, <3>2, <3>3, SymbolsEnter
      <4>2. new.begin = old.begin /\ new.end = old.end
        BY <2>4, <4>1, LevelNext
      <4>3. old.mem # "freed"
        BY <3>1, <3>3 DEF CanEnter
      <4> QED
        BY <2>4, <4>2, <4>3
    <3>4. CASE l # symbols.level + 1
      BY <2>5, <3>1, <3>2, <3>4, SymbolsEnter
    <3> QED  BY <3>3, <3>4
  <2>10. CASE Dedent \/ Delete
    <3>1. mode = "visit" /\ symbols' = symbols_dedent(symbols) /\ DedentAsserts(symbols)
      BY <2>10 DEF Dedent, Delete, Visit, Visiting
    <3>2. symbols.level >= 0
      BY <3>1 DEF DedentAsserts
    <3>3. CASE l \in DedentStop(symbols) .. symbols.level
      <4>1. /\ new.end = old.end /\ new.begin = old.begin + 1
        BY <2>1, <2>3, <3>1, <3>2, <3>3, DedentQueues
      <4>2. old.mem # "freed"
        BY <3>1, <3>3 DEF DedentAsserts
      <4> QED
        BY <2>4, <4>1, <4>2
    <3>4. CASE l \notin DedentStop(symbols) .. symbols.level
      BY <2>1, <2>5, <3>1, <3>4, SymbolsDedent DEF SymbolsOK
    <3> QED  BY <3>3, <3>4
  <2>11. CASE Turn \/ Recall \/ Over
    <3>1. symbols' = symbols
      BY <2>11 DEF Turn, Recall, Over, vars
    <3> QED
      BY <2>5, <3>1
  <2> QED
    BY <2>6, <2>7, <2>8, <2>9, <2>10, <2>11 DEF Next, Revisit
<1> QED
  BY <1>1, <1>2, <1>3, PTL DEF Spec, QueuesAdvance

-----------------------------------------------------------------------------
(* The history of the build. *)

\* Every table of the build is coherent, and has the older items of the last one.
Grown == \A p \in 1 .. Len(log) + 1 :
            CoherentTable(snap[p]) /\ Numbered(snap[p]) /\ Grows(snap[p], Final)

\* A call of the build extends the log and the history by one.
LEMMA BuildExtends ==
    ASSUME IInv, NEW call \in Call, Build(call)
    PROVE  /\ mode = "build" /\ mode' = "build" /\ pos = 1 /\ pos' = 1
           /\ Len(log) \in Nat /\ symbols = Final /\ SymbolsOK(symbols)
           /\ BuildQueues(symbols)
           /\ symbols' = Apply(call, symbols) /\ log' = Append(log, call)
           /\ Len(log') = Len(log) + 1 /\ log'[Len(log) + 1] = call
           /\ \A p \in 1 .. Len(log) : log'[p] = log[p]
           /\ \A p \in 1 .. Len(log) + 1 : snap'[p] = snap[p]
           /\ snap'[Len(log) + 2] = symbols' /\ Final' = symbols'
<1>1. /\ mode = "build" /\ mode' = mode /\ pos' = pos /\ pos = 1 /\ symbols = Final
      /\ symbols' = Apply(call, symbols)
      /\ log' = Append(log, call) /\ snap' = Append(snap, symbols')
  BY DEF IInv, Phases, Build
<1>2. /\ log \in Seq(Call) /\ Len(log) \in Nat /\ Len(snap) = Len(log) + 1
      /\ snap \in Seq({snap[p] : p \in 1 .. Len(log) + 1})
      /\ SymbolsOK(symbols)
  BY DEF IInv, Typed
<1>3. /\ Len(log') = Len(log) + 1 /\ log'[Len(log) + 1] = call
      /\ \A p \in 1 .. Len(log) : log'[p] = log[p]
  BY <1>1, <1>2
<1>4. /\ \A p \in 1 .. Len(log) + 1 : snap'[p] = snap[p]
      /\ snap'[Len(log) + 2] = symbols'
  BY <1>1, <1>2
<1>5. Final' = symbols'
  BY <1>2, <1>3, <1>4 DEF Final
<1>6. BuildQueues(symbols)
  BY <1>1, <1>2 DEF IInv, History, Final
<1> QED
  BY <1>1, <1>2, <1>3, <1>4, <1>5, <1>6

\* A call that only adds items to its table keeps the history growing.
LEMMA BuildKeepsGrown ==
    ASSUME IInv, IInv', Grown, NEW call \in Call, Build(call),
           CoherentTable(symbols'), Numbered(symbols'), Grows(symbols, symbols')
    PROVE  Grown'
<1>1. /\ Len(log) \in Nat /\ symbols = Final /\ Len(log') = Len(log) + 1
      /\ \A p \in 1 .. Len(log) + 1 : snap'[p] = snap[p]
      /\ snap'[Len(log) + 2] = symbols' /\ Final' = symbols'
      /\ SymbolsOK(symbols)
  BY BuildExtends
<1>2. SymbolsOK(symbols')
  BY DEF IInv, Typed
<1> SUFFICES ASSUME NEW p \in 1 .. Len(log) + 2
             PROVE  /\ CoherentTable(snap'[p]) /\ Numbered(snap'[p])
                    /\ Grows(snap'[p], symbols')
  BY <1>1 DEF Grown
<1>3. CASE p = Len(log) + 2
  BY <1>1, <1>2, <1>3, GrowsItself
<1>4. CASE p # Len(log) + 2
  <2>1. p \in 1 .. Len(log) + 1
    BY <1>1, <1>4
  <2>2. SymbolsOK(snap[p])
    BY <2>1 DEF IInv, History
  <2>3. CoherentTable(snap[p]) /\ Numbered(snap[p]) /\ Grows(snap[p], symbols)
    BY <1>1, <2>1 DEF Grown
  <2>4. Grows(snap[p], symbols')
    BY <1>1, <1>2, <2>2, <2>3, GrowsTransitive
  <2> QED
    BY <1>1, <2>1, <2>3, <2>4
<1> QED  BY <1>3, <1>4

\* The history starts with a new table, in which there is nothing to number.
LEMMA InitGrown == Init => Grown
<1> SUFFICES ASSUME Init PROVE Grown
  OBVIOUS
<1>1. Len(log) = 0 /\ snap[1] = symbols_new /\ Final = symbols_new
  BY DEF Init, Final
<1>2. Numbered(symbols_new)
  BY NewBuilds DEF Numbered
<1>3. CoherentTable(symbols_new) /\ Grows(symbols_new, symbols_new)
  BY <1>2, CoherentNew, NewBuilds, GrowsItself
<1> QED
  BY <1>1, <1>2, <1>3 DEF Grown

\* Every step keeps the history growing.
LEMMA NextGrown ==
    ASSUME IInv, IInv', CoherentTable(symbols'), Grown, [Next]_vars
    PROVE  Grown'
<1>1. Len(log) \in Nat /\ SymbolsOK(symbols)
  BY DEF IInv, Typed
<1>2. mode = "build" => Numbered(symbols) /\ BuildQueues(symbols)
  <2>1. mode = "build" => symbols = Final
    BY DEF IInv, Phases
  <2> QED
    BY <1>1, <2>1 DEF Grown, Final, IInv, History
<1>3. ASSUME NEW call \in Call, Build(call)
      PROVE  Grown'
  <2>1. mode = "build" /\ symbols' = Apply(call, symbols)
    BY <1>3 DEF Build
  <2>2. /\ call.op \in {"indent", "leave", "add"}
        /\ call.op = "indent" => symbols' = symbols_indent(symbols)
        /\ call.op = "leave" => symbols' = symbols_leave(symbols)
        /\ call.op = "add" => symbols' = symbols_add(symbols, call.key, "VARIABLE")
    BY <2>1, CallForms
  <2>3. Numbered(symbols') /\ Grows(symbols, symbols')
    BY <1>1, <1>2, <2>1, <2>2, IndentGrows, AddGrows, LeaveGrows
  <2> QED
    BY <1>3, <2>3, BuildKeepsGrown
<1>4. CASE Indent \/ Leave
  <2>1. \E call \in Call : Build(call)
    BY <1>4 DEF Indent, Leave, Call
  <2> QED
    BY <1>3, <2>1
<1>5. ASSUME NEW key \in Name, Add(key)
      PROVE  Grown'
  <2>1. \E call \in Call : Build(call)
    BY <1>5 DEF Add, Call
  <2> QED
    BY <1>3, <2>1
<1>6. CASE Turn \/ Revisit \/ Over \/ UNCHANGED vars
  <2>1. log' = log /\ snap' = snap
    BY <1>6 DEF Turn, Revisit, Enter, Recall, Dedent, Delete, Visit, Over, vars
  <2>2. Final' = Final
    BY <2>1 DEF Final
  <2> QED
    BY <2>1, <2>2 DEF Grown
<1> QED
  BY <1>4, <1>5, <1>6 DEF Next

\* The history always grows.
LEMMA AlwaysGrown == Spec => [](IInv /\ CoherentTable(symbols) /\ Grown)
<1>1. Init => IInv /\ Grown
  BY InitIInv, InitGrown
<1>2. IInv /\ [Next]_vars => IInv'
  BY NextIInv
<1>3. IInv /\ IInv' /\ CoherentTable(symbols)' /\ Grown /\ [Next]_vars => Grown'
  BY NextGrown
<1>4. Coherent <=> CoherentTable(symbols)
  BY CoherentIsTable
<1> QED
  BY <1>1, <1>2, <1>3, <1>4, TableCoherent, PTL DEF Spec

-----------------------------------------------------------------------------
(* What is visible. *)

\* Nothing the first traversal knew at a call is lost when the second comes to it,
\* no scope that was closed is visible again, and what is visible besides was added
\* by the first traversal after that call: symbols_get of the two passes differ in
\* nothing else.
THEOREM SeesTheSame == Spec => []SeesSame
<1>1. IInv /\ CoherentTable(symbols) /\ Grown => SeesSame
  <2> SUFFICES ASSUME IInv, CoherentTable(symbols), Grown, mode = "visit"
               PROVE  {item \in Visible(symbols) : item.id < snap[pos].count} =
                         Visible(snap[pos])
    BY DEF SeesSame
  <2> DEFINE s == symbols
             t == snap[pos]
  <2>1. pos \in 1 .. Len(log) + 1 /\ Together(s, t, Final)
    BY VisitState
  <2>2. CoherentTable(s) /\ CoherentTable(t) /\ Grows(t, Final)
    BY <2>1 DEF Grown
  <2>3. SymbolsOK(s) /\ SymbolsOK(t) /\ s.level = t.level
    BY <2>1 DEF Together, Matches
  <2> HIDE DEF s, t
  <2>4. ASSUME NEW l \in 0 .. s.level
        PROVE  /\ l \in 0 .. s.depth - 1 /\ l \in 0 .. t.depth - 1
               /\ s.levels[l].scope \in s.levels[l].begin .. s.levels[l].end - 1
               /\ t.levels[l].scope \in t.levels[l].begin .. t.levels[l].end - 1
               /\ t.levels[l].scopes[t.levels[l].scope] =
                     {item \in s.levels[l].scopes[s.levels[l].scope] : item.id < t.count}
    BY <2>1, <2>2, OpenScopeLinks
  <2>5. \A item : item \in Visible(s) <=>
                     \E l \in 0 .. s.level : item \in s.levels[l].scopes[s.levels[l].scope]
    BY <2>2, <2>3, <2>4, VisibleIsOpen
  <2>6. \A item : item \in Visible(t) <=>
                     \E l \in 0 .. t.level : item \in t.levels[l].scopes[t.levels[l].scope]
    BY <2>2, <2>3, <2>4, VisibleIsOpen
  <2>7. {item \in Visible(s) : item.id < t.count} = Visible(t)
    BY <2>3, <2>4, <2>5, <2>6
  <2> QED
    BY <2>7 DEF s, t
<1> QED
  BY <1>1, AlwaysGrown, PTL

\* A definition that is met again is found in the scope the visit is in: the
\* assertion of VarDef, which has nothing but the name to look for, holds.
THEOREM DefinitionIsHereAgain == Spec => []HereAgain
<1>1. IInv /\ CoherentTable(symbols) /\ Grown => HereAgain
  <2> SUFFICES ASSUME IInv, CoherentTable(symbols), Grown, Visiting("add")
               PROVE  \E item \in symbols_lookup(symbols, log[pos].key) :
                         item.id = snap[pos].count /\ symbols_here(symbols, item)
    BY DEF HereAgain
  <2> DEFINE s == symbols
             t == snap[pos]
             n == snap[pos + 1]
             key == log[pos].key
             l == s.level
             new == NewItem(t, key, "VARIABLE")
  <2>1. mode = "visit" /\ pos <= Len(log) /\ log[pos].op = "add"
    BY DEF Visiting
  <2>2. /\ pos \in 1 .. Len(log) + 1 /\ Len(log) \in Nat /\ Together(s, t, Final)
        /\ log[pos] \in Call /\ n = Apply(log[pos], t)
    <3>1. PICK p : p = pos
      OBVIOUS
    <3>2. /\ p \in 1 .. Len(log) + 1 /\ Len(log) \in Nat
          /\ Together(symbols, snap[p], Final)
          /\ p <= Len(log) => log[p] \in Call /\ snap[p + 1] = Apply(log[p], snap[p])
      <4> HIDE DEF s, t, n, key, l, new
      <4>1. mode = "visit"
        BY <2>1
      <4> QED
        BY <3>1, <4>1, VisitState
    <3>3. s = symbols /\ t = snap[p] /\ n = snap[p + 1] /\ p <= Len(log)
      BY <2>1, <3>1
    <3> HIDE DEF s, t, n, key, l, new
    <3> QED
      BY <3>1, <3>2, <3>3
  <2>3. n = symbols_add(t, key, "VARIABLE")
    BY <2>1, <2>2, CallForms
  <2>4. /\ SymbolsOK(s) /\ SymbolsOK(t) /\ BuildQueues(t) /\ s.level = t.level
        /\ l \in 0 .. s.level
    <3> HIDE DEF s, t
    <3>1. SymbolsOK(s) /\ SymbolsOK(t) /\ BuildQueues(t) /\ s.level = t.level
      BY <2>2 DEF Together, Matches
    <3>2. s.level \in Int /\ s.level >= 0
      BY <3>1 DEF SymbolsOK, BuildQueues
    <3> QED
      BY <3>1, <3>2
  <2>5. Grows(t, Final) /\ Grows(n, Final) /\ CoherentTable(s)
    BY <2>1, <2>2 DEF Grown
  <2>6. /\ l \in 0 .. s.depth - 1 /\ l \in 0 .. t.depth - 1
        /\ s.levels[l].scope \in s.levels[l].begin .. s.levels[l].end - 1
        /\ t.levels[l].scope \in t.levels[l].begin .. t.levels[l].end - 1
        /\ s.levels[l].scope = t.levels[l].scope
        /\ s.levels[l].scopes = Final.levels[l].scopes
    <3> HIDE DEF s, t, l
    <3> QED
      BY <2>2, <2>4, <2>5, OpenScopeLinks
  <2>7. t.levels[l].scope \in 0 .. t.levels[l].end - 1
    BY <2>4, <2>6, QueueTypes
  <2>8. /\ n.depth = t.depth /\ n.levels[l].end = t.levels[l].end
        /\ new \in n.levels[l].scopes[t.levels[l].scope]
        /\ new.id = t.count /\ new.key = key /\ new.level = l
        /\ new.scope = t.levels[l].scope
    <3> HIDE DEF s, t, n, key, l, new
    <3>1. /\ n.depth = t.depth /\ new.id = t.count /\ new.key = key /\ new.level = t.level
          /\ new.scope = t.levels[t.level].scope
          /\ n.levels[l].end = t.levels[l].end
          /\ n.levels[l].scopes[t.levels[l].scope] =
                t.levels[l].scopes[t.levels[l].scope] \cup
                   (IF l = t.level /\ t.levels[l].scope = t.levels[l].scope
                    THEN {new} ELSE {})
      BY <2>3, <2>4, <2>6, <2>7, AddScopes DEF new
    <3>2. l = t.level
      BY <2>4 DEF l
    <3> QED
      BY <3>1, <3>2
  <2> HIDE DEF s, t, n, key, l, new
  <2>9. new \in s.levels[l].scopes[s.levels[l].scope]
    <3>1. n.levels[l].scopes[t.levels[l].scope] =
             {item \in Final.levels[l].scopes[t.levels[l].scope] : item.id < n.count}
      BY <2>5, <2>6, <2>7, <2>8 DEF Grows
    <3> QED
      BY <2>6, <2>8, <3>1
  <2>10. new \in s.table
    BY <2>5, <2>6, <2>9 DEF CoherentTable, Held
  <2>11. new \in symbols_lookup(s, key) /\ symbols_here(s, new)
    BY <2>6, <2>8, <2>10 DEF symbols_lookup, symbols_here, l
  <2> QED
    BY <2>8, <2>11 DEF s, t, key
<1> QED
  BY <1>1, AlwaysGrown, PTL

-----------------------------------------------------------------------------
(* The names of scopes. *)

Opened == {0} \cup Indents

\* A call, or the start, opened each scope of the queues, and no two the same.
Named ==
    /\ \A p \in Opened : /\ LevelOf(p) \in 0 .. Final.depth - 1
                         /\ ScopeOf(p) \in 0 .. Final.levels[LevelOf(p)].end - 1
    /\ \A p, q \in Opened : LevelOf(p) = LevelOf(q) /\ ScopeOf(p) = ScopeOf(q) => p = q
    /\ \A l \in 0 .. Final.depth - 1 : \A k \in 0 .. Final.levels[l].end - 1 :
          \E p \in Opened : LevelOf(p) = l /\ ScopeOf(p) = k

\* A call added each item of the queues, and none is still to be allocated.
Born ==
    /\ \A p \in Adds : snap[p].count < Final.count
    /\ \A l \in 0 .. Final.depth - 1 : \A k \in 0 .. Final.levels[l].end - 1 :
          \A item \in Final.levels[l].scopes[k] :
              \E p \in Adds : item.id = snap[p].count

\* The calls are positions in the log, and a call of the build adds one.
LEMMA BuildNames ==
    ASSUME IInv, NEW call \in Call, Build(call), NEW h, h = Len(log) + 1
    PROVE  /\ h \in Nat \ {0} /\ Opened \subseteq 0 .. h - 1 /\ Adds \subseteq 1 .. h - 1
           /\ Opened' = Opened \cup (IF call.op = "indent" THEN {h} ELSE {})
           /\ Adds' = Adds \cup (IF call.op = "add" THEN {h} ELSE {})
           /\ \A p \in 0 .. h - 1 : LevelOf(p)' = LevelOf(p) /\ ScopeOf(p)' = ScopeOf(p)
           /\ LevelOf(h)' = symbols'.level
           /\ ScopeOf(h)' = symbols'.levels[symbols'.level].scope
           /\ \A p \in 1 .. h - 1 : snap[p]' = snap[p]
           /\ snap[h]' = symbols
<1>1. /\ Len(log) \in Nat /\ Len(log') = Len(log) + 1 /\ log'[Len(log) + 1] = call
      /\ \A p \in 1 .. Len(log) : log'[p] = log[p]
      /\ \A p \in 1 .. Len(log) + 1 : snap'[p] = snap[p]
      /\ snap'[Len(log) + 2] = symbols' /\ symbols = Final
  BY BuildExtends
<1>2. Indents \subseteq 1 .. h - 1 /\ Adds \subseteq 1 .. h - 1
  BY <1>1 DEF Indents, Adds
<1>3. Indents' = Indents \cup (IF call.op = "indent" THEN {h} ELSE {})
  BY <1>1 DEF Indents
<1>4. Adds' = Adds \cup (IF call.op = "add" THEN {h} ELSE {})
  BY <1>1 DEF Adds
<1>5. \A p \in 0 .. h - 1 : snap'[p + 1] = snap[p + 1]
  BY <1>1
<1>6. \A p \in 0 .. h - 1 : LevelOf(p)' = LevelOf(p) /\ ScopeOf(p)' = ScopeOf(p)
  BY <1>5 DEF LevelOf, ScopeOf
<1>7. /\ LevelOf(h)' = symbols'.level
      /\ ScopeOf(h)' = symbols'.levels[symbols'.level].scope
  BY <1>1 DEF LevelOf, ScopeOf
<1>8. snap[h]' = symbols /\ \A p \in 1 .. h - 1 : snap[p]' = snap[p]
  BY <1>1 DEF Final
<1> QED
  BY <1>1, <1>2, <1>3, <1>4, <1>6, <1>7, <1>8 DEF Opened

\* Before any call there is the global scope, and no item.
LEMMA InitNamed == Init => Named /\ Born
<1> SUFFICES ASSUME Init PROVE Named /\ Born
  OBVIOUS
<1>1. /\ Len(log) = 0 /\ snap[1] = symbols_new /\ Final = symbols_new
  BY DEF Init, Final
<1>2. Opened = {0} /\ Adds = {}
  BY <1>1 DEF Opened, Indents, Adds
<1>3. LevelOf(0) = 0 /\ ScopeOf(0) = 0
  BY <1>1, NewBuilds DEF LevelOf, ScopeOf, BuildQueues
<1>4. Final.depth = 1 /\ Final.levels[0].end = 1 /\ Final.levels[0].scopes[0] = {}
  BY <1>1, NewBuilds
<1>5. \A l \in 0 .. Final.depth - 1 : l = 0
  BY <1>4
<1>6. \A k \in 0 .. Final.levels[0].end - 1 : k = 0
  BY <1>4
<1>7. Named
  BY <1>2, <1>3, <1>4, <1>5, <1>6 DEF Named
<1>8. Born
  BY <1>2, <1>4, <1>5, <1>6 DEF Born
<1> QED
  BY <1>7, <1>8

\* indent() names the scope it opens.
LEMMA IndentNames ==
    ASSUME IInv, Named, Born, NEW call \in Call, Build(call), call.op = "indent",
           NEW s, s = symbols, NEW t, t = symbols'
    PROVE  Named' /\ Born'
<1> DEFINE l == s.level + 1
<1>1. /\ Len(log) \in Nat /\ s = Final /\ SymbolsOK(s) /\ BuildQueues(s)
      /\ t = Apply(call, s) /\ Final' = t
  BY BuildExtends
<1>2. PICK h : h = Len(log) + 1
  OBVIOUS
<1>3. /\ h \in Nat \ {0} /\ Opened \subseteq 0 .. h - 1 /\ Adds \subseteq 1 .. h - 1
      /\ Opened' = Opened \cup {h} /\ Adds' = Adds
      /\ \A p \in 0 .. h - 1 : LevelOf(p)' = LevelOf(p) /\ ScopeOf(p)' = ScopeOf(p)
      /\ LevelOf(h)' = t.level /\ ScopeOf(h)' = t.levels[t.level].scope
      /\ \A p \in 1 .. h - 1 : snap[p]' = snap[p]
  BY <1>2, BuildNames
<1>4. t = symbols_indent(s)
  BY <1>1, CallForms
<1>5. /\ t.count = s.count /\ t.level = l
      /\ s.depth <= t.depth /\ t.depth \in Nat /\ l \in 1 .. t.depth - 1
      /\ t.levels[l].scope = t.levels[l].end - 1
      /\ t.levels[l].end \in Nat \ {0}
      /\ t.levels[l].scopes[t.levels[l].end - 1] = {}
      /\ \A j \in 0 .. s.depth - 1 :
            /\ t.levels[j].end = s.levels[j].end + (IF j = l THEN 1 ELSE 0)
            /\ \A k \in 0 .. s.levels[j].end - 1 :
                  t.levels[j].scopes[k] = s.levels[j].scopes[k]
      /\ \A j \in s.depth .. t.depth - 1 : j = l /\ t.levels[j].end = 1
  <2>1. l = s.level + 1 /\ SymbolsOK(s) /\ BuildQueues(s)
    BY <1>1
  <2> HIDE DEF l
  <2> QED
    BY <1>4, <2>1, IndentScopes
<1>6. s.depth \in Nat /\ \A j \in 0 .. s.depth - 1 : s.levels[j].end \in Nat
  BY <1>1, QueueTypes DEF SymbolsOK
<1>7. /\ \A p \in Opened : /\ LevelOf(p) \in 0 .. s.depth - 1
                           /\ ScopeOf(p) \in 0 .. s.levels[LevelOf(p)].end - 1
      /\ \A p, q \in Opened :
            LevelOf(p) = LevelOf(q) /\ ScopeOf(p) = ScopeOf(q) => p = q
      /\ \A j \in 0 .. s.depth - 1 : \A k \in 0 .. s.levels[j].end - 1 :
            \E p \in Opened : LevelOf(p) = j /\ ScopeOf(p) = k
  BY <1>1 DEF Named
<1>8. /\ \A p \in Adds : snap[p].count < s.count
      /\ \A j \in 0 .. s.depth - 1 : \A k \in 0 .. s.levels[j].end - 1 :
            \A item \in s.levels[j].scopes[k] : \E p \in Adds : item.id = snap[p].count
  BY <1>1 DEF Born
<1> HIDE DEF l

\* A scope of the new queues is one of the old, or the one just opened.
<1>9. ASSUME NEW j \in 0 .. t.depth - 1, NEW k \in 0 .. t.levels[j].end - 1
      PROVE  \/ /\ j \in 0 .. s.depth - 1 /\ k \in 0 .. s.levels[j].end - 1
                /\ t.levels[j].scopes[k] = s.levels[j].scopes[k]
             \/ j = l /\ k = t.levels[l].scope /\ t.levels[j].scopes[k] = {}
  <2>1. CASE j \in 0 .. s.depth - 1
    <3>1. t.levels[j].end = s.levels[j].end + (IF j = l THEN 1 ELSE 0)
      BY <1>5, <2>1
    <3>2. CASE k < s.levels[j].end
      BY <1>5, <1>6, <2>1, <3>2
    <3>3. CASE ~(k < s.levels[j].end)
      <4>1. j = l /\ k = t.levels[l].end - 1
        BY <1>6, <2>1, <3>1, <3>3
      <4> QED
        BY <1>5, <4>1
    <3> QED  BY <3>2, <3>3
  <2>2. CASE j \notin 0 .. s.depth - 1
    <3>1. j = l /\ t.levels[j].end = 1
      BY <1>5, <1>6, <2>2
    <3>2. k = t.levels[l].end - 1
      BY <3>1
    <3> QED
      BY <1>5, <3>1, <3>2
  <2> QED  BY <2>1, <2>2

\* The scope just opened is none of the old ones.
<1>10. \A p \in Opened : ~(LevelOf(p) = l /\ ScopeOf(p) = t.levels[l].scope)
  <2> SUFFICES ASSUME NEW p \in Opened, LevelOf(p) = l, ScopeOf(p) = t.levels[l].scope
               PROVE  FALSE
    OBVIOUS
  <2>1. l \in 0 .. s.depth - 1 /\ t.levels[l].scope \in 0 .. s.levels[l].end - 1
    BY <1>7
  <2>2. t.levels[l].end = s.levels[l].end + 1
    BY <1>5, <2>1
  <2> QED
    BY <1>5, <1>6, <2>1, <2>2
<1>11. Named'
  <2>1. ASSUME NEW p \in Opened'
        PROVE  /\ LevelOf(p)' \in 0 .. t.depth - 1
               /\ ScopeOf(p)' \in 0 .. t.levels[LevelOf(p)'].end - 1
    <3>1. CASE p = h
      BY <1>3, <1>5, <3>1
    <3>2. CASE p # h
      <4>1. /\ p \in Opened /\ LevelOf(p)' = LevelOf(p) /\ ScopeOf(p)' = ScopeOf(p)
        BY <1>3, <3>2
      <4>2. /\ LevelOf(p) \in 0 .. s.depth - 1
            /\ ScopeOf(p) \in 0 .. s.levels[LevelOf(p)].end - 1
        BY <1>7, <4>1
      <4>3. /\ LevelOf(p) \in 0 .. t.depth - 1
            /\ s.levels[LevelOf(p)].end <= t.levels[LevelOf(p)].end
            /\ t.levels[LevelOf(p)].end \in Nat
        BY <1>5, <1>6, <4>2
      <4> QED
        BY <1>6, <4>1, <4>2, <4>3
    <3> QED  BY <3>1, <3>2
  <2>2. ASSUME NEW p \in Opened', NEW q \in Opened',
               LevelOf(p)' = LevelOf(q)', ScopeOf(p)' = ScopeOf(q)'
        PROVE  p = q
    <3>1. p \in Opened => p \in 0 .. h - 1
      BY <1>3
    <3>2. q \in Opened => q \in 0 .. h - 1
      BY <1>3
    <3>3. CASE p \in Opened /\ q \in Opened
      BY <1>3, <1>7, <2>2, <3>1, <3>2, <3>3
    <3>4. CASE p = h /\ q \in Opened
      BY <1>3, <1>5, <1>10, <2>2, <3>2, <3>4
    <3>5. CASE q = h /\ p \in Opened
      BY <1>3, <1>5, <1>10, <2>2, <3>1, <3>5
    <3> QED
      BY <1>3, <3>3, <3>4, <3>5
  <2>3. ASSUME NEW j \in 0 .. t.depth - 1, NEW k \in 0 .. t.levels[j].end - 1
        PROVE  \E p \in Opened' : LevelOf(p)' = j /\ ScopeOf(p)' = k
    <3>1. CASE j \in 0 .. s.depth - 1 /\ k \in 0 .. s.levels[j].end - 1
      <4>1. PICK p \in Opened : LevelOf(p) = j /\ ScopeOf(p) = k
        BY <1>7, <3>1
      <4>2. p \in Opened' /\ p \in 0 .. h - 1
        BY <1>3
      <4> QED
        BY <1>3, <4>1, <4>2
    <3>2. CASE j = l /\ k = t.levels[l].scope
      BY <1>3, <1>5, <3>2
    <3> QED
      BY <1>9, <3>1, <3>2
  <2> QED
    BY <1>1, <2>1, <2>2, <2>3 DEF Named
<1>12. Born'
  <2>1. ASSUME NEW p \in Adds
        PROVE  snap[p]' = snap[p] /\ snap[p].count < t.count
    BY <1>3, <1>5, <1>8
  <2>2. ASSUME NEW j \in 0 .. t.depth - 1, NEW k \in 0 .. t.levels[j].end - 1,
               NEW item \in t.levels[j].scopes[k]
        PROVE  \E p \in Adds : item.id = snap[p].count
    <3>1. /\ j \in 0 .. s.depth - 1 /\ k \in 0 .. s.levels[j].end - 1
          /\ t.levels[j].scopes[k] = s.levels[j].scopes[k]
      BY <1>9
    <3> QED
      BY <1>8, <3>1
  <2>3. /\ \A p \in Adds : snap'[p].count < t.count
        /\ \A j \in 0 .. t.depth - 1 : \A k \in 0 .. t.levels[j].end - 1 :
              \A item \in t.levels[j].scopes[k] :
                  \E p \in Adds : item.id = snap'[p].count
    <3>1. \A p \in Adds : snap'[p] = snap[p]
      BY <2>1
    <3> QED
      BY <2>1, <2>2, <3>1
  <2> QED
    BY <1>1, <1>3, <2>3 DEF Born
<1> QED
  BY <1>11, <1>12

\* add() accounts for the item it links.
LEMMA AddNames ==
    ASSUME IInv, Named, Born, Grown, NEW call \in Call, Build(call), call.op = "add",
           NEW s, s = symbols, NEW t, t = symbols'
    PROVE  Named' /\ Born'
<1> DEFINE new == NewItem(s, call.key, "VARIABLE")
<1>1. /\ Len(log) \in Nat /\ s = Final /\ SymbolsOK(s) /\ BuildQueues(s)
      /\ t = Apply(call, s) /\ Final' = t
  BY BuildExtends
<1>2. PICK h : h = Len(log) + 1
  OBVIOUS
<1>3. /\ h \in Nat \ {0} /\ Opened \subseteq 0 .. h - 1 /\ Adds \subseteq 1 .. h - 1
      /\ Opened' = Opened /\ Adds' = Adds \cup {h}
      /\ \A p \in 0 .. h - 1 : LevelOf(p)' = LevelOf(p) /\ ScopeOf(p)' = ScopeOf(p)
      /\ \A p \in 1 .. h - 1 : snap[p]' = snap[p]
      /\ snap[h]' = s
  BY <1>2, BuildNames
<1>4. t = symbols_add(s, call.key, "VARIABLE")
  BY <1>1, CallForms
<1>5. /\ t.count = s.count + 1 /\ t.depth = s.depth /\ new.id = s.count
      /\ \A j \in 0 .. s.depth - 1 :
            /\ t.levels[j].end = s.levels[j].end
            /\ \A k \in 0 .. s.levels[j].end - 1 :
                  t.levels[j].scopes[k] =
                     s.levels[j].scopes[k] \cup
                        (IF j = s.level /\ k = s.levels[j].scope THEN {new} ELSE {})
  BY <1>1, <1>4, AddScopes
<1>6. s.depth \in Nat /\ s.count \in Nat
  BY <1>1 DEF SymbolsOK
<1>7. ASSUME NEW p \in 1 .. h - 1
      PROVE  snap[p].count \in Nat
  <2>1. SymbolsOK(snap[p])
    BY <1>1, <1>2, <1>7 DEF IInv, History
  <2> QED
    BY <2>1 DEF SymbolsOK
<1>8. /\ \A p \in Adds : snap[p].count < s.count
      /\ \A j \in 0 .. s.depth - 1 : \A k \in 0 .. s.levels[j].end - 1 :
            \A item \in s.levels[j].scopes[k] : \E p \in Adds : item.id = snap[p].count
  BY <1>1 DEF Born
<1> HIDE DEF new
<1>9. Named'
  <2>1. /\ \A p \in Opened : /\ LevelOf(p) \in 0 .. s.depth - 1
                             /\ ScopeOf(p) \in 0 .. s.levels[LevelOf(p)].end - 1
        /\ \A p, q \in Opened :
              LevelOf(p) = LevelOf(q) /\ ScopeOf(p) = ScopeOf(q) => p = q
        /\ \A j \in 0 .. s.depth - 1 : \A k \in 0 .. s.levels[j].end - 1 :
              \E p \in Opened : LevelOf(p) = j /\ ScopeOf(p) = k
    BY <1>1 DEF Named
  <2>2. \A p \in Opened : LevelOf(p)' = LevelOf(p) /\ ScopeOf(p)' = ScopeOf(p)
    BY <1>3
  <2>3. \A j \in 0 .. s.depth - 1 : t.levels[j].end = s.levels[j].end
    BY <1>5
  <2>4. \A p \in Opened : /\ LevelOf(p)' \in 0 .. t.depth - 1
                          /\ ScopeOf(p)' \in 0 .. t.levels[LevelOf(p)'].end - 1
    BY <1>5, <2>1, <2>2, <2>3
  <2>5. \A p, q \in Opened :
           LevelOf(p)' = LevelOf(q)' /\ ScopeOf(p)' = ScopeOf(q)' => p = q
    BY <2>1, <2>2
  <2>6. \A j \in 0 .. t.depth - 1 : \A k \in 0 .. t.levels[j].end - 1 :
           \E p \in Opened : LevelOf(p)' = j /\ ScopeOf(p)' = k
    BY <1>5, <2>1, <2>2, <2>3
  <2> QED
    BY <1>1, <1>3, <2>4, <2>5, <2>6 DEF Named
<1>10. Born'
  <2>1. ASSUME NEW p \in Adds'
        PROVE  snap[p]'.count < t.count
    <3>1. CASE p = h
      BY <1>3, <1>5, <1>6, <3>1
    <3>2. CASE p # h
      <4>1. p \in Adds /\ p \in 1 .. h - 1
        BY <1>3, <3>2
      <4> QED
        BY <1>3, <1>5, <1>6, <1>7, <1>8, <4>1
    <3> QED  BY <3>1, <3>2
  <2>2. ASSUME NEW j \in 0 .. t.depth - 1, NEW k \in 0 .. t.levels[j].end - 1,
               NEW item \in t.levels[j].scopes[k]
        PROVE  \E p \in Adds' : item.id = snap[p]'.count
    <3>1. k \in 0 .. s.levels[j].end - 1 /\ j \in 0 .. s.depth - 1
      BY <1>5
    <3>2. t.levels[j].scopes[k] = s.levels[j].scopes[k] \cup
             (IF j = s.level /\ k = s.levels[j].scope THEN {new} ELSE {})
      BY <1>5, <3>1
    <3>3. CASE item = new
      BY <1>3, <1>5, <3>3
    <3>4. CASE item # new
      <4>1. item \in s.levels[j].scopes[k]
        BY <3>2, <3>4
      <4>2. PICK p \in Adds : item.id = snap[p].count
        BY <1>8, <3>1, <4>1
      <4>3. p \in Adds' /\ snap[p]' = snap[p]
        BY <1>3
      <4> QED
        BY <4>2, <4>3
    <3> QED  BY <3>3, <3>4
  <2> QED
    BY <1>1, <2>1, <2>2 DEF Born
<1> QED
  BY <1>9, <1>10

\* leave() opens nothing and adds nothing.
LEMMA LeaveNames ==
    ASSUME IInv, Named, Born, NEW call \in Call, Build(call), call.op = "leave",
           NEW s, s = symbols, NEW t, t = symbols'
    PROVE  Named' /\ Born'
<1>1. /\ Len(log) \in Nat /\ s = Final /\ SymbolsOK(s)
      /\ t = Apply(call, s) /\ Final' = t
  BY BuildExtends
<1>2. PICK h : h = Len(log) + 1
  OBVIOUS
<1>3. /\ Opened \subseteq 0 .. h - 1 /\ Adds \subseteq 1 .. h - 1
      /\ Opened' = Opened /\ Adds' = Adds
      /\ \A p \in 0 .. h - 1 : LevelOf(p)' = LevelOf(p) /\ ScopeOf(p)' = ScopeOf(p)
      /\ \A p \in 1 .. h - 1 : snap[p]' = snap[p]
  BY <1>2, BuildNames
<1>4. t = symbols_leave(s)
  BY <1>1, CallForms
<1>5. t.count = s.count /\ t.depth = s.depth /\ t.levels = s.levels
  BY <1>1, <1>4, SymbolsLeave DEF SymbolsOK
<1>6. \A p \in Opened : LevelOf(p)' = LevelOf(p) /\ ScopeOf(p)' = ScopeOf(p)
  BY <1>3
<1>7. \A p \in Adds : snap[p]' = snap[p]
  BY <1>3
<1>8. Named'
  BY <1>1, <1>3, <1>5, <1>6 DEF Named
<1>9. Born'
  BY <1>1, <1>3, <1>5, <1>7 DEF Born
<1> QED
  BY <1>8, <1>9

\* Every step keeps the names.
LEMMA NextNamed ==
    ASSUME IInv, Grown, Named, Born, [Next]_vars
    PROVE  Named' /\ Born'
<1>1. ASSUME NEW call \in Call, Build(call)
      PROVE  Named' /\ Born'
  <2>1. call.op \in {"indent", "leave", "add"}
    BY CallForms
  <2>2. PICK s : s = symbols
    OBVIOUS
  <2>3. PICK t : t = symbols'
    OBVIOUS
  <2> QED
    BY <1>1, <2>1, <2>2, <2>3, IndentNames, AddNames, LeaveNames
<1>2. CASE Indent \/ Leave \/ \E key \in Name : Add(key)
  <2>1. \E call \in Call : Build(call)
    BY <1>2 DEF Indent, Leave, Add, Call
  <2> QED
    BY <1>1, <2>1
<1>3. CASE Turn \/ Revisit \/ Over \/ UNCHANGED vars
  <2>1. log' = log /\ snap' = snap
    BY <1>3 DEF Turn, Revisit, Enter, Recall, Dedent, Delete, Visit, Over, vars
  <2>2. Opened' = Opened /\ Adds' = Adds /\ Final' = Final
    BY <2>1 DEF Opened, Indents, Adds, Final
  <2>3. \A p : LevelOf(p)' = LevelOf(p) /\ ScopeOf(p)' = ScopeOf(p)
    BY <2>1 DEF LevelOf, ScopeOf
  <2>4. Named'
    BY <2>2, <2>3 DEF Named
  <2>5. Born'
    BY <2>1, <2>2 DEF Born
  <2> QED
    BY <2>4, <2>5
<1> QED
  BY <1>2, <1>3 DEF Next

\* All that the refinement rests on.
SInv == IInv /\ CoherentTable(symbols) /\ Grown /\ Named /\ Born

LEMMA AlwaysNamed == Spec => []SInv
<1>1. Init => Named /\ Born
  BY InitNamed
<1>2. IInv /\ Grown /\ Named /\ Born /\ [Next]_vars => Named' /\ Born'
  BY NextNamed
<1> QED
  BY <1>1, <1>2, AlwaysGrown, PTL DEF Spec, SInv

-----------------------------------------------------------------------------
(* The refinement: the path and the frames of the abstract walk. *)

\* Until the table is destroyed its queues have the scopes of the final table, and
\* each of them the symbols of the final table.
LEMMA QueuesAreFinal ==
    ASSUME IInv, mode # "over", NEW s, s = symbols, NEW f, f = Final
    PROVE  /\ s.level \in Nat /\ s.level < s.depth /\ s.depth \in Nat /\ s.depth = f.depth
           /\ SymbolsOK(s) /\ SymbolsOK(f)
           /\ \A l \in 0 .. s.depth - 1 :
                 /\ s.levels[l].end = f.levels[l].end
                 /\ s.levels[l].scopes = f.levels[l].scopes
                 /\ s.levels[l].scope \in 0 .. f.levels[l].end - 1
<1>1. mode = "build" \/ mode = "visit"
  BY DEF IInv, Typed
<1>2. Len(log) + 1 \in 1 .. Len(log) + 1 /\ SymbolsOK(s)
  BY DEF IInv, Typed
<1>3. SymbolsOK(f) /\ BuildQueues(f)
  BY <1>2 DEF IInv, History, Final
<1>4. CASE mode = "build"
  <2>1. s = f
    BY <1>4 DEF IInv, Phases
  <2>2. s.level \in Nat /\ s.level < s.depth /\ s.depth \in Nat
    BY <1>3, <2>1 DEF BuildQueues, SymbolsOK
  <2>3. ASSUME NEW l \in 0 .. s.depth - 1
        PROVE  s.levels[l].scope \in 0 .. f.levels[l].end - 1
    BY <1>2, <2>1, QueueTypes
  <2> QED
    BY <1>2, <1>3, <2>1, <2>2, <2>3
<1>5. CASE mode = "visit"
  <2>1. /\ Together(s, snap[pos], f)
    BY <1>5, VisitState
  <2>2. /\ s.depth = f.depth /\ s.level = snap[pos].level
        /\ \A l \in 0 .. f.depth - 1 : /\ s.levels[l].end = f.levels[l].end
                                       /\ s.levels[l].scopes = f.levels[l].scopes
    BY <2>1 DEF Together, Matches
  <2>3. s.level \in Nat
    BY <2>1, <2>2 DEF Together, BuildQueues
  <2>4. s.level < s.depth /\ s.depth \in Nat
    BY <1>2 DEF SymbolsOK
  <2>5. ASSUME NEW l \in 0 .. s.depth - 1
        PROVE  s.levels[l].scope \in 0 .. f.levels[l].end - 1
    BY <1>2, <2>2, QueueTypes
  <2> QED
    BY <1>2, <1>3, <2>2, <2>3, <2>4, <2>5
<1> QED
  BY <1>1, <1>4, <1>5

\* The scope open at a level has a name, and the name that scope.
LEMMA FrameNames ==
    ASSUME SInv, mode # "over", NEW l \in 0 .. symbols.level
    PROVE  /\ FrameAt(l) \in Opened /\ FrameAt(l) \in Nat
           /\ LevelOf(FrameAt(l)) = l
           /\ ScopeOf(FrameAt(l)) = symbols.levels[l].scope
<1>1. PICK s : s = symbols
  OBVIOUS
<1>2. PICK f : f = Final
  OBVIOUS
<1>3. /\ l \in 0 .. f.depth - 1 /\ s.levels[l].scope \in 0 .. f.levels[l].end - 1
  BY <1>1, <1>2, QueuesAreFinal DEF SInv
<1>4. \E p \in Opened : LevelOf(p) = l /\ ScopeOf(p) = s.levels[l].scope
  BY <1>2, <1>3 DEF SInv, Named
<1>5. /\ FrameAt(l) \in Opened
      /\ LevelOf(FrameAt(l)) = l /\ ScopeOf(FrameAt(l)) = s.levels[l].scope
  BY <1>1, <1>4 DEF FrameAt, Opened
<1>6. Opened \subseteq Nat
  BY DEF Opened, Indents
<1> QED
  BY <1>1, <1>5, <1>6

\* ... and no other scope has it, so a frame is found again after a step.
LEMMA FrameFound ==
    ASSUME Named', NEW l, NEW p \in Opened', LevelOf(p)' = l,
           ScopeOf(p)' = symbols'.levels[l].scope
    PROVE  FrameAt(l)' = p
BY DEF Named, FrameAt, Opened

\* The abstract path is a sequence of names, one for each open level.
LEMMA PathIs ==
    ASSUME SInv, mode # "over"
    PROVE  /\ pathBar \in Seq(Nat) /\ Len(pathBar) = symbols.level + 1
           /\ symbols.level \in Nat
           /\ \A l \in 0 .. symbols.level : pathBar[l + 1] = FrameAt(l)
<1>1. symbols.level \in Nat
  <2>1. PICK s : s = symbols
    OBVIOUS
  <2>2. PICK f : f = Final
    OBVIOUS
  <2> QED
    BY <2>1, <2>2, QueuesAreFinal DEF SInv
<1>2. \A i \in 1 .. symbols.level + 1 : FrameAt(i - 1) \in Nat
  <2> TAKE i \in 1 .. symbols.level + 1
  <2>1. i - 1 \in 0 .. symbols.level
    BY <1>1
  <2> QED
    BY <2>1, FrameNames
<1> QED
  BY <1>1, <1>2 DEF pathBar

\* A step that opens the scope named h, on top of the others, appends it to the path.
LEMMA PathAppends ==
    ASSUME SInv, mode # "over", Named', NEW h \in Opened', h \in Nat,
           symbols'.level = symbols.level + 1,
           LevelOf(h)' = symbols'.level,
           ScopeOf(h)' = symbols'.levels[symbols'.level].scope,
           \A p \in Opened : p \in Opened' /\ LevelOf(p)' = LevelOf(p)
                                            /\ ScopeOf(p)' = ScopeOf(p),
           \A l \in 0 .. symbols.level :
              symbols'.levels[l].scope = symbols.levels[l].scope
    PROVE  pathBar' = Append(pathBar, h)
<1> DEFINE n == symbols.level
<1>1. /\ pathBar \in Seq(Nat) /\ Len(pathBar) = n + 1 /\ n \in Nat
      /\ \A l \in 0 .. n : pathBar[l + 1] = FrameAt(l)
  BY PathIs
<1>2. ASSUME NEW l \in 0 .. n
      PROVE  FrameAt(l)' = FrameAt(l)
  <2>1. /\ FrameAt(l) \in Opened /\ LevelOf(FrameAt(l)) = l
        /\ ScopeOf(FrameAt(l)) = symbols.levels[l].scope
    BY FrameNames
  <2>2. PICK p : p = FrameAt(l)
    OBVIOUS
  <2>3. p \in Opened' /\ LevelOf(p)' = l /\ ScopeOf(p)' = symbols'.levels[l].scope
    BY <2>1, <2>2
  <2> QED
    BY <2>2, <2>3, FrameFound
<1>3. \A l : l = n + 1 => FrameAt(l)' = h
  <2> SUFFICES ASSUME NEW l, l = n + 1 PROVE FrameAt(l)' = h
    OBVIOUS
  <2> QED
    BY FrameFound
<1>4. pathBar' = [i \in 1 .. n + 2 |-> FrameAt(i - 1)']
  BY <1>1 DEF pathBar
<1> HIDE DEF n
<1>5. \A i \in 1 .. n + 2 : FrameAt(i - 1)' = Append(pathBar, h)[i]
  <2> TAKE i \in 1 .. n + 2
  <2>1. CASE i = n + 2
    <3>1. i - 1 = n + 1
      BY <1>1, <2>1
    <3> QED
      BY <1>1, <1>3, <2>1, <3>1
  <2>2. CASE i # n + 2
    <3>1. i - 1 \in 0 .. n /\ i \in 1 .. Len(pathBar) /\ (i - 1) + 1 = i
      BY <1>1, <2>2
    <3>2. FrameAt(i - 1)' = FrameAt(i - 1) /\ pathBar[i] = FrameAt(i - 1)
      BY <1>1, <1>2, <3>1
    <3> QED
      BY <1>1, <3>1, <3>2
  <2> QED  BY <2>1, <2>2
<1>6. /\ Append(pathBar, h) \in Seq(Nat) /\ Len(Append(pathBar, h)) = n + 2
      /\ \A i \in 1 .. n + 2 : Append(pathBar, h)[i] \in Nat
  BY <1>1
<1>7. pathBar' \in Seq(Nat) /\ Len(pathBar') = n + 2
  <2>1. \A i \in 1 .. n + 2 : FrameAt(i - 1)' \in Nat
    BY <1>5, <1>6
  <2>2. n + 2 \in Nat
    BY <1>1
  <2> QED
    BY <1>4, <2>1, <2>2
<1>8. \A i \in 1 .. n + 2 : pathBar'[i] = Append(pathBar, h)[i]
  BY <1>4, <1>5
<1> QED
  BY <1>6, <1>7, <1>8, SeqEqual

\* A step that opens nothing keeps the path up to the level it goes to.
LEMMA PathCut ==
    ASSUME SInv, mode # "over", Named', NEW n \in 0 .. symbols.level + 1,
           symbols'.level = n - 1,
           \A p \in Opened : p \in Opened' /\ LevelOf(p)' = LevelOf(p)
                                            /\ ScopeOf(p)' = ScopeOf(p),
           \A l \in 0 .. n - 1 : symbols'.levels[l].scope = symbols.levels[l].scope
    PROVE  pathBar' = SubSeq(pathBar, 1, n)
<1>1. /\ pathBar \in Seq(Nat) /\ Len(pathBar) = symbols.level + 1
      /\ symbols.level \in Nat
      /\ \A l \in 0 .. symbols.level : pathBar[l + 1] = FrameAt(l)
  BY PathIs
<1>2. ASSUME NEW l \in 0 .. n - 1
      PROVE  FrameAt(l)' = pathBar[l + 1]
  <2>1. l \in 0 .. symbols.level
    BY <1>1
  <2>2. /\ FrameAt(l) \in Opened /\ LevelOf(FrameAt(l)) = l
        /\ ScopeOf(FrameAt(l)) = symbols.levels[l].scope
    BY <2>1, FrameNames
  <2>3. PICK p : p = FrameAt(l)
    OBVIOUS
  <2>4. p \in Opened' /\ LevelOf(p)' = l /\ ScopeOf(p)' = symbols'.levels[l].scope
    BY <2>2, <2>3
  <2>5. FrameAt(l)' = p
    BY <2>4, FrameFound
  <2> QED
    BY <1>1, <2>1, <2>3, <2>5
<1>3. pathBar' = [i \in 1 .. n |-> FrameAt(i - 1)']
  <2>1. symbols'.level + 1 = n
    OBVIOUS
  <2> QED
    BY <2>1 DEF pathBar
<1>4. \A i \in 1 .. n : FrameAt(i - 1)' = pathBar[i]
  <2> TAKE i \in 1 .. n
  <2>1. i - 1 \in 0 .. n - 1 /\ (i - 1) + 1 = i
    OBVIOUS
  <2>2. FrameAt(i - 1)' = pathBar[(i - 1) + 1]
    BY <1>2, <2>1
  <2> QED
    BY <2>1, <2>2
<1>5. SubSeq(pathBar, 1, n) = [i \in 1 .. n |-> pathBar[i]]
  BY <1>1
<1> QED
  BY <1>3, <1>4, <1>5

\* What a name stands for: the symbols the scope links.
Links(f) == symbols.levels[LevelOf(f)].scopes[ScopeOf(f)]

\* The abstract frame of a scope is empty when the scope links nothing: the test by
\* which the code tells a block from a declaration.
LEMMA FrameEmpty ==
    ASSUME SInv, mode # "over", NEW f \in Opened
    PROVE  framesBar[f] = {} <=> Links(f) = {}
<1>1. PICK s : s = symbols
  OBVIOUS
<1>2. PICK t : t = Final
  OBVIOUS
<1>3. /\ LevelOf(f) \in 0 .. t.depth - 1 /\ ScopeOf(f) \in 0 .. t.levels[LevelOf(f)].end - 1
  BY <1>2 DEF SInv, Named
<1>4. Links(f) = t.levels[LevelOf(f)].scopes[ScopeOf(f)]
  BY <1>1, <1>2, <1>3, QueuesAreFinal DEF SInv, Links
<1>5. \A item \in Links(f) : \E p \in Adds : item.id = snap[p].count
  BY <1>2, <1>3, <1>4 DEF SInv, Born
<1>6. framesBar[f] = {p \in Adds : \E item \in Links(f) : item.id = snap[p].count}
  BY DEF framesBar, Opened, Links
<1> QED
  BY <1>5, <1>6

\* Closing a block closes the same scopes in the tree as in the queues.
LEMMA ClosesAlike ==
    ASSUME SInv, mode # "over", symbols.level > 0, NEW links, NEW stop,
           IsStop(stop, symbols.level, links),
           \A l \in 1 .. symbols.level :
              links[l] = symbols.levels[l].scopes[symbols.levels[l].scope]
    PROVE  Len(pathBar) > 1 /\ stop >= 1 /\ Tree!Closed = SubSeq(pathBar, 1, stop)
<1> DEFINE n == symbols.level
<1>1. /\ pathBar \in Seq(Nat) /\ Len(pathBar) = n + 1 /\ n \in Nat
      /\ \A l \in 0 .. n : pathBar[l + 1] = FrameAt(l)
  BY PathIs
<1>2. stop \in 1 .. n
  BY <1>1, StopAboveGlobal DEF IsStop
<1>3. ASSUME NEW l \in 1 .. n
      PROVE  framesBar[pathBar[l + 1]] = {} <=> links[l] = {}
  <2>1. l \in 0 .. n
    BY <1>1
  <2>2. PICK f : f = FrameAt(l)
    OBVIOUS
  <2>3. /\ f \in Opened /\ LevelOf(f) = l /\ ScopeOf(f) = symbols.levels[l].scope
        /\ pathBar[l + 1] = f
    BY <1>1, <2>1, <2>2, FrameNames
  <2>4. Links(f) = links[l]
    BY <2>3 DEF Links
  <2> QED
    BY <2>3, <2>4, FrameEmpty
<1> DEFINE Bottom(i) == /\ i > 2 => framesBar[pathBar[i]] = {}
                        /\ \A j \in i + 1 .. n + 1 : framesBar[pathBar[j]] # {}
<1> HIDE DEF n
<1>4. ASSUME NEW i \in 2 .. n + 1
      PROVE  Bottom(i) <=> IsStop(i - 1, n, links)
  <2>1. i - 1 \in 1 .. n /\ i - 1 \in 0 .. n /\ (i - 1) + 1 = i /\ n \in Nat
    BY <1>1
  <2>2. (i > 2 => framesBar[pathBar[i]] = {}) <=> (i - 1 > 1 => links[i - 1] = {})
    BY <1>3, <2>1
  <2>3. (\A j \in i + 1 .. n + 1 : framesBar[pathBar[j]] # {})
        <=> (\A q \in i .. n : links[q] # {})
    <3>1. ASSUME NEW q \in i .. n, \A j \in i + 1 .. n + 1 : framesBar[pathBar[j]] # {}
          PROVE  links[q] # {}
      <4>1. q + 1 \in i + 1 .. n + 1 /\ q \in 1 .. n
        BY <2>1
      <4> QED
        BY <1>3, <3>1, <4>1
    <3>2. ASSUME NEW j \in i + 1 .. n + 1, \A q \in i .. n : links[q] # {}
          PROVE  framesBar[pathBar[j]] # {}
      <4>1. j - 1 \in i .. n /\ j - 1 \in 1 .. n /\ (j - 1) + 1 = j
        BY <2>1
      <4> QED
        BY <1>3, <3>2, <4>1
    <3> QED  BY <3>1, <3>2
  <2>4. IsStop(i - 1, n, links) <=> /\ i - 1 > 1 => links[i - 1] = {}
                                    /\ \A q \in i .. n : q > 1 /\ links[q] # {}
    BY <2>1 DEF IsStop
  <2>5. \A q \in i .. n : q > 1
    BY <2>1
  <2> QED
    BY <2>2, <2>3, <2>4, <2>5
<1>5. stop + 1 \in 2 .. n + 1 /\ Bottom(stop + 1)
  <2>1. stop + 1 \in 2 .. n + 1 /\ (stop + 1) - 1 = stop
    BY <1>1, <1>2
  <2> QED
    BY <1>4, <2>1 DEF n
<1>6. ASSUME NEW i \in 2 .. n + 1, Bottom(i)
      PROVE  i = stop + 1
  <2> HIDE DEF Bottom
  <2>1. IsStop(i - 1, n, links) /\ i - 1 \in Nat
    <3>1. i - 1 \in Nat
      BY <1>1
    <3> QED
      BY <1>4, <1>6, <3>1
  <2>2. i - 1 = stop
    BY <1>1, <2>1, StopUnique DEF n
  <2> QED
    BY <1>2, <2>1, <2>2
<1> DEFINE c == CHOOSE i \in 2 .. n + 1 : Bottom(i)
<1>7. c = stop + 1
  <2> HIDE DEF Bottom
  <2> QED
    BY <1>5, <1>6
<1>8. Tree!Closed = SubSeq(pathBar, 1, c - 1)
  BY <1>1 DEF Tree!Closed
<1>9. c - 1 = stop
  <2> HIDE DEF c
  <2> QED
    BY <1>2, <1>7
<1>10. n > 0
  BY DEF n
<1> HIDE DEF c
<1>11. Tree!Closed = SubSeq(pathBar, 1, stop)
  BY <1>8, <1>9
<1> QED
  BY <1>1, <1>2, <1>10, <1>11

-----------------------------------------------------------------------------
(* The refinement: one step of the tree for each step of the table. *)

\* What the abstract frame of a scope holds.
AddedTo(f) == {p \in Adds : \E item \in Links(f) : item.id = snap[p].count}

LEMMA FramesAre == framesBar = [f \in Opened |-> AddedTo(f)]
BY DEF framesBar, Opened, AddedTo, Links

\* The table starts as the tree with nothing but its root.
LEMMA InitTree == Init /\ SInv => Tree!Init
<1> SUFFICES ASSUME Init, SInv PROVE Tree!Init
  OBVIOUS
<1>1. /\ mode = "build" /\ log = <<>> /\ pos = 1 /\ symbols = symbols_new
      /\ Len(log) = 0
  BY DEF Init
<1>2. Opened = {0} /\ Adds = {} /\ symbols.level = 0
  BY <1>1, NewBuilds DEF Opened, Indents, Adds
<1>3. pathBar = <<0>>
  <2>1. FrameAt(0) = 0
    BY <1>1, <1>2, FrameNames
  <2>2. pathBar \in Seq(Nat) /\ Len(pathBar) = 1 /\ pathBar[1] = FrameAt(0)
    BY <1>1, <1>2, PathIs
  <2> QED
    BY <2>1, <2>2
<1>4. framesBar = [f \in {0} |-> {}]
  BY <1>2, FramesAre DEF AddedTo
<1> QED
  BY <1>1, <1>3, <1>4 DEF Tree!Init

\* What a call of the build is to the tree, but for its path and frames.
LEMMA BuildLogs ==
    ASSUME SInv, NEW call \in Call, Build(call)
    PROVE  Tree!Log(call) /\ Tree!Here = Len(log) + 1
BY BuildExtends DEF SInv, Tree!Log, Tree!Here

\* indent() opens a scope of the tree.
LEMMA IndentOpens ==
    ASSUME SInv, Named', Indent
    PROVE  Tree!Open
<1> DEFINE call == [op |-> "indent"]
<1>1. call \in Call /\ call.op = "indent" /\ Build(call)
  BY DEF Indent, Call
<1>2. Tree!Log([op |-> "indent"])
  BY <1>1, BuildLogs
<1> HIDE DEF call
<1>3. PICK h : h = Len(log) + 1
  OBVIOUS
<1>4. PICK s : s = symbols
  OBVIOUS
<1>5. PICK t : t = symbols'
  OBVIOUS
<1>6. PICK l : l = s.level + 1
  OBVIOUS
<1>7. Tree!Here = h
  BY <1>1, <1>3, BuildLogs
<1>8. /\ s = Final /\ SymbolsOK(s) /\ BuildQueues(s) /\ t = symbols_indent(s)
      /\ mode = "build"
  BY <1>1, <1>4, <1>5, BuildExtends, CallForms DEF SInv
<1>9. /\ h \in Nat \ {0} /\ Opened \subseteq 0 .. h - 1 /\ Adds \subseteq 1 .. h - 1
      /\ Opened' = Opened \cup {h} /\ Adds' = Adds
      /\ \A p \in 0 .. h - 1 : LevelOf(p)' = LevelOf(p) /\ ScopeOf(p)' = ScopeOf(p)
      /\ LevelOf(h)' = t.level /\ ScopeOf(h)' = t.levels[t.level].scope
      /\ \A p \in 1 .. h - 1 : snap[p]' = snap[p]
  BY <1>1, <1>3, <1>5, BuildNames DEF SInv
<1>10. /\ t.level = l /\ l \in 1 .. t.depth - 1 /\ t.depth \in Nat
       /\ t.levels[l].scope = t.levels[l].end - 1
       /\ t.levels[l].scopes[t.levels[l].end - 1] = {}
       /\ \A j \in 0 .. s.depth - 1 : \A k \in 0 .. s.levels[j].end - 1 :
             t.levels[j].scopes[k] = s.levels[j].scopes[k]
       /\ \A j \in 0 .. s.depth - 1 : j # l => t.levels[j] = s.levels[j]
  BY <1>6, <1>8, IndentScopes
<1>11. pathBar' = Append(pathBar, h)
  <2>1. \A j \in 0 .. s.level : t.levels[j].scope = s.levels[j].scope
    <3>1. \A j \in 0 .. s.level : j \in 0 .. s.depth - 1 /\ j # l
      BY <1>6, <1>8 DEF SymbolsOK
    <3> QED
      BY <1>10, <3>1
  <2>2. \A p \in Opened : p \in Opened' /\ LevelOf(p)' = LevelOf(p)
                                         /\ ScopeOf(p)' = ScopeOf(p)
    BY <1>9
  <2>3. /\ h \in Opened' /\ h \in Nat /\ symbols'.level = symbols.level + 1
        /\ LevelOf(h)' = symbols'.level
        /\ ScopeOf(h)' = symbols'.levels[symbols'.level].scope
    BY <1>4, <1>5, <1>6, <1>9, <1>10
  <2>4. mode # "over"
    BY <1>8
  <2> QED
    BY <1>4, <1>5, <2>1, <2>2, <2>3, <2>4, PathAppends
<1>12. framesBar' = [f \in Opened \cup {h} |-> IF f = h THEN {} ELSE framesBar[f]]
  <2>1. framesBar' = [f \in Opened' |-> AddedTo(f)']
    BY DEF framesBar, Opened, AddedTo, Links
  <2>2. AddedTo(h)' = {}
    <3>1. Links(h)' = {}
      BY <1>5, <1>9, <1>10 DEF Links
    <3> QED
      BY <3>1 DEF AddedTo
  <2>3. ASSUME NEW f \in Opened
        PROVE  AddedTo(f)' = AddedTo(f)
    <3>1. /\ LevelOf(f) \in 0 .. s.depth - 1
          /\ ScopeOf(f) \in 0 .. s.levels[LevelOf(f)].end - 1
      BY <1>8 DEF SInv, Named
    <3>2. Links(f)' = Links(f)
      BY <1>4, <1>5, <1>9, <1>10, <3>1 DEF Links
    <3>3. \A p \in Adds : snap[p]' = snap[p]
      BY <1>9
    <3> QED
      BY <1>9, <3>2, <3>3 DEF AddedTo
  <2>4. \A f \in Opened : f # h /\ framesBar[f] = AddedTo(f)
    BY <1>9, FramesAre
  <2> QED
    BY <1>9, <2>1, <2>2, <2>3, <2>4
<1>13. DOMAIN framesBar = Opened
  BY FramesAre
<1> QED
  BY <1>2, <1>7, <1>11, <1>12, <1>13 DEF Tree!Open

\* add() defines a name in the current scope of the tree.
LEMMA AddDefines ==
    ASSUME SInv, Named', NEW key \in Name, Add(key)
    PROVE  Tree!Define(key)
<1> DEFINE call == [op |-> "add", key |-> key]
           new == NewItem(symbols, key, "VARIABLE")
<1>1. call \in Call /\ call.op = "add" /\ call.key = key /\ Build(call)
  BY DEF Add, Call
<1>2. Tree!Log([op |-> "add", key |-> key])
  BY <1>1, BuildLogs
<1> HIDE DEF call
<1>3. PICK h : h = Len(log) + 1
  OBVIOUS
<1>4. PICK s : s = symbols
  OBVIOUS
<1>5. PICK t : t = symbols'
  OBVIOUS
<1>6. Tree!Here = h
  BY <1>1, <1>3, BuildLogs
<1>7. /\ s = Final /\ SymbolsOK(s) /\ BuildQueues(s)
      /\ t = symbols_add(s, key, "VARIABLE") /\ mode = "build"
  BY <1>1, <1>4, <1>5, BuildExtends, CallForms DEF SInv
<1>8. /\ h \in Nat \ {0} /\ Opened \subseteq 0 .. h - 1 /\ Adds \subseteq 1 .. h - 1
      /\ Opened' = Opened /\ Adds' = Adds \cup {h}
      /\ \A p \in 0 .. h - 1 : LevelOf(p)' = LevelOf(p) /\ ScopeOf(p)' = ScopeOf(p)
      /\ \A p \in 1 .. h - 1 : snap[p]' = snap[p]
      /\ snap[h]' = s
  BY <1>1, <1>3, <1>4, BuildNames DEF SInv
<1>9. /\ t.level = s.level /\ new.id = s.count
      /\ \A j \in 0 .. s.depth - 1 :
            /\ t.levels[j].scope = s.levels[j].scope
            /\ \A k \in 0 .. s.levels[j].end - 1 :
                  t.levels[j].scopes[k] =
                     s.levels[j].scopes[k] \cup
                        (IF j = s.level /\ k = s.levels[j].scope THEN {new} ELSE {})
  BY <1>4, <1>7, AddScopes
<1> HIDE DEF new
<1>10. s.level \in Nat /\ s.level \in 0 .. s.depth - 1 /\ s.depth \in Nat
  BY <1>7 DEF SymbolsOK, BuildQueues
<1>11. /\ pathBar \in Seq(Nat) /\ Len(pathBar) = s.level + 1
       /\ pathBar[s.level + 1] = FrameAt(s.level)
  BY <1>4, <1>7, <1>10, PathIs
<1>12. pathBar' = pathBar
  <2>1. \A j \in 0 .. s.level : t.levels[j].scope = s.levels[j].scope
    BY <1>9, <1>10
  <2>2. \A p \in Opened : p \in Opened' /\ LevelOf(p)' = LevelOf(p)
                                         /\ ScopeOf(p)' = ScopeOf(p)
    BY <1>8
  <2>3. PICK n : n = s.level + 1
    OBVIOUS
  <2>4. n \in 0 .. s.level + 1 /\ t.level = n - 1 /\ n - 1 = s.level
    BY <1>9, <1>10, <2>3
  <2>5. pathBar' = SubSeq(pathBar, 1, n)
    BY <1>4, <1>5, <1>7, <2>1, <2>2, <2>4, PathCut
  <2> QED
    BY <1>11, <2>3, <2>5
<1>13. PICK c : c = FrameAt(s.level)
  OBVIOUS
<1>14. /\ c \in Opened /\ LevelOf(c) = s.level
       /\ ScopeOf(c) = s.levels[s.level].scope
  BY <1>4, <1>7, <1>10, <1>13, FrameNames
<1>15. ASSUME NEW f \in Opened
       PROVE  AddedTo(f)' = AddedTo(f) \cup (IF f = c THEN {h} ELSE {})
  <2>1. /\ LevelOf(f) \in 0 .. s.depth - 1
        /\ ScopeOf(f) \in 0 .. s.levels[LevelOf(f)].end - 1
    BY <1>7 DEF SInv, Named
  <2>2. f = c <=> LevelOf(f) = s.level /\ ScopeOf(f) = s.levels[LevelOf(f)].scope
    BY <1>14 DEF SInv, Named
  <2>3. Links(f)' = Links(f) \cup (IF f = c THEN {new} ELSE {})
    <3>1. LevelOf(f)' = LevelOf(f) /\ ScopeOf(f)' = ScopeOf(f)
      BY <1>8
    <3>2. Links(f)' = t.levels[LevelOf(f)].scopes[ScopeOf(f)]
      BY <1>5, <3>1 DEF Links
    <3>3. Links(f) = s.levels[LevelOf(f)].scopes[ScopeOf(f)]
      BY <1>4 DEF Links
    <3> QED
      BY <1>9, <2>1, <2>2, <3>2, <3>3
  <2>4. \A item \in Links(f) : item.id \in Nat /\ item.id < s.count
    <3>1. Numbered(s)
      <4>1. Len(log) + 1 \in 1 .. Len(log) + 1
        BY <1>3, <1>8
      <4> QED
        BY <1>7, <4>1 DEF SInv, Grown, Final
    <3>2. Links(f) = s.levels[LevelOf(f)].scopes[ScopeOf(f)]
      BY <1>4 DEF Links
    <3> QED
      BY <1>7, <2>1, <3>1, <3>2, ScopeTypes DEF Numbered
  <2>5. ASSUME NEW p \in Adds
        PROVE  snap[p]' = snap[p] /\ snap[p].count \in Nat /\ snap[p].count < s.count
    <3>1. p \in 1 .. h - 1
      BY <1>8
    <3>2. SymbolsOK(snap[p])
      BY <1>3, <1>8, <3>1 DEF SInv, IInv, History
    <3> QED
      BY <1>7, <1>8, <3>1, <3>2 DEF SInv, Born, SymbolsOK
  <2>6. s.count \in Nat
    BY <1>7 DEF SymbolsOK
  <2>7. AddedTo(f)' = {p \in Adds \cup {h} : \E item \in Links(f)' : item.id = snap[p]'.count}
    BY <1>8 DEF AddedTo
  <2>8. ASSUME NEW p \in Adds
        PROVE  (\E item \in Links(f)' : item.id = snap[p]'.count)
               <=> (\E item \in Links(f) : item.id = snap[p].count)
    BY <1>9, <2>3, <2>5, <2>6
  <2>9. (\E item \in Links(f)' : item.id = snap[h]'.count) <=> f = c
    BY <1>8, <1>9, <2>3, <2>4, <2>6
  <2>10. h \notin Adds
    BY <1>8
  <2> QED
    BY <2>7, <2>8, <2>9, <2>10 DEF AddedTo
<1>16. framesBar' = [framesBar EXCEPT ![c] = @ \cup {h}]
  <2>1. framesBar' = [f \in Opened |-> AddedTo(f)']
    <3>1. framesBar' = [f \in Opened' |-> AddedTo(f)']
      BY DEF framesBar, Opened, AddedTo, Links
    <3> QED
      BY <1>8, <3>1
  <2>2. framesBar = [f \in Opened |-> AddedTo(f)]
    BY FramesAre
  <2> QED
    BY <1>14, <1>15, <2>1, <2>2
<1>17. Tree!Current = c
  BY <1>11, <1>13 DEF Tree!Current
<1> QED
  BY <1>2, <1>6, <1>12, <1>16, <1>17 DEF Tree!Define

\* A step that leaves the log and the symbols of every scope alone keeps the frames.
LEMMA FramesStay ==
    ASSUME SInv, mode # "over", log' = log, snap' = snap,
           \A k \in 0 .. symbols.depth - 1 :
              symbols'.levels[k].scopes = symbols.levels[k].scopes
    PROVE  /\ framesBar' = framesBar /\ Opened' = Opened
           /\ \A p : LevelOf(p)' = LevelOf(p) /\ ScopeOf(p)' = ScopeOf(p)
<1>1. Opened' = Opened /\ Adds' = Adds
  BY DEF Opened, Indents, Adds
<1>2. \A p : LevelOf(p)' = LevelOf(p) /\ ScopeOf(p)' = ScopeOf(p)
  BY DEF LevelOf, ScopeOf
<1>3. ASSUME NEW f \in Opened
      PROVE  AddedTo(f)' = AddedTo(f)
  <2>1. PICK s : s = symbols
    OBVIOUS
  <2>2. PICK z : z = Final
    OBVIOUS
  <2>3. LevelOf(f) \in 0 .. s.depth - 1
    <3>1. LevelOf(f) \in 0 .. z.depth - 1
      BY <2>2 DEF SInv, Named
    <3> QED
      BY <2>1, <2>2, <3>1, QueuesAreFinal DEF SInv
  <2>4. Links(f)' = Links(f)
    BY <1>2, <2>1, <2>3 DEF Links
  <2> QED
    BY <1>1, <2>4 DEF AddedTo
<1>4. framesBar' = [f \in Opened' |-> AddedTo(f)']
  BY DEF framesBar, Opened, AddedTo, Links
<1>5. framesBar' = framesBar
  BY <1>1, <1>3, <1>4, FramesAre
<1> QED
  BY <1>1, <1>2, <1>5

\* leave() closes the block of the tree.
LEMMA LeaveClosesBlock ==
    ASSUME SInv, Named', Leave
    PROVE  Tree!Close
<1> DEFINE call == [op |-> "leave"]
<1>1. call \in Call /\ call.op = "leave" /\ Build(call) /\ symbols.level > 0
  BY DEF Leave, Call
<1>2. Tree!Log([op |-> "leave"])
  BY <1>1, BuildLogs
<1> HIDE DEF call
<1>3. PICK h : h = Len(log) + 1
  OBVIOUS
<1>4. PICK s : s = symbols
  OBVIOUS
<1>5. PICK t : t = symbols'
  OBVIOUS
<1>6. PICK stop : stop = LeaveStop(s)
  OBVIOUS
<1>7. /\ SymbolsOK(s) /\ BuildQueues(s) /\ t = symbols_leave(s) /\ mode = "build"
  BY <1>1, <1>4, <1>5, BuildExtends, CallForms DEF SInv
<1>8. /\ h \in Nat \ {0} /\ Opened \subseteq 0 .. h - 1 /\ Adds \subseteq 1 .. h - 1
      /\ Opened' = Opened /\ Adds' = Adds
      /\ \A p \in 0 .. h - 1 : LevelOf(p)' = LevelOf(p) /\ ScopeOf(p)' = ScopeOf(p)
      /\ \A p \in 1 .. h - 1 : snap[p]' = snap[p]
  BY <1>1, <1>3, BuildNames DEF SInv
<1>9. /\ stop \in 1 .. s.level /\ t.level = stop - 1 /\ t.levels = s.levels
  BY <1>1, <1>4, <1>6, <1>7, LeaveCloses
<1>10. s.level \in Nat
  BY <1>7 DEF SymbolsOK, BuildQueues
<1>11. /\ Len(pathBar) > 1 /\ Tree!Closed = SubSeq(pathBar, 1, stop)
  <2> DEFINE links == [l \in 0 .. s.level |-> level_at(s.levels[l])]
  <2>1. IsStop(stop, s.level, links)
    BY <1>6, <1>10, StopExists DEF LeaveStop
  <2>2. \A l \in 1 .. s.level : links[l] = s.levels[l].scopes[s.levels[l].scope]
    BY <1>10 DEF level_at
  <2> HIDE DEF links
  <2> QED
    BY <1>1, <1>4, <1>7, <2>1, <2>2, ClosesAlike
<1>12. pathBar' = SubSeq(pathBar, 1, stop)
  <2>1. stop \in 0 .. s.level + 1
    BY <1>9, <1>10
  <2>2. \A p \in Opened : p \in Opened' /\ LevelOf(p)' = LevelOf(p)
                                         /\ ScopeOf(p)' = ScopeOf(p)
    BY <1>8
  <2>3. \A l \in 0 .. stop - 1 : t.levels[l].scope = s.levels[l].scope
    BY <1>9
  <2> QED
    BY <1>4, <1>5, <1>7, <1>9, <2>1, <2>2, <2>3, PathCut
<1>13. framesBar' = framesBar
  <2>1. ASSUME NEW f \in Opened
        PROVE  AddedTo(f)' = AddedTo(f)
    <3>1. Links(f)' = Links(f)
      BY <1>4, <1>5, <1>8, <1>9 DEF Links
    <3>2. \A p \in Adds : snap[p]' = snap[p]
      BY <1>8
    <3> QED
      BY <1>8, <3>1, <3>2 DEF AddedTo
  <2>2. framesBar' = [f \in Opened' |-> AddedTo(f)']
    BY DEF framesBar, Opened, AddedTo, Links
  <2> QED
    BY <1>8, <2>1, <2>2, FramesAre
<1> QED
  BY <1>2, <1>11, <1>12, <1>13 DEF Tree!Close

\* The visit may start when the tree is back at its root.
LEMMA TurnTurns ==
    ASSUME SInv, Turn
    PROVE  Tree!Turn
<1>1. /\ mode = "build" /\ symbols.level = 0 /\ mode' = "visit"
      /\ symbols' = symbols /\ log' = log /\ pos' = pos /\ snap' = snap
  BY DEF Turn
<1>2. Len(pathBar) = 1
  BY <1>1, PathIs
<1>3. pathBar' = pathBar /\ framesBar' = framesBar
  BY <1>1 DEF pathBar, FrameAt, framesBar, LevelOf, ScopeOf, Indents, Adds
<1> QED
  BY <1>1, <1>2, <1>3 DEF Tree!Turn

\* enter() reopens the scope that the call of the build opened.
LEMMA EnterReopens ==
    ASSUME SInv, Named', Enter
    PROVE  Tree!Reopen
<1>1. /\ mode = "visit" /\ pos <= Len(log) /\ log[pos].op = "indent"
      /\ pos' = pos + 1 /\ mode' = mode /\ log' = log /\ snap' = snap
      /\ symbols' = symbols_enter(symbols)
  BY DEF Enter, Visit, Visiting
<1>2. PICK s : s = symbols
  OBVIOUS
<1>3. PICK u : u = symbols'
  OBVIOUS
<1>4. PICK h : h = pos
  OBVIOUS
<1>5. PICK f : f = Final
  OBVIOUS
<1>6. PICK t : t = snap[h]
  OBVIOUS
<1>7. PICK n : n = snap[h + 1]
  OBVIOUS
<1>8. /\ h \in 1 .. Len(log) /\ Len(log) \in Nat /\ Together(s, t, f)
      /\ n = symbols_indent(t) /\ Before(n, f)
  <2>1. /\ h \in 1 .. Len(log) + 1 /\ Len(log) \in Nat /\ Together(s, t, f)
        /\ log[h] \in Call /\ n = Apply(log[h], t) /\ Before(n, f)
    BY <1>1, <1>2, <1>4, <1>5, <1>6, <1>7, VisitState DEF SInv
  <2> QED
    BY <1>1, <1>4, <2>1, CallForms
<1>9. SymbolsOK(n) /\ BuildQueues(n)
  <2>1. h + 1 \in 1 .. Len(log) + 1
    BY <1>8
  <2> QED
    BY <1>7, <2>1 DEF SInv, IInv, History
<1>10. SymbolsOK(u) /\ VisitQueues(u) /\ Matches(u, n, f)
  BY <1>1, <1>2, <1>3, <1>8, EnterFollows
<1>11. /\ SymbolsOK(s) /\ s.level \in Nat /\ s.level < s.depth /\ s.depth \in Nat
       /\ s.depth = f.depth
       /\ \A k \in 0 .. s.depth - 1 : s.levels[k].scopes = f.levels[k].scopes
  BY <1>1, <1>2, <1>5, QueuesAreFinal DEF SInv
<1>12. /\ u.level = s.level + 1 /\ n.level = u.level /\ u.depth = s.depth
       /\ \A k \in 0 .. s.depth - 1 : k # s.level + 1 => u.levels[k] = s.levels[k]
  <2>1. n.level = u.level /\ u.depth = f.depth
    BY <1>10 DEF Matches
  <2>2. u.level < u.depth
    BY <1>10 DEF SymbolsOK
  <2>3. t.level = s.level
    BY <1>8 DEF Together, Matches
  <2>4. n.level = t.level + 1
    <3>1. SymbolsOK(t) /\ BuildQueues(t)
      BY <1>8 DEF Together
    <3> QED
      BY <1>8, <3>1, IndentScopes
  <2>5. s.level + 1 \in 0 .. s.depth - 1
    BY <1>11, <2>1, <2>2, <2>3, <2>4
  <2>6. DOMAIN s.levels = 0 .. s.depth - 1 /\ IsSymbols(s)
    BY <1>11 DEF SymbolsOK
  <2>7. \A k \in DOMAIN s.levels : k # s.level + 1 => u.levels[k] = s.levels[k]
    BY <1>1, <1>2, <1>3, <2>5, <2>6, SymbolsEnter
  <2> QED
    BY <1>11, <2>1, <2>3, <2>4, <2>6, <2>7
<1>13. u.levels[u.level].scope = n.levels[n.level].scope
  <2>1. Together(u, n, f)
    BY <1>8, <1>9, <1>10 DEF Together
  <2>2. u.level \in 0 .. u.level
    BY <1>11, <1>12
  <2> QED
    BY <1>12, <2>1, <2>2, OpenScopes
<1>14. framesBar' = framesBar /\ Opened' = Opened
       /\ \A p : LevelOf(p)' = LevelOf(p) /\ ScopeOf(p)' = ScopeOf(p)
  <2>1. \A k \in 0 .. s.depth - 1 : u.levels[k].scopes = s.levels[k].scopes
    BY <1>10, <1>11 DEF Matches
  <2> QED
    BY <1>1, <1>2, <1>3, <2>1, FramesStay
<1>15. pathBar' = Append(pathBar, h)
  <2>1. h \in Opened' /\ h \in Nat
    BY <1>1, <1>4, <1>8, <1>14 DEF Opened, Indents
  <2>2. LevelOf(h)' = u.level /\ ScopeOf(h)' = u.levels[u.level].scope
    <3>1. LevelOf(h) = n.level /\ ScopeOf(h) = n.levels[n.level].scope
      BY <1>7 DEF LevelOf, ScopeOf
    <3> QED
      BY <1>12, <1>13, <1>14, <3>1
  <2>3. \A l \in 0 .. s.level : u.levels[l].scope = s.levels[l].scope
    <3>1. \A l \in 0 .. s.level : l \in 0 .. s.depth - 1 /\ l # s.level + 1
      BY <1>11
    <3> QED
      BY <1>12, <3>1
  <2>4. mode # "over"
    BY <1>1
  <2> QED
    BY <1>2, <1>3, <1>12, <1>14, <2>1, <2>2, <2>3, <2>4, PathAppends
<1>16. Tree!Repeat("indent")
  BY <1>1, <1>14 DEF Tree!Repeat
<1> QED
  BY <1>4, <1>15, <1>16 DEF Tree!Reopen

\* Meeting a definition again changes nothing in the tree.
LEMMA RecallRecalls ==
    ASSUME SInv, Recall
    PROVE  Tree!Recall
<1>1. /\ mode = "visit" /\ pos <= Len(log) /\ log[pos].op = "add"
      /\ pos' = pos + 1 /\ mode' = mode /\ log' = log /\ snap' = snap
      /\ symbols' = symbols
  BY DEF Recall, Visit, Visiting
<1>2. pathBar' = pathBar /\ framesBar' = framesBar
  BY <1>1 DEF pathBar, FrameAt, framesBar, LevelOf, ScopeOf, Indents, Adds
<1> QED
  BY <1>1, <1>2 DEF Tree!Recall, Tree!Repeat

\* dedent() closes the block that leave() closed.
LEMMA DedentRecloses ==
    ASSUME SInv, Named', Dedent
    PROVE  Tree!Reclose
<1>1. /\ mode = "visit" /\ pos <= Len(log) /\ log[pos].op = "leave"
      /\ pos' = pos + 1 /\ mode' = mode /\ log' = log /\ snap' = snap
      /\ symbols' = symbols_dedent(symbols)
  BY DEF Dedent, Visit, Visiting
<1>2. PICK s : s = symbols
  OBVIOUS
<1>3. PICK u : u = symbols'
  OBVIOUS
<1>4. PICK f : f = Final
  OBVIOUS
<1>5. PICK t : t = snap[pos]
  OBVIOUS
<1>6. PICK stop : stop = DedentStop(s)
  OBVIOUS
<1>7. /\ Together(s, t, f) /\ t.level > 0 /\ Before(symbols_leave(t), f)
  <2>1. PICK h : h = pos
    OBVIOUS
  <2>2. /\ Together(s, t, f) /\ log[h] \in Call /\ snap[h + 1] = Apply(log[h], t)
        /\ t.level > 0 /\ Before(snap[h + 1], f)
    BY <1>1, <1>2, <1>4, <1>5, <2>1, VisitState DEF SInv
  <2>3. snap[h + 1] = symbols_leave(t)
    BY <1>1, <2>1, <2>2, CallForms
  <2> QED
    BY <2>2, <2>3
<1>8. /\ SymbolsOK(s) /\ VisitQueues(s) /\ s.level = t.level /\ s.level \in Nat
      /\ s.level < s.depth /\ s.depth \in Nat /\ BuildQueues(t) /\ SymbolsOK(t)
  <2>1. SymbolsOK(s) /\ VisitQueues(s) /\ s.level = t.level /\ BuildQueues(t)
        /\ SymbolsOK(t)
    BY <1>7 DEF Together, Matches
  <2> QED
    BY <1>7, <2>1 DEF SymbolsOK
<1>9. /\ stop \in 1 .. s.level
  BY <1>6, <1>7, <1>8, DedentStopsAlike, LeaveCloses
<1>10. /\ u.level = stop - 1
       /\ \A k \in 0 .. s.depth - 1 : u.levels[k].scopes = s.levels[k].scopes
  BY <1>1, <1>2, <1>3, <1>6, <1>8, DedentQueues
<1>11. \A k \in 0 .. stop - 1 : u.levels[k].scope = s.levels[k].scope
  <2>1. \A k \in 0 .. s.depth - 1 :
           u.levels[k] = IF k \in stop .. s.level THEN level_drop(s.levels[k])
                                                  ELSE s.levels[k]
    BY <1>1, <1>2, <1>3, <1>6, <1>8, SymbolsDedent DEF SymbolsOK
  <2>2. \A k \in 0 .. stop - 1 : k \in 0 .. s.depth - 1 /\ k \notin stop .. s.level
    BY <1>8, <1>9
  <2> QED
    BY <2>1, <2>2
<1>12. Len(pathBar) > 1 /\ Tree!Closed = SubSeq(pathBar, 1, stop)
  <2> DEFINE links == [l \in 0 .. s.level |-> PolledLink(s.levels[l])]
  <2>1. IsStop(stop, s.level, links)
    BY <1>6, <1>8, StopExists DEF DedentStop
  <2>2. ASSUME NEW l \in 1 .. s.level
        PROVE  links[l] = s.levels[l].scopes[s.levels[l].scope]
    <3>1. l \in 0 .. s.level
      BY <1>8
    <3>2. s.levels[l].begin < s.levels[l].end /\ s.levels[l].scope = s.levels[l].begin
      BY <1>7, <3>1, OpenScopes
    <3>3. s.levels[l].begin \in Nat /\ s.levels[l].end \in Nat
      BY <1>8, <3>1, QueueTypes
    <3> QED
      BY <3>1, <3>2, <3>3 DEF PolledLink, level_empty
  <2> HIDE DEF links
  <2> QED
    BY <1>1, <1>2, <1>7, <1>8, <2>1, <2>2, ClosesAlike
<1>13. framesBar' = framesBar /\ Opened' = Opened
       /\ \A p : LevelOf(p)' = LevelOf(p) /\ ScopeOf(p)' = ScopeOf(p)
  BY <1>1, <1>2, <1>3, <1>10, FramesStay
<1>14. pathBar' = SubSeq(pathBar, 1, stop)
  <2>1. stop \in 0 .. s.level + 1
    BY <1>8, <1>9
  <2>2. mode # "over"
    BY <1>1
  <2> QED
    BY <1>2, <1>3, <1>10, <1>11, <1>13, <2>1, <2>2, PathCut
<1>15. Tree!Repeat("leave")
  BY <1>1, <1>13 DEF Tree!Repeat
<1> QED
  BY <1>12, <1>14, <1>15 DEF Tree!Reclose

\* symbols_delete ends the walk at the root of the tree.
LEMMA DeleteEnds ==
    ASSUME SInv, Delete
    PROVE  Tree!End
<1>1. /\ mode = "visit" /\ pos = Len(log) + 1 /\ mode' = "over" /\ pos' = pos
      /\ log' = log /\ snap' = snap
      /\ symbols' = symbols_dedent(symbols)
  BY DEF Delete
<1>2. PICK s : s = symbols
  OBVIOUS
<1>3. PICK u : u = symbols'
  OBVIOUS
<1>4. PICK f : f = Final
  OBVIOUS
<1>5. s.level = 0 /\ SymbolsOK(s) /\ VisitQueues(s)
  BY <1>1, <1>2, VisitState DEF SInv, Together
<1>6. /\ u.level = -1
      /\ \A k \in 0 .. s.depth - 1 : u.levels[k].scopes = s.levels[k].scopes
  <2>1. /\ DedentStop(s) \in 0 .. s.level /\ u.level = DedentStop(s) - 1
        /\ \A k \in 0 .. s.depth - 1 : u.levels[k].scopes = s.levels[k].scopes
    BY <1>1, <1>2, <1>3, <1>5, DedentQueues
  <2> QED
    BY <1>5, <2>1
<1>7. framesBar' = framesBar
  BY <1>1, <1>2, <1>3, <1>6, FramesStay
<1>8. pathBar = <<0>>
  <2>1. LevelOf(0) = 0 /\ ScopeOf(0) = 0 /\ 0 \in Opened
    <3>1. snap[1] = symbols_new
      BY DEF SInv, IInv, History
    <3> QED
      BY <3>1, NewBuilds DEF LevelOf, ScopeOf, BuildQueues, Opened
  <2>2. s.levels[0].scope = 0
    <3>1. 0 \in 0 .. s.depth - 1 /\ s.levels[0].scope \in 0 .. f.levels[0].end - 1
      BY <1>1, <1>2, <1>4, <1>5, QueuesAreFinal DEF SInv
    <3>2. BuildQueues(f)
      <4>1. Len(log) + 1 \in 1 .. Len(log) + 1
        BY DEF SInv, IInv, Typed
      <4> QED
        BY <1>4, <4>1 DEF SInv, IInv, History, Final
    <3> QED
      BY <3>1, <3>2 DEF BuildQueues
  <2>3. FrameAt(0) = 0
    <3>1. /\ FrameAt(0) \in Opened /\ LevelOf(FrameAt(0)) = 0
          /\ ScopeOf(FrameAt(0)) = s.levels[0].scope
      BY <1>1, <1>2, <1>5, FrameNames
    <3> QED
      BY <2>1, <2>2, <3>1 DEF SInv, Named
  <2>4. pathBar \in Seq(Nat) /\ Len(pathBar) = 1 /\ pathBar[1] = FrameAt(0)
    BY <1>1, <1>2, <1>5, PathIs
  <2> QED
    BY <2>3, <2>4
<1>9. pathBar' = <<>>
  BY <1>3, <1>6 DEF pathBar
<1> QED
  BY <1>1, <1>7, <1>8, <1>9 DEF Tree!End, Tree!Here

\* Every step of the table is a step of the tree, or none.
LEMMA NextTree ==
    ASSUME SInv, Named', [Next]_vars
    PROVE  [Tree!Next]_(Tree!vars)
<1>1. CASE Indent
  BY <1>1, IndentOpens DEF Tree!Next
<1>2. ASSUME NEW key \in Name, Add(key)
      PROVE  Tree!Next
  BY <1>2, AddDefines DEF Tree!Next
<1>3. CASE Leave
  BY <1>3, LeaveClosesBlock DEF Tree!Next
<1>4. CASE Turn
  BY <1>4, TurnTurns DEF Tree!Next
<1>5. CASE Enter
  BY <1>5, EnterReopens DEF Tree!Next
<1>6. CASE Recall
  BY <1>6, RecallRecalls DEF Tree!Next
<1>7. CASE Dedent
  BY <1>7, DedentRecloses DEF Tree!Next
<1>8. CASE Delete
  BY <1>8, DeleteEnds DEF Tree!Next
<1>9. CASE Over \/ UNCHANGED vars
  <2>1. /\ symbols' = symbols /\ mode' = mode /\ log' = log /\ pos' = pos
        /\ snap' = snap
    BY <1>9 DEF Over, vars
  <2>2. pathBar' = pathBar /\ framesBar' = framesBar
    BY <2>1 DEF pathBar, FrameAt, framesBar, LevelOf, ScopeOf, Indents, Adds
  <2> QED
    BY <2>1, <2>2 DEF Tree!vars
<1> QED
  BY <1>1, <1>2, <1>3, <1>4, <1>5, <1>6, <1>7, <1>8, <1>9 DEF Next, Revisit

\* The queues walk the tree: whatever the calls, what symbols_enter and symbols_dedent
\* make of the queues is to reopen and to close, in the same order, the scopes that
\* symbols_indent opened and symbols_leave closed, each with the symbols it had.
THEOREM ScopesFormTree == Spec => ImplementsTree
<1>1. Init /\ SInv => Tree!Init
  BY InitTree
<1>2. SInv /\ Named' /\ [Next]_vars => [Tree!Next]_(Tree!vars)
  BY NextTree
<1>3. SInv => Named
  BY DEF SInv
<1> QED
  BY <1>1, <1>2, <1>3, AlwaysNamed, PTL DEF Spec, ImplementsTree, Tree!Spec
=============================================================================
