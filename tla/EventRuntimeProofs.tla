------------------------- MODULE EventRuntimeProofs -------------------------
(***************************************************************************)
(* The event worker keeps its rows true to memory and ledger, never takes  *)
(* back an end or a decision, and never asks the model about an event more *)
(* often than its attempts allow, for every set of events, every limit of  *)
(* the configuration and every bound of the model.                         *)
(*                                                                         *)
(* The inductive invariant says of each event how its row, its decision,   *)
(* its order and the calls made for it fit together (EventFits), what the  *)
(* cycle in progress knows of its event at each point (CycleFits), and     *)
(* that a write which outlived its cycle is of an event that is struck.    *)
(* A step of a cycle can break only what is said of its own event.         *)
(***************************************************************************)
EXTENDS EventRuntime, ArithmeticProofs

States == Terminal \cup Incomplete \cup {"absent"}
Rows == [state : States, attempts : Nat, linked : BOOLEAN, ordersBefore : BOOLEAN,
         place : 0..Cardinality(Events)]
Cycles == [pc : Pcs, event : Events \cup {Never}, decision : DecisionType, seen : Int,
           busy : BOOLEAN, until : Int]
Writes == [kind : {"commit", "record"}, event : Events, decision : DecisionType, until : Int]

\* A call of the cycle for e that is not on record yet.
Pending(e) == IF cycle.event = e /\ InCall THEN 1 ELSE 0

\* An event without a row is new; one that was taken up again is incomplete; only a
\* receipt links a row to its order.
RowFits(e) ==
    /\ rows[e].state = "absent" => rows[e] = NoRow /\ ~Decided(e) /\ e \notin struck
    /\ rows[e].linked => rows[e].state \in {"shadow_recorded", "shadow_rejected", "completed"}
    /\ e \in recovering => rows[e].state \in Incomplete

\* An order is of a decision, and its end is known.
OrderFits(e) ==
    /\ Recorded(e) => Decided(e)
    /\ e \in refused => orders[e] = "dropped"
    /\ e \in unmarked => orders[e] = "filled"

\* RowTellsOrder, of one event.
TellsOrder(e) ==
    /\ rows[e].state = "completed" => orders[e] = "filled"
    /\ rows[e].state = "shadow_recorded" => Recorded(e) /\ e \notin refused
    /\ rows[e].state = "shadow_rejected" => orders[e] = "dropped"
    /\ e \notin struck =>
         /\ rows[e].state \in Refusals \cup Unheard => ~Recorded(e)
         /\ rows[e].state \in Unheard \cup {"received"} => ~Decided(e)

\* Calls are on record as attempts, lost or pending, and none is made when attempts are used up.
CallsFit(e) ==
    /\ calls[e] <= rows[e].attempts + lost[e] + Pending(e)
    /\ calls[e] <= MaxAttempts + lost[e]
    /\ ~Decided(e) /\ rows[e].attempts >= MaxAttempts =>
         rows[e].state \in Terminal \cup {"reasoning_failed"}

\* What the cycle may rely on about its event, at each point.
CycleFits(e) ==
    cycle.event = e =>
      /\ cycle.pc # "idle" /\ rows[e].state \notin Terminal /\ e \notin recovering
      /\ cycle.pc # "look" => rows[e].state # "absent"
      /\ cycle.pc \in {"context", "answer", "commit"} => rows[e].state # "received"
      /\ cycle.pc = "look" /\ ~Decided(e) => rows[e].attempts < MaxAttempts
      /\ cycle.pc = "context" => rows[e].attempts < MaxAttempts
      /\ cycle.pc \in {"context", "answer"} /\ e \notin struck => ~Decided(e)
      /\ cycle.pc \in {"committed", "recover", "refresh", "post", "record", "recorded"} => Decided(e)
      /\ cycle.pc \in {"committed", "refresh", "post", "record"} /\ e \notin struck => ~Recorded(e)
      /\ cycle.pc = "recorded" => Recorded(e)

EventFits(e) == RowFits(e) /\ OrderFits(e) /\ TellsOrder(e) /\ CallsFit(e) /\ CycleFits(e)

\* A write that outlived its cycle strikes its event.
WriteFits(w) == w.event \in struck /\ (w.kind = "record" => Decided(w.event))

\* The inductive invariant.
Inv ==
    /\ TypeOK
    /\ \A e \in Events : EventFits(e)
    /\ \A w \in late : WriteFits(w)

\* TerminalIsFinal and DecisionIsFinal, of one event.
EndStays(e) ==
    rows[e].state \in Terminal =>
      \/ rows'[e].state = rows[e].state
      \/ rows[e].state = "shadow_recorded" /\ rows'[e].state \in {"completed", "shadow_rejected"}

DecisionStays(e) ==
    Decided(e) => /\ committed'[e] = committed[e]
                  /\ e \notin struck => calls'[e] = calls[e]

\* What every step keeps.
Keeps == Inv' /\ \A e \in Events : EndStays(e) /\ DecisionStays(e)
-----------------------------------------------------------------------------
(***************************************************************************)
(* What a step does to the row of an event                                 *)
(***************************************************************************)
LEMMA Bounds ==
    /\ IsFiniteSet(Events) /\ Never \notin Events /\ Cardinality(Events) \in Nat
    /\ MaxAttempts \in Nat /\ MaxAttempts > 0
    /\ MaxClock \in Nat /\ MaxCrashes \in Nat /\ MaxErrors \in Nat /\ DecisionTTL \in Nat /\ ApprovalTTL \in Nat
BY RuntimeAssumption, FS_CardinalityType

\* The row of e takes state st, after n attempts; the others stay.
RowTurns(e, st, n, linked) ==
    /\ rows' \in [Events -> Rows]
    /\ \A f \in Events \ {e} : rows'[f] = rows[f]
    /\ rows'[e].state = st /\ rows'[e].attempts = n /\ rows'[e].linked = linked

\* A row stays a row when one of its fields is set.
LEMMA RowFields ==
    ASSUME NEW r \in Rows
    PROVE  /\ r.state \in States /\ r.attempts \in Nat /\ r.linked \in BOOLEAN
           /\ \A st \in States : [r EXCEPT !.state = st] \in Rows
           /\ \A n \in Nat : [r EXCEPT !.attempts = n] \in Rows
           /\ [r EXCEPT !.linked = TRUE] \in Rows
           /\ \A b \in BOOLEAN : [r EXCEPT !.ordersBefore = b] \in Rows
           /\ \A n \in 0..Cardinality(Events) : [r EXCEPT !.place = n] \in Rows
BY DEF Rows

\* The row of e is replaced.
LEMMA RowReplaced ==
    ASSUME TypeOK, NEW e \in Events, NEW p \in Rows, rows' = [rows EXCEPT ![e] = p]
    PROVE  RowTurns(e, p.state, p.attempts, p.linked)
<1>1. rows \in [Events -> Rows]
  BY DEF TypeOK, Rows, States
<1> QED
  BY <1>1 DEF RowTurns

LEMMA UpsertTurns ==
    ASSUME TypeOK, NEW e \in Events, NEW st \in States, Upsert(e, st)
    PROVE  RowTurns(e, st, rows[e].attempts, rows[e].linked)
<1> DEFINE p == [rows[e] EXCEPT !.state = st]
<1>1. rows[e] \in Rows
  BY DEF TypeOK, Rows, States
<1>2. p \in Rows /\ p.state = st /\ p.attempts = rows[e].attempts /\ p.linked = rows[e].linked
  BY <1>1, RowFields DEF Rows
<1>3. rows' = [rows EXCEPT ![e] = p]
  BY DEF Upsert
<1> HIDE DEF p
<1> QED
  BY <1>2, <1>3, RowReplaced

LEMMA AttemptTurns ==
    ASSUME TypeOK, NEW e \in Events, NEW st \in States, UpsertAttempt(e, st)
    PROVE  RowTurns(e, st, rows[e].attempts + 1, rows[e].linked)
<1> DEFINE p1 == [rows[e] EXCEPT !.state = st]
           p == [p1 EXCEPT !.attempts = rows[e].attempts + 1]
<1>1. rows[e] \in Rows /\ rows[e].attempts + 1 \in Nat
  BY DEF TypeOK, Rows, States
<1>2. p1 \in Rows /\ p1.state = st /\ p1.attempts = rows[e].attempts /\ p1.linked = rows[e].linked
  BY <1>1, RowFields DEF Rows
<1>3. rows' = [rows EXCEPT ![e] = p]
  BY <1>1 DEF UpsertAttempt, TypeOK
<1> HIDE DEF p1
<1>4. p \in Rows /\ p.state = st /\ p.attempts = rows[e].attempts + 1 /\ p.linked = rows[e].linked
  BY <1>1, <1>2, RowFields DEF Rows
<1> HIDE DEF p
<1> QED
  BY <1>3, <1>4, RowReplaced

LEMMA ReceiptTurns ==
    ASSUME TypeOK, NEW e \in Events, UpsertReceipt(e)
    PROVE  RowTurns(e, IF e \in refused THEN "shadow_rejected" ELSE "shadow_recorded", rows[e].attempts, TRUE)
<1> DEFINE st == IF e \in refused THEN "shadow_rejected" ELSE "shadow_recorded"
           p1 == [rows[e] EXCEPT !.state = st]
           p == [p1 EXCEPT !.linked = TRUE]
<1>1. rows[e] \in Rows /\ st \in States
  BY DEF TypeOK, Rows, States, Terminal
<1>2. rows' = [rows EXCEPT ![e] = p]
  BY <1>1 DEF UpsertReceipt, TypeOK
<1> HIDE DEF st
<1>3. p1 \in Rows /\ p1.state = st /\ p1.attempts = rows[e].attempts
  BY <1>1, RowFields DEF Rows
<1> HIDE DEF p1
<1>4. p \in Rows /\ p.state = st /\ p.attempts = rows[e].attempts /\ p.linked = TRUE
  BY <1>3, RowFields DEF Rows
<1> HIDE DEF p
<1>5. RowTurns(e, st, rows[e].attempts, TRUE)
  BY <1>2, <1>4, RowReplaced
<1> QED
  BY <1>5 DEF st

LEMMA ContextTurns ==
    ASSUME TypeOK, NEW e \in Events, NEW st \in States, UpsertContext(e, st)
    PROVE  RowTurns(e, st, rows[e].attempts, rows[e].linked)
<1>0. PICK b \in BOOLEAN : b = (Outstanding # {})
  OBVIOUS
<1> DEFINE p1 == [rows[e] EXCEPT !.state = st]
           p == [p1 EXCEPT !.ordersBefore = b]
<1>1. rows[e] \in Rows
  BY DEF TypeOK, Rows, States
<1>2. rows' = [rows EXCEPT ![e] = p]
  BY <1>0, <1>1 DEF UpsertContext, TypeOK
<1>3. p1 \in Rows /\ p1.state = st /\ p1.attempts = rows[e].attempts /\ p1.linked = rows[e].linked
  BY <1>1, RowFields DEF Rows
<1> HIDE DEF p1
<1>4. p \in Rows /\ p.state = st /\ p.attempts = rows[e].attempts /\ p.linked = rows[e].linked
  BY <1>3, RowFields DEF Rows
<1> HIDE DEF p
<1> QED
  BY <1>2, <1>4, RowReplaced

\* There is a place for the row of an event that has none.
LEMMA PlaceLeft ==
    ASSUME NEW e \in Events, rows[e] = NoRow
    PROVE  NextPlace \in 0..Cardinality(Events)
<1> DEFINE S == {f \in Events : rows[f] # NoRow}
<1>1. S \subseteq Events \ {e} /\ IsFiniteSet(Events \ {e})
      /\ Cardinality(Events \ {e}) = Cardinality(Events) - 1
  BY Bounds, FS_RemoveElement
<1>2. IsFiniteSet(S) /\ Cardinality(S) <= Cardinality(Events \ {e})
  BY <1>1, FS_Subset
<1>3. Cardinality(S) \in Nat
  BY <1>2, FS_CardinalityType
<1> HIDE DEF S
<1>4. Cardinality(S) + 1 \in 0..Cardinality(Events)
  BY <1>1, <1>2, <1>3, Bounds
<1> QED
  BY <1>4 DEF NextPlace, S

LEMMA InsertTurns ==
    ASSUME TypeOK, NEW e \in Events, rows[e] = NoRow, NEW st \in States, Insert(e, st)
    PROVE  RowTurns(e, st, 0, FALSE)
<1>0. PICK n : n = NextPlace
  OBVIOUS
<1> DEFINE p1 == [rows[e] EXCEPT !.state = st]
           p == [p1 EXCEPT !.place = n]
<1>1. rows[e] \in Rows /\ n \in 0..Cardinality(Events) /\ rows[e].attempts = 0 /\ rows[e].linked = FALSE
  BY <1>0, PlaceLeft DEF TypeOK, Rows, States, NoRow
<1>2. rows' = [rows EXCEPT ![e] = p]
  BY <1>0, <1>1 DEF Insert, TypeOK
<1>3. p1 \in Rows /\ p1.state = st /\ p1.attempts = 0 /\ p1.linked = FALSE
  BY <1>1, RowFields DEF Rows
<1> HIDE DEF p1
<1>4. p \in Rows /\ p.state = st /\ p.attempts = 0 /\ p.linked = FALSE
  BY <1>1, <1>3, RowFields DEF Rows
<1> HIDE DEF p
<1>5. RowTurns(e, p.state, p.attempts, p.linked)
  BY <1>2, <1>4, RowReplaced
<1> QED
  BY <1>4, <1>5
-----------------------------------------------------------------------------
(***************************************************************************)
(* What a step does to the cycle and to the ledger                         *)
(***************************************************************************)
\* The cycle is at pc with event e.
CycleTurns(e, pc) == cycle' \in Cycles /\ cycle'.event = e /\ cycle'.pc = pc

LEMMA IdleType ==
    /\ NoDecision \in DecisionType /\ Idle \in Cycles
    /\ Idle.event = Never /\ Idle.pc = "idle"
<1>1. NoDecision \in DecisionType
  BY DEF NoDecision, DecisionType
<1> QED
  BY <1>1 DEF Idle, Cycles, Pcs

\* A cycle stays a cycle when one of its fields is set.
LEMMA CycleFields ==
    ASSUME NEW c \in Cycles
    PROVE  /\ c.decision \in DecisionType /\ c.until \in Int /\ c.pc \in Pcs /\ c.event \in Events \cup {Never}
           /\ \A pc \in Pcs : LET x == [c EXCEPT !.pc = pc]
                              IN  x \in Cycles /\ x.pc = pc /\ x.event = c.event /\ x.decision = c.decision
           /\ \A d \in DecisionType : LET x == [c EXCEPT !.decision = d]
                                      IN  x \in Cycles /\ x.pc = c.pc /\ x.event = c.event
           /\ \A n \in Int : LET x == [c EXCEPT !.seen = n]
                             IN  x \in Cycles /\ x.pc = c.pc /\ x.event = c.event
           /\ \A b \in BOOLEAN : LET x == [c EXCEPT !.busy = b]
                                 IN  x \in Cycles /\ x.pc = c.pc /\ x.event = c.event
           /\ \A n \in Int : LET x == [c EXCEPT !.until = n]
                             IN  x \in Cycles /\ x.pc = c.pc /\ x.event = c.event
           /\ \A f \in Events : LET x == [c EXCEPT !.event = f]
                                IN  x \in Cycles /\ x.pc = c.pc /\ x.event = f
BY DEF Cycles

LEMMA GoToTurns ==
    ASSUME TypeOK, NEW pc \in Pcs, GoTo(pc)
    PROVE  CycleTurns(cycle.event, pc)
<1>1. cycle \in Cycles
  BY DEF TypeOK, Cycles
<1> QED
  BY <1>1, CycleFields DEF GoTo, CycleTurns

LEMMA BeginTurns ==
    ASSUME NEW e \in Events, Begin(e)
    PROVE  CycleTurns(e, "look")
<1> DEFINE c1 == [Idle EXCEPT !.pc = "look"]
           c == [c1 EXCEPT !.event = e]
<1>1. "look" \in Pcs
  BY DEF Pcs
<1>2. c1 \in Cycles /\ c1.pc = "look"
  BY <1>1, IdleType, CycleFields
<1>3. cycle' = c
  BY IdleType DEF Begin, Idle
<1> HIDE DEF c1
<1>4. c \in Cycles /\ c.pc = "look" /\ c.event = e
  BY <1>2, CycleFields
<1> QED
  BY <1>3, <1>4 DEF CycleTurns

\* The orders of the others may only end.
OthersOrders(e) ==
    /\ orders' \in [Events -> Life!States]
    /\ \A f \in Events \ {e} : \/ orders'[f] = orders[f]
                               \/ orders[f] = "outstanding" /\ orders'[f] = "dropped"

\* The order of e is put on record, accepted or refused.
OrderRecorded(e) ==
    /\ OthersOrders(e) /\ orders[e] = "new" /\ orders'[e] \in {"outstanding", "dropped"}
    /\ refused' \in SUBSET Events /\ refused \subseteq refused' /\ refused' \subseteq refused \cup {e}
    /\ e \in refused' => orders'[e] = "dropped"
    /\ position' \in 0..1 /\ snapshot' = snapshot

LEMMA RecordOrderRecords ==
    ASSUME TypeOK, NEW e \in Events, OrderFits(e), NEW d, NEW until, RecordOrder(e, d, until)
    PROVE  OrderRecorded(e)
<1>1. orders \in [Events -> Life!States] /\ orders[e] = "new" /\ e \notin refused /\ snapshot' = snapshot
  BY DEF TypeOK, RecordOrder, Recorded, OrderFits
<1>2. CASE Life!Submit(e) /\ UNCHANGED refused
  <2>1. orders' = [Life!Dropping(Life!Outstanding) EXCEPT ![e] = "outstanding"] /\ position' = position
    BY <1>2 DEF Life!Submit
  <2>2. /\ orders' \in [Events -> Life!States] /\ orders'[e] = "outstanding"
        /\ \A f \in Events \ {e} : orders'[f] = IF f \in Life!Outstanding THEN "dropped" ELSE orders[f]
    BY <1>1, <2>1 DEF Life!Dropping, Life!States
  <2>3. OthersOrders(e)
    BY <2>2 DEF OthersOrders, Life!Outstanding
  <2> QED
    BY <1>1, <1>2, <2>1, <2>2, <2>3 DEF OrderRecorded, TypeOK
<1>3. CASE orders' = Life!Dropping({e}) /\ refused' = refused \cup {e} /\ UNCHANGED position
  <2>1. /\ orders' \in [Events -> Life!States] /\ orders'[e] = "dropped"
        /\ \A f \in Events \ {e} : orders'[f] = orders[f]
    BY <1>1, <1>3 DEF Life!Dropping, Life!States
  <2> QED
    BY <1>1, <1>3, <2>1 DEF OrderRecorded, OthersOrders, TypeOK
<1> QED
  BY <1>2, <1>3 DEF RecordOrder
-----------------------------------------------------------------------------
(***************************************************************************)
(* A step for one event                                                    *)
(***************************************************************************)
\* A step for e leaves the other events alone.
OthersStay(e) ==
    /\ rows' \in [Events -> Rows] /\ committed' \in [Events -> DecisionType]
    /\ calls' \in [Events -> Nat] /\ lost' \in [Events -> Nat]
    /\ \A f \in Events \ {e} : /\ rows'[f] = rows[f] /\ committed'[f] = committed[f]
                               /\ calls'[f] = calls[f] /\ lost'[f] = lost[f]
    /\ OthersOrders(e)
    /\ refused' \in SUBSET Events /\ refused \subseteq refused' /\ refused' \subseteq refused \cup {e}
    /\ struck' \in SUBSET Events /\ struck \subseteq struck' /\ struck' \subseteq struck \cup {e}
    /\ recovering' \subseteq recovering
    /\ cycle' \in Cycles /\ cycle'.event \in {e, Never}

LEMMA OthersFit ==
    ASSUME Inv, NEW e \in Events, cycle.event \in {e, Never}, unmarked' = unmarked, OthersStay(e),
           NEW f \in Events \ {e}
    PROVE  EventFits(f)' /\ EndStays(f) /\ DecisionStays(f)
<1>1. EventFits(f) /\ orders[f] \in Life!States /\ calls[f] \in Nat /\ lost[f] \in Nat /\ rows[f].attempts \in Nat
  BY DEF Inv, TypeOK
<1>2. /\ rows'[f] = rows[f] /\ committed'[f] = committed[f] /\ calls'[f] = calls[f] /\ lost'[f] = lost[f]
      /\ \/ orders'[f] = orders[f]
         \/ orders[f] = "outstanding" /\ orders'[f] = "dropped"
      /\ (f \in refused' <=> f \in refused) /\ (f \in struck' <=> f \in struck)
      /\ (f \in recovering' => f \in recovering)
  BY DEF OthersStay, OthersOrders
<1>3. cycle.event # f /\ cycle'.event # f
  BY Bounds DEF OthersStay
<1>4. Decided(f)' = Decided(f) /\ (Recorded(f)' <=> Recorded(f))
  BY <1>2 DEF Decided, Recorded
<1>5. RowFits(f)'
  BY <1>1, <1>2, <1>4 DEF EventFits, RowFits
<1>6. OrderFits(f)'
  BY <1>1, <1>2, <1>4 DEF EventFits, OrderFits
<1>7. TellsOrder(f)'
  BY <1>1, <1>2, <1>4 DEF EventFits, TellsOrder
<1>8. CallsFit(f)'
  <2>1. Pending(f)' = 0 /\ Pending(f) = 0
    BY <1>3 DEF Pending
  <2> QED
    BY <1>1, <1>2, <1>4, <2>1 DEF EventFits, CallsFit
<1>9. CycleFits(f)'
  BY <1>3 DEF CycleFits
<1> QED
  BY <1>2, <1>5, <1>6, <1>7, <1>8, <1>9 DEF EventFits, EndStays, DecisionStays

\* What is not said of one event keeps its type.
RestTyped ==
    /\ version' \in Nat /\ position' \in 0..1 /\ snapshot' \in Nat
    /\ late' \in SUBSET Writes /\ audits' \in Nat
    /\ faults' \in [crashes : 0..MaxCrashes, errors : 0..MaxErrors]

\* A step for e keeps what e itself keeps.
LEMMA OneEvent ==
    ASSUME Inv, NEW e \in Events, cycle.event \in {e, Never}, UNCHANGED surroundings,
           OthersStay(e), RestTyped,
           \A w \in late' : w \in late \/ WriteFits(w)',
           EventFits(e)', EndStays(e), DecisionStays(e)
    PROVE  Keeps
<1>1. \A f \in Events : EventFits(f)' /\ EndStays(f) /\ DecisionStays(f)
  BY OthersFit DEF surroundings
<1>2. TypeOK'
  BY DEF Inv, TypeOK, surroundings, OthersStay, OthersOrders, RestTyped, Rows, States, Cycles, Writes
<1>3. ASSUME NEW w \in late' PROVE WriteFits(w)'
  <2> SUFFICES ASSUME w \in late PROVE WriteFits(w)'
    OBVIOUS
  <2>1. WriteFits(w) /\ w.event \in Events
    BY DEF Inv, TypeOK
  <2>2. Decided(w.event) => Decided(w.event)'
    <3>1. CASE w.event = e
      BY <3>1 DEF DecisionStays, Decided
    <3>2. CASE w.event # e
      BY <2>1, <3>2 DEF OthersStay, Decided
    <3> QED
      BY <3>1, <3>2
  <2> QED
    BY <2>1, <2>2 DEF WriteFits, OthersStay
<1> QED
  BY <1>1, <1>2, <1>3 DEF Keeps, Inv

\* Most steps of a cycle touch neither memory nor ledger, and end no write.
quiet == <<memory, ledger, late, struck>>

LEMMA QuietStep ==
    ASSUME Inv, NEW e \in Events, cycle.event \in {e, Never}, UNCHANGED <<surroundings, quiet>>,
           rows' \in [Events -> Rows], \A f \in Events \ {e} : rows'[f] = rows[f],
           calls' \in [Events -> Nat], \A f \in Events \ {e} : calls'[f] = calls[f],
           lost' \in [Events -> Nat], \A f \in Events \ {e} : lost'[f] = lost[f],
           cycle' \in Cycles, cycle'.event \in {e, Never}, recovering' \subseteq recovering,
           audits' \in Nat, faults' \in [crashes : 0..MaxCrashes, errors : 0..MaxErrors],
           RowFits(e)', TellsOrder(e)', CallsFit(e)', CycleFits(e)',
           rows[e].state \notin Terminal,
           Decided(e) /\ e \notin struck => calls'[e] = calls[e]
    PROVE  Keeps
<1>1. UNCHANGED <<version, committed, orders, refused, position, snapshot, late, struck>> /\ UNCHANGED surroundings
  BY DEF quiet, memory, ledger
<1>2. OthersStay(e) /\ RestTyped
  BY <1>1 DEF OthersStay, OthersOrders, RestTyped, Inv, TypeOK, Writes
<1>3. OrderFits(e)'
  BY <1>1 DEF Inv, EventFits, OrderFits, Decided, Recorded, surroundings
<1>4. EventFits(e)' /\ EndStays(e) /\ DecisionStays(e)
  BY <1>1, <1>3 DEF EventFits, EndStays, DecisionStays
<1> QED
  BY <1>1, <1>2, <1>4, OneEvent
-----------------------------------------------------------------------------
(***************************************************************************)
(* Steps of a cycle that touch neither memory nor ledger                   *)
(***************************************************************************)
\* What is known of the cycle's event, its row and its orders.
LEMMA CycleKnown ==
    ASSUME Inv, NEW e \in Events, cycle.event = e
    PROVE  /\ EventFits(e) /\ rows[e] \in Rows /\ cycle \in Cycles /\ TypeOK
           /\ rows[e].state \in States /\ rows[e].state \notin Terminal /\ rows[e].linked = FALSE
           /\ rows[e].attempts \in Nat /\ calls[e] \in Nat /\ lost[e] \in Nat /\ audits \in Nat
           /\ calls \in [Events -> Nat] /\ lost \in [Events -> Nat] /\ e \notin recovering
           /\ faults \in [crashes : 0..MaxCrashes, errors : 0..MaxErrors]
<1>1. EventFits(e) /\ TypeOK /\ rows[e] \in Rows /\ cycle \in Cycles
  BY DEF Inv, TypeOK, Rows, Cycles, States
<1>2. rows[e].state \in States /\ rows[e].attempts \in Nat /\ rows[e].linked \in BOOLEAN
  BY <1>1 DEF Rows
<1>3. rows[e].state \notin Terminal /\ e \notin recovering
  BY <1>1 DEF EventFits, CycleFits
<1>4. rows[e].linked = FALSE
  BY <1>1, <1>2, <1>3 DEF EventFits, RowFits, Terminal
<1> QED
  BY <1>1, <1>2, <1>3, <1>4 DEF TypeOK

\* What a step may raise beside its effect.
LEMMA ErrsTyped ==
    ASSUME TypeOK, Errs \/ UNCHANGED <<recovering, faults>>
    PROVE  /\ recovering' \subseteq recovering
           /\ faults' \in [crashes : 0..MaxCrashes, errors : 0..MaxErrors]
<1>1. faults \in [crashes : 0..MaxCrashes, errors : 0..MaxErrors]
  BY DEF TypeOK
<1>2. CASE Errs
  <2>1. recovering' = {} /\ faults' = [faults EXCEPT !.errors = faults.errors + 1] /\ faults.errors < MaxErrors
    BY <1>2 DEF Errs
  <2> QED
    BY <1>1, <2>1, Bounds
<1> QED
  BY <1>1, <1>2

\* A cycle ends, with a row that tells how.
LEMMA EndsQuietly ==
    ASSUME Inv, NEW e \in Events, cycle.event = e, UNCHANGED <<surroundings, quiet, calls>>, EndCycle,
           NEW st \in States, NEW n \in Nat, RowTurns(e, st, n, rows[e].linked),
           st \notin {"absent", "completed", "shadow_recorded", "shadow_rejected"},
           audits' \in Nat, UNCHANGED lost, Errs \/ UNCHANGED <<recovering, faults>>,
           n = rows[e].attempts + 1 \/ (n = rows[e].attempts /\ ~InCall),
           Decided(e) \/ n < MaxAttempts \/ st \in Terminal \cup {"reasoning_failed"},
           e \notin struck => /\ st \in Refusals \cup Unheard => ~Recorded(e)
                              /\ st \in Unheard \cup {"received"} => ~Decided(e)
    PROVE  Keeps
<1>1. /\ EventFits(e) /\ rows[e].linked = FALSE /\ rows[e].attempts \in Nat /\ rows[e].state \notin Terminal
      /\ calls[e] \in Nat /\ lost[e] \in Nat /\ e \notin recovering
      /\ calls \in [Events -> Nat] /\ lost \in [Events -> Nat]
      /\ TypeOK
  BY CycleKnown
<1>2. cycle' \in Cycles /\ cycle'.event = Never
  BY IdleType DEF EndCycle
<1>3. /\ UNCHANGED <<committed, orders, refused, struck>>
      /\ Decided(e)' = Decided(e) /\ Recorded(e)' = Recorded(e)
  BY DEF quiet, memory, ledger, Decided, Recorded
<1>8. recovering' \subseteq recovering /\ faults' \in [crashes : 0..MaxCrashes, errors : 0..MaxErrors]
  BY <1>1, ErrsTyped
<1>4. RowFits(e)'
  BY <1>1, <1>3, <1>8 DEF RowFits, RowTurns
<1>5. TellsOrder(e)'
  BY <1>3 DEF TellsOrder, RowTurns
<1>6. CallsFit(e)'
  <2>1. Pending(e)' = 0 /\ Pending(e) = IF InCall THEN 1 ELSE 0
    BY <1>2, Bounds DEF Pending
  <2>2. calls[e] <= n + lost[e]
    BY <1>1, <2>1 DEF EventFits, CallsFit
  <2>3. calls'[e] <= rows'[e].attempts + lost'[e] + Pending(e)'
    BY <1>1, <2>1, <2>2 DEF RowTurns
  <2>4. ~Decided(e)' /\ rows'[e].attempts >= MaxAttempts => rows'[e].state \in Terminal \cup {"reasoning_failed"}
    BY <1>3, Bounds DEF RowTurns
  <2> QED
    BY <1>1, <2>3, <2>4 DEF EventFits, CallsFit
<1>7. CycleFits(e)'
  BY <1>2, Bounds DEF CycleFits
<1> QED
  BY <1>1, <1>2, <1>4, <1>5, <1>6, <1>7, <1>8, QuietStep DEF RowTurns

\* A cycle ends and leaves no trace in the row.
LEMMA EndsBare ==
    ASSUME Inv, NEW e \in Events, cycle.event = e, UNCHANGED <<surroundings, quiet, rows, calls, audits>>,
           Raise, faults' \in [crashes : 0..MaxCrashes, errors : 0..MaxErrors],
           IF InCall THEN Lose(e) ELSE UNCHANGED lost
    PROVE  Keeps
<1>1. /\ EventFits(e) /\ rows[e].attempts \in Nat /\ rows[e].state \notin Terminal
      /\ calls[e] \in Nat /\ lost[e] \in Nat /\ e \notin recovering /\ audits \in Nat
      /\ calls \in [Events -> Nat] /\ lost \in [Events -> Nat]
  BY CycleKnown
<1>2. cycle' \in Cycles /\ cycle'.event = Never /\ recovering' = {}
  BY IdleType DEF Raise, EndCycle
<1>3. /\ UNCHANGED <<committed, orders, refused, struck>>
      /\ Decided(e)' = Decided(e) /\ Recorded(e)' = Recorded(e)
  BY DEF quiet, memory, ledger, Decided, Recorded
<1>4. RowFits(e)' /\ TellsOrder(e)'
  BY <1>1, <1>2, <1>3 DEF EventFits, RowFits, TellsOrder
<1>5. /\ lost' \in [Events -> Nat] /\ \A f \in Events \ {e} : lost'[f] = lost[f]
      /\ lost'[e] = lost[e] + (IF InCall THEN 1 ELSE 0)
  BY <1>1 DEF Lose
<1>6. CallsFit(e)'
  <2>1. Pending(e)' = 0 /\ Pending(e) = IF InCall THEN 1 ELSE 0
    BY <1>2, Bounds DEF Pending
  <2> QED
    BY <1>1, <1>3, <1>5, <2>1, Bounds DEF EventFits, CallsFit
<1>7. CycleFits(e)'
  BY <1>2, Bounds DEF CycleFits
<1>8. rows' \in [Events -> Rows] /\ \A f \in Events \ {e} : rows'[f] = rows[f]
  BY DEF Inv, TypeOK, Rows, States
<1> QED
  BY <1>1, <1>2, <1>4, <1>5, <1>6, <1>7, <1>8, QuietStep

\* A cycle goes on, with a row that is not at its end.
LEMMA GoesOn ==
    ASSUME Inv, NEW e \in Events, cycle.event = e, UNCHANGED <<surroundings, quiet, recovering, faults, lost>>,
           NEW st \in States, NEW n \in Nat, RowTurns(e, st, n, rows[e].linked),
           st \notin Terminal \cup {"absent"},
           NEW pc \in Pcs, CycleTurns(e, pc), audits' \in Nat,
           calls' \in [Events -> Nat], \A f \in Events \ {e} : calls'[f] = calls[f],
           Decided(e) /\ e \notin struck => calls'[e] = calls[e],
           e \notin struck /\ st = "received" => ~Decided(e),
           CycleFits(e)', CallsFit(e)'
    PROVE  Keeps
<1>1. /\ EventFits(e) /\ rows[e].linked = FALSE /\ rows[e].state \notin Terminal /\ e \notin recovering
      /\ lost \in [Events -> Nat] /\ faults \in [crashes : 0..MaxCrashes, errors : 0..MaxErrors]
  BY CycleKnown
<1>2. /\ UNCHANGED <<committed, orders, refused, struck>>
      /\ Decided(e)' = Decided(e) /\ Recorded(e)' = Recorded(e)
  BY DEF quiet, memory, ledger, Decided, Recorded
<1>3. RowFits(e)'
  BY <1>1, <1>2 DEF RowFits, RowTurns
<1>4. TellsOrder(e)'
  <2>1. st \notin Refusals \cup Unheard \cup {"completed", "shadow_recorded", "shadow_rejected"}
    BY DEF Terminal
  <2> QED
    BY <1>2, <2>1 DEF TellsOrder, RowTurns
<1>5. cycle' \in Cycles /\ cycle'.event \in {e, Never} /\ recovering' \subseteq recovering
  BY DEF CycleTurns
<1> QED
  BY <1>1, <1>3, <1>4, <1>5, QuietStep DEF RowTurns

\* A row that is not written does not turn.
LEMMA RowsUnchanged ==
    ASSUME TypeOK, NEW e \in Events, UNCHANGED rows
    PROVE  RowTurns(e, rows[e].state, rows[e].attempts, rows[e].linked)
BY DEF TypeOK, RowTurns, Rows, States

\* The states an upsert may name.
LEMMA StateNames ==
    /\ Refusals \subseteq Terminal /\ Unheard \subseteq Terminal /\ Terminal \subseteq States
    /\ Incomplete \subseteq States /\ Incomplete \cap Terminal = {}
    /\ \A st \in Refusals \cup Unheard : st \notin {"absent", "completed", "shadow_recorded", "shadow_rejected"}
    /\ Refusals = {"no_target", "target_rejected", "risk_rejected"}
    /\ Unheard = {"filtered_out", "expired", "recovery_expired", "recovery_abandoned"}
    /\ Incomplete = {"received", "filtered_accepted", "awaiting_market_quote", "reasoning_failed",
                     "memory_committed", "risk_assessed"}
BY DEF Refusals, Unheard, Terminal, Incomplete, States
\* The cycle goes to pc with a decision, or with what it saw of the portfolio.
LEMMA DecisionTurns ==
    ASSUME TypeOK, NEW pc \in Pcs, NEW d \in DecisionType,
           cycle' = [cycle EXCEPT !.pc = pc, !.decision = d]
    PROVE  CycleTurns(cycle.event, pc)
<1> DEFINE c1 == [cycle EXCEPT !.pc = pc]
<1>1. cycle \in Cycles
  BY DEF TypeOK, Cycles
<1>2. c1 \in Cycles /\ c1.pc = pc /\ c1.event = cycle.event
  BY <1>1, CycleFields
<1> DEFINE c2 == [c1 EXCEPT !.decision = d]
<1>3. cycle' = c2
  OBVIOUS
<1> HIDE DEF c1
<1>4. c2 \in Cycles /\ c2.pc = c1.pc /\ c2.event = c1.event
  BY <1>2, CycleFields
<1> HIDE DEF c2
<1> QED
  BY <1>2, <1>3, <1>4 DEF CycleTurns

\* A decision stays one when one of its fields is set.
LEMMA DecisionFields ==
    ASSUME NEW d \in DecisionType
    PROVE  /\ \A b \in BOOLEAN : [d EXCEPT !.target = b] \in DecisionType
           /\ \A n \in Int : [d EXCEPT !.basis = n] \in DecisionType
           /\ \A n \in Int : [d EXCEPT !.snapshot = n] \in DecisionType
           /\ \A n \in Int : [d EXCEPT !.validUntil = n] \in DecisionType
BY DEF DecisionType
-----------------------------------------------------------------------------
\* The cycle before its decision.
LEMMA LookKeeps ==
    ASSUME Inv, NEW e \in Events, cycle.event = e, UNCHANGED surroundings,
           LookFinds(e) \/ LookReceives(e) \/ LookRefuses(e) \/ LookExpires(e) \/ LookAccepts(e)
    PROVE  Keeps
<1>0. /\ cycle.pc = "look" /\ UNCHANGED <<quiet, audits, calls, lost>>
      /\ audits \in Nat /\ calls \in [Events -> Nat] /\ "look" \in Pcs /\ "recover" \in Pcs /\ "context" \in Pcs
  BY CycleKnown DEF LookFinds, LookReceives, LookRefuses, LookExpires, LookAccepts, quiet, Pcs
<1>1. /\ EventFits(e) /\ rows[e].linked = FALSE /\ rows[e].attempts \in Nat /\ rows[e].state \notin Terminal
      /\ calls[e] \in Nat /\ lost[e] \in Nat /\ TypeOK /\ rows[e].state \in States /\ ~InCall
  BY <1>0, CycleKnown DEF InCall
<1>2. /\ Decided(e)' = Decided(e) /\ Recorded(e)' = Recorded(e) /\ struck' = struck
      /\ (e \notin recovering)
  BY <1>0, CycleKnown DEF quiet, memory, ledger, Decided, Recorded
<1>3. ASSUME NEW st \in States, RowTurns(e, st, rows[e].attempts, rows[e].linked), st \notin Terminal,
             NEW pc \in {"look", "recover", "context"}, CycleTurns(e, pc)
      PROVE  CallsFit(e)' <=> (Decided(e) \/ rows[e].attempts < MaxAttempts \/ st = "reasoning_failed")
  <2>1. Pending(e)' = 0 /\ Pending(e) = 0
    BY <1>0, <1>3 DEF Pending, InCall, CycleTurns
  <2> QED
    BY <1>0, <1>1, <1>2, <1>3, <2>1, Bounds DEF EventFits, CallsFit, RowTurns
<1>4. ASSUME LookFinds(e) PROVE Keeps
  <2>1. cycle' = [cycle EXCEPT !.pc = "recover", !.decision = committed[e]] /\ committed[e] \in DecisionType
        /\ Decided(e) /\ UNCHANGED rows
    BY <1>1, <1>4 DEF LookFinds, KnowsDecision, TypeOK
  <2>a. UNCHANGED <<recovering, faults>>
    BY <1>4 DEF LookFinds
  <2>2. CycleTurns(e, "recover") /\ RowTurns(e, rows[e].state, rows[e].attempts, rows[e].linked)
    BY <1>0, <1>1, <2>1, DecisionTurns, RowsUnchanged
  <2>3. rows[e].state # "absent" /\ (e \notin struck => rows[e].state # "received")
    BY <1>1, <2>1 DEF EventFits, RowFits, TellsOrder
  <2>4. CallsFit(e)'
    BY <1>1, <1>3, <2>1, <2>2
  <2>5. CycleFits(e)'
    BY <1>1, <1>0, <1>2, <2>a, <2>1, <2>2, <2>3 DEF CycleFits, CycleTurns
  <2> QED
    BY <1>0, <1>1, <2>a, <2>1, <2>2, <2>3, <2>4, <2>5, GoesOn
<1>5. ASSUME LookReceives(e) PROVE Keeps
  <2>1. rows[e] = NoRow /\ ~Decided(e) /\ Insert(e, "received") /\ cycle' = cycle /\ "received" \in States
    BY <1>1, <1>5 DEF LookReceives, EventFits, RowFits, KnowsDecision, States, Incomplete
  <2>d. UNCHANGED <<recovering, faults>>
    BY <1>5 DEF LookReceives
  <2>a. rows[e].attempts = 0 /\ rows[e].linked = FALSE
    BY <2>1 DEF NoRow
  <2>b. RowTurns(e, "received", 0, FALSE)
    BY <1>1, <2>1, InsertTurns
  <2>c. CycleTurns(e, "look")
    BY <1>0, <2>1, CycleKnown DEF CycleTurns
  <2>2. RowTurns(e, "received", rows[e].attempts, rows[e].linked) /\ CycleTurns(e, "look")
    BY <2>a, <2>b, <2>c
  <2>3. rows[e].attempts < MaxAttempts /\ "received" \notin Terminal \cup {"absent"}
    BY <2>1, Bounds, StateNames DEF NoRow
  <2>4. CallsFit(e)'
    BY <1>3, <2>1, <2>2, <2>3
  <2>5. CycleFits(e)'
    BY <1>0, <1>2, <2>d, <2>1, <2>2, <2>3 DEF CycleFits, CycleTurns, RowTurns
  <2> QED
    BY <1>0, <1>1, <2>d, <2>1, <2>2, <2>3, <2>4, <2>5, GoesOn
<1>6. ASSUME LookRefuses(e) \/ LookExpires(e) PROVE Keeps
  <2>1. PICK st \in {"filtered_out", "expired"} : Upsert(e, st)
    BY <1>6 DEF LookRefuses, LookExpires
  <2>2. EndCycle /\ ~Decided(e) /\ ~Recorded(e) /\ st \in Terminal /\ st \in States
        /\ st \notin {"absent", "completed", "shadow_recorded", "shadow_rejected"}
    BY <1>1, <1>6, <2>1, StateNames DEF LookRefuses, LookExpires, Concludes, KnowsDecision, EventFits, OrderFits
  <2>3. RowTurns(e, st, rows[e].attempts, rows[e].linked)
    BY <1>1, <2>1, <2>2, UpsertTurns
  <2>4. Errs \/ UNCHANGED <<recovering, faults>>
    BY <1>6 DEF LookRefuses, LookExpires, Concludes
  <2> QED
    BY <1>0, <1>1, <2>2, <2>3, <2>4, EndsQuietly
<1>7. ASSUME LookAccepts(e) PROVE Keeps
  <2>1. /\ ~Decided(e) /\ rows[e].state # "absent" /\ GoTo("context")
        /\ IF rows[e].state = "received" THEN Upsert(e, "filtered_accepted") ELSE UNCHANGED rows
    BY <1>7 DEF LookAccepts, KnowsDecision
  <2>a. UNCHANGED <<recovering, faults>>
    BY <1>7 DEF LookAccepts
  <2>2. CycleTurns(e, "context")
    BY <1>0, <1>1, <2>1, GoToTurns
  <2>3. rows[e].attempts < MaxAttempts
    BY <1>0, <1>1, <2>1 DEF EventFits, CycleFits
  <2>4. PICK st \in States : /\ RowTurns(e, st, rows[e].attempts, rows[e].linked)
                             /\ st \notin Terminal \cup {"absent", "received"}
    <3>1. CASE rows[e].state = "received"
      BY <1>1, <2>1, <3>1, UpsertTurns, StateNames
    <3>2. CASE rows[e].state # "received"
      BY <1>1, <2>1, <3>2, RowsUnchanged
    <3> QED
      BY <3>1, <3>2
  <2>5. CallsFit(e)'
    BY <1>3, <2>2, <2>3, <2>4
  <2>6. CycleFits(e)'
    BY <1>0, <1>2, <2>a, <2>1, <2>2, <2>3, <2>4 DEF CycleFits, CycleTurns, RowTurns
  <2> QED
    BY <1>0, <1>1, <2>a, <2>1, <2>2, <2>4, <2>5, <2>6, GoesOn
<1> QED
  BY <1>4, <1>5, <1>6, <1>7
LEMMA ContextKeeps ==
    ASSUME Inv, NEW e \in Events, cycle.event = e, UNCHANGED surroundings,
           ContextOverBudget(e) \/ ContextLacksQuote(e) \/ ContextAsks(e)
    PROVE  Keeps
<1>0. /\ cycle.pc = "context" /\ UNCHANGED <<quiet, audits, lost>>
      /\ audits \in Nat /\ calls \in [Events -> Nat] /\ "answer" \in Pcs
  BY CycleKnown DEF ContextOverBudget, ContextLacksQuote, ContextAsks, quiet, Pcs
<1>1. /\ EventFits(e) /\ rows[e].linked = FALSE /\ rows[e].attempts \in Nat /\ rows[e].state \notin Terminal
      /\ calls[e] \in Nat /\ lost[e] \in Nat /\ TypeOK /\ rows[e].state \in States /\ ~InCall
  BY <1>0, CycleKnown DEF InCall
<1>2. /\ Decided(e)' = Decided(e) /\ Recorded(e)' = Recorded(e) /\ struck' = struck
      /\ (e \notin recovering)
  BY <1>0, CycleKnown DEF quiet, memory, ledger, Decided, Recorded
<1>3. /\ rows[e].attempts < MaxAttempts /\ rows[e].state \notin {"absent", "received"}
      /\ (e \notin struck => ~Decided(e) /\ ~Recorded(e))
  BY <1>0, <1>1 DEF EventFits, CycleFits, OrderFits
<1>4. ASSUME ContextOverBudget(e) \/ ContextLacksQuote(e) PROVE Keeps
  <2>1. PICK st \in {"expired", "awaiting_market_quote"} : UpsertContext(e, st)
    BY <1>4 DEF ContextOverBudget, ContextLacksQuote
  <2>2. EndCycle /\ calls' = calls /\ st \in States
        /\ st \notin {"absent", "completed", "shadow_recorded", "shadow_rejected"}
    BY <1>4, <2>1, StateNames DEF ContextOverBudget, ContextLacksQuote, Concludes
  <2>3. RowTurns(e, st, rows[e].attempts, rows[e].linked)
    BY <1>1, <2>1, <2>2, ContextTurns
  <2>4. Errs \/ UNCHANGED <<recovering, faults>>
    BY <1>4 DEF ContextOverBudget, ContextLacksQuote, Concludes
  <2> QED
    BY <1>0, <1>1, <1>3, <2>2, <2>3, <2>4, EndsQuietly
<1>5. ASSUME ContextAsks(e) PROVE Keeps
  <2>1. PICK st \in {"filtered_accepted", "awaiting_market_quote"} : UpsertContext(e, st)
    BY <1>5 DEF ContextAsks, Assembled
  <2>a. UNCHANGED <<recovering, faults>>
    BY <1>5 DEF ContextAsks
  <2>2. st \in States /\ st \notin Terminal \cup {"absent", "received"}
    BY <2>1, StateNames
  <2>3. RowTurns(e, st, rows[e].attempts, rows[e].linked)
    BY <1>1, <2>1, <2>2, ContextTurns
  <2> DEFINE d1 == [NoDecision EXCEPT !.basis = version]
             d == [d1 EXCEPT !.snapshot = snapshot]
  <2>4. d \in DecisionType
    <3>1. version \in Int /\ snapshot \in Int
      BY <1>1 DEF TypeOK
    <3>2. d1 \in DecisionType
      BY <3>1, IdleType, DecisionFields
    <3> HIDE DEF d1
    <3> QED
      BY <3>1, <3>2, DecisionFields
  <2>5. cycle' = [cycle EXCEPT !.pc = "answer", !.decision = d]
    BY <1>5 DEF ContextAsks
  <2> HIDE DEF d
  <2>6. CycleTurns(e, "answer")
    BY <1>0, <1>1, <2>4, <2>5, DecisionTurns
  <2>7. calls' = [calls EXCEPT ![e] = calls[e] + 1]
    BY <1>5 DEF ContextAsks
  <2>8. calls' \in [Events -> Nat] /\ calls'[e] = calls[e] + 1 /\ \A f \in Events \ {e} : calls'[f] = calls[f]
    BY <1>0, <1>1, <2>7
  <2>9. CallsFit(e)'
    <3>1. Pending(e)' = 1 /\ Pending(e) = 0
      BY <1>0, <2>6 DEF Pending, InCall, CycleTurns
    <3>2. calls[e] <= rows[e].attempts + lost[e]
      BY <1>1, <3>1 DEF EventFits, CallsFit
    <3>3. calls'[e] <= rows'[e].attempts + lost'[e] + Pending(e)' /\ calls'[e] <= MaxAttempts + lost'[e]
      BY <1>0, <1>1, <1>3, <2>3, <2>8, <3>1, <3>2, Bounds DEF RowTurns
    <3>4. ~(rows'[e].attempts >= MaxAttempts)
      BY <1>1, <1>3, <2>3, Bounds DEF RowTurns
    <3> QED
      BY <3>3, <3>4 DEF CallsFit
  <2>10. CycleFits(e)'
    BY <1>0, <1>2, <1>3, <2>a, <2>2, <2>3, <2>6 DEF CycleFits, CycleTurns, RowTurns
  <2>11. Decided(e) /\ e \notin struck => calls'[e] = calls[e]
    BY <1>3
  <2> QED
    BY <1>0, <1>1, <1>3, <2>a, <2>2, <2>3, <2>6, <2>8, <2>9, <2>10, <2>11, GoesOn
<1> QED
  BY <1>4, <1>5

LEMMA AnswerKeeps ==
    ASSUME Inv, NEW e \in Events, cycle.event = e, UNCHANGED surroundings,
           AnswerFails(e) \/ AnswerMisfits(e) \/ AnswerDecides(e)
    PROVE  Keeps
<1>0. /\ cycle.pc = "answer" /\ UNCHANGED <<quiet, calls, lost>>
      /\ audits' \in Nat /\ calls \in [Events -> Nat] /\ "commit" \in Pcs
  <2>1. audits' \in {audits, audits + 1} /\ cycle.pc = "answer" /\ UNCHANGED <<quiet, calls, lost>>
    BY DEF AnswerFails, AnswerMisfits, AnswerDecides, AuditFailure, quiet
  <2>2. audits \in Nat /\ calls \in [Events -> Nat] /\ "commit" \in Pcs
    BY CycleKnown DEF Pcs
  <2> QED
    BY <2>1, <2>2
<1>1. /\ EventFits(e) /\ rows[e].linked = FALSE /\ rows[e].attempts \in Nat /\ rows[e].state \notin Terminal
      /\ calls[e] \in Nat /\ lost[e] \in Nat /\ TypeOK /\ rows[e].state \in States /\ InCall
  BY <1>0, CycleKnown DEF InCall
<1>2. /\ Decided(e)' = Decided(e) /\ Recorded(e)' = Recorded(e) /\ struck' = struck
      /\ (e \notin recovering)
  BY <1>0, CycleKnown DEF quiet, memory, ledger, Decided, Recorded
<1>3. /\ rows[e].state \notin {"absent", "received"}
      /\ (e \notin struck => ~Decided(e) /\ ~Recorded(e))
  BY <1>0, <1>1 DEF EventFits, CycleFits, OrderFits
<1>4. ASSUME AnswerFails(e) \/ AnswerMisfits(e) PROVE Keeps
  <2>1. PICK st \in {"reasoning_failed", "target_rejected"} : UpsertAttempt(e, st)
    BY <1>4 DEF AnswerFails, AnswerMisfits
  <2>2. EndCycle /\ st \in States /\ st \in Terminal \cup {"reasoning_failed"}
        /\ st \notin {"absent", "completed", "shadow_recorded", "shadow_rejected"}
    BY <1>4, <2>1, StateNames DEF AnswerFails, AnswerMisfits, Concludes
  <2>3. RowTurns(e, st, rows[e].attempts + 1, rows[e].linked) /\ rows[e].attempts + 1 \in Nat
    BY <1>1, <2>1, <2>2, AttemptTurns
  <2>4. Errs \/ UNCHANGED <<recovering, faults>>
    BY <1>4 DEF AnswerFails, AnswerMisfits, AuditFailure, Concludes
  <2> QED
    BY <1>0, <1>1, <1>3, <2>2, <2>3, <2>4, EndsQuietly
<1>5. ASSUME AnswerDecides(e) PROVE Keeps
  <2>1. PICK target \in BOOLEAN :
           cycle' = [cycle EXCEPT !.pc = "commit", !.decision.target = target,
                                  !.decision.validUntil = clock + DecisionTTL]
    BY <1>5 DEF AnswerDecides
  <2>2. UNCHANGED rows /\ UNCHANGED <<recovering, faults>>
    BY <1>5 DEF AnswerDecides
  <2> DEFINE d1 == [cycle.decision EXCEPT !.target = target]
             d == [d1 EXCEPT !.validUntil = clock + DecisionTTL]
  <2>3. cycle \in Cycles /\ cycle.decision \in DecisionType /\ clock + DecisionTTL \in Int
    <3>1. cycle \in Cycles
      BY CycleKnown
    <3>2. clock \in 0..MaxClock
      BY <1>1 DEF TypeOK
    <3> QED
      BY <3>1, <3>2, CycleFields, Bounds
  <2>4. d \in DecisionType
    <3>1. d1 \in DecisionType
      BY <2>3, DecisionFields
    <3> HIDE DEF d1
    <3> QED
      BY <2>3, <3>1, DecisionFields
  <2>5. cycle' = [cycle EXCEPT !.pc = "commit", !.decision = d]
    BY <2>1, <2>3 DEF Cycles, DecisionType
  <2> HIDE DEF d
  <2>6. CycleTurns(e, "commit") /\ RowTurns(e, rows[e].state, rows[e].attempts, rows[e].linked)
    BY <1>0, <1>1, <2>2, <2>4, <2>5, DecisionTurns, RowsUnchanged
  <2>7. CallsFit(e)'
    <3>1. Pending(e)' = 1 /\ Pending(e) = 1
      BY <1>0, <2>6 DEF Pending, InCall, CycleTurns
    <3> QED
      BY <1>0, <1>1, <1>2, <2>2, <3>1 DEF EventFits, CallsFit
  <2>8. CycleFits(e)'
    BY <1>0, <1>1, <1>2, <1>3, <2>2, <2>6 DEF CycleFits, CycleTurns
  <2> QED
    BY <1>0, <1>1, <1>3, <2>2, <2>6, <2>7, <2>8, GoesOn
<1> QED
  BY <1>4, <1>5
-----------------------------------------------------------------------------
\* A cycle after its decision: it is decided, and has a row.
LEMMA DecidedKnown ==
    ASSUME Inv, NEW e \in Events, cycle.event = e,
           cycle.pc \in {"committed", "recover", "refresh", "post", "record", "recorded"}
    PROVE  /\ Decided(e) /\ rows[e].state # "absent" /\ (e \notin struck => rows[e].state # "received")
           /\ cycle.pc \in {"committed", "refresh", "post", "record"} /\ e \notin struck => ~Recorded(e)
           /\ cycle.pc = "recorded" => Recorded(e)
<1>1. EventFits(e)
  BY CycleKnown
<1>2. Decided(e) /\ rows[e].state # "absent"
  BY <1>1 DEF EventFits, CycleFits
<1> QED
  BY <1>1, <1>2 DEF EventFits, CycleFits, TellsOrder

\* The row gets its receipt, and the cycle ends.
LEMMA ReceiptKeeps ==
    ASSUME Inv, NEW e \in Events, cycle.event = e, cycle.pc \in {"recover", "recorded"},
           UNCHANGED <<surroundings, quiet, audits, calls, lost>>,
           Recorded(e), UpsertReceipt(e), Concludes
    PROVE  Keeps
<1>1. /\ EventFits(e) /\ rows[e].attempts \in Nat /\ calls[e] \in Nat /\ lost[e] \in Nat /\ TypeOK /\ ~InCall
      /\ rows[e].state \notin Terminal /\ e \notin recovering /\ audits \in Nat
      /\ calls \in [Events -> Nat] /\ lost \in [Events -> Nat]
  BY CycleKnown DEF InCall
<1>2. PICK st : /\ st = IF e \in refused THEN "shadow_rejected" ELSE "shadow_recorded"
                /\ RowTurns(e, st, rows[e].attempts, TRUE)
  BY <1>1, ReceiptTurns
<1>3. /\ UNCHANGED <<committed, orders, refused, struck>>
      /\ Decided(e)' = Decided(e) /\ Recorded(e)' = Recorded(e) /\ Decided(e)
  BY DecidedKnown DEF quiet, memory, ledger, Decided, Recorded
<1>4. cycle' \in Cycles /\ cycle'.event = Never
  BY IdleType DEF EndCycle, Concludes
<1>9. recovering' \subseteq recovering /\ faults' \in [crashes : 0..MaxCrashes, errors : 0..MaxErrors]
  BY <1>1, ErrsTyped DEF Concludes
<1>5. RowFits(e)'
  BY <1>1, <1>2, <1>3, <1>9 DEF RowFits, RowTurns
<1>6. TellsOrder(e)'
  <2>1. st \notin Refusals \cup Unheard \cup {"received", "completed"}
    BY <1>2, StateNames
  <2> QED
    BY <1>1, <1>2, <1>3, <2>1 DEF EventFits, OrderFits, TellsOrder, RowTurns
<1>7. CallsFit(e)'
  <2>1. Pending(e)' = 0 /\ Pending(e) = 0
    BY <1>1, <1>4, Bounds DEF Pending
  <2> QED
    BY <1>1, <1>2, <1>3, <2>1, Bounds DEF EventFits, CallsFit, RowTurns
<1>8. CycleFits(e)'
  BY <1>4, Bounds DEF CycleFits
<1> QED
  BY <1>1, <1>2, <1>4, <1>5, <1>6, <1>7, <1>8, <1>9, QuietStep DEF RowTurns

\* The steps after the decision that write at most the row.
LEMMA RecoverKeeps ==
    ASSUME Inv, NEW e \in Events, cycle.event = e, UNCHANGED surroundings,
           RecoverReceipt(e) \/ RecoverDecision(e) \/ LacksTarget(e) \/ AfterRecord(e)
    PROVE  Keeps
<1>0. /\ cycle.pc \in {"recover", "refresh", "recorded"}
      /\ UNCHANGED <<quiet, calls, lost, audits>>
      /\ "refresh" \in Pcs
  BY DEF RecoverReceipt, RecoverDecision, LacksTarget, AfterRecord, quiet, Pcs
<1>1. /\ EventFits(e) /\ rows[e].attempts \in Nat /\ calls[e] \in Nat /\ lost[e] \in Nat /\ TypeOK /\ ~InCall
      /\ rows[e].state \in States /\ rows[e].state \notin Terminal /\ audits \in Nat /\ calls \in [Events -> Nat]
      /\ e \notin recovering
  BY <1>0, CycleKnown DEF InCall
<1>2. /\ Decided(e)' = Decided(e) /\ Recorded(e)' = Recorded(e) /\ struck' = struck
      /\ Decided(e) /\ rows[e].state # "absent" /\ (e \notin struck => rows[e].state # "received")
      /\ cycle.pc = "refresh" /\ e \notin struck => ~Recorded(e)
      /\ cycle.pc = "recorded" => Recorded(e)
  BY <1>0, DecidedKnown DEF quiet, memory, ledger, Decided, Recorded
<1>3. CASE RecoverReceipt(e) \/ AfterRecord(e)
  <2>1. Recorded(e) /\ UpsertReceipt(e) /\ Concludes /\ cycle.pc \in {"recover", "recorded"}
    BY <1>2, <1>3 DEF RecoverReceipt, AfterRecord
  <2> QED
    BY <1>0, <2>1, ReceiptKeeps
<1>4. CASE LacksTarget(e)
  <2>1. Upsert(e, "no_target") /\ EndCycle /\ (Errs \/ UNCHANGED <<recovering, faults>>)
        /\ cycle.pc = "refresh"
    BY <1>4 DEF LacksTarget, Concludes
  <2>2. RowTurns(e, "no_target", rows[e].attempts, rows[e].linked) /\ "no_target" \in States
        /\ "no_target" \in Terminal /\ "no_target" \notin Unheard
    BY <1>1, <2>1, UpsertTurns, StateNames
  <2> QED
    BY <1>0, <1>1, <1>2, <2>1, <2>2, EndsQuietly
<1>5. CASE RecoverDecision(e)
  <2>1. GoTo("refresh") /\ UNCHANGED <<rows, recovering, faults>>
    BY <1>5 DEF RecoverDecision
  <2>2. CycleTurns(e, "refresh") /\ RowTurns(e, rows[e].state, rows[e].attempts, rows[e].linked)
    BY <1>0, <1>1, <2>1, GoToTurns, RowsUnchanged
  <2>3. CallsFit(e)'
    <3>1. Pending(e)' = 0 /\ Pending(e) = 0
      BY <1>1, <2>2 DEF Pending, InCall, CycleTurns
    <3> QED
      BY <1>0, <1>1, <1>2, <2>1, <3>1 DEF EventFits, CallsFit
  <2>4. CycleFits(e)'
    <3>1. ~Recorded(e)
      BY <1>5 DEF RecoverDecision
    <3> QED
      BY <1>0, <1>1, <1>2, <2>1, <2>2, <3>1 DEF CycleFits, CycleTurns
  <2> QED
    BY <1>0, <1>1, <1>2, <2>1, <2>2, <2>3, <2>4, GoesOn
<1> QED
  BY <1>3, <1>4, <1>5

LEMMA AfterCommitKeeps ==
    ASSUME Inv, NEW e \in Events, cycle.event = e, UNCHANGED surroundings, AfterCommit(e)
    PROVE  Keeps
<1>0. /\ cycle.pc = "committed" /\ UNCHANGED <<quiet, faults, calls, lost, recovering, audits>>
      /\ "refresh" \in Pcs /\ "memory_committed" \in States
  BY StateNames DEF AfterCommit, quiet, Pcs
<1>1. /\ EventFits(e) /\ rows[e].attempts \in Nat /\ calls[e] \in Nat /\ lost[e] \in Nat /\ TypeOK
      /\ audits \in Nat /\ calls \in [Events -> Nat] /\ e \notin recovering /\ rows[e].attempts + 1 \in Nat
  <2>1. rows[e].attempts \in Nat
    BY CycleKnown
  <2>2. rows[e].attempts + 1 \in Nat
    BY <2>1
  <2> QED
    BY <2>2, CycleKnown
<1>2. /\ Decided(e)' = Decided(e) /\ Recorded(e)' = Recorded(e) /\ struck' = struck
      /\ Decided(e) /\ (e \notin struck => ~Recorded(e))
  BY <1>0, DecidedKnown DEF quiet, memory, ledger, Decided, Recorded
<1>3. CASE UpsertAttempt(e, "memory_committed") /\ GoTo("refresh")
  <2>1. RowTurns(e, "memory_committed", rows[e].attempts + 1, rows[e].linked) /\ CycleTurns(e, "refresh")
    BY <1>0, <1>1, <1>3, AttemptTurns, GoToTurns
  <2>2. "memory_committed" \notin Terminal \cup {"absent", "received"}
    BY StateNames
  <2>3. CallsFit(e)'
    <3>1. Pending(e)' = 0 /\ Pending(e) = 1
      BY <1>0, <2>1 DEF Pending, InCall, CycleTurns
    <3> QED
      BY <1>0, <1>1, <1>2, <2>1, <3>1 DEF EventFits, CallsFit, RowTurns
  <2>4. CycleFits(e)'
    BY <1>0, <1>1, <1>2, <2>1, <2>2 DEF CycleFits, CycleTurns, RowTurns
  <2> QED
    BY <1>0, <1>1, <1>2, <2>1, <2>2, <2>3, <2>4, GoesOn
<1> QED
  BY <1>3 DEF AfterCommit

LEMMA PostKeeps ==
    ASSUME Inv, NEW e \in Events, cycle.event = e, UNCHANGED surroundings,
           PostStopped(e) \/ PostRejects(e) \/ AssessRefuses(e)
    PROVE  Keeps
<1>0. /\ cycle.pc = "post" /\ UNCHANGED <<quiet, calls, lost, audits>> /\ EndCycle
      /\ Errs \/ UNCHANGED <<recovering, faults>>
  BY DEF PostStopped, PostRejects, AssessRefuses, Concludes, quiet
<1>1. /\ EventFits(e) /\ rows[e].attempts \in Nat /\ TypeOK /\ ~InCall /\ audits \in Nat
  BY <1>0, CycleKnown DEF InCall
<1>2. Decided(e) /\ (e \notin struck => ~Recorded(e))
  BY <1>0, DecidedKnown
<1>3. PICK st \in {"risk_rejected", "target_rejected"} : Upsert(e, st)
  BY DEF PostStopped, PostRejects, AssessRefuses
<1>4. st \in States /\ st \in Terminal /\ st \notin Unheard
      /\ st \notin {"absent", "received", "completed", "shadow_recorded", "shadow_rejected"}
  BY <1>3, StateNames
<1>5. RowTurns(e, st, rows[e].attempts, rows[e].linked)
  BY <1>1, <1>3, <1>4, UpsertTurns
<1> QED
  BY <1>0, <1>1, <1>2, <1>4, <1>5, EndsQuietly

\* The portfolio is read anew, or the risk of the target is approved.
LEMMA AssessKeeps ==
    ASSUME Inv, NEW e \in Events, cycle.event = e, UNCHANGED surroundings, Refresh(e) \/ AssessApproves(e)
    PROVE  Keeps
<1>0. /\ cycle.pc \in {"refresh", "post"}
      /\ UNCHANGED <<quiet, faults, calls, lost, recovering, audits>>
  BY DEF Refresh, AssessApproves, quiet
<1>1. /\ EventFits(e) /\ rows[e].attempts \in Nat /\ calls[e] \in Nat /\ lost[e] \in Nat /\ TypeOK
      /\ audits \in Nat /\ calls \in [Events -> Nat] /\ e \notin recovering /\ ~InCall
      /\ cycle \in Cycles /\ rows[e].state \in States /\ rows[e].state \notin Terminal
  BY <1>0, CycleKnown DEF InCall
<1>2. /\ Decided(e)' = Decided(e) /\ Recorded(e)' = Recorded(e) /\ struck' = struck
      /\ Decided(e) /\ (e \notin struck => ~Recorded(e) /\ rows[e].state # "received")
      /\ rows[e].state # "absent"
  BY <1>0, DecidedKnown DEF quiet, memory, ledger, Decided, Recorded
<1>3. ASSUME NEW pc \in {"post", "record"}, CycleTurns(e, pc),
             NEW st \in States, RowTurns(e, st, rows[e].attempts, rows[e].linked), st \notin Terminal \cup {"absent"},
             e \notin struck => st # "received"
      PROVE  Keeps
  <2>1. CallsFit(e)'
    <3>1. Pending(e)' = 0 /\ Pending(e) = 0
      BY <1>1, <1>3 DEF Pending, InCall, CycleTurns
    <3> QED
      BY <1>0, <1>1, <1>2, <1>3, <3>1 DEF EventFits, CallsFit, RowTurns
  <2>2. CycleFits(e)'
    BY <1>0, <1>1, <1>2, <1>3 DEF CycleFits, CycleTurns, RowTurns
  <2>3. pc \in Pcs
    BY DEF Pcs
  <2> QED
    BY <1>0, <1>1, <1>2, <1>3, <2>1, <2>2, <2>3, GoesOn
<1>4. ASSUME Refresh(e) PROVE Keeps
  <2>1. PICK b \in BOOLEAN : b = (Outstanding # {})
    OBVIOUS
  <2> DEFINE c1 == [cycle EXCEPT !.pc = "post"]
             c2 == [c1 EXCEPT !.seen = snapshot]
             c3 == [c2 EXCEPT !.busy = b]
  <2>2. cycle' = c3
    BY <1>4, <2>1 DEF Refresh
  <2>3. c1 \in Cycles /\ c1.pc = "post" /\ c1.event = e
    <3>1. "post" \in Pcs
      BY DEF Pcs
    <3> QED
      BY <1>1, <3>1, CycleFields
  <2> HIDE DEF c1
  <2>4. c2 \in Cycles /\ c2.pc = "post" /\ c2.event = e
    <3>1. snapshot \in Int
      BY <1>1 DEF TypeOK
    <3>2. c2 \in Cycles /\ c2.pc = c1.pc /\ c2.event = c1.event
      BY <2>3, <3>1, CycleFields
    <3> QED
      BY <2>3, <3>2
  <2> HIDE DEF c2
  <2>5. c3 \in Cycles /\ c3.pc = "post" /\ c3.event = e
    <3>1. c3 \in Cycles /\ c3.pc = c2.pc /\ c3.event = c2.event
      BY <2>4, CycleFields
    <3> QED
      BY <2>4, <3>1
  <2> HIDE DEF c3
  <2>6. CycleTurns(e, "post") /\ RowTurns(e, rows[e].state, rows[e].attempts, rows[e].linked)
    BY <1>1, <1>4, <2>2, <2>5, RowsUnchanged DEF CycleTurns, Refresh
  <2> QED
    BY <1>1, <1>2, <1>3, <2>6
<1>5. ASSUME AssessApproves(e) PROVE Keeps
  <2> DEFINE c1 == [cycle EXCEPT !.pc = "record"]
             c2 == [c1 EXCEPT !.until = clock + ApprovalTTL]
  <2>1. cycle' = c2
    BY <1>5 DEF AssessApproves
  <2>2. c1 \in Cycles /\ c1.pc = "record" /\ c1.event = e
    <3>1. "record" \in Pcs
      BY DEF Pcs
    <3> QED
      BY <1>1, <3>1, CycleFields
  <2> HIDE DEF c1
  <2>3. c2 \in Cycles /\ c2.pc = "record" /\ c2.event = e
    <3>1. clock \in 0..MaxClock
      BY <1>1 DEF TypeOK
    <3>2. clock + ApprovalTTL \in Int
      BY <3>1, Bounds
    <3>3. c2 \in Cycles /\ c2.pc = c1.pc /\ c2.event = c1.event
      BY <2>2, <3>2, CycleFields
    <3> QED
      BY <2>2, <3>3
  <2> HIDE DEF c2
  <2>4. CycleTurns(e, "record")
    BY <2>1, <2>3 DEF CycleTurns
  <2>5. Upsert(e, "risk_assessed") /\ "risk_assessed" \in States
        /\ "risk_assessed" \notin Terminal \cup {"absent", "received"}
    BY <1>5, StateNames DEF AssessApproves
  <2>6. RowTurns(e, "risk_assessed", rows[e].attempts, rows[e].linked)
    BY <1>1, <2>5, UpsertTurns
  <2> QED
    BY <1>3, <2>4, <2>5, <2>6
<1> QED
  BY <1>4, <1>5
-----------------------------------------------------------------------------
(***************************************************************************)
(* Steps of a cycle that write to memory or ledger, or leave a write behind *)
(***************************************************************************)
\* A decision that memory accepts is one.
LEMMA DecisionMade ==
    ASSUME TypeOK, NEW e \in Events, NEW d \in DecisionType, Commits(e, d), CommitDecision(e, d)
    PROVE  /\ ~Decided(e) /\ Decided(e)' /\ version' \in Nat
           /\ committed' \in [Events -> DecisionType]
           /\ \A f \in Events \ {e} : committed'[f] = committed[f]
<1>1. version \in Nat /\ committed \in [Events -> DecisionType] /\ d.basis = version /\ ~Decided(e)
  BY DEF TypeOK, Commits
<1>2. version' = version + 1 /\ committed' = [committed EXCEPT ![e] = d]
  BY DEF CommitDecision
<1>3. d # NoDecision
  BY <1>1 DEF NoDecision
<1>4. committed'[e] = d /\ committed' \in [Events -> DecisionType]
      /\ \A f \in Events \ {e} : committed'[f] = committed[f]
  BY <1>1, <1>2
<1>5. version' \in Nat
  BY <1>1, <1>2
<1> QED
  BY <1>1, <1>3, <1>4, <1>5 DEF Decided

LEMMA CommitLandsKeeps ==
    ASSUME Inv, NEW e \in Events, cycle.event = e, UNCHANGED surroundings, CommitLands(e)
    PROVE  Keeps
<1>0. /\ cycle.pc = "commit" /\ UNCHANGED <<rows, ledger, late, recovering, faults, audits, calls, lost, struck>>
      /\ GoTo("committed") /\ Commits(e, cycle.decision) /\ CommitDecision(e, cycle.decision)
      /\ "committed" \in Pcs
  BY DEF CommitLands, Pcs
<1>1. /\ EventFits(e) /\ rows[e].attempts \in Nat /\ calls[e] \in Nat /\ lost[e] \in Nat /\ TypeOK
      /\ audits \in Nat /\ cycle \in Cycles /\ rows[e].state \notin Terminal /\ e \notin recovering
      /\ cycle.decision \in DecisionType
  BY CycleKnown, CycleFields
<1>2. /\ ~Decided(e) /\ Decided(e)' /\ version' \in Nat /\ committed' \in [Events -> DecisionType]
      /\ \A f \in Events \ {e} : committed'[f] = committed[f]
  BY <1>0, <1>1, DecisionMade
<1>3. CycleTurns(e, "committed")
  BY <1>0, <1>1, GoToTurns
<1>4. UNCHANGED <<orders, refused, position, snapshot, unmarked>> /\ Recorded(e)' = Recorded(e) /\ ~Recorded(e)
  BY <1>0, <1>1, <1>2 DEF ledger, surroundings, Recorded, EventFits, OrderFits
<1>5. rows[e].state \notin Terminal \cup {"absent", "received"}
  BY <1>0, <1>1 DEF EventFits, CycleFits
<1>6. OthersStay(e) /\ RestTyped
  <2>1. /\ rows' \in [Events -> Rows] /\ calls' \in [Events -> Nat] /\ lost' \in [Events -> Nat]
        /\ OthersOrders(e) /\ refused' \in SUBSET Events /\ struck' \in SUBSET Events
    BY <1>0, <1>1, <1>4 DEF TypeOK, Rows, States, OthersOrders
  <2>2. OthersStay(e)
    BY <1>0, <1>2, <1>3, <1>4, <2>1 DEF OthersStay, CycleTurns
  <2>3. RestTyped
    BY <1>0, <1>1, <1>2, <1>4 DEF RestTyped, TypeOK, Writes
  <2> QED
    BY <2>2, <2>3
<1>7. RowFits(e)' /\ OrderFits(e)'
  BY <1>0, <1>1, <1>2, <1>4, <1>5 DEF EventFits, RowFits, OrderFits
<1>8. TellsOrder(e)'
  <2>1. rows[e].state \notin Refusals \cup Unheard \cup {"received", "completed", "shadow_recorded", "shadow_rejected"}
    BY <1>5 DEF Terminal
  <2> QED
    BY <1>0, <2>1 DEF TellsOrder
<1>9. CallsFit(e)'
  <2>1. Pending(e)' = 1 /\ Pending(e) = 1
    BY <1>0, <1>3 DEF Pending, InCall, CycleTurns
  <2> QED
    BY <1>0, <1>1, <1>2, <2>1 DEF EventFits, CallsFit
<1>10. CycleFits(e)'
  BY <1>0, <1>1, <1>2, <1>3, <1>4, <1>5 DEF CycleFits, CycleTurns
<1>11. EventFits(e)' /\ EndStays(e) /\ DecisionStays(e)
  BY <1>2, <1>5, <1>7, <1>8, <1>9, <1>10 DEF EventFits, EndStays, DecisionStays
<1> QED
  BY <1>0, <1>6, <1>11, OneEvent

LEMMA RecordLandsKeeps ==
    ASSUME Inv, NEW e \in Events, cycle.event = e, UNCHANGED surroundings, RecordLands(e)
    PROVE  Keeps
<1>0. /\ cycle.pc = "record" /\ UNCHANGED <<rows, memory, late, recovering, faults, audits, calls, lost, struck>>
      /\ GoTo("recorded") /\ RecordOrder(e, cycle.decision, cycle.until) /\ "recorded" \in Pcs
  BY DEF RecordLands, Pcs
<1>1. /\ EventFits(e) /\ rows[e].attempts \in Nat /\ calls[e] \in Nat /\ lost[e] \in Nat /\ TypeOK
      /\ audits \in Nat /\ rows[e].state \notin Terminal /\ e \notin recovering
  BY CycleKnown
<1>2. OrderRecorded(e)
  BY <1>0, <1>1, RecordOrderRecords DEF EventFits
<1>3. CycleTurns(e, "recorded")
  BY <1>0, <1>1, GoToTurns
<1>4. /\ UNCHANGED <<version, committed, unmarked>> /\ Decided(e)' = Decided(e) /\ Decided(e)
      /\ rows[e].state # "absent" /\ (e \notin struck => rows[e].state # "received")
  BY <1>0, DecidedKnown DEF memory, surroundings, Decided
<1>5. Recorded(e)' /\ ~Recorded(e)
  BY <1>2 DEF OrderRecorded, Recorded
<1>6. OthersStay(e) /\ RestTyped
  <2>1. /\ rows' \in [Events -> Rows] /\ calls' \in [Events -> Nat] /\ lost' \in [Events -> Nat]
        /\ committed' \in [Events -> DecisionType] /\ struck' \in SUBSET Events
    BY <1>0, <1>1, <1>4 DEF TypeOK, Rows, States
  <2>2. OthersStay(e)
    BY <1>0, <1>2, <1>3, <1>4, <2>1 DEF OthersStay, CycleTurns, OrderRecorded
  <2>3. RestTyped
    BY <1>0, <1>1, <1>2, <1>4 DEF RestTyped, TypeOK, Writes, OrderRecorded
  <2> QED
    BY <2>2, <2>3
<1>7. RowFits(e)'
  BY <1>0, <1>1, <1>4 DEF EventFits, RowFits
<1>8. OrderFits(e)'
  <2>1. e \notin unmarked
    BY <1>1, <1>2 DEF EventFits, OrderFits, OrderRecorded
  <2> QED
    BY <1>2, <1>4, <2>1 DEF OrderFits, OrderRecorded
<1>9. TellsOrder(e)'
  <2>1. rows[e].state \notin Refusals \cup Unheard \cup {"completed", "shadow_recorded", "shadow_rejected"}
    BY <1>1 DEF Terminal
  <2> QED
    BY <1>0, <1>4, <2>1 DEF TellsOrder
<1>10. CallsFit(e)'
  <2>1. Pending(e)' = 0 /\ Pending(e) = 0
    BY <1>0, <1>3 DEF Pending, InCall, CycleTurns
  <2> QED
    BY <1>0, <1>1, <1>4, <2>1 DEF EventFits, CallsFit
<1>11. CycleFits(e)'
  BY <1>0, <1>1, <1>3, <1>4, <1>5 DEF CycleFits, CycleTurns
<1>12. EventFits(e)' /\ EndStays(e) /\ DecisionStays(e)
  BY <1>0, <1>1, <1>4, <1>7, <1>8, <1>9, <1>10, <1>11 DEF EventFits, EndStays, DecisionStays
<1> QED
  BY <1>0, <1>6, <1>12, OneEvent

\* A cycle raises, and nothing shows it but that its context was assembled.
LEMMA RaiseKeeps ==
    ASSUME Inv, NEW e \in Events, cycle.event = e, UNCHANGED surroundings,
           CommitConflicts(e) \/ RecordConflicts(e) \/ CycleErrs(e)
    PROVE  Keeps
<1>1. TypeOK /\ EventFits(e) /\ rows[e].attempts \in Nat /\ rows[e].state \notin Terminal /\ audits \in Nat
  BY CycleKnown
<1>2. CASE CommitConflicts(e) \/ RecordConflicts(e)
  <2>1. /\ Raise /\ UNCHANGED <<rows, quiet, calls, audits>> /\ faults' = faults
        /\ IF InCall THEN Lose(e) ELSE UNCHANGED lost
    BY <1>2 DEF CommitConflicts, RecordConflicts, quiet, InCall
  <2>2. faults' \in [crashes : 0..MaxCrashes, errors : 0..MaxErrors]
    BY <1>1, <2>1 DEF TypeOK
  <2> QED
    BY <2>1, <2>2, EndsBare
<1>3. CASE CycleErrs(e)
  <2>1. /\ EndCycle /\ Errs /\ recovering' = {} /\ UNCHANGED <<quiet, calls, audits>>
        /\ IF InCall THEN Lose(e) ELSE UNCHANGED lost
        /\ UNCHANGED rows \/ (cycle.pc = "context" /\ UpsertContext(e, Assembled(e)))
    BY <1>3 DEF CycleErrs, Errs, quiet
  <2>2. faults' \in [crashes : 0..MaxCrashes, errors : 0..MaxErrors]
    BY <1>1, <2>1, ErrsTyped
  <2>3. CASE UNCHANGED rows
    BY <2>1, <2>2, <2>3, EndsBare DEF Raise
  <2>4. CASE cycle.pc = "context" /\ UpsertContext(e, Assembled(e))
    <3>1. PICK st \in {"filtered_accepted", "awaiting_market_quote"} : UpsertContext(e, st)
      BY <2>4 DEF Assembled
    <3>2. st \in States /\ st \notin Terminal \cup {"absent", "received", "completed", "shadow_recorded", "shadow_rejected"}
      BY <3>1, StateNames DEF Terminal
    <3>3. RowTurns(e, st, rows[e].attempts, rows[e].linked)
      BY <1>1, <3>1, <3>2, ContextTurns
    <3>4. ~InCall /\ rows[e].attempts < MaxAttempts /\ lost' = lost
      BY <1>1, <2>1, <2>4 DEF InCall, EventFits, CycleFits
    <3>5. st \notin Refusals \cup Unheard \cup {"received"}
      BY <3>2, StateNames
    <3> QED
      BY <1>1, <2>1, <3>2, <3>3, <3>4, <3>5, EndsQuietly
  <2> QED
    BY <2>1, <2>3, <2>4
<1> QED
  BY <1>2, <1>3

\* A cycle that is given up leaves at most the write it awaits, which strikes its event.
LEMMA AbandonStrikes ==
    ASSUME Inv, NEW e \in Events, cycle.event = e, Abandon(e), committed' = committed
    PROVE  /\ cycle' \in Cycles /\ cycle'.event = Never /\ late' \in SUBSET Writes
           /\ struck' \in SUBSET Events /\ struck \subseteq struck' /\ struck' \subseteq struck \cup {e}
           /\ \A w \in late' : w \in late \/ WriteFits(w)'
           /\ rows[e].state = "absent" => e \notin struck'
<1>1. EventFits(e) /\ TypeOK /\ cycle \in Cycles
  BY CycleKnown
<1>2. cycle' \in Cycles /\ cycle'.event = Never
  BY IdleType DEF Abandon, EndCycle
<1>3. CASE cycle.pc \notin {"commit", "record"}
  <2>1. InFlight(e) = {}
    BY <1>3 DEF InFlight
  <2>2. late' = late /\ struck' = struck
    BY <2>1 DEF Abandon
  <2>3. late \in SUBSET Writes /\ struck \in SUBSET Events /\ (rows[e].state = "absent" => e \notin struck)
    BY <1>1 DEF TypeOK, Writes, EventFits, RowFits
  <2> QED
    BY <1>2, <2>2, <2>3
<1>4. CASE cycle.pc \in {"commit", "record"}
  <2>1. PICK x : x = [kind |-> cycle.pc, event |-> e, decision |-> cycle.decision, until |-> cycle.until]
    OBVIOUS
  <2>2. InFlight(e) = {x} /\ x.event = e /\ x.kind = cycle.pc
    BY <1>4, <2>1 DEF InFlight
  <2>3. cycle.decision \in DecisionType /\ cycle.until \in Int
    BY <1>1, CycleFields
  <2>4. x \in Writes
    BY <1>4, <2>1, <2>3 DEF Writes
  <2>5. late' = late \cup {x} /\ struck' = struck \cup {e}
    BY <2>2 DEF Abandon
  <2>6. late \in SUBSET Writes /\ struck \in SUBSET Events /\ rows[e].state # "absent"
    BY <1>1, <1>4 DEF TypeOK, Writes, EventFits, CycleFits
  <2>7. x.kind = "record" => Decided(e)
    BY <1>1, <2>2 DEF EventFits, CycleFits
  <2>8. WriteFits(x)'
    BY <2>2, <2>5, <2>7 DEF WriteFits, Decided
  <2> QED
    BY <1>2, <2>4, <2>5, <2>6, <2>8
<1> QED
  BY <1>3, <1>4

\* A cycle is cut short by a time-out, a stop or an exception.
LEMMA CutShortKeeps ==
    ASSUME Inv, NEW e \in Events, cycle.event = e, UNCHANGED surroundings, Timeout(e) \/ GiveUp(e)
    PROVE  Keeps
<1>0. /\ Abandon(e) /\ UNCHANGED <<memory, ledger, calls>> /\ audits' \in Nat
      /\ recovering' \subseteq recovering
      /\ faults' \in [crashes : 0..MaxCrashes, errors : 0..MaxErrors]
  <2>1. audits \in Nat /\ TypeOK
    BY CycleKnown
  <2>2. audits' = audits \/ audits' = audits + 1
    BY DEF Timeout, AuditFailure, GiveUp
  <2>3. \/ Errs \/ UNCHANGED <<recovering, faults>>
        \/ recovering' = {} /\ UNCHANGED faults
    BY DEF Timeout, AuditFailure, GiveUp
  <2>4. recovering' \subseteq recovering /\ faults' \in [crashes : 0..MaxCrashes, errors : 0..MaxErrors]
    <3>1. CASE Errs \/ UNCHANGED <<recovering, faults>>
      BY <2>1, <3>1, ErrsTyped
    <3>2. CASE recovering' = {} /\ UNCHANGED faults
      BY <2>1, <3>2 DEF TypeOK
    <3> QED
      BY <2>3, <3>1, <3>2
  <2> QED
    BY <2>1, <2>2, <2>4 DEF Timeout, GiveUp
<1>1. /\ EventFits(e) /\ rows[e].linked = FALSE /\ rows[e].attempts \in Nat /\ calls[e] \in Nat /\ lost[e] \in Nat
      /\ TypeOK /\ rows[e].state \notin Terminal /\ e \notin recovering /\ lost \in [Events -> Nat]
  BY CycleKnown
<1>2. /\ UNCHANGED <<version, committed, orders, refused, position, snapshot, unmarked, calls>>
      /\ Decided(e)' = Decided(e) /\ Recorded(e)' = Recorded(e)
  BY <1>0 DEF memory, ledger, surroundings, Decided, Recorded
<1>3. /\ cycle' \in Cycles /\ cycle'.event = Never /\ late' \in SUBSET Writes
      /\ struck' \in SUBSET Events /\ struck \subseteq struck' /\ struck' \subseteq struck \cup {e}
      /\ \A w \in late' : w \in late \/ WriteFits(w)'
      /\ rows[e].state = "absent" => e \notin struck'
  BY <1>0, <1>2, AbandonStrikes
<1>4. /\ lost' \in [Events -> Nat] /\ (\A f \in Events \ {e} : lost'[f] = lost[f])
      /\ Timeout(e) => lost'[e] = lost[e]
      /\ GiveUp(e) => lost'[e] = lost[e] + (IF InCall THEN 1 ELSE 0)
      /\ lost'[e] >= lost[e]
  BY <1>1 DEF Timeout, GiveUp, Lose
\* What the row becomes.
<1>5. /\ rows' \in [Events -> Rows] /\ (\A f \in Events \ {e} : rows'[f] = rows[f]) /\ rows'[e].linked = FALSE
      /\ \/ Timeout(e) /\ rows'[e].state = "reasoning_failed" /\ rows'[e].attempts = rows[e].attempts + 1
         \/ GiveUp(e) /\ rows'[e] = rows[e]
  <2>1. CASE GiveUp(e)
    BY <1>1, <2>1 DEF GiveUp, TypeOK, Rows, States
  <2>2. CASE Timeout(e) /\ rows[e].state # "absent"
    <3>1. UpsertAttempt(e, "reasoning_failed") /\ "reasoning_failed" \in States
      BY <2>2, StateNames DEF Timeout
    <3>2. RowTurns(e, "reasoning_failed", rows[e].attempts + 1, rows[e].linked)
      BY <1>1, <3>1, AttemptTurns
    <3> QED
      BY <1>1, <2>2, <3>2 DEF RowTurns
  <2>3. CASE Timeout(e) /\ rows[e].state = "absent"
    <3>1. rows[e] = NoRow /\ NextPlace \in 0..Cardinality(Events)
      BY <1>1, <2>3, PlaceLeft DEF EventFits, RowFits
    <3>2. PICK n \in 0..Cardinality(Events) : n = NextPlace
      BY <3>1
    <3> DEFINE p1 == [NoRow EXCEPT !.state = "reasoning_failed"]
               p2 == [p1 EXCEPT !.attempts = 1]
               p == [p2 EXCEPT !.place = n]
    <3>3. rows' = [rows EXCEPT ![e] = p]
      BY <2>3, <3>2 DEF Timeout
    <3>4. NoRow \in Rows /\ NoRow.attempts = 0 /\ NoRow.linked = FALSE
      BY <1>1, <3>1 DEF TypeOK, Rows, States, NoRow
    <3>5. p1 \in Rows /\ p1.state = "reasoning_failed" /\ p1.linked = FALSE
      BY <3>4, RowFields, StateNames DEF Rows
    <3> HIDE DEF p1
    <3>6. p2 \in Rows /\ p2.state = "reasoning_failed" /\ p2.attempts = 1 /\ p2.linked = FALSE
      BY <3>5, RowFields DEF Rows
    <3> HIDE DEF p2
    <3>7. p \in Rows /\ p.state = "reasoning_failed" /\ p.attempts = 1 /\ p.linked = FALSE
      BY <3>6, RowFields DEF Rows
    <3> HIDE DEF p
    <3>8. RowTurns(e, p.state, p.attempts, p.linked)
      BY <1>1, <3>3, <3>7, RowReplaced
    <3>9. rows[e].attempts + 1 = 1
      BY <3>1, <3>4
    <3> QED
      BY <2>3, <3>7, <3>8, <3>9 DEF RowTurns
  <2> QED
    BY <2>1, <2>2, <2>3
<1>6. OthersStay(e) /\ RestTyped
  <2>1. calls' \in [Events -> Nat] /\ committed' \in [Events -> DecisionType] /\ OthersOrders(e)
        /\ refused' \in SUBSET Events
    BY <1>1, <1>2 DEF TypeOK, OthersOrders
  <2>2. OthersStay(e)
    BY <1>0, <1>2, <1>3, <1>4, <1>5, <2>1 DEF OthersStay
  <2>3. RestTyped
    BY <1>0, <1>1, <1>2, <1>3 DEF RestTyped, TypeOK
  <2> QED
    BY <2>2, <2>3
<1>7. RowFits(e)'
  BY <1>0, <1>1, <1>2, <1>3, <1>5 DEF EventFits, RowFits
<1>8. OrderFits(e)' /\ TellsOrder(e)'
  <2>1. "reasoning_failed" \notin Refusals \cup Unheard
    BY StateNames
  <2> QED
    BY <1>1, <1>2, <1>3, <1>5, <2>1 DEF EventFits, OrderFits, TellsOrder
<1>9. CallsFit(e)'
  <2>1. Pending(e)' = 0 /\ Pending(e) = IF InCall THEN 1 ELSE 0
    BY <1>3, Bounds DEF Pending
  <2>2. calls[e] <= rows'[e].attempts + lost'[e]
    <3>1. calls[e] <= rows[e].attempts + lost[e] + Pending(e)
      BY <1>1 DEF EventFits, CallsFit
    <3>2. CASE Timeout(e) /\ rows'[e].attempts = rows[e].attempts + 1
      BY <1>1, <1>4, <2>1, <3>1, <3>2
    <3>3. CASE GiveUp(e) /\ rows'[e] = rows[e]
      BY <1>1, <1>4, <2>1, <3>1, <3>3
    <3> QED
      BY <1>5, <3>2, <3>3
  <2>3. calls[e] <= MaxAttempts + lost'[e]
    BY <1>1, <1>4, Bounds DEF EventFits, CallsFit
  <2>4. ~Decided(e) /\ rows'[e].attempts >= MaxAttempts => rows'[e].state \in Terminal \cup {"reasoning_failed"}
    BY <1>1, <1>5 DEF EventFits, CallsFit
  <2>5. calls'[e] <= rows'[e].attempts + lost'[e] + Pending(e)'
    <3>1. rows'[e].attempts \in Nat /\ lost'[e] \in Nat
      BY <1>4, <1>5 DEF Rows
    <3> QED
      BY <1>2, <2>1, <2>2, <3>1
  <2> QED
    BY <1>2, <2>3, <2>4, <2>5 DEF CallsFit
<1>10. CycleFits(e)'
  BY <1>3, Bounds DEF CycleFits
<1>11. EventFits(e)' /\ EndStays(e) /\ DecisionStays(e)
  BY <1>1, <1>2, <1>7, <1>8, <1>9, <1>10 DEF EventFits, EndStays, DecisionStays
<1> QED
  BY <1>3, <1>6, <1>11, OneEvent

LEMMA CycleStepKeeps ==
    ASSUME Inv, NEW e \in Events, CycleStep(e)
    PROVE  Keeps
BY LookKeeps, ContextKeeps, AnswerKeeps, CommitLandsKeeps, RaiseKeeps, AfterCommitKeeps, RecoverKeeps,
   AssessKeeps, PostKeeps, RecordLandsKeeps, CutShortKeeps DEF CycleStep
-----------------------------------------------------------------------------
(***************************************************************************)
(* The scan and the recovery, while no cycle is in progress                *)
(***************************************************************************)
\* An event no cycle is at.
LEMMA IdleKnown ==
    ASSUME Inv, NEW e \in Events, cycle = Idle
    PROVE  /\ EventFits(e) /\ TypeOK /\ rows[e].state \in States /\ rows[e].linked \in BOOLEAN
           /\ rows[e].attempts \in Nat /\ calls[e] \in Nat /\ lost[e] \in Nat /\ audits \in Nat
           /\ calls \in [Events -> Nat] /\ lost \in [Events -> Nat]
           /\ faults \in [crashes : 0..MaxCrashes, errors : 0..MaxErrors]
           /\ cycle.event = Never /\ cycle \in Cycles /\ Pending(e) = 0
<1>1. EventFits(e) /\ TypeOK /\ rows[e] \in Rows
  BY DEF Inv, TypeOK, Rows, States
<1>2. rows[e].state \in States /\ rows[e].attempts \in Nat /\ rows[e].linked \in BOOLEAN
  BY <1>1 DEF Rows
<1>3. cycle.event = Never /\ cycle \in Cycles
  BY IdleType
<1>4. Pending(e) = 0
  BY <1>3, Bounds DEF Pending
<1> QED
  BY <1>1, <1>2, <1>3, <1>4 DEF TypeOK

\* A row is given its end by the scan or the recovery.
LEMMA EndsIdle ==
    ASSUME Inv, NEW e \in Events, cycle = Idle,
           UNCHANGED <<surroundings, quiet, cycle, audits, calls, lost>>, recovering' \subseteq recovering,
           faults' \in [crashes : 0..MaxCrashes, errors : 0..MaxErrors],
           NEW st \in Unheard, RowTurns(e, st, rows[e].attempts, FALSE),
           e \notin recovering', ~Decided(e), rows[e].state \notin Terminal
    PROVE  Keeps
<1>1. /\ EventFits(e) /\ rows[e].attempts \in Nat /\ calls[e] \in Nat /\ lost[e] \in Nat
      /\ audits \in Nat /\ cycle.event = Never /\ cycle \in Cycles /\ Pending(e) = 0
      /\ calls \in [Events -> Nat] /\ lost \in [Events -> Nat]
  BY IdleKnown
<1>2. /\ UNCHANGED <<committed, orders, refused, struck>>
      /\ Decided(e)' = Decided(e) /\ Recorded(e)' = Recorded(e) /\ ~Recorded(e)
  BY <1>1 DEF quiet, memory, ledger, Decided, Recorded, EventFits, OrderFits
<1>3. st \in Terminal /\ st \notin {"absent", "completed", "shadow_recorded", "shadow_rejected"}
  BY StateNames
<1>4. RowFits(e)'
  BY <1>2, <1>3 DEF RowFits, RowTurns
<1>5. TellsOrder(e)'
  BY <1>2, <1>3 DEF TellsOrder, RowTurns
<1>6. CallsFit(e)'
  <2>1. Pending(e)' = 0
    BY <1>1, Bounds DEF Pending
  <2> QED
    BY <1>1, <1>2, <1>3, <2>1 DEF EventFits, CallsFit, RowTurns
<1>7. CycleFits(e)'
  BY <1>1, Bounds DEF CycleFits
<1> QED
  BY <1>1, <1>4, <1>5, <1>6, <1>7, QuietStep DEF RowTurns

\* A cycle begins with an event whose attempts are not used up, unless it is decided.
LEMMA BeginKeeps ==
    ASSUME Inv, NEW e \in Events, cycle = Idle,
           UNCHANGED <<surroundings, quiet, rows, faults, audits, calls, lost>>, recovering' \subseteq recovering,
           Begin(e), e \notin recovering', rows[e].state \notin Terminal,
           Decided(e) \/ rows[e].attempts < MaxAttempts
    PROVE  Keeps
<1>1. /\ EventFits(e) /\ rows[e].attempts \in Nat /\ calls[e] \in Nat /\ lost[e] \in Nat
      /\ audits \in Nat /\ cycle.event = Never /\ Pending(e) = 0 /\ TypeOK
      /\ calls \in [Events -> Nat] /\ lost \in [Events -> Nat]
      /\ faults \in [crashes : 0..MaxCrashes, errors : 0..MaxErrors]
  BY IdleKnown
<1>2. /\ UNCHANGED <<committed, orders, refused, struck>>
      /\ Decided(e)' = Decided(e) /\ Recorded(e)' = Recorded(e)
  BY DEF quiet, memory, ledger, Decided, Recorded
<1>3. CycleTurns(e, "look")
  BY BeginTurns
<1>4. RowFits(e)' /\ TellsOrder(e)'
  BY <1>1, <1>2 DEF EventFits, RowFits, TellsOrder
<1>5. CallsFit(e)'
  <2>1. Pending(e)' = 0
    BY <1>3 DEF Pending, InCall, CycleTurns
  <2> QED
    BY <1>1, <1>2, <2>1 DEF EventFits, CallsFit
<1>6. CycleFits(e)'
  BY <1>2, <1>3 DEF CycleFits, CycleTurns
<1>7. rows' \in [Events -> Rows] /\ \A f \in Events \ {e} : rows'[f] = rows[f]
  BY <1>1 DEF TypeOK, Rows, States
<1> QED
  BY <1>1, <1>3, <1>4, <1>5, <1>6, <1>7, QuietStep DEF CycleTurns

LEMMA TakeKeeps ==
    ASSUME Inv, NEW e \in Events, Take(e)
    PROVE  Keeps
<1>0. cycle = Idle /\ recovering = {}
  BY DEF Take, Start, FilterOut, Scanning
<1>1. /\ EventFits(e) /\ TypeOK /\ rows[e].attempts \in Nat
      /\ faults \in [crashes : 0..MaxCrashes, errors : 0..MaxErrors]
  BY <1>0, IdleKnown
<1>2. CASE FilterOut(e)
  <2>1. /\ UNCHANGED <<surroundings, quiet, cycle, faults, audits, calls, lost, recovering>>
        /\ rows[e].state = "absent" /\ Insert(e, "filtered_out")
    BY <1>2 DEF FilterOut, quiet
  <2>a. rows[e] = NoRow /\ ~Decided(e)
    BY <1>1, <2>1 DEF EventFits, RowFits
  <2>b. "filtered_out" \in Unheard /\ "filtered_out" \in States
    BY StateNames
  <2>2. rows[e] = NoRow /\ ~Decided(e) /\ "filtered_out" \in Unheard /\ "filtered_out" \in States
    BY <2>a, <2>b
  <2>c. RowTurns(e, "filtered_out", 0, FALSE)
    BY <1>1, <2>1, <2>2, InsertTurns
  <2>d. rows[e].attempts = 0
    BY <2>2 DEF NoRow
  <2>3. RowTurns(e, "filtered_out", rows[e].attempts, FALSE)
    BY <2>c, <2>d
  <2>4. rows[e].state \notin Terminal
    BY <2>1 DEF Terminal, Refusals, Unheard
  <2> QED
    BY <1>0, <1>1, <2>1, <2>2, <2>3, <2>4, EndsIdle
<1>3. CASE Start(e)
  <2>1. /\ UNCHANGED <<surroundings, quiet, rows, faults, audits, calls, lost, recovering>> /\ Begin(e)
        /\ rows[e].state = "absent" \/ ~Done(rows[e])
    BY <1>3 DEF Start, quiet
  <2>2. CASE rows[e].state = "absent"
    <3>1. rows[e].attempts = 0
      BY <1>1, <2>2 DEF EventFits, RowFits, NoRow
    <3>2. rows[e].attempts < MaxAttempts /\ rows[e].state \notin Terminal
      BY <2>2, <3>1, Bounds DEF Terminal, Refusals, Unheard
    <3> QED
      BY <1>0, <2>1, <3>2, BeginKeeps
  <2>3. CASE ~Done(rows[e])
    <3>1. rows[e].state \notin Terminal /\ ~(rows[e].state = "reasoning_failed" /\ rows[e].attempts >= MaxAttempts)
      BY <2>3 DEF Done, Exhausted
    <3>2. Decided(e) \/ ~(rows[e].attempts >= MaxAttempts)
      BY <1>1, <3>1 DEF EventFits, CallsFit
    <3>3. Decided(e) \/ rows[e].attempts < MaxAttempts
      BY <1>1, <3>2, Bounds
    <3> QED
      BY <1>0, <2>1, <3>1, <3>3, BeginKeeps
  <2> QED
    BY <2>1, <2>2, <2>3
<1> QED
  BY <1>2, <1>3 DEF Take

LEMMA RecoverNextKeeps ==
    ASSUME Inv, NEW e \in Events, RecoverNext(e)
    PROVE  Keeps
<1>0. cycle = Idle /\ e \in recovering
  BY DEF RecoverNext, RecoverEnds, RecoverStarts, Recovering
<1>1. /\ EventFits(e) /\ TypeOK /\ rows[e].attempts \in Nat /\ rows[e].linked \in BOOLEAN
  BY <1>0, IdleKnown
<1>2. rows[e].state \in Incomplete /\ rows[e].state \notin Terminal
  BY <1>0, <1>1, StateNames DEF EventFits, RowFits
<1>3. CASE RecoverEnds(e)
  <2>1. PICK st \in RecoveryVerdict(e) : Upsert(e, st)
    BY <1>3 DEF RecoverEnds
  <2>2. /\ UNCHANGED <<surroundings, quiet, cycle, audits, calls, lost>>
        /\ Errs \/ (recovering' = recovering \ {e} /\ UNCHANGED faults)
    BY <1>3 DEF RecoverEnds, quiet
  <2>a. recovering' \subseteq recovering /\ e \notin recovering'
        /\ faults' \in [crashes : 0..MaxCrashes, errors : 0..MaxErrors]
    <3>1. CASE Errs
      <4>1. recovering' = {}
        BY <3>1 DEF Errs
      <4> QED
        BY <1>1, <3>1, <4>1, ErrsTyped
    <3>2. CASE recovering' = recovering \ {e} /\ UNCHANGED faults
      BY <1>1, <3>2 DEF TypeOK
    <3> QED
      BY <2>2, <3>1, <3>2
  <2>3. ~Decided(e)
    BY <2>1 DEF RecoveryVerdict
  <2>4. st \in {"recovery_abandoned", "expired", "recovery_expired"}
    BY <2>1, <2>3 DEF RecoveryVerdict
  <2>5. st \in Unheard /\ st \in States
    BY <2>4, StateNames
  <2>6. rows[e].linked = FALSE
    BY <1>1, <1>2 DEF EventFits, RowFits, Terminal
  <2>7. RowTurns(e, st, rows[e].attempts, FALSE)
    BY <1>1, <2>1, <2>5, <2>6, UpsertTurns
  <2> QED
    BY <1>0, <1>2, <2>2, <2>a, <2>3, <2>5, <2>7, EndsIdle
<1>4. CASE RecoverStarts(e)
  <2>1. UNCHANGED <<surroundings, quiet, rows, faults, audits, calls, lost>> /\ Begin(e) /\ RecoveryVerdict(e) = {}
        /\ recovering' = recovering \ {e}
    BY <1>4 DEF RecoverStarts, quiet
  <2>2. Decided(e) \/ ~(rows[e].attempts >= MaxAttempts)
    BY <2>1 DEF RecoveryVerdict
  <2>3. Decided(e) \/ rows[e].attempts < MaxAttempts
    BY <1>1, <2>2, Bounds
  <2> QED
    BY <1>0, <1>2, <2>1, <2>3, BeginKeeps
<1> QED
  BY <1>3, <1>4 DEF RecoverNext
-----------------------------------------------------------------------------
(***************************************************************************)
(* Around the worker                                                       *)
(***************************************************************************)
\* Nothing happens to f, but that its order may end without a fill.
EventStays(f) ==
    /\ rows'[f] = rows[f] /\ committed'[f] = committed[f]
    /\ calls'[f] = calls[f] /\ lost'[f] = lost[f]
    /\ \/ orders'[f] = orders[f]
       \/ orders[f] = "outstanding" /\ orders'[f] = "dropped"
    /\ f \in refused' <=> f \in refused
    /\ f \in struck' <=> f \in struck
    /\ f \in recovering' => f \in recovering
    /\ f \in unmarked' => f \in unmarked

LEMMA StayingFits ==
    ASSUME Inv, NEW f \in Events, cycle' = cycle, EventStays(f)
    PROVE  EventFits(f)' /\ EndStays(f) /\ DecisionStays(f)
<1>1. EventFits(f) /\ calls[f] \in Nat /\ lost[f] \in Nat /\ rows[f].attempts \in Nat
  BY DEF Inv, TypeOK
<1>2. Decided(f)' = Decided(f) /\ (Recorded(f)' <=> Recorded(f))
  BY DEF Decided, Recorded, EventStays
<1>3. RowFits(f)'
  BY <1>1, <1>2 DEF EventFits, RowFits, EventStays
<1>4. OrderFits(f)'
  BY <1>1, <1>2 DEF EventFits, OrderFits, EventStays
<1>5. TellsOrder(f)'
  BY <1>1, <1>2 DEF EventFits, TellsOrder, EventStays
<1>6. CallsFit(f)'
  <2>1. Pending(f)' = Pending(f)
    BY DEF Pending, InCall
  <2> QED
    BY <1>1, <1>2, <2>1 DEF EventFits, CallsFit, EventStays
<1>7. CycleFits(f)'
  BY <1>1, <1>2 DEF EventFits, CycleFits, EventStays
<1> QED
  BY <1>3, <1>4, <1>5, <1>6, <1>7 DEF EventFits, EndStays, DecisionStays, EventStays

\* What is written outside the cycle keeps its type.
Typed ==
    /\ clock' \in 0..MaxClock /\ runStart' = runStart /\ overdue' = overdue
    /\ received' \in [Events -> {Never} \cup 0..MaxClock]
    /\ rows' \in [Events -> Rows] /\ committed' \in [Events -> DecisionType]
    /\ version' \in Nat /\ position' \in 0..1 /\ snapshot' \in Nat
    /\ orders' \in [Events -> Life!States] /\ refused' \in SUBSET Events
    /\ unmarked' \in SUBSET Events /\ late' \subseteq late /\ recovering' \subseteq recovering
    /\ stop' \in BOOLEAN /\ audits' = audits
    /\ faults' \in [crashes : 0..MaxCrashes, errors : 0..MaxErrors]
    /\ calls' = calls /\ lost' = lost /\ struck' = struck

\* A step outside the cycle keeps what each event keeps.
LEMMA AroundStep ==
    ASSUME Inv, cycle' = cycle, Typed,
           \A f \in Events : EventFits(f)' /\ EndStays(f) /\ DecisionStays(f)
    PROVE  Keeps
<1>1. TypeOK'
  <2>1. runStart \in 0..MaxClock /\ overdue \in SUBSET Events /\ TypeOK
    BY DEF Inv, TypeOK
  <2>2. late' \in SUBSET Writes
    BY <2>1 DEF Typed, TypeOK, Writes
  <2> QED
    BY <2>1, <2>2 DEF Typed, TypeOK, Rows, States, Writes
<1>2. ASSUME NEW w \in late' PROVE WriteFits(w)'
  <2>1. w \in late /\ WriteFits(w) /\ w.event \in Events
    BY DEF Inv, TypeOK, Typed
  <2>2. Decided(w.event) => Decided(w.event)'
    BY <2>1 DEF DecisionStays, Decided
  <2> QED
    BY <2>1, <2>2 DEF WriteFits, Typed
<1> QED
  BY <1>1, <1>2 DEF Keeps, Inv

\* What is known whatever the step.
LEMMA Known ==
    ASSUME Inv
    PROVE  /\ TypeOK /\ clock \in 0..MaxClock /\ received \in [Events -> {Never} \cup 0..MaxClock]
           /\ rows \in [Events -> Rows] /\ committed \in [Events -> DecisionType]
           /\ version \in Nat /\ position \in 0..1 /\ snapshot \in Nat
           /\ orders \in [Events -> Life!States] /\ refused \in SUBSET Events
           /\ unmarked \in SUBSET Events /\ stop \in BOOLEAN
           /\ late \in SUBSET Writes
           /\ faults \in [crashes : 0..MaxCrashes, errors : 0..MaxErrors]
BY DEF Inv, TypeOK, Rows, States, Writes

\* Time, captures and the ends of orders that no row is told of.
LEMMA UntoldKeeps ==
    ASSUME Inv, Tick \/ (\E e \in Events : Capture(e)) \/ EndOrder \/ ProtectiveExit
    PROVE  Keeps
<1>1. /\ UNCHANGED <<runStart, overdue, rows, version, committed, refused, unmarked, late, recovering, stop,
                     faults, audits, calls, lost, struck>> /\ cycle' = cycle
  BY DEF Tick, Capture, EndOrder, ProtectiveExit, worker, memory, ledger, history
<1>2. clock' \in 0..MaxClock
  BY Known, Bounds DEF Tick, Capture, EndOrder, ProtectiveExit, worker
<1>3. received' \in [Events -> {Never} \cup 0..MaxClock]
  BY Known DEF Tick, Capture, EndOrder, ProtectiveExit, worker
<1>4. snapshot' \in Nat /\ position' \in 0..1
  BY Known DEF Tick, Capture, EndOrder, ProtectiveExit, ledger, Life!Close
<1>5. \/ orders' = orders
      \/ orders' = Life!Dropping(Outstanding)
  BY DEF Tick, Capture, EndOrder, ProtectiveExit, ledger, Life!Close, Outstanding
<1>6. /\ orders' \in [Events -> Life!States]
      /\ \A f \in Events : \/ orders'[f] = orders[f]
                           \/ orders[f] = "outstanding" /\ orders'[f] = "dropped"
  <2>1. CASE orders' = orders
    BY <2>1, Known
  <2>2. CASE orders' = Life!Dropping(Outstanding)
    BY <2>2, Known DEF Life!Dropping, Life!Outstanding, Outstanding, Life!States
  <2> QED
    BY <1>5, <2>1, <2>2
<1>7. Typed
  BY <1>1, <1>2, <1>3, <1>4, <1>6, Known DEF Typed
<1>8. \A f \in Events : EventStays(f)
  BY <1>1, <1>6 DEF EventStays
<1> QED
  BY <1>1, <1>7, <1>8, StayingFits, AroundStep

\* Recovery breaks off: what it had not come to is left to the scans.
LEMMA RecoveryErrsKeeps ==
    ASSUME Inv, RecoveryErrs
    PROVE  Keeps
<1>1. /\ UNCHANGED <<clock, received, runStart, overdue, rows, version, committed, orders, refused, position,
                     snapshot, unmarked, late, stop, audits, calls, lost, struck>> /\ cycle' = cycle
      /\ Errs
  BY DEF RecoveryErrs, surroundings, memory, ledger
<1>2. recovering' \subseteq recovering /\ faults' \in [crashes : 0..MaxCrashes, errors : 0..MaxErrors]
  BY <1>1, Known, ErrsTyped
<1>3. Typed
  BY <1>1, <1>2, Known DEF Typed
<1>4. \A f \in Events : EventStays(f)
  BY <1>1, <1>2 DEF EventStays
<1> QED
  BY <1>1, <1>3, <1>4, StayingFits, AroundStep

\* An order fills.
LEMMA FillOrderKeeps ==
    ASSUME Inv, NEW e \in Events, FillOrder(e)
    PROVE  Keeps
<1>1. /\ UNCHANGED <<clock, received, runStart, overdue, rows, version, committed, refused, late, recovering, stop,
                     faults, audits, calls, lost, struck>> /\ cycle' = cycle
      /\ unmarked' = unmarked \cup {e} /\ snapshot' = snapshot + 1 /\ position' \in 0..1
      /\ Outstanding = {e} /\ orders' = [orders EXCEPT ![e] = "filled"]
  BY DEF FillOrder, worker, memory, history, Life!FillOrder, Outstanding
<1>2. orders[e] = "outstanding" /\ orders' \in [Events -> Life!States] /\ orders'[e] = "filled"
      /\ \A f \in Events \ {e} : orders'[f] = orders[f]
  BY <1>1, Known DEF Outstanding, Life!Outstanding, Life!States
<1>3. Typed
  BY <1>1, <1>2, Known DEF Typed
<1>4. \A f \in Events \ {e} : EventStays(f)
  BY <1>1, <1>2 DEF EventStays
<1>5. EventFits(e) /\ calls[e] \in Nat /\ lost[e] \in Nat /\ rows[e].attempts \in Nat
  BY DEF Inv, TypeOK
<1>6. Decided(e)' = Decided(e) /\ Recorded(e) /\ Recorded(e)' /\ e \notin refused
  BY <1>1, <1>2, <1>5 DEF Decided, Recorded, EventFits, OrderFits
<1>7. RowFits(e)' /\ OrderFits(e)' /\ TellsOrder(e)'
  BY <1>1, <1>2, <1>5, <1>6 DEF EventFits, RowFits, OrderFits, TellsOrder
<1>8. CallsFit(e)'
  <2>1. Pending(e)' = Pending(e)
    BY <1>1 DEF Pending, InCall
  <2> QED
    BY <1>1, <1>5, <1>6, <2>1 DEF EventFits, CallsFit
<1>9. CycleFits(e)'
  BY <1>1, <1>5, <1>6 DEF EventFits, CycleFits
<1>10. EventFits(e)' /\ EndStays(e) /\ DecisionStays(e)
  BY <1>1, <1>7, <1>8, <1>9 DEF EventFits, EndStays, DecisionStays
<1>11. \A f \in Events : EventFits(f)' /\ EndStays(f) /\ DecisionStays(f)
  BY <1>1, <1>4, <1>10, StayingFits
<1> QED
  BY <1>1, <1>3, <1>11, AroundStep

\* The row of an order turns to what became of it.
LEMMA TurnedFits ==
    ASSUME Inv, NEW e \in Events, cycle' = cycle,
           UNCHANGED <<committed, calls, lost, refused, struck, recovering>>,
           rows[e].linked, rows[e].state \in {"shadow_recorded", "completed", "shadow_rejected"},
           rows'[e].linked, rows'[e].attempts = rows[e].attempts,
           \/ /\ rows'[e].state = "completed" /\ orders'[e] = "filled" /\ orders[e] = "filled"
           \/ /\ rows'[e].state = "shadow_rejected" /\ orders'[e] = "dropped" /\ orders[e] = "outstanding",
           e \in unmarked' => e \in unmarked
    PROVE  EventFits(e)' /\ EndStays(e) /\ DecisionStays(e)
<1>1. EventFits(e) /\ calls[e] \in Nat /\ lost[e] \in Nat /\ rows[e].attempts \in Nat
  BY DEF Inv, TypeOK
<1>2. /\ rows[e].state \in Terminal /\ rows[e].state \notin Incomplete /\ rows'[e].state \in Terminal
      /\ rows'[e].state \notin Refusals \cup Unheard \cup {"absent", "received", "shadow_recorded"}
  BY DEF Terminal, Incomplete, Refusals, Unheard
<1>3. Decided(e)' = Decided(e) /\ Recorded(e) /\ Recorded(e)' /\ cycle.event # e /\ e \notin recovering
  BY <1>1, <1>2 DEF Decided, Recorded, EventFits, RowFits, CycleFits
<1>4. RowFits(e)'
  BY <1>2, <1>3 DEF RowFits
<1>5. OrderFits(e)'
  BY <1>1, <1>3 DEF EventFits, OrderFits
<1>6. TellsOrder(e)'
  BY <1>2 DEF TellsOrder
<1>7. CallsFit(e)'
  <2>1. Pending(e)' = 0 /\ Pending(e) = 0
    BY <1>3 DEF Pending
  <2> QED
    BY <1>1, <1>2, <2>1 DEF EventFits, CallsFit
<1>8. CycleFits(e)'
  BY <1>3 DEF CycleFits
<1>9. EndStays(e)
  BY <1>1 DEF EndStays, EventFits, TellsOrder
<1> QED
  BY <1>4, <1>5, <1>6, <1>7, <1>8, <1>9 DEF EventFits, DecisionStays

\* A fill is marked in the row that knows its order.
LEMMA MarkFillKeeps ==
    ASSUME Inv, NEW e \in Events, MarkFill(e)
    PROVE  Keeps
<1>1. /\ UNCHANGED <<clock, received, runStart, overdue, version, committed, orders, refused, position, snapshot,
                     late, recovering, stop, faults, audits, calls, lost, struck>> /\ cycle' = cycle
      /\ unmarked' = unmarked \ {e} /\ e \in unmarked
      /\ IF rows[e].linked THEN Upsert(e, "completed") ELSE UNCHANGED rows
  BY DEF MarkFill, worker, memory, history
<1>2. EventFits(e) /\ orders[e] = "filled"
  BY <1>1 DEF Inv, EventFits, OrderFits
<1>3. CASE ~rows[e].linked
  <2>1. rows' = rows
    BY <1>1, <1>3
  <2>2. Typed
    BY <1>1, <2>1, Known DEF Typed
  <2>3. \A f \in Events : EventStays(f)
    BY <1>1, <2>1 DEF EventStays
  <2> QED
    BY <1>1, <2>2, <2>3, StayingFits, AroundStep
<1>4. CASE rows[e].linked
  <2>1. RowTurns(e, "completed", rows[e].attempts, rows[e].linked)
    <3>1. "completed" \in States
      BY DEF States, Terminal
    <3> QED
      BY <1>1, <1>4, <3>1, Known, UpsertTurns
  <2>2. Typed
    BY <1>1, <2>1, Known DEF Typed, RowTurns
  <2>3. \A f \in Events \ {e} : EventStays(f)
    BY <1>1, <2>1 DEF EventStays, RowTurns
  <2>4. EventFits(e)' /\ EndStays(e) /\ DecisionStays(e)
    <3>1. rows[e].state \in {"shadow_recorded", "completed", "shadow_rejected"}
      BY <1>2, <1>4 DEF EventFits, RowFits
    <3>2. /\ rows'[e].state = "completed" /\ rows'[e].linked /\ rows'[e].attempts = rows[e].attempts
          /\ orders'[e] = "filled"
      BY <1>1, <1>2, <1>4, <2>1 DEF RowTurns
    <3> QED
      BY <1>1, <1>2, <1>4, <3>1, <3>2, TurnedFits
  <2>5. \A f \in Events : EventFits(f)' /\ EndStays(f) /\ DecisionStays(f)
    BY <1>1, <2>3, <2>4, StayingFits
  <2> QED
    BY <1>1, <2>2, <2>5, AroundStep
<1> QED
  BY <1>3, <1>4

\* A stop cancels orders, and tells the rows that know them.
LEMMA RequestStopKeeps ==
    ASSUME Inv, RequestStop
    PROVE  Keeps
<1>1. /\ UNCHANGED <<clock, received, runStart, overdue, version, committed, refused, position, snapshot, unmarked,
                     late, recovering, faults, audits, calls, lost, struck>> /\ cycle' = cycle
      /\ stop' = TRUE
  BY DEF RequestStop, worker, memory, history
<1> DEFINE Told(D, e) == e \in D /\ rows[e].linked /\ rows[e].state = "shadow_recorded"
<1>2. PICK D \in SUBSET Outstanding :
        /\ orders' = Life!Dropping(D)
        /\ rows' = [e \in Events |-> IF Told(D, e) THEN [rows[e] EXCEPT !.state = "shadow_rejected"] ELSE rows[e]]
  BY DEF RequestStop
<1> HIDE DEF Told
<1>3. /\ orders' \in [Events -> Life!States]
      /\ \A f \in Events : orders'[f] = IF f \in D THEN "dropped" ELSE orders[f]
      /\ \A f \in D : f \in Events /\ orders[f] = "outstanding"
  BY <1>2, Known DEF Life!Dropping, Life!States, Outstanding, Life!Outstanding
<1>4. ASSUME NEW f \in Events
      PROVE  /\ rows'[f] \in Rows /\ EventFits(f)' /\ EndStays(f) /\ DecisionStays(f)
  <2>1. rows[f] \in Rows /\ "shadow_rejected" \in States
    BY Known DEF States, Terminal
  <2>2. CASE Told(D, f)
    <3> DEFINE p == [rows[f] EXCEPT !.state = "shadow_rejected"]
    <3>1. p \in Rows /\ p.state = "shadow_rejected" /\ p.attempts = rows[f].attempts /\ p.linked = rows[f].linked
      BY <2>1, RowFields DEF Rows
    <3>2. rows'[f] = p
      BY <1>2, <2>2
    <3> HIDE DEF p
    <3>3. rows[f].linked /\ rows[f].state = "shadow_recorded" /\ f \in D
      BY <2>2 DEF Told
    <3>4. orders'[f] = "dropped" /\ orders[f] = "outstanding"
      BY <1>3, <3>3
    <3> QED
      BY <1>1, <3>1, <3>2, <3>3, <3>4, TurnedFits
  <2>3. CASE ~Told(D, f)
    <3>1. rows'[f] = rows[f]
      BY <1>2, <2>3
    <3>2. EventStays(f)
      BY <1>1, <1>3, <3>1 DEF EventStays
    <3> QED
      BY <1>1, <2>1, <3>1, <3>2, StayingFits
  <2> QED
    BY <2>2, <2>3
<1>5. rows' \in [Events -> Rows]
  BY <1>2, <1>4
<1>6. Typed
  BY <1>1, <1>3, <1>5, Known DEF Typed
<1> QED
  BY <1>1, <1>4, <1>6, AroundStep
-----------------------------------------------------------------------------
(***************************************************************************)
(* Writes that outlived their cycle, and restarts                          *)
(***************************************************************************)
LEMMA LateCommitKeeps ==
    ASSUME Inv, LateCommit
    PROVE  Keeps
<1>1. /\ UNCHANGED <<clock, received, runStart, overdue, rows, orders, refused, position, snapshot, unmarked,
                     recovering, stop, faults, audits, calls, lost, struck>> /\ cycle' = cycle
      /\ late' \subseteq late
  BY DEF LateCommit, surroundings, ledger
<1>2. PICK w \in late : IF Commits(w.event, w.decision)
                        THEN CommitDecision(w.event, w.decision) ELSE UNCHANGED memory
  BY DEF LateCommit
<1>3. w.event \in Events /\ w.decision \in DecisionType /\ w.event \in struck
  BY Known DEF Writes, Inv, WriteFits
<1>4. CASE UNCHANGED memory
  <2>1. UNCHANGED <<version, committed>>
    BY <1>4 DEF memory
  <2>2. Typed
    BY <1>1, <2>1, Known DEF Typed
  <2>3. \A f \in Events : EventStays(f)
    BY <1>1, <2>1 DEF EventStays
  <2> QED
    BY <1>1, <2>2, <2>3, StayingFits, AroundStep
<1>5. CASE Commits(w.event, w.decision) /\ CommitDecision(w.event, w.decision)
  <2>1. PICK e \in Events : e = w.event
    BY <1>3
  <2>2. /\ ~Decided(e) /\ Decided(e)' /\ version' \in Nat /\ e \in struck
        /\ committed' \in [Events -> DecisionType]
        /\ \A f \in Events \ {e} : committed'[f] = committed[f]
    BY <1>3, <1>5, <2>1, Known, DecisionMade
  <2>3. Typed
    BY <1>1, <2>2, Known DEF Typed
  <2>4. \A f \in Events \ {e} : EventStays(f)
    BY <1>1, <2>2 DEF EventStays
  <2>5. EventFits(e) /\ calls[e] \in Nat /\ lost[e] \in Nat /\ rows[e].attempts \in Nat
    BY DEF Inv, TypeOK
  <2>6. (Recorded(e)' <=> Recorded(e)) /\ ~Recorded(e)
    BY <1>1, <2>2, <2>5 DEF Recorded, EventFits, OrderFits
  <2>7. RowFits(e)'
    BY <1>1, <2>2, <2>5 DEF EventFits, RowFits
  <2>8. OrderFits(e)' /\ TellsOrder(e)'
    BY <1>1, <2>2, <2>5, <2>6 DEF EventFits, OrderFits, TellsOrder
  <2>9. CallsFit(e)'
    <3>1. Pending(e)' = Pending(e)
      BY <1>1 DEF Pending, InCall
    <3> QED
      BY <1>1, <2>2, <2>5, <3>1 DEF EventFits, CallsFit
  <2>10. CycleFits(e)'
    BY <1>1, <2>2, <2>5, <2>6 DEF EventFits, CycleFits
  <2>11. EventFits(e)' /\ EndStays(e) /\ DecisionStays(e)
    BY <1>1, <2>2, <2>7, <2>8, <2>9, <2>10 DEF EventFits, EndStays, DecisionStays
  <2>12. \A f \in Events : EventFits(f)' /\ EndStays(f) /\ DecisionStays(f)
    BY <1>1, <2>4, <2>11, StayingFits
  <2> QED
    BY <1>1, <2>3, <2>12, AroundStep
<1> QED
  BY <1>2, <1>4, <1>5

LEMMA LateRecordKeeps ==
    ASSUME Inv, LateRecord
    PROVE  Keeps
<1>1. /\ UNCHANGED <<clock, received, runStart, overdue, rows, version, committed, unmarked,
                     recovering, stop, faults, audits, calls, lost, struck>> /\ cycle' = cycle
      /\ late' \subseteq late
  BY DEF LateRecord, surroundings, memory
<1>2. PICK w \in late : /\ w.kind = "record"
                        /\ IF Recorded(w.event)
                           THEN UNCHANGED ledger ELSE RecordOrder(w.event, w.decision, w.until)
  BY DEF LateRecord
<1>3. PICK e \in Events : e = w.event /\ e \in struck /\ Decided(e)
  BY <1>2, Known DEF Writes, Inv, WriteFits
<1>4. EventFits(e) /\ calls[e] \in Nat /\ lost[e] \in Nat /\ rows[e].attempts \in Nat
  BY DEF Inv, TypeOK
<1>5. CASE UNCHANGED ledger
  <2>1. UNCHANGED <<orders, refused, position, snapshot>>
    BY <1>5 DEF ledger
  <2>2. Typed
    BY <1>1, <2>1, Known DEF Typed
  <2>3. \A f \in Events : EventStays(f)
    BY <1>1, <2>1 DEF EventStays
  <2> QED
    BY <1>1, <2>2, <2>3, StayingFits, AroundStep
<1>6. CASE RecordOrder(e, w.decision, w.until)
  <2>1. OrderRecorded(e)
    BY <1>4, <1>6, Known, RecordOrderRecords DEF EventFits
  <2>2. Typed
    BY <1>1, <2>1, Known DEF Typed, OrderRecorded, OthersOrders
  <2>3. \A f \in Events \ {e} : EventStays(f)
    BY <1>1, <2>1 DEF EventStays, OrderRecorded, OthersOrders
  <2>4. /\ Decided(e)' = Decided(e) /\ Recorded(e)' /\ ~Recorded(e) /\ orders[e] = "new"
        /\ e \in refused' => orders'[e] = "dropped"
    BY <1>1, <2>1 DEF Decided, Recorded, OrderRecorded
  <2>5. rows[e].state \notin {"completed", "shadow_recorded", "shadow_rejected"} /\ e \notin unmarked
    BY <1>4, <2>4 DEF EventFits, TellsOrder, OrderFits
  <2>6. RowFits(e)'
    BY <1>1, <1>3, <1>4 DEF EventFits, RowFits, Decided
  <2>7. OrderFits(e)' /\ TellsOrder(e)'
    BY <1>1, <1>3, <2>4, <2>5 DEF OrderFits, TellsOrder
  <2>8. CallsFit(e)'
    <3>1. Pending(e)' = Pending(e)
      BY <1>1 DEF Pending, InCall
    <3> QED
      BY <1>1, <1>4, <2>4, <3>1 DEF EventFits, CallsFit
  <2>9. CycleFits(e)'
    BY <1>1, <1>3, <1>4, <2>4 DEF EventFits, CycleFits
  <2>10. EventFits(e)' /\ EndStays(e) /\ DecisionStays(e)
    BY <1>1, <2>6, <2>7, <2>8, <2>9 DEF EventFits, EndStays, DecisionStays
  <2>11. \A f \in Events : EventFits(f)' /\ EndStays(f) /\ DecisionStays(f)
    BY <1>1, <2>3, <2>10, StayingFits
  <2> QED
    BY <1>1, <2>2, <2>11, AroundStep
<1> QED
  BY <1>2, <1>3, <1>5, <1>6

\* A restart forgets the cycle and what it awaited.
LEMMA RestartKeeps ==
    ASSUME Inv, Restart
    PROVE  Keeps
<1>1. /\ UNCHANGED <<clock, received, rows, version, committed, orders, refused, position, snapshot,
                     audits, calls, struck>>
      /\ runStart' = clock /\ stop' = FALSE /\ cycle' = Idle /\ late' = {} /\ unmarked' = {}
      /\ recovering' = {f \in Events : rows[f].state \in Incomplete}
      /\ overdue' = {f \in recovering' : ~Decided(f) /\ TooOld(f)}
      /\ faults.crashes < MaxCrashes /\ faults' = [faults EXCEPT !.crashes = faults.crashes + 1]
      /\ IF InCall THEN Lose(cycle.event) ELSE UNCHANGED lost
  BY DEF Restart, memory, ledger
<1>2. TypeOK /\ lost \in [Events -> Nat] /\ faults \in [crashes : 0..MaxCrashes, errors : 0..MaxErrors]
      /\ overdue' \in SUBSET Events /\ recovering' \in SUBSET Events
  BY <1>1, Known DEF TypeOK
<1>3. cycle' \in Cycles /\ cycle'.event = Never
  BY <1>1, IdleType
<1>4. lost' \in [Events -> Nat] /\ \A f \in Events : lost'[f] = lost[f] + Pending(f)
  <2>1. CASE ~InCall
    BY <1>1, <1>2, <2>1 DEF Pending
  <2>2. CASE InCall
    <3>1. lost' = [lost EXCEPT ![cycle.event] = lost[cycle.event] + 1]
      BY <1>1, <2>2 DEF Lose
    <3>2. \A f \in Events : lost'[f] = IF cycle.event = f THEN lost[f] + 1 ELSE lost[f]
      BY <1>2, <3>1
    <3>3. lost' \in [Events -> Nat]
      <4>1. cycle.event \in Events => lost[cycle.event] + 1 \in Nat
        BY <1>2
      <4> QED
        BY <1>2, <3>1, <4>1, Zenon
    <3>4. \A f \in Events : lost'[f] = lost[f] + Pending(f)
      <4> TAKE f \in Events
      <4>1. lost[f] + 0 = lost[f]
        BY <1>2
      <4>2. Pending(f) = IF cycle.event = f THEN 1 ELSE 0
        BY <2>2 DEF Pending
      <4> QED
        BY <3>2, <4>1, <4>2
    <3> QED
      BY <3>3, <3>4
  <2> QED
    BY <2>1, <2>2
<1>5. faults' \in [crashes : 0..MaxCrashes, errors : 0..MaxErrors]
  BY <1>1, <1>2, Bounds
<1>6. TypeOK'
  BY <1>1, <1>2, <1>3, <1>4, <1>5, Bounds DEF TypeOK, Cycles
<1>7. ASSUME NEW f \in Events PROVE EventFits(f)' /\ EndStays(f) /\ DecisionStays(f)
  <2>1. EventFits(f) /\ calls[f] \in Nat /\ lost[f] \in Nat /\ rows[f].attempts \in Nat
    BY DEF Inv, TypeOK
  <2>2. Decided(f)' = Decided(f) /\ (Recorded(f)' <=> Recorded(f))
    BY <1>1 DEF Decided, Recorded
  <2>3. RowFits(f)' /\ OrderFits(f)' /\ TellsOrder(f)'
    BY <1>1, <2>1, <2>2 DEF EventFits, RowFits, OrderFits, TellsOrder
  <2>4. CallsFit(f)'
    <3>1. Pending(f)' = 0 /\ Pending(f) \in {0, 1}
      BY <1>3, Bounds DEF Pending
    <3>2. lost'[f] = lost[f] + Pending(f) /\ MaxAttempts \in Nat
      BY <1>4, Bounds
    <3> QED
      BY <1>1, <2>1, <2>2, <3>1, <3>2 DEF EventFits, CallsFit
  <2>5. CycleFits(f)'
    BY <1>3, Bounds DEF CycleFits
  <2> QED
    BY <1>1, <2>3, <2>4, <2>5 DEF EventFits, EndStays, DecisionStays
<1> QED
  BY <1>1, <1>6, <1>7 DEF Keeps, Inv
-----------------------------------------------------------------------------
(***************************************************************************)
(* The worker                                                              *)
(***************************************************************************)
LEMMA InvInit ==
    Init => Inv
<1> SUFFICES ASSUME Init PROVE Inv
  OBVIOUS
<1>1. /\ clock = 0 /\ runStart = 0 /\ received = [e \in Events |-> Never] /\ rows = [e \in Events |-> NoRow]
      /\ version = 0 /\ committed = [e \in Events |-> NoDecision] /\ orders = [e \in Events |-> "new"]
      /\ position = 0 /\ refused = {} /\ snapshot = 0 /\ unmarked = {} /\ cycle = Idle /\ late = {}
      /\ recovering = {} /\ stop = FALSE /\ faults = [crashes |-> 0, errors |-> 0] /\ audits = 0
      /\ calls = [e \in Events |-> 0] /\ lost = [e \in Events |-> 0] /\ struck = {} /\ overdue = {}
  BY DEF Init, Life!Init
<1>2. /\ rows \in [Events -> Rows] /\ cycle \in Cycles /\ cycle.event = Never
      /\ committed \in [Events -> DecisionType] /\ orders \in [Events -> Life!States]
      /\ faults \in [crashes : 0..MaxCrashes, errors : 0..MaxErrors]
  <2>1. NoRow \in Rows
    BY Bounds DEF NoRow, Rows, States
  <2>2. faults \in [crashes : 0..MaxCrashes, errors : 0..MaxErrors]
    BY <1>1, Bounds
  <2> QED
    BY <1>1, <2>1, <2>2, IdleType DEF Life!States
<1>3. TypeOK
  <2>1. /\ clock \in 0..MaxClock /\ runStart \in 0..MaxClock /\ version \in Nat /\ position \in 0..1
        /\ snapshot \in Nat /\ audits \in Nat
    BY <1>1, Bounds
  <2>2. /\ received \in [Events -> {Never} \cup 0..MaxClock] /\ refused \in SUBSET Events
        /\ unmarked \in SUBSET Events /\ recovering \in SUBSET Events /\ stop \in BOOLEAN
        /\ struck \in SUBSET Events /\ overdue \in SUBSET Events /\ late \in SUBSET Writes
    BY <1>1
  <2>3. calls \in [Events -> Nat] /\ lost \in [Events -> Nat]
    BY <1>1
  <2> QED
    BY <1>2, <2>1, <2>2, <2>3 DEF TypeOK, Rows, States, Cycles, Writes
<1>4. ASSUME NEW e \in Events PROVE EventFits(e)
  <2>1. /\ rows[e] = NoRow /\ rows[e].state = "absent" /\ rows[e].attempts = 0 /\ rows[e].linked = FALSE
        /\ orders[e] = "new" /\ committed[e] = NoDecision /\ calls[e] = 0 /\ lost[e] = 0
    BY <1>1 DEF NoRow
  <2>2. ~Decided(e) /\ ~Recorded(e) /\ cycle.event # e
    BY <1>2, <2>1, Bounds DEF Decided, Recorded
  <2>3. RowFits(e) /\ OrderFits(e) /\ CycleFits(e)
    BY <1>1, <2>1, <2>2 DEF RowFits, OrderFits, CycleFits
  <2>4. TellsOrder(e)
    BY <2>1, <2>2 DEF TellsOrder
  <2>5. Pending(e) = 0
    BY <2>2 DEF Pending
  <2>6. CallsFit(e)
    BY <2>1, <2>5, Bounds DEF CallsFit
  <2> QED
    BY <2>3, <2>4, <2>6 DEF EventFits
<1> QED
  BY <1>1, <1>3, <1>4 DEF Inv

LEMMA InvNext ==
    Inv /\ [Next]_vars => Keeps
<1> SUFFICES ASSUME Inv, [Next]_vars PROVE Keeps
  OBVIOUS
<1>1. ASSUME NEW e \in Events, Take(e) PROVE Keeps
  BY <1>1, TakeKeeps
<1>2. ASSUME NEW e \in Events, CycleStep(e) PROVE Keeps
  BY <1>2, CycleStepKeeps
<1>3. ASSUME NEW e \in Events, RecoverNext(e) PROVE Keeps
  BY <1>3, RecoverNextKeeps
<1>4. CASE Tick \/ (\E e \in Events : Capture(e)) \/ EndOrder \/ ProtectiveExit
  BY <1>4, UntoldKeeps
<1>5. ASSUME NEW e \in Events, FillOrder(e) PROVE Keeps
  BY <1>5, FillOrderKeeps
<1>6. ASSUME NEW e \in Events, MarkFill(e) PROVE Keeps
  BY <1>6, MarkFillKeeps
<1>7. CASE RequestStop
  BY <1>7, RequestStopKeeps
<1>8. CASE LateCommit
  BY <1>8, LateCommitKeeps
<1>9. CASE LateRecord
  BY <1>9, LateRecordKeeps
<1>10. CASE Restart
  BY <1>10, RestartKeeps
<1>12. CASE RecoveryErrs
  BY <1>12, RecoveryErrsKeeps
<1>11. CASE UNCHANGED vars
  <2>1. /\ UNCHANGED <<clock, received, runStart, overdue, rows, version, committed, orders, refused, position,
                       snapshot, unmarked, late, recovering, stop, faults, audits, calls, lost, struck>>
        /\ cycle' = cycle
    BY <1>11 DEF vars, memory, ledger, history
  <2>2. Typed
    BY <2>1, Known DEF Typed
  <2>3. \A f \in Events : EventStays(f)
    BY <2>1 DEF EventStays
  <2> QED
    BY <2>1, <2>2, <2>3, StayingFits, AroundStep
<1> QED
  BY <1>1, <1>2, <1>3, <1>4, <1>5, <1>6, <1>7, <1>8, <1>9, <1>10, <1>11, <1>12 DEF Next

LEMMA InvAlways ==
    Spec => []Inv
<1>1. Inv /\ [Next]_vars => Inv'
  BY InvNext DEF Keeps
<1> QED
  BY InvInit, <1>1, PTL DEF Spec

\* RowsAreSound: rows, cycles and writes keep their shape, and what a row says of its order
\* agrees with the ledger, whatever was interrupted, restarted, cancelled or written late
\* (upsert_event_state, recover_incomplete, record; runtime.py).
THEOREM RowsStaySound ==
    Spec => []RowsAreSound
<1>1. Inv => RowsAreSound
  BY DEF Inv, EventFits, TellsOrder, RowsAreSound, RowTellsOrder
<1> QED
  BY InvAlways, <1>1, PTL

-----------------------------------------------------------------------------
(***************************************************************************)
(* The day's budget.  Every call is audited, or was in flight when its     *)
(* cycle was stopped, and then no cycle begins before the next restart, or *)
(* lost its audit to an exception.                                         *)
(***************************************************************************)
Total == SumFunctionOnSet(calls, Events)
Credit == IF cycle.pc = "answer" \/ (cycle.pc = "idle" /\ stop) THEN 1 ELSE 0
Faulted == faults.crashes + faults.errors
Paid == audits + Faulted + Credit

BudgetFits ==
    /\ Total <= DailyCalls + Faulted
    /\ Total <= Paid

\* A step that asks nothing and keeps what the calls made are covered by.
Covers ==
    /\ calls' = calls
    /\ Faulted' \in Nat /\ Faulted' >= Faulted
    /\ Paid' \in Int /\ Paid' >= Paid

LEMMA BudgetTypes ==
    ASSUME TypeOK
    PROVE  /\ audits \in Nat /\ Faulted \in Nat /\ DailyCalls \in Nat
           /\ calls \in [Events -> Nat] /\ Total \in Int
           /\ Credit \in 0..1 /\ Paid \in Int
<1>1. IsFiniteSet(Events) /\ calls \in [Events -> Nat]
  BY RuntimeAssumption DEF TypeOK
<1>2. Total \in Int
  <2>1. \A x \in Events : calls[x] \in Int
    BY <1>1
  <2> QED
    BY <1>1, <2>1, SumTakesFirst DEF Total
<1>3. Faulted \in Nat
  <2>1. faults.crashes \in Nat /\ faults.errors \in Nat
    BY Bounds DEF TypeOK
  <2> QED
    BY <2>1 DEF Faulted
<1>4. Credit \in 0..1
  BY DEF Credit
<1>5. audits \in Nat /\ DailyCalls \in Nat
  BY RuntimeAssumption DEF TypeOK
<1>6. Paid \in Int
  BY <1>3, <1>4, <1>5 DEF Paid
<1> QED
  BY <1>1, <1>2, <1>3, <1>4, <1>5, <1>6

\* An exception counts for a call.
LEMMA ErrsCount ==
    ASSUME TypeOK
    PROVE  /\ Errs => Faulted' = Faulted + 1
           /\ UNCHANGED faults => Faulted' = Faulted
<1>1. faults \in [crashes : 0..MaxCrashes, errors : 0..MaxErrors] /\ faults.crashes \in Nat /\ faults.errors \in Nat
  BY Bounds DEF TypeOK
<1>2. ASSUME Errs PROVE Faulted' = Faulted + 1
  <2>1. faults'.crashes = faults.crashes /\ faults'.errors = faults.errors + 1
    BY <1>1, <1>2 DEF Errs
  <2> QED
    BY <1>1, <2>1 DEF Faulted
<1> QED
  BY <1>2 DEF Faulted

\* What covers a step: nothing is used up, or an audit or an exception pays.
LEMMA CoversBy ==
    ASSUME TypeOK, calls' = calls,
           \/ /\ audits' = audits /\ UNCHANGED faults
              /\ Credit' >= Credit
           \/ audits' = audits + 1 /\ (Errs \/ UNCHANGED faults)
           \/ audits' = audits /\ (Errs \/ Faulted' = Faulted + 1)
    PROVE  Covers
<1>1. /\ audits \in Nat /\ Faulted \in Nat /\ Credit \in 0..1 /\ Credit' \in 0..1
      /\ Errs => Faulted' = Faulted + 1
      /\ UNCHANGED faults => Faulted' = Faulted
  BY BudgetTypes, ErrsCount DEF Credit
<1> HIDE DEF Faulted, Credit
<1>2. Faulted' \in {Faulted, Faulted + 1} /\ audits' \in {audits, audits + 1}
  BY <1>1
<1>3. Faulted' \in Nat /\ Faulted' >= Faulted /\ Paid' \in Int
  BY <1>1, <1>2 DEF Paid
<1>4. Paid' >= Paid
  BY <1>1 DEF Paid
<1> QED
  BY <1>3, <1>4 DEF Covers

LEMMA AskCosts ==
    ASSUME TypeOK, BudgetFits, NEW e \in Events, ContextAsks(e), UNCHANGED surroundings
    PROVE  BudgetFits'
<1>1. /\ audits \in Nat /\ Faulted \in Nat /\ DailyCalls \in Nat
      /\ calls \in [Events -> Nat] /\ Total \in Int
  BY BudgetTypes
<1>2. /\ cycle.pc = "context" /\ audits < DailyCalls
      /\ audits' = audits /\ faults' = faults
      /\ calls' = [calls EXCEPT ![e] = calls[e] + 1]
  BY <1>1 DEF ContextAsks, BudgetSpent
<1>3. cycle'.pc = "answer" /\ Faulted' = Faulted
  BY <1>2, ErrsCount DEF ContextAsks, TypeOK
<1>4. Total' = Total + 1
  <2>1. calls'[e] = calls[e] + 1 /\ calls[e] \in Nat
        /\ \A x \in Events \ {e} : calls'[x] = calls[x]
    BY <1>1, <1>2
  <2>2. IsFiniteSet(Events) /\ \A x \in Events : calls[x] \in Int
    BY <1>1, RuntimeAssumption
  <2>3. SumFunctionOnSet(calls', Events)
          = SumFunctionOnSet(calls, Events) + (calls'[e] - calls[e])
    BY <2>1, <2>2, SumGrows
  <2> QED
    BY <1>1, <2>1, <2>3 DEF Total
<1>5. Credit = 0 /\ Credit' = 1
  BY <1>2, <1>3 DEF Credit
<1> HIDE DEF Total, Credit, Faulted
<1> QED
  BY <1>1, <1>2, <1>3, <1>4, <1>5 DEF BudgetFits, Paid

LEMMA CycleCovers ==
    ASSUME TypeOK, NEW e \in Events, CycleStep(e), ~ContextAsks(e)
    PROVE  Covers
<1>1. audits \in Nat /\ Credit \in 0..1 /\ Credit' \in 0..1
  BY BudgetTypes DEF Credit
<1>2. stop' = stop /\ cycle \in Cycles
  BY DEF CycleStep, surroundings, TypeOK, Cycles
<1>3. ASSUME calls' = calls, audits' = audits, cycle.pc \notin {"answer", "idle"}, Errs \/ UNCHANGED faults
      PROVE  Covers
  <2>1. Credit = 0 /\ Credit' >= 0
    BY <1>1, <1>3 DEF Credit
  <2> HIDE DEF Credit
  <2> QED
    BY <1>3, <2>1, CoversBy
<1>4. CASE LookFinds(e) \/ LookReceives(e) \/ LookRefuses(e) \/ LookExpires(e) \/ LookAccepts(e)
  BY <1>3, <1>4 DEF LookFinds, LookReceives, LookRefuses, LookExpires, LookAccepts, Concludes
<1>5. CASE ContextOverBudget(e) \/ ContextLacksQuote(e)
  BY <1>3, <1>5 DEF ContextOverBudget, ContextLacksQuote, Concludes
<1>6. CASE AnswerFails(e) \/ AnswerMisfits(e) \/ AnswerDecides(e) \/ Timeout(e)
  <2>1. /\ calls' = calls
        /\ \/ audits' = audits + 1 /\ (Errs \/ UNCHANGED faults)
           \/ audits' = audits /\ Errs
    BY <1>6 DEF AnswerFails, AnswerMisfits, AnswerDecides, Timeout, AuditFailure, Concludes
  <2> QED
    BY <2>1, CoversBy
<1>7. CASE CommitLands(e) \/ CommitConflicts(e) \/ AfterCommit(e)
  BY <1>3, <1>7 DEF CommitLands, CommitConflicts, AfterCommit
<1>8. CASE RecoverReceipt(e) \/ RecoverDecision(e) \/ LacksTarget(e) \/ Refresh(e)
  BY <1>3, <1>8 DEF RecoverReceipt, RecoverDecision, LacksTarget, Refresh, Concludes
<1>9. CASE PostStopped(e) \/ PostRejects(e) \/ AssessRefuses(e) \/ AssessApproves(e)
  BY <1>3, <1>9 DEF PostStopped, PostRejects, AssessRefuses, AssessApproves, Concludes
<1>10. CASE RecordLands(e) \/ RecordConflicts(e) \/ AfterRecord(e)
  BY <1>3, <1>10 DEF RecordLands, RecordConflicts, AfterRecord, Concludes
<1>11. CASE CycleErrs(e)
  BY <1>11, CoversBy DEF CycleErrs
<1>12. CASE GiveUp(e)
  <2>1. calls' = calls /\ audits' = audits /\ (Errs \/ (stop /\ UNCHANGED faults))
    BY <1>12 DEF GiveUp
  <2>2. CASE stop /\ UNCHANGED faults
    <3>1. Credit' = 1
      BY <1>2, <1>12, <2>2 DEF GiveUp, Abandon, EndCycle, Idle, Credit
    <3>2. Credit' >= Credit
      BY <1>1, <3>1
    <3> QED
      BY <2>1, <2>2, <3>2, CoversBy
  <2> QED
    BY <2>1, <2>2, CoversBy
<1> QED
  BY <1>4, <1>5, <1>6, <1>7, <1>8, <1>9, <1>10, <1>11, <1>12 DEF CycleStep

LEMMA RestartCovers ==
    ASSUME TypeOK, Restart
    PROVE  Covers
<1>1. calls' = calls /\ audits' = audits
  BY DEF Restart
<1>2. Faulted' = Faulted + 1
  <2>1. faults'.crashes = faults.crashes + 1 /\ faults'.errors = faults.errors
    BY DEF Restart, TypeOK
  <2>2. faults.crashes \in Nat /\ faults.errors \in Nat
    BY Bounds DEF TypeOK
  <2> QED
    BY <2>1, <2>2 DEF Faulted
<1> QED
  BY <1>1, <1>2, CoversBy

\* What covers the calls made keeps them within the budget.
LEMMA CoveredFits ==
    ASSUME TypeOK, BudgetFits, Covers
    PROVE  BudgetFits'
<1>1. Faulted \in Nat /\ DailyCalls \in Nat /\ Total \in Int /\ Paid \in Int
  BY BudgetTypes
<1>2. Total' = Total
  BY DEF Covers, Total
<1> HIDE DEF Total, Paid, Faulted
<1>3. Total <= DailyCalls + Faulted /\ Total <= Paid
  BY DEF BudgetFits
<1>4. Faulted' \in Nat /\ Faulted' >= Faulted /\ Paid' \in Int /\ Paid' >= Paid
  BY DEF Covers
<1>5. Total <= Paid'
  BY <1>1, <1>3, <1>4
<1>6. Total <= DailyCalls + Faulted'
  <2>1. PICK n \in Nat : n = Faulted'
    BY <1>4
  <2>2. n >= Faulted
    BY <1>4, <2>1
  <2>3. Total <= DailyCalls + n
    BY <1>1, <1>3, <2>2
  <2> QED
    BY <2>1, <2>3
<1> QED
  BY <1>2, <1>5, <1>6 DEF BudgetFits

LEMMA AroundCovers ==
    ASSUME TypeOK, [Next]_vars, \A e \in Events : ~CycleStep(e)
    PROVE  Covers
<1>1. audits \in Nat /\ Faulted \in Nat /\ Credit \in 0..1 /\ Credit' \in 0..1
  BY BudgetTypes DEF Credit
<1>2. CASE \E e \in Events : Take(e) \/ RecoverNext(e)
  <2>1. /\ calls' = calls /\ audits' = audits
        /\ ~stop /\ cycle = Idle /\ (Errs \/ UNCHANGED faults)
    BY <1>2 DEF Take, Start, FilterOut, RecoverNext, RecoverEnds, RecoverStarts, Scanning,
       Recovering
  <2>2. Credit = 0
    BY <2>1 DEF Credit, Idle
  <2>3. Credit' >= Credit
    BY <1>1, <2>2
  <2> QED
    BY <2>1, <2>3, CoversBy
<1>3. CASE \/ Tick \/ EndOrder \/ ProtectiveExit \/ LateCommit \/ LateRecord \/ UNCHANGED vars
           \/ \E e \in Events : Capture(e) \/ FillOrder(e) \/ MarkFill(e)
  <2>1. /\ calls' = calls /\ faults' = faults /\ audits' = audits /\ stop' = stop
        /\ cycle' = cycle
    BY <1>3 DEF Tick, EndOrder, ProtectiveExit, LateCommit, LateRecord, Capture, FillOrder,
       MarkFill, worker, history, surroundings, vars
  <2>2. Credit' = Credit
    BY <2>1 DEF Credit
  <2>3. Credit' >= Credit
    BY <1>1, <2>2
  <2> QED
    BY <2>1, <2>3, CoversBy
<1>4. CASE RequestStop
  <2>1. /\ calls' = calls /\ faults' = faults /\ audits' = audits /\ stop'
        /\ cycle' = cycle
    BY <1>4 DEF RequestStop, worker, history
  <2>2. Credit' >= Credit
    BY <2>1 DEF Credit
  <2> QED
    BY <2>1, <2>2, CoversBy
<1>5. CASE Restart
  BY <1>5, RestartCovers
<1>6. CASE RecoveryErrs
  BY <1>6, CoversBy DEF RecoveryErrs
<1> QED
  BY <1>2, <1>3, <1>4, <1>5, <1>6 DEF Next

LEMMA BudgetNext ==
    ASSUME TypeOK, BudgetFits, [Next]_vars
    PROVE  BudgetFits'
<1>1. CASE \E e \in Events : CycleStep(e) /\ ContextAsks(e)
  BY <1>1, AskCosts DEF CycleStep
<1>2. CASE ~ \E e \in Events : CycleStep(e) /\ ContextAsks(e)
  <2>1. Covers
    BY <1>2, CycleCovers, AroundCovers
  <2> QED
    BY <2>1, CoveredFits
<1> QED
  BY <1>1, <1>2

LEMMA BudgetInit ==
    ASSUME Init PROVE BudgetFits
<1>1. IsFiniteSet(Events) /\ \A x \in Events : calls[x] = 0
  BY RuntimeAssumption DEF Init
<1>2. Total = 0
  BY <1>1, SumOfZeros DEF Total
<1>3. Faulted = 0 /\ audits = 0 /\ DailyCalls \in Nat /\ Credit \in 0..1
  BY RuntimeAssumption DEF Init, Credit, Faulted
<1> HIDE DEF Total, Credit, Faulted
<1> QED
  BY <1>2, <1>3 DEF BudgetFits, Paid

\* CallsAreBounded: the model is asked no more often than the day's budget and an event's
\* attempts allow, but for the calls that a crash, a stop, a failed commit or an exception
\* after the reply kept off the record (_run_cycle_locked asks count_llm_calls_since before
\* each call and appends the audit of its answer after it; runtime.py).
THEOREM CallsStayBounded ==
    Spec => []CallsAreBounded
<1>1. Inv => RetriesAreBounded
  BY DEF Inv, EventFits, CallsFit, RetriesAreBounded
<1>2. Inv /\ BudgetFits => BudgetHolds
  <2> SUFFICES ASSUME Inv, BudgetFits PROVE BudgetHolds
    OBVIOUS
  <2>1. DOMAIN calls = Events
    BY DEF Inv, TypeOK
  <2>2. FoldFunction(+, 0, calls) = Total
    BY <2>1 DEF FoldFunction, Total, SumFunctionOnSet
  <2>3. DailyCalls \in Nat /\ faults.crashes \in Nat /\ faults.errors \in Nat
    BY RuntimeAssumption, Bounds DEF Inv, TypeOK
  <2>4. Total \in Int /\ Total <= DailyCalls + (faults.crashes + faults.errors)
    BY BudgetTypes DEF Inv, BudgetFits, Faulted
  <2>5. Total <= DailyCalls + faults.crashes + faults.errors
    BY <2>3, <2>4
  <2> QED
    BY <2>2, <2>5 DEF BudgetHolds
<1>3. Inv /\ BudgetFits /\ [Next]_vars => BudgetFits'
  BY BudgetNext DEF Inv
<1>4. Inv /\ BudgetFits => CallsAreBounded
  BY <1>1, <1>2 DEF CallsAreBounded
<1> QED
  BY InvAlways, BudgetInit, <1>3, <1>4, PTL DEF Spec

\* HistoryIsFinal: an event's end is taken back by no step, but that a recorded order turns out
\* filled or cancelled; a decision is never replaced, nor the model paid for its event again,
\* unless its commit landed behind the back of a cycle that had been given up.
THEOREM HistoryStaysFinal ==
    Spec => HistoryIsFinal
<1> DEFINE Ends == \A e \in Events : rows[e].state \in Terminal =>
             \/ rows'[e].state = rows[e].state
             \/ /\ rows[e].state = "shadow_recorded"
                /\ rows'[e].state \in {"completed", "shadow_rejected"}
           Decisions == \A e \in Events : Decided(e) =>
             /\ committed'[e] = committed[e]
             /\ e \notin struck => calls'[e] = calls[e]
<1>1. Inv /\ [Next]_vars => Ends /\ Decisions
  BY InvNext DEF Keeps, EndStays, DecisionStays
<1> HIDE DEF Ends, Decisions
<1>2. Spec => [][Ends]_vars /\ [][Decisions]_vars
  BY InvAlways, <1>1, PTL DEF Spec
<1> QED
  BY <1>2 DEF HistoryIsFinal, TerminalIsFinal, DecisionIsFinal, Ends, Decisions
=============================================================================
