-------------------------- MODULE SqlStoresProofs ---------------------------
(***************************************************************************)
(* Proofs about the SQL repositories, for any number of sessions, rows,    *)
(* keys, attempts and revisions.                                           *)
(***************************************************************************)
EXTENDS SqlStores, FiniteSetTheorems, TLAPS

Names == {"position", "snapshot", "intent", "state", "scan", "run", "attempt"}

Shape ==
  /\ topic \in Topics
  /\ DOMAIN call = Sessions /\ DOMAIN own = Sessions /\ DOMAIN edit = Sessions
  /\ DOMAIN held = Sessions /\ DOMAIN told = Sessions /\ DOMAIN moved = Sessions

Tabled == \A r \in AllRows : r.table \in topic

(* No two rows, committed or not, share a unique key. *)
Unique == \A a, b \in AllRows : Clash(a, b) => a = b

(* Each answer of an open transaction is a row its session sees. *)
Told ==
  \A s \in Sessions : told[s] # None =>
    told[s].row \in Visible(s) /\ SameEvidence(told[s].row, told[s].asked)
-----------------------------------------------------------------------------
(* Calls between two statements: what is still true of the first.          *)

(* An attempt to insert was appendable, or its number is taken by now. *)
Pending(s, a) ==
  MayAppend(Attempts(s), a) \/ \E r \in Attempts(s) : r.key = a.key

(* A transition to write starts from the record seen, or from an older one. *)
Planned(s, row) ==
  /\ row \in StateRecords /\ held[s] \in StateRecords
  /\ row.revision = held[s].revision + 1 /\ row.revision <= MaxRevision
  /\ held[s].revision <= Seen(s).revision
  /\ held[s].revision = Seen(s).revision => held[s] = Seen(s)

GoodCall(s, c) ==
  /\ c.step \in {"idle", "status", "insert", "attach", "update"}
  /\ c.step \in {"status", "insert"} => c.row.table \in topic
  /\ c.step = "status" => c.row.table # "attempt"
  /\ (c.step = "insert" /\ c.row.table = "attempt") => Pending(s, c.row)
  /\ c.step = "attach" => "scan" \in topic /\ c.row.scan # None
  /\ c.step = "update" => "state" \in topic /\ Planned(s, c.row)

Calls == \A s \in Sessions : GoodCall(s, call[s])
-----------------------------------------------------------------------------
AttemptsIn(S) == {r \in S : r.table = "attempt"}

(* Attempts numbered from 1, each allowed by those before it. *)
ChainOf(S) ==
  /\ IsFiniteSet(S)
  /\ {a.key : a \in S} = 1 .. Cardinality(S)
  /\ \A a, b \in S : b.key = a.key + 1 =>
       IF \E g \in Succeeded(S) : g.key <= a.key
       THEN b.content.final # None \/ b.content.duplicate # None
       ELSE b.content.recovers = a.id

(* Whatever a session sees is a chain, and only one session can be ahead   *)
(* of the committed attempts.                                              *)
Appending ==
  /\ ChainOf(AttemptsIn(rows))
  /\ \A s \in Sessions : ChainOf(Attempts(s)) /\ AttemptsIn(own[s]) \cap rows = {}
  /\ \A s, t \in Sessions : AttemptsIn(own[s]) # {} /\ AttemptsIn(own[t]) # {} => s = t
-----------------------------------------------------------------------------
(* Transitions H one after the other from revision 0 to the record "last". *)
LinkedTo(H, last) ==
  /\ IsFiniteSet(H) /\ last \in StateRecords /\ last.revision = Cardinality(H)
  /\ \A h \in H :
       /\ h.from.revision \in Nat /\ h.to.revision = h.from.revision + 1
       /\ h.from.revision < last.revision
       /\ h.from.revision > 0 => \E g \in H : g.to = h.from
       /\ \A g \in H : g.from.revision = h.from.revision => g = h
  /\ last.revision > 0 => \E h \in H : h.to = last

(* One session at a time is ahead of the committed record. *)
Ahead(s) ==
  IF edit[s] = None THEN moved[s] = {}
  ELSE /\ LinkedTo(history \cup moved[s], edit[s])
       /\ cell.revision < edit[s].revision /\ edit[s].revision <= MaxRevision

Transitions ==
  IF "state" \in topic
  THEN /\ LinkedTo(history, cell) /\ cell.revision <= MaxRevision
       /\ \A s \in Sessions : Ahead(s)
       /\ \A s, t \in Sessions : edit[s] # None /\ edit[t] # None => s = t
  ELSE history = {} /\ \A s \in Sessions : moved[s] = {}
-----------------------------------------------------------------------------
(* A final run and the SUCCEEDED attempt that names it. *)
EvidenceIn(S) ==
  \E run, a \in S :
    /\ run.table = "run" /\ run.scan # None
    /\ a.table = "attempt" /\ a.content.status = "SUCCEEDED"
    /\ a.content.final = run.id /\ a.scan = run.scan

Completes(c, S) ==
  /\ c.status = "COMPLETED" <=> c.completed_at # None
  /\ c.status = "COMPLETED" => EvidenceIn(S)

Completed ==
  "scan" \in topic =>
    /\ Completes(cell, rows)
    /\ \A s \in Sessions : edit[s] # None => Completes(edit[s], Visible(s))

IInv ==
  /\ Shape /\ Tabled /\ Unique /\ Told /\ Calls
  /\ Appending /\ Transitions /\ Completed
-----------------------------------------------------------------------------
(* Topics hold tables of the schema; states and scans never meet in one.   *)
LEMMA TopicTables ==
  ASSUME NEW t \in Topics
  PROVE  t \subseteq Names /\ ~("scan" \in t /\ "state" \in t)
BY DEF Topics, Names

(* A request names the table it is for; attempts and runs carry no NULL    *)
(* where the schema forbids it.                                            *)
LEMMA RequestTable ==
  ASSUME NEW s \in Sessions, NEW table \in Names, NEW row \in Requests(s, table)
  PROVE  row.table = table
<1>1. CASE table = "position"
  BY <1>1 DEF Requests, Row
<1>2. CASE table \in {"snapshot", "intent"}
  BY <1>2 DEF Requests, Row
<1>3. CASE table = "state"
  BY <1>3 DEF Requests, Row
<1>4. CASE table = "scan"
  BY <1>4 DEF Requests, Row
<1>5. CASE table = "run"
  BY <1>5 DEF Requests, Row
<1>6. CASE table = "attempt"
  BY <1>6 DEF Requests, Row
<1> QED
  BY <1>1, <1>2, <1>3, <1>4, <1>5, <1>6 DEF Names

(* Two columns at most are looked up. *)
LEMMA LookupColumns ==
  ASSUME NEW table \in Names
  PROVE  DOMAIN Tables[table].lookups \subseteq {1, 2}
BY DEF Names, Tables, PositionTable, SnapshotTable, IntentTable, StateTable, ScanTable,
       RunTable, AttemptTable

(* The first of some lookup columns is one of them. *)
LEMMA MinIsMember ==
  ASSUME NEW S \in SUBSET {1, 2}, S # {}
  PROVE  Min(S) \in S
<1>1. \E x \in S : \A y \in S : x <= y
  <2>1. CASE 1 \in S
    BY <2>1
  <2>2. CASE 1 \notin S
    <3>1. S = {2}
      BY <2>2
    <3> QED
      BY <3>1
  <2> QED
    BY <2>1, <2>2
<1> QED
  BY <1>1 DEF Min

(* What a lookup finds is a row the session sees. *)
LEMMA FoundIsVisible ==
  ASSUME NEW s \in Sessions, NEW row, row.table \in Names, Found(s, row) # None
  PROVE  Found(s, row) \in Visible(s)
<1> DEFINE lookups == Tables[row.table].lookups
           by(field) == {r \in Visible(s) : ClashOn(field, r, row)}
           hits == {i \in DOMAIN lookups : by(lookups[i]) # {}}
<1>1. hits # {} /\ Found(s, row) = CHOOSE r \in by(lookups[Min(hits)]) : TRUE
  BY DEF Found
<1>2. hits \in SUBSET {1, 2}
  BY LookupColumns
<1> HIDE DEF hits
<1>3. Min(hits) \in hits
  BY <1>1, <1>2, MinIsMember
<1>4. by(lookups[Min(hits)]) # {}
  BY <1>3 DEF hits
<1> QED
  BY <1>1, <1>4
-----------------------------------------------------------------------------
(* An appended attempt carries the next number. *)
LEMMA NextNumber ==
  ASSUME NEW S, ChainOf(S), NEW a, MayAppend(S, a)
  PROVE  a.key = Cardinality(S) + 1
<1>1. Cardinality(S) \in Nat /\ (S = {} <=> Cardinality(S) = 0)
  BY FS_CardinalityType, FS_EmptySet DEF ChainOf
<1>2. CASE S = {}
  BY <1>1, <1>2 DEF MayAppend
<1>3. CASE S # {}
  <2> DEFINE previous == CHOOSE p \in S : \A q \in S : q.key <= p.key
  <2>1. \A q \in S : q.key \in 1 .. Cardinality(S)
    BY DEF ChainOf
  <2>2. Cardinality(S) \in {q.key : q \in S}
    BY <1>1, <1>3 DEF ChainOf
  <2>3. \E p \in S : \A q \in S : q.key <= p.key
    BY <2>1, <2>2, <1>1
  <2>4. previous \in S /\ \A q \in S : q.key <= previous.key
    BY <2>3
  <2>5. previous.key = Cardinality(S)
    BY <2>1, <2>2, <2>4, <1>1
  <2> QED
    BY <1>3, <2>5 DEF MayAppend
<1> QED
  BY <1>2, <1>3

(* A chain that has grown since has taken the number. *)
LEMMA Overtaken ==
  ASSUME NEW S, NEW T, ChainOf(S), ChainOf(T), S \subseteq T, S # T, NEW a, MayAppend(S, a)
  PROVE  \E r \in T \ S : r.key = a.key
<1>1. /\ Cardinality(S) \in Nat /\ Cardinality(T) \in Nat
      /\ Cardinality(S) <= Cardinality(T) /\ Cardinality(S) # Cardinality(T)
  BY FS_CardinalityType, FS_Subset DEF ChainOf
<1>2. a.key = Cardinality(S) + 1
  BY NextNumber
<1>3. a.key \in {r.key : r \in T} /\ a.key \notin {r.key : r \in S}
  BY <1>1, <1>2 DEF ChainOf
<1> QED
  BY <1>3

(* Appending what may be appended leaves a chain. *)
LEMMA ChainGrows ==
  ASSUME NEW S, ChainOf(S), \A p, q \in S : p.key = q.key => p = q,
         NEW a, MayAppend(S, a)
  PROVE  ChainOf(S \cup {a})
<1> DEFINE n == Cardinality(S)
           T == S \cup {a}
<1>1. n \in Nat /\ a.key = n + 1
  BY NextNumber, FS_CardinalityType DEF ChainOf
<1>2. \A q \in S : q.key \in 1 .. n
  BY DEF ChainOf
<1>3. a \notin S
  BY <1>1, <1>2
<1>4. IsFiniteSet(T) /\ Cardinality(T) = n + 1
  BY <1>3, FS_AddElement DEF ChainOf
<1>5. {q.key : q \in T} = 1 .. n + 1
  <2>1. {q.key : q \in T} = {q.key : q \in S} \cup {a.key}
    OBVIOUS
  <2>2. {q.key : q \in S} = 1 .. n
    BY DEF ChainOf
  <2> QED
    BY <1>1, <2>1, <2>2
<1>6. ASSUME NEW p \in T, NEW q \in T, q.key = p.key + 1
      PROVE  IF \E g \in Succeeded(T) : g.key <= p.key
             THEN q.content.final # None \/ q.content.duplicate # None
             ELSE q.content.recovers = p.id
  <2>1. p \in S
    BY <1>1, <1>2, <1>6
  <2>2. (\E g \in Succeeded(T) : g.key <= p.key) <=> (\E g \in Succeeded(S) : g.key <= p.key)
    BY <1>1, <1>2, <2>1 DEF Succeeded
  <2>3. CASE q \in S
    BY <2>1, <2>2, <2>3, <1>6 DEF ChainOf
  <2>4. CASE q = a
    <3>1. p.key = n
      BY <1>1, <1>2, <2>1, <2>4, <1>6
    <3> DEFINE previous == CHOOSE m \in S : \A r \in S : r.key <= m.key
    <3>2. \E m \in S : \A r \in S : r.key <= m.key
      BY <1>1, <1>2, <2>1, <3>1
    <3>3. previous \in S /\ \A r \in S : r.key <= previous.key
      BY <3>2
    <3>4. previous.key = n
      BY <1>1, <1>2, <2>1, <3>1, <3>3
    <3>5. previous = p
      BY <2>1, <3>1, <3>3, <3>4
    <3>6. IF Succeeded(S) # {}
          THEN a.content.final # None \/ (a.content.duplicate # None /\ a.content.recovers = None)
          ELSE a.content.recovers = previous.id
      BY <2>1 DEF MayAppend
    <3>7. (\E g \in Succeeded(S) : g.key <= p.key) <=> Succeeded(S) # {}
      BY <1>1, <1>2, <3>1 DEF Succeeded
    <3> HIDE DEF previous
    <3> QED
      BY <2>2, <2>4, <3>5, <3>6, <3>7
  <2> QED
    BY <2>3, <2>4
<1> QED
  BY <1>4, <1>5, <1>6 DEF ChainOf
-----------------------------------------------------------------------------
(* A step that moves one call on and writes nothing. *)
CallOnly(s, c) ==
  /\ call' = [call EXCEPT ![s] = c] /\ GoodCall(s, c)
  /\ UNCHANGED <<topic, rows, cell, own, edit, held, moved, history>>

(* What it answers, if it answers. *)
Reply(s) ==
  \/ UNCHANGED told
  \/ \E asked, row : /\ told' = [told EXCEPT ![s] = [asked |-> asked, row |-> row]]
                     /\ row \in Visible(s) /\ SameEvidence(row, asked)

(* A reply that moves nothing but its call keeps the invariant. *)
LEMMA CallOnlyStep ==
  ASSUME IInv, NEW s \in Sessions, NEW c, CallOnly(s, c), Reply(s)
  PROVE  IInv'
<1> USE DEF IInv
<1>1. UNCHANGED <<topic, rows, cell, own, edit, held, moved, history>>
  BY DEF CallOnly
<1>2. Shape' /\ call' = [call EXCEPT ![s] = c]
  BY DEF Shape, CallOnly, Reply
<1>3. Tabled' /\ Unique'
  BY <1>1 DEF Tabled, Unique, AllRows, Clash, ClashOn
<1>4. \A t \in Sessions : Visible(t)' = Visible(t) /\ Seen(t)' = Seen(t)
  BY <1>1 DEF Visible, Seen
<1>5. Told'
  BY <1>4 DEF Told, Reply, Shape, SameEvidence
<1>6. Calls'
  <2> SUFFICES ASSUME NEW t \in Sessions PROVE GoodCall(t, call[t])'
    BY DEF Calls
  <2>1. GoodCall(t, call'[t])
    BY <1>2 DEF Calls, Shape, CallOnly
  <2>2. Attempts(t)' = Attempts(t)
    BY <1>4 DEF Attempts
  <2> QED
    BY <2>1, <2>2, <1>1, <1>4 DEF GoodCall, Pending, MayAppend, Succeeded, Planned
<1>7. Appending' /\ Transitions' /\ Completed'
  BY <1>1, <1>4 DEF Appending, Attempts, Transitions, Ahead, Completed
<1> QED
  BY <1>2, <1>3, <1>5, <1>6, <1>7

(* The ways a call ends or goes on. *)
LEMMA Failing ==
  ASSUME IInv, NEW s \in Sessions, Fail(s),
         UNCHANGED <<topic, rows, cell, own, edit, held, moved, history>>
  PROVE  IInv'
<1>1. CallOnly(s, Idle) /\ Reply(s)
  BY DEF CallOnly, Fail, Idle, GoodCall, Reply
<1> QED
  BY <1>1, CallOnlyStep

(* An answer is a row that is seen and has the evidence asked for. *)
LEMMA Answering ==
  ASSUME IInv, NEW s \in Sessions, NEW asked, NEW row \in Visible(s),
         SameEvidence(row, asked), Answer(s, asked, row),
         UNCHANGED <<topic, rows, cell, own, edit, held, moved, history>>
  PROVE  IInv'
<1>1. CallOnly(s, Idle) /\ Reply(s)
  BY DEF CallOnly, Answer, Idle, GoodCall, Reply
<1> QED
  BY <1>1, CallOnlyStep

(* A call goes on with what its next statement relies on. *)
LEMMA GoingOn ==
  ASSUME IInv, NEW s \in Sessions, NEW next, NEW row, Go(s, next, row),
         GoodCall(s, [step |-> next, row |-> row]),
         UNCHANGED <<topic, rows, cell, own, edit, held, moved, history>>
  PROVE  IInv'
<1>1. CallOnly(s, [step |-> next, row |-> row]) /\ Reply(s)
  BY DEF CallOnly, Go, Reply
<1> QED
  BY <1>1, CallOnlyStep

(* A retry is answered by the stored row if the evidence agrees. *)
LEMMA Retrying ==
  ASSUME IInv, NEW s \in Sessions, NEW row, NEW stored \in Visible(s), Retry(s, stored, row),
         UNCHANGED <<topic, rows, cell, own, edit, held, moved, history>>
  PROVE  IInv'
<1>1. CASE SameEvidence(stored, row)
  BY <1>1, Answering DEF Retry
<1>2. CASE ~SameEvidence(stored, row)
  BY <1>2, Failing DEF Retry
<1> QED
  BY <1>1, <1>2

(* The lookup by key. *)
LEMMA LookupStep ==
  ASSUME IInv, NEW s \in Sessions, NEW table \in topic, NEW row \in Requests(s, table),
         Lookup(s, row)
  PROVE  IInv'
<1>1. table \in Names /\ row.table = table
  BY TopicTables, RequestTable DEF IInv, Shape
<1>2. CASE Found(s, row) # None
  BY <1>1, <1>2, FoundIsVisible, Retrying DEF Lookup
<1>3. CASE Found(s, row) = None
  <2>1. PICK next \in {"insert", "status"} : Go(s, next, row)
    BY <1>3 DEF Lookup
  <2>2. GoodCall(s, [step |-> next, row |-> row])
    BY <1>1 DEF GoodCall, Lookup
  <2> QED
    BY <2>1, <2>2, GoingOn DEF Lookup
<1> QED
  BY <1>2, <1>3

(* The check of the scan. *)
LEMMA CheckScanStep ==
  ASSUME IInv, NEW s \in Sessions, CheckScan(s)
  PROVE  IInv'
<1>1. CASE Fail(s)
  BY <1>1, Failing DEF CheckScan
<1>2. CASE Go(s, "insert", call[s].row)
  <2>1. GoodCall(s, [step |-> "insert", row |-> call[s].row])
    BY DEF IInv, Calls, GoodCall, CheckScan
  <2> QED
    BY <1>2, <2>1, GoingOn DEF CheckScan
<1> QED
  BY <1>1, <1>2 DEF CheckScan

(* The check of the attempts, which the insert will rely on. *)
LEMMA CheckAttemptStep ==
  ASSUME IInv, NEW s \in Sessions, NEW table \in topic, NEW a \in Requests(s, table),
         CheckAttempt(s, a)
  PROVE  IInv'
<1>1. a.table \in topic
  BY TopicTables, RequestTable DEF IInv, Shape
<1>2. CASE Fail(s)
  BY <1>2, Failing DEF CheckAttempt
<1>3. CASE MayAppend(Attempts(s), a) /\ Go(s, "insert", a)
  <2>1. GoodCall(s, [step |-> "insert", row |-> a])
    BY <1>1, <1>3 DEF GoodCall, Pending
  <2> QED
    BY <1>3, <2>1, GoingOn DEF CheckAttempt
<1> QED
  BY <1>2, <1>3 DEF CheckAttempt

(* The reads of attach_final_strategy_run. *)
LEMMA ReadScanStep ==
  ASSUME IInv, NEW s \in Sessions, NEW run, run.scan # None, ReadScan(s, run)
  PROVE  IInv'
<1>1. CallOnly(s, [step |-> "attach", row |-> run]) /\ Reply(s)
  BY DEF CallOnly, ReadScan, GoodCall, Reply
<1> QED
  BY <1>1, CallOnlyStep

(* The record a session sees is a record within the bound. *)
LEMMA SeenRecord ==
  ASSUME IInv, NEW s \in Sessions, "state" \in topic
  PROVE  Seen(s) \in StateRecords /\ Seen(s).revision <= MaxRevision
BY DEF IInv, Transitions, Ahead, LinkedTo, Seen

(* A replacement is planned from the record that is seen. *)
LEMMA ProposeStep ==
  ASSUME IInv, NEW s \in Sessions, NEW state \in {"IDLE", "WATCHING"}, Propose(s, state)
  PROVE  IInv'
<1> DEFINE row == [state |-> state, revision |-> held[s].revision + 1, updated_at |-> s]
<1>1. "state" \in topic /\ held[s] = Seen(s) /\ held[s].revision < MaxRevision
  BY DEF Propose
<1>2. held[s] \in StateRecords
  BY <1>1, SeenRecord
<1>3. held[s].revision \in Nat
  BY <1>2 DEF StateRecords
<1>4. row \in StateRecords
  BY <1>3 DEF StateRecords
<1>5. Planned(s, row)
  BY <1>1, <1>2, <1>3, <1>4, BoundAssumption DEF Planned
<1>6. GoodCall(s, [step |-> "update", row |-> row])
  BY <1>1, <1>5 DEF GoodCall
<1>7. CallOnly(s, [step |-> "update", row |-> row]) /\ Reply(s)
  BY <1>6 DEF CallOnly, Propose, Reply
<1> QED
  BY <1>7, CallOnlyStep

(* Reading the record, or creating it. *)
LEMMA GetStateStep ==
  ASSUME IInv, NEW s \in Sessions, GetState(s)
  PROVE  IInv'
<1> USE DEF IInv
<1>1. /\ UNCHANGED <<topic, rows, cell, call, own, edit, told, moved, history>>
      /\ held' = [held EXCEPT ![s] = Seen(s)] /\ call[s].step = "idle"
  BY DEF GetState
<1>2. Shape' /\ Tabled' /\ Unique'
  BY <1>1 DEF Shape, Tabled, Unique, AllRows, Clash, ClashOn
<1>3. \A t \in Sessions : Visible(t)' = Visible(t) /\ Seen(t)' = Seen(t)
  BY <1>1 DEF Visible, Seen
<1>4. Told'
  BY <1>1, <1>3 DEF Told, SameEvidence
<1>5. Calls'
  <2> SUFFICES ASSUME NEW t \in Sessions PROVE GoodCall(t, call[t])'
    BY DEF Calls
  <2>1. CASE t = s
    BY <1>1, <2>1 DEF GoodCall
  <2>2. CASE t # s
    <3>1. held'[t] = held[t] /\ Attempts(t)' = Attempts(t)
      BY <1>1, <1>3, <2>2 DEF Shape, Attempts
    <3> QED
      BY <1>1, <1>3, <3>1 DEF Calls, GoodCall, Pending, MayAppend, Succeeded, Planned
  <2> QED
    BY <2>1, <2>2
<1>6. Appending' /\ Transitions' /\ Completed'
  BY <1>1, <1>3 DEF Appending, Attempts, Transitions, Ahead, Completed
<1> QED
  BY <1>2, <1>4, <1>5, <1>6
-----------------------------------------------------------------------------
(* Two attempts with one number clash. *)
LEMMA NumbersClash ==
  ASSUME NEW p, NEW q, p.table = "attempt", q.table = "attempt", p.key = q.key, p.key \in Nat
  PROVE  Clash(p, q) /\ ClashOn("key", p, q)
BY NoneAssumption DEF Clash, ClashOn, Tables, AttemptTable

(* The numbers of a chain run up to its length. *)
LEMMA ChainNumbers ==
  ASSUME NEW S, ChainOf(S), NEW a \in S
  PROVE  a.key \in Nat /\ a.key <= Cardinality(S)
<1>1. Cardinality(S) \in Nat
  BY FS_CardinalityType DEF ChainOf
<1>2. a.key \in 1 .. Cardinality(S)
  BY DEF ChainOf
<1> QED
  BY <1>1, <1>2

(* The INSERT that goes through. *)
Inserted(s, row) ==
  /\ call[s].step = "insert" /\ call[s].row = row
  /\ \A t \in Sessions \ {s} : \A r \in own[t] : ~Clash(r, row)
  /\ \A f \in Tables[row.table].unique : \A r \in Visible(s) : ~ClashOn(f, r, row)
  /\ own' = [own EXCEPT ![s] = @ \cup {row}]
  /\ Answer(s, row, row)
  /\ UNCHANGED <<topic, rows, cell, edit, held, moved, history>>

(* A row that was inserted shares no unique column with another. *)
LEMMA InsertedClashesNot ==
  ASSUME IInv, NEW s \in Sessions, NEW row, Inserted(s, row), NEW r \in AllRows
  PROVE  ~Clash(r, row)
<1>1. CASE r \in Visible(s)
  BY <1>1 DEF Inserted, Clash, ClashOn
<1>2. CASE r \notin Visible(s)
  BY <1>2 DEF Inserted, AllRows, Visible
<1> QED
  BY <1>1, <1>2

(* Its own session sees it, and nobody else does yet. *)
LEMMA InsertedRows ==
  ASSUME IInv, NEW s \in Sessions, NEW row, Inserted(s, row)
  PROVE  /\ AllRows' = AllRows \cup {row}
         /\ Visible(s)' = Visible(s) \cup {row}
         /\ \A t \in Sessions \ {s} : Visible(t)' = Visible(t)
BY DEF Inserted, AllRows, Visible, IInv, Shape

(* A new attempt extends what its session sees, and no other session is    *)
(* ahead of the committed attempts: it would hold the number.              *)
LEMMA InsertedAttempt ==
  ASSUME IInv, NEW s \in Sessions, NEW row, Inserted(s, row), row.table = "attempt"
  PROVE  /\ ChainOf(Attempts(s) \cup {row}) /\ row \notin rows
         /\ \A t \in Sessions : AttemptsIn(own[t]) # {} => t = s
<1> USE DEF IInv
<1>1. ChainOf(Attempts(s)) /\ ChainOf(AttemptsIn(rows))
  BY DEF Appending
<1>2. \A r \in Attempts(s) : r.table = "attempt" /\ r \in AllRows
  BY DEF Attempts, AllRows, Visible
<1>3. \A r \in Attempts(s) : r.key # row.key
  <2> SUFFICES ASSUME NEW r \in Attempts(s), r.key = row.key PROVE FALSE
    OBVIOUS
  <2>1. Clash(r, row)
    BY <1>1, <1>2, ChainNumbers, NumbersClash
  <2> QED
    BY <2>1, <1>2, InsertedClashesNot
<1>4. MayAppend(Attempts(s), row)
  BY <1>3 DEF Calls, GoodCall, Pending, Inserted
<1>5. row.key = Cardinality(Attempts(s)) + 1
  BY <1>1, <1>4, NextNumber
<1>6. ChainOf(Attempts(s) \cup {row})
  <2>1. ASSUME NEW p \in Attempts(s), NEW q \in Attempts(s), p.key = q.key PROVE p = q
    <3>1. Clash(p, q)
      BY <1>1, <1>2, <2>1, ChainNumbers, NumbersClash
    <3> QED
      BY <1>2, <3>1 DEF Unique
  <2> QED
    BY <1>1, <1>4, <2>1, ChainGrows
<1>7. row \notin rows
  BY <1>3 DEF Attempts, Visible
<1>8. ASSUME NEW t \in Sessions, AttemptsIn(own[t]) # {}, t # s PROVE FALSE
  <2>1. AttemptsIn(own[s]) = {} /\ ChainOf(Attempts(t))
    BY <1>8 DEF Appending
  <2>2. Attempts(s) = AttemptsIn(rows)
    BY <2>1 DEF Attempts, AttemptsIn, Visible
  <2>3. Attempts(t) = AttemptsIn(rows) \cup AttemptsIn(own[t])
    BY DEF Attempts, AttemptsIn, Visible
  <2>4. Attempts(s) \subseteq Attempts(t) /\ Attempts(s) # Attempts(t)
    BY <1>8, <2>2, <2>3 DEF Appending, AttemptsIn
  <2>5. PICK r \in Attempts(t) \ Attempts(s) : r.key = row.key
    BY <1>1, <1>4, <2>1, <2>4, Overtaken
  <2>6. r \in own[t] /\ r.table = "attempt" /\ r.key \in Nat
    BY <2>1, <2>2, <2>3, <2>5, ChainNumbers DEF AttemptsIn
  <2>7. Clash(r, row)
    BY <2>5, <2>6, NumbersClash
  <2> QED
    BY <1>8, <2>6, <2>7 DEF Inserted
<1> QED
  BY <1>6, <1>7, <1>8

(* An insert that succeeds. *)
LEMMA InsertedStep ==
  ASSUME IInv, NEW s \in Sessions, NEW row, Inserted(s, row)
  PROVE  IInv'
<1> USE DEF IInv
<1>1. UNCHANGED <<topic, rows, cell, edit, held, moved, history>>
  BY DEF Inserted
<1>2. Shape' /\ own' = [own EXCEPT ![s] = own[s] \cup {row}] /\ call' = [call EXCEPT ![s] = Idle]
  BY DEF Shape, Inserted, Answer
<1>3. /\ AllRows' = AllRows \cup {row} /\ Visible(s)' = Visible(s) \cup {row}
      /\ \A t \in Sessions \ {s} : Visible(t)' = Visible(t)
  BY InsertedRows
<1>4. Tabled'
  BY <1>1, <1>3 DEF Tabled, Calls, GoodCall, Inserted
<1>5. Unique'
  <2> SUFFICES ASSUME NEW a \in AllRows \cup {row}, NEW b \in AllRows \cup {row}, Clash(a, b)
               PROVE  a = b
    BY <1>3 DEF Unique, Clash, ClashOn
  <2>1. CASE a \in AllRows /\ b \in AllRows
    BY <2>1 DEF Unique
  <2>2. CASE a \in AllRows /\ b = row
    BY <2>2, InsertedClashesNot
  <2>3. CASE a = row /\ b \in AllRows
    <3>1. Clash(b, a)
      BY DEF Clash, ClashOn
    <3> QED
      BY <2>3, <3>1, InsertedClashesNot
  <2> QED
    BY <2>1, <2>2, <2>3
<1>6. Told'
  <2> SUFFICES ASSUME NEW t \in Sessions, told'[t] # None
               PROVE  told'[t].row \in Visible(t)' /\ SameEvidence(told'[t].row, told'[t].asked)
    BY DEF Told, SameEvidence
  <2>1. CASE t = s
    <3>1. told'[s] = [asked |-> row, row |-> row]
      BY DEF Inserted, Answer, Shape
    <3> QED
      BY <1>3, <2>1, <3>1 DEF SameEvidence
  <2>2. CASE t # s
    BY <1>3, <2>2 DEF Told, Inserted, Answer, Shape
  <2> QED
    BY <2>1, <2>2
<1>7. Calls'
  <2> SUFFICES ASSUME NEW t \in Sessions PROVE GoodCall(t, call[t])'
    BY DEF Calls
  <2>1. CASE t = s
    BY <1>2, <2>1 DEF GoodCall, Idle, Shape
  <2>2. CASE t # s
    <3>1. Attempts(t)' = Attempts(t) /\ Seen(t)' = Seen(t) /\ call'[t] = call[t]
      BY <1>1, <1>2, <1>3, <2>2 DEF Attempts, Seen, Shape
    <3> QED
      BY <1>1, <3>1 DEF Calls, GoodCall, Pending, MayAppend, Succeeded, Planned
  <2> QED
    BY <2>1, <2>2
<1>8. Appending'
  <2>1. CASE row.table = "attempt"
    <3>1. Attempts(s)' = Attempts(s) \cup {row}
      BY <1>3, <2>1 DEF Attempts
    <3>2. /\ ChainOf(Attempts(s) \cup {row}) /\ row \notin rows
          /\ \A t \in Sessions : AttemptsIn(own[t]) # {} => t = s
      BY <2>1, InsertedAttempt
    <3>3. \A t \in Sessions \ {s} : Attempts(t)' = Attempts(t) /\ own'[t] = own[t]
      BY <1>2, <1>3 DEF Attempts, Shape
    <3>4. own'[s] = own[s] \cup {row}
      BY <1>2 DEF Shape
    <3>5. AttemptsIn(own[s]) \cap rows = {} => AttemptsIn(own'[s]) \cap rows = {}
      BY <3>2, <3>4 DEF AttemptsIn
    <3> QED
      BY <1>1, <3>1, <3>2, <3>3, <3>5 DEF Appending
  <2>2. CASE row.table # "attempt"
    <3>1. \A t \in Sessions : Attempts(t)' = Attempts(t) /\ AttemptsIn(own'[t]) = AttemptsIn(own[t])
      BY <1>2, <1>3, <2>2 DEF Attempts, AttemptsIn, Shape
    <3> QED
      BY <1>1, <3>1 DEF Appending
  <2> QED
    BY <2>1, <2>2
<1>9. Transitions'
  BY <1>1 DEF Transitions, Ahead
<1>10. Completed'
  <2> SUFFICES ASSUME "scan" \in topic, NEW t \in Sessions, edit[t] # None
               PROVE  Completes(edit[t], Visible(t)')
    BY <1>1 DEF Completed
  <2>1. Visible(t) \subseteq Visible(t)'
    BY <1>3
  <2>2. Completes(edit[t], Visible(t))
    BY DEF Completed
  <2> QED
    BY <2>1, <2>2 DEF Completes, EvidenceIn
<1> QED
  BY <1>2, <1>4, <1>5, <1>6, <1>7, <1>8, <1>9, <1>10

(* An insert, whatever the database says to it. *)
LEMMA InsertStep ==
  ASSUME IInv, NEW s \in Sessions, Insert(s)
  PROVE  IInv'
<1> DEFINE row == call[s].row
           broken == {f \in Tables[row.table].unique : \E r \in Visible(s) : ClashOn(f, r, row)}
<1>1. row.table \in Names
  BY TopicTables DEF IInv, Shape, Calls, GoodCall, Insert
<1>2. CASE broken = {}
  <2>1. Inserted(s, row)
    BY <1>2 DEF Inserted, Insert
  <2> QED
    BY <2>1, InsertedStep
<1>3. CASE broken # {}
  <2>1. UNCHANGED <<topic, rows, cell, own, edit, held, moved, history>>
    BY <1>3 DEF Insert
  <2>2. PICK f \in broken : OnClash(s, f)
    BY <1>3 DEF Insert
  <2>3. CASE Found(s, row) # None /\ Retry(s, Found(s, row), row)
    BY <1>1, <2>1, <2>3, FoundIsVisible, Retrying
  <2>4. CASE Fail(s)
    BY <2>1, <2>4, Failing
  <2> QED
    BY <2>2, <2>3, <2>4 DEF OnClash
<1> QED
  BY <1>2, <1>3
-----------------------------------------------------------------------------
(* The completion that is written. *)
LEMMA AttachStep ==
  ASSUME IInv, NEW s \in Sessions, Attach(s)
  PROVE  IInv'
<1> USE DEF IInv
<1> DEFINE run == call[s].row
<1>1. CASE ~(RunStored(s, run.id, run.scan) /\ FinalSuccess(s, run))
  BY <1>1, Failing DEF Attach
<1>2. CASE RunStored(s, run.id, run.scan) /\ FinalSuccess(s, run)
  <2>1. /\ edit' = [edit EXCEPT ![s] = Completion(s)]
        /\ call' = [call EXCEPT ![s] = Idle]
        /\ UNCHANGED <<topic, rows, cell, own, held, told, moved, history>>
    BY <1>2 DEF Attach, Fail
  <2>2. "scan" \in topic /\ "state" \notin topic /\ run.scan # None
    BY TopicTables DEF Calls, GoodCall, Attach, Shape
  <2>3. EvidenceIn(Visible(s))
    <3>1. PICK stored \in Visible(s) :
            stored.table = "run" /\ stored.id = run.id /\ stored.scan = run.scan
      BY <1>2 DEF RunStored
    <3>2. PICK a \in Visible(s) :
            /\ a.table = "attempt" /\ a.content.status = "SUCCEEDED"
            /\ a.scan = run.scan /\ a.content.final = run.id
      BY <1>2 DEF FinalSuccess, Succeeded, Attempts
    <3> QED
      BY <2>2, <3>1, <3>2 DEF EvidenceIn
  <2>4. Completes(Completion(s), Visible(s))
    BY <2>3, NoneAssumption DEF Completes, Completion
  <2>5. \A t \in Sessions : Visible(t)' = Visible(t) /\ Attempts(t)' = Attempts(t)
    BY <2>1 DEF Visible, Attempts
  <2>6. Shape' /\ Tabled' /\ Unique' /\ Told'
    BY <2>1, <2>5 DEF Shape, Tabled, Unique, Told, AllRows, Clash, ClashOn, SameEvidence
  <2>7. Calls'
    <3> SUFFICES ASSUME NEW t \in Sessions PROVE GoodCall(t, call[t])'
      BY DEF Calls
    <3>1. CASE t = s
      BY <2>1, <3>1 DEF GoodCall, Idle, Shape
    <3>2. CASE t # s
      <4>1. call'[t] = call[t] /\ call[t].step # "update"
        BY <2>1, <2>2, <3>2 DEF Shape, Calls, GoodCall
      <4> QED
        BY <2>1, <2>5, <4>1 DEF Calls, GoodCall, Pending, MayAppend, Succeeded
    <3> QED
      BY <3>1, <3>2
  <2>8. Appending' /\ Transitions'
    BY <2>1, <2>2, <2>5 DEF Appending, Transitions
  <2>9. Completed'
    BY <2>1, <2>4, <2>5 DEF Completed, Shape, Completes, EvidenceIn
  <2> QED
    BY <2>6, <2>7, <2>8, <2>9
<1> QED
  BY <1>1, <1>2
-----------------------------------------------------------------------------
(* A transition linked to the end of its predecessors. *)
LEMMA LinkGrows ==
  ASSUME NEW H, NEW last, LinkedTo(H, last), NEW row \in StateRecords,
         row.revision = last.revision + 1
  PROVE  LinkedTo(H \cup {[from |-> last, to |-> row]}, row)
<1> DEFINE h == [from |-> last, to |-> row]
           G == H \cup {h}
<1>1. last \in StateRecords /\ last.revision \in Nat /\ row.revision \in Nat
  BY DEF LinkedTo, StateRecords
<1>2. h.from = last /\ h.to = row
  OBVIOUS
<1>3. h \notin H
  BY <1>1, <1>2 DEF LinkedTo
<1>4. IsFiniteSet(G) /\ Cardinality(G) = Cardinality(H) + 1
  BY <1>3, FS_AddElement DEF LinkedTo
<1>5. ASSUME NEW g \in G
      PROVE  /\ g.from.revision \in Nat /\ g.to.revision = g.from.revision + 1
             /\ g.from.revision < row.revision
             /\ g.from.revision > 0 => \E f \in G : f.to = g.from
             /\ \A f \in G : f.from.revision = g.from.revision => f = g
  <2> HIDE DEF h
  <2>1. CASE g = h
    BY <1>1, <1>2, <2>1 DEF LinkedTo
  <2>2. CASE g \in H
    BY <1>1, <1>2, <2>2 DEF LinkedTo
  <2> QED
    BY <2>1, <2>2
<1>6. \E g \in G : g.to = row
  BY <1>2
<1>7. row.revision = Cardinality(G)
  BY <1>4 DEF LinkedTo
<1> HIDE DEF h, G
<1> QED
  BY <1>4, <1>5, <1>6, <1>7 DEF LinkedTo, G, h

(* The compare-and-set. *)
LEMMA TransitionStep ==
  ASSUME IInv, NEW s \in Sessions, Transition(s)
  PROVE  IInv'
<1> USE DEF IInv
<1> DEFINE row == call[s].row
<1>1. CASE ~Matches(Seen(s), held[s])
  BY <1>1, Failing DEF Transition
<1>2. CASE Matches(Seen(s), held[s])
  <2>1. /\ edit' = [edit EXCEPT ![s] = row] /\ held' = [held EXCEPT ![s] = row]
        /\ moved' = [moved EXCEPT ![s] = @ \cup {[from |-> held[s], to |-> row]}]
        /\ call' = [call EXCEPT ![s] = Idle]
        /\ UNCHANGED <<topic, rows, cell, own, told, history>>
        /\ \A t \in Sessions \ {s} : edit[t] = None
    BY <1>2 DEF Transition, Fail
  <2>2. "state" \in topic /\ "scan" \notin topic /\ Planned(s, row)
    BY TopicTables DEF Calls, GoodCall, Transition, Shape
  <2>3. held[s] = Seen(s) /\ row \in StateRecords /\ row # None
        /\ row.revision = Seen(s).revision + 1 /\ row.revision <= MaxRevision
    BY <1>2, <2>2, NoneAssumption DEF Planned, Matches
  <2>4. LinkedTo(history \cup moved[s], Seen(s)) /\ cell.revision <= Seen(s).revision
    <3>1. CASE edit[s] = None
      <4>1. history \cup moved[s] = history /\ Seen(s) = cell
        BY <2>2, <3>1 DEF Transitions, Ahead, Seen
      <4>2. cell.revision \in Nat
        BY <2>2 DEF Transitions, LinkedTo, StateRecords
      <4>3. LinkedTo(history, cell)
        BY <2>2 DEF Transitions
      <4>4. LinkedTo(history \cup moved[s], Seen(s))
        BY ONLY <4>1, <4>3
      <4> QED
        BY <4>1, <4>2, <4>4
    <3>2. CASE edit[s] # None
      <4>1. edit[s].revision \in Nat /\ cell.revision \in Nat
        BY <2>2, <3>2 DEF Transitions, Ahead, LinkedTo, StateRecords
      <4> QED
        BY <2>2, <3>2, <4>1 DEF Transitions, Ahead, Seen
    <3> QED
      BY <3>1, <3>2
  <2>5. LinkedTo(history \cup moved[s] \cup {[from |-> held[s], to |-> row]}, row)
    BY <2>3, <2>4, LinkGrows
  <2>6. cell.revision < row.revision
    <3>1. cell.revision \in Nat /\ Seen(s).revision \in Nat
      BY <2>2, <2>4 DEF Transitions, LinkedTo, StateRecords
    <3> QED
      BY <2>3, <2>4, <3>1
  <2>7. \A t \in Sessions : Visible(t)' = Visible(t) /\ Attempts(t)' = Attempts(t)
    BY <2>1 DEF Visible, Attempts
  <2>8. Shape' /\ Tabled' /\ Unique' /\ Told'
    BY <2>1, <2>7 DEF Shape, Tabled, Unique, Told, AllRows, Clash, ClashOn, SameEvidence
  <2>9. Calls'
    <3> SUFFICES ASSUME NEW t \in Sessions PROVE GoodCall(t, call[t])'
      BY DEF Calls
    <3>1. CASE t = s
      BY <2>1, <3>1 DEF GoodCall, Idle, Shape
    <3>2. CASE t # s
      <4>1. call'[t] = call[t] /\ held'[t] = held[t] /\ topic' = topic
        BY <2>1, <3>2 DEF Shape
      <4>2. Seen(t)' = Seen(t)
        BY <2>1, <3>2 DEF Shape, Seen
      <4>3. Pending(t, call[t].row)' <=> Pending(t, call[t].row)
        BY <2>7, <4>1 DEF Pending, MayAppend, Succeeded
      <4>4. Planned(t, call[t].row)' <=> Planned(t, call[t].row)
        BY <4>1, <4>2 DEF Planned
      <4> QED
        BY <4>1, <4>3, <4>4 DEF Calls, GoodCall
    <3> QED
      BY <3>1, <3>2
  <2>10. Appending' /\ Completed'
    BY <2>1, <2>2, <2>7 DEF Appending, Completed
  <2>11. Transitions'
    <3>1. edit'[s] = row /\ moved'[s] = moved[s] \cup {[from |-> held[s], to |-> row]}
      BY <2>1 DEF Shape
    <3>2. \A t \in Sessions \ {s} : edit'[t] = None /\ moved'[t] = {}
      BY <2>1, <2>2 DEF Shape, Transitions, Ahead
    <3>3. history \cup moved'[s] = history \cup moved[s] \cup {[from |-> held[s], to |-> row]}
      BY <3>1
    <3>4. Ahead(s)'
      BY <2>1, <2>3, <2>5, <2>6, <3>1, <3>3 DEF Ahead
    <3>5. \A t \in Sessions \ {s} : Ahead(t)'
      BY <3>2 DEF Ahead
    <3> QED
      BY <2>1, <2>2, <3>2, <3>4, <3>5 DEF Transitions
  <2> QED
    BY <2>8, <2>9, <2>10, <2>11
<1> QED
  BY <1>1, <1>2
-----------------------------------------------------------------------------
(* What the end of a transaction leaves of it. *)
LEMMA EndedSession ==
  ASSUME Shape, NEW s \in Sessions, Ended(s)
  PROVE  /\ own'[s] = {} /\ edit'[s] = None /\ told'[s] = None /\ moved'[s] = {}
         /\ \A t \in Sessions \ {s} : /\ own'[t] = own[t] /\ edit'[t] = edit[t]
                                      /\ told'[t] = told[t] /\ moved'[t] = moved[t]
         /\ DOMAIN own' = Sessions /\ DOMAIN edit' = Sessions
         /\ DOMAIN told' = Sessions /\ DOMAIN moved' = Sessions
BY DEF Ended, Shape

(* The end of a transaction that leaves nothing. *)
LEMMA RollbackStep ==
  ASSUME IInv, NEW s \in Sessions, Rollback(s)
  PROVE  IInv'
<1> USE DEF IInv
<1>1. /\ UNCHANGED <<topic, rows, cell, held, history>>
      /\ call' = [call EXCEPT ![s] = Idle] /\ Ended(s)
  BY DEF Rollback
<1>2. /\ own'[s] = {} /\ edit'[s] = None /\ told'[s] = None /\ moved'[s] = {}
      /\ \A t \in Sessions \ {s} : /\ own'[t] = own[t] /\ edit'[t] = edit[t]
                                   /\ told'[t] = told[t] /\ moved'[t] = moved[t]
      /\ DOMAIN own' = Sessions /\ DOMAIN edit' = Sessions
      /\ DOMAIN told' = Sessions /\ DOMAIN moved' = Sessions
  BY <1>1, EndedSession
<1>3. Shape' /\ \A t \in Sessions \ {s} : call'[t] = call[t]
  BY <1>1, <1>2 DEF Shape
<1>4. call'[s] = Idle
  BY <1>1 DEF Shape
<1>5. AllRows' \subseteq AllRows
  BY <1>1, <1>2 DEF AllRows
<1>6. Tabled' /\ Unique'
  BY <1>1, <1>5 DEF Tabled, Unique, Clash, ClashOn
<1>7. \A t \in Sessions \ {s} : /\ Visible(t)' = Visible(t) /\ Seen(t)' = Seen(t)
                               /\ Attempts(t)' = Attempts(t)
  BY <1>1, <1>2 DEF Visible, Seen, Attempts
<1>8. Told'
  BY <1>2, <1>7 DEF Told, SameEvidence
<1>9. Calls'
  <2> SUFFICES ASSUME NEW t \in Sessions PROVE GoodCall(t, call[t])'
    BY DEF Calls
  <2>1. CASE t = s
    BY <1>4, <2>1 DEF GoodCall, Idle
  <2>2. CASE t # s
    <3>1. call'[t] = call[t] /\ held'[t] = held[t] /\ topic' = topic
      BY <1>1, <1>3, <2>2
    <3>2. Pending(t, call[t].row)' <=> Pending(t, call[t].row)
      BY <1>7, <2>2, <3>1 DEF Pending, MayAppend, Succeeded
    <3>3. Planned(t, call[t].row)' <=> Planned(t, call[t].row)
      BY <1>7, <2>2, <3>1 DEF Planned
    <3> QED
      BY <3>1, <3>2, <3>3 DEF Calls, GoodCall
  <2> QED
    BY <2>1, <2>2
<1>10. Appending'
  <2>1. Attempts(s)' = AttemptsIn(rows) /\ AttemptsIn(own'[s]) = {}
    BY <1>1, <1>2 DEF Attempts, AttemptsIn, Visible
  <2> QED
    BY <1>1, <1>2, <1>7, <2>1 DEF Appending
<1>11. Transitions'
  <2>1. Ahead(s)' /\ \A t \in Sessions \ {s} : Ahead(t)' <=> Ahead(t)
    BY <1>1, <1>2 DEF Ahead
  <2> QED
    BY <1>1, <1>2, <2>1 DEF Transitions
<1>12. Completed'
  BY <1>1, <1>2, <1>7 DEF Completed
<1> QED
  BY <1>3, <1>6, <1>8, <1>9, <1>10, <1>11, <1>12

(* Sessions that hold attempts see the committed ones through the other's  *)
(* commit; a number that was next may be taken by it.                      *)
LEMMA CommittedAttempts ==
  ASSUME IInv, NEW s \in Sessions, NEW t \in Sessions, t # s, NEW a, Pending(t, a)
  PROVE  LET S == AttemptsIn(rows \cup own[s] \cup own[t])
         IN ChainOf(S) /\ (MayAppend(S, a) \/ \E r \in S : r.key = a.key)
<1> USE DEF IInv
<1> DEFINE S == AttemptsIn(rows \cup own[s] \cup own[t])
<1> SUFFICES ChainOf(S) /\ (MayAppend(S, a) \/ \E r \in S : r.key = a.key)
  OBVIOUS
<1> HIDE DEF S
<1>1. CASE AttemptsIn(own[s]) = {}
  <2>1. S = Attempts(t)
    BY <1>1 DEF S, Attempts, AttemptsIn, Visible
  <2>2. ChainOf(Attempts(t)) /\ (MayAppend(Attempts(t), a) \/ \E r \in Attempts(t) : r.key = a.key)
    BY DEF Pending, Appending
  <2> QED
    BY ONLY <2>1, <2>2
<1>2. CASE AttemptsIn(own[t]) = {}
  <2>1. S = Attempts(s) /\ Attempts(t) \subseteq S
    BY <1>2 DEF S, Attempts, AttemptsIn, Visible
  <2>2. ChainOf(S) /\ ChainOf(Attempts(t))
    BY <2>1 DEF Appending
  <2>3. CASE MayAppend(Attempts(t), a)
    BY <2>1, <2>2, <2>3, Overtaken
  <2>4. CASE \E r \in Attempts(t) : r.key = a.key
    BY <2>1, <2>2, <2>4
  <2> QED
    BY <2>3, <2>4 DEF Pending
<1> QED
  BY <1>1, <1>2 DEF Appending

(* The end of a transaction that everybody sees. *)
LEMMA CommitStep ==
  ASSUME IInv, NEW s \in Sessions, Commit(s)
  PROVE  IInv'
<1> USE DEF IInv
<1>1. /\ UNCHANGED <<topic, call, held>> /\ call[s].step = "idle" /\ Ended(s)
      /\ rows' = rows \cup own[s] /\ cell' = Seen(s) /\ history' = history \cup moved[s]
  BY DEF Commit
<1>2. /\ own'[s] = {} /\ edit'[s] = None /\ told'[s] = None /\ moved'[s] = {}
      /\ \A t \in Sessions \ {s} : /\ own'[t] = own[t] /\ edit'[t] = edit[t]
                                   /\ told'[t] = told[t] /\ moved'[t] = moved[t]
      /\ DOMAIN own' = Sessions /\ DOMAIN edit' = Sessions
      /\ DOMAIN told' = Sessions /\ DOMAIN moved' = Sessions
  BY <1>1, EndedSession
<1>3. Shape'
  BY <1>1, <1>2 DEF Shape
<1>4. AllRows' \subseteq AllRows
  BY <1>1, <1>2 DEF AllRows
<1>5. Tabled' /\ Unique'
  BY <1>1, <1>4 DEF Tabled, Unique, Clash, ClashOn
<1>6. Visible(s)' = Visible(s) /\ Visible(s) = rows \cup own[s]
  BY <1>1, <1>2 DEF Visible
<1>7. \A t \in Sessions \ {s} : Visible(t)' = rows \cup own[s] \cup own[t]
  BY <1>1, <1>2 DEF Visible
<1>8. Told'
  <2>1. \A t \in Sessions \ {s} : Visible(t) \subseteq Visible(t)'
    BY <1>7 DEF Visible
  <2> QED
    BY <1>2, <2>1 DEF Told, SameEvidence
<1>9. Appending'
  <2>1. rows' = Visible(s) /\ AttemptsIn(rows)' = Attempts(s) /\ Attempts(s)' = Attempts(s)
    BY <1>1, <1>6 DEF AttemptsIn, Attempts
  <2>2. ASSUME NEW t \in Sessions, t # s
        PROVE  ChainOf(Attempts(t)') /\ AttemptsIn(own[t]) \cap rows' = {}
    <3>1. Attempts(t)' = AttemptsIn(rows \cup own[s] \cup own[t])
      BY <1>7, <2>2 DEF Attempts, AttemptsIn
    <3>2. CASE AttemptsIn(own[s]) = {}
      <4>1. Attempts(t)' = Attempts(t)
        BY <3>1, <3>2 DEF Attempts, AttemptsIn, Visible
      <4>2. AttemptsIn(own[t]) \cap rows' = AttemptsIn(own[t]) \cap rows
        BY <1>1, <3>2 DEF AttemptsIn
      <4> QED
        BY <4>1, <4>2 DEF Appending
    <3>3. CASE AttemptsIn(own[t]) = {}
      <4>1. Attempts(t)' = Attempts(s)
        BY <3>1, <3>3 DEF Attempts, AttemptsIn, Visible
      <4> QED
        BY <4>1, <3>3 DEF Appending
    <3> QED
      BY <2>2, <3>2, <3>3 DEF Appending
  <2>3. AttemptsIn(own'[s]) = {}
    BY <1>2 DEF AttemptsIn
  <2> QED
    BY <1>2, <2>1, <2>2, <2>3 DEF Appending
<1>10. Calls'
  <2> SUFFICES ASSUME NEW t \in Sessions PROVE GoodCall(t, call[t])'
    BY DEF Calls
  <2>1. CASE t = s
    BY <1>1, <2>1 DEF GoodCall
  <2>2. CASE t # s
    <3>1. call'[t] = call[t] /\ held'[t] = held[t] /\ topic' = topic
      BY <1>1
    <3>2. Pending(t, call[t].row) => Pending(t, call[t].row)'
      <4>1. Attempts(t)' = AttemptsIn(rows \cup own[s] \cup own[t])
        BY <1>7, <2>2 DEF Attempts, AttemptsIn
      <4>2. Pending(t, call[t].row) =>
              LET S == AttemptsIn(rows \cup own[s] \cup own[t])
              IN MayAppend(S, call[t].row) \/ \E r \in S : r.key = call[t].row.key
        BY <2>2, CommittedAttempts
      <4> QED
        BY <3>1, <4>1, <4>2 DEF Pending, MayAppend, Succeeded
    <3>3. "state" \in topic /\ Planned(t, call[t].row) => Planned(t, call[t].row)'
      <4> SUFFICES ASSUME "state" \in topic, Planned(t, call[t].row)
                   PROVE  Planned(t, call[t].row)'
        OBVIOUS
      <4>1. CASE edit[s] = None
        <5>1. Seen(t)' = Seen(t)
          BY <1>1, <1>2, <2>2, <4>1 DEF Seen
        <5> QED
          BY <3>1, <5>1 DEF Planned
      <4>2. CASE edit[s] # None
        <5>1. edit[t] = None
          BY <2>2, <4>2 DEF Transitions
        <5>2. Seen(t) = cell /\ Seen(t)' = edit[s]
          BY <1>1, <1>2, <2>2, <4>2, <5>1 DEF Seen
        <5>3. /\ cell.revision \in Nat /\ edit[s].revision \in Nat
              /\ cell.revision < edit[s].revision
          BY <4>2 DEF Transitions, Ahead, LinkedTo, StateRecords
        <5>4. held[t].revision \in Nat
          BY DEF Planned, StateRecords
        <5> QED
          BY <3>1, <5>2, <5>3, <5>4 DEF Planned
      <4> QED
        BY <4>1, <4>2
    <3> QED
      BY <3>1, <3>2, <3>3 DEF Calls, GoodCall
  <2> QED
    BY <2>1, <2>2
<1>11. Transitions'
  <2>1. CASE "state" \in topic
    <3>1. CASE edit[s] = None
      <4>1. history' = history /\ cell' = cell
        BY <1>1, <2>1, <3>1 DEF Transitions, Ahead, Seen
      <4>2. \A t \in Sessions : Ahead(t)'
        BY <1>2, <2>1, <3>1, <4>1 DEF Transitions, Ahead
      <4> QED
        BY <1>1, <1>2, <2>1, <3>1, <4>1, <4>2 DEF Transitions
    <3>2. CASE edit[s] # None
      <4>1. LinkedTo(history', cell') /\ cell'.revision <= MaxRevision
        BY <1>1, <2>1, <3>2 DEF Transitions, Ahead, Seen
      <4>2. \A t \in Sessions : edit'[t] = None /\ moved'[t] = {}
        BY <1>2, <2>1, <3>2 DEF Transitions, Ahead
      <4> QED
        BY <1>1, <2>1, <4>1, <4>2 DEF Transitions, Ahead
    <3> QED
      BY <3>1, <3>2
  <2>2. CASE "state" \notin topic
    BY <1>1, <1>2, <2>2 DEF Transitions
  <2> QED
    BY <2>1, <2>2
<1>12. Completed'
  <2> SUFFICES ASSUME "scan" \in topic
               PROVE  /\ Completes(cell', rows')
                      /\ \A t \in Sessions : edit'[t] # None => Completes(edit'[t], Visible(t)')
    BY <1>1 DEF Completed
  <2>1. Completes(Seen(s), Visible(s))
    <3>1. rows \subseteq Visible(s)
      BY DEF Visible
    <3> QED
      BY <3>1 DEF Completed, Seen, Completes, EvidenceIn
  <2>2. ASSUME NEW t \in Sessions, edit'[t] # None PROVE Completes(edit'[t], Visible(t)')
    <3>1. t # s /\ edit'[t] = edit[t] /\ Visible(t) \subseteq Visible(t)'
      BY <1>2, <1>7, <2>2 DEF Visible
    <3> QED
      BY <2>2, <3>1 DEF Completed, Completes, EvidenceIn
  <2> QED
    BY <1>1, <1>6, <2>1, <2>2
<1> QED
  BY <1>3, <1>5, <1>8, <1>9, <1>10, <1>11, <1>12
-----------------------------------------------------------------------------
(* A chain may be empty. *)
LEMMA EmptyChains == ChainOf({}) /\ ChainOf(AttemptsIn({}))
<1>1. AttemptsIn({}) = {} /\ {a.key : a \in {}} = {} /\ 1 .. 0 = {}
  BY DEF AttemptsIn
<1>2. ChainOf({})
  BY <1>1, FS_EmptySet DEF ChainOf
<1> QED
  BY ONLY <1>1, <1>2

(* The record that is created has no transitions before it. *)
LEMMA FirstLink ==
  ASSUME NEW c, c = [state |-> "IDLE", revision |-> 0, updated_at |-> None]
  PROVE  LinkedTo({}, c)
BY FS_EmptySet DEF LinkedTo, StateRecords

(* Empty tables satisfy the invariant. *)
LEMMA InitIInv == Init => IInv
<1> SUFFICES ASSUME Init PROVE IInv
  OBVIOUS
<1> USE DEF Init
<1>1. Shape
  BY DEF Shape
<1>2. AllRows = {} /\ \A s \in Sessions : Visible(s) = {} /\ Attempts(s) = {}
  BY DEF AllRows, Visible, Attempts
<1>3. Tabled /\ Unique /\ Told
  BY <1>2 DEF Tabled, Unique, Told
<1>4. Calls
  BY DEF Calls, GoodCall, Idle
<1>5. Appending
  <2>1. ChainOf(AttemptsIn(rows)) /\ \A s \in Sessions : ChainOf(Attempts(s))
    BY <1>2, EmptyChains
  <2>2. \A s \in Sessions : AttemptsIn(own[s]) = {}
    BY DEF AttemptsIn
  <2> QED
    BY <2>1, <2>2 DEF Appending
<1>6. Transitions
  <2>1. CASE "state" \in topic
    <3>1. cell = [state |-> "IDLE", revision |-> 0, updated_at |-> None]
      BY <2>1 DEF FirstCell, Topics
    <3>2. LinkedTo({}, cell)
      BY <3>1, FirstLink
    <3>3. cell.revision <= MaxRevision
      BY <3>1, BoundAssumption
    <3> QED
      BY <2>1, <3>2, <3>3 DEF Transitions, Ahead
  <2> QED
    BY <2>1 DEF Transitions
<1>7. Completed
  <2> SUFFICES ASSUME "scan" \in topic PROVE Completes(cell, rows)
    BY DEF Completed
  <2>1. cell = [status |-> "RUNNING", completed_at |-> None]
    BY DEF FirstCell, Topics
  <2> QED
    BY <2>1 DEF Completes
<1> QED
  BY <1>1, <1>3, <1>4, <1>5, <1>6, <1>7 DEF IInv

(* A stuttering step keeps the invariant. *)
LEMMA StutterStep ==
  ASSUME IInv, UNCHANGED vars
  PROVE  IInv'
<1> USE DEF IInv
<1>1. UNCHANGED <<topic, rows, cell, call, own, edit, held, told, moved, history>>
  BY DEF vars
<1>2. Shape' /\ Tabled' /\ Unique'
  BY <1>1 DEF Shape, Tabled, Unique, AllRows, Clash, ClashOn
<1>3. \A t \in Sessions : Visible(t)' = Visible(t) /\ Seen(t)' = Seen(t)
  BY <1>1 DEF Visible, Seen
<1>4. Told'
  BY <1>1, <1>3 DEF Told, SameEvidence
<1>5. Calls'
  <2> SUFFICES ASSUME NEW t \in Sessions PROVE GoodCall(t, call[t])'
    BY DEF Calls
  <2>1. Attempts(t)' = Attempts(t)
    BY <1>3 DEF Attempts
  <2> QED
    BY <1>1, <1>3, <2>1 DEF Calls, GoodCall, Pending, MayAppend, Succeeded, Planned
<1>6. Appending' /\ Transitions' /\ Completed'
  BY <1>1, <1>3 DEF Appending, Attempts, Transitions, Ahead, Completed
<1> QED
  BY <1>2, <1>4, <1>5, <1>6

(* Every step keeps the invariant. *)
LEMMA StepIInv == IInv /\ [Next]_vars => IInv'
<1> SUFFICES ASSUME IInv, [Next]_vars PROVE IInv'
  OBVIOUS
<1>1. CASE UNCHANGED vars
  BY <1>1, StutterStep
<1>2. ASSUME NEW s \in Sessions, NEW table \in topic, NEW row \in Requests(s, table),
             Lookup(s, row) \/ CheckAttempt(s, row)
      PROVE  IInv'
  BY <1>2, LookupStep, CheckAttemptStep
<1>3. ASSUME NEW s \in Sessions, NEW run \in Visible(s), run.scan # None, ReadScan(s, run)
      PROVE  IInv'
  BY <1>3, ReadScanStep
<1>4. ASSUME NEW s \in Sessions, NEW state \in {"IDLE", "WATCHING"}, Propose(s, state)
      PROVE  IInv'
  BY <1>4, ProposeStep
<1>5. ASSUME NEW s \in Sessions,
             \/ CheckScan(s) \/ Insert(s) \/ Attach(s) \/ GetState(s)
             \/ Transition(s) \/ Commit(s) \/ Rollback(s)
      PROVE  IInv'
  BY <1>5, CheckScanStep, InsertStep, AttachStep, GetStateStep, TransitionStep, CommitStep,
     RollbackStep
<1> QED
  BY <1>1, <1>2, <1>3, <1>4, <1>5 DEF Next

(* Whatever the sessions do between their statements, every part of IInv   *)
(* holds: rows, answers, calls under way, attempts, transitions, the scan. *)
THEOREM StoresInvariant == Spec => []IInv
BY InitIInv, StepIInv, PTL DEF Spec
-----------------------------------------------------------------------------
(* The invariant has the types. *)
LEMMA TypesHold == IInv => TypeOK
<1> SUFFICES ASSUME IInv PROVE TypeOK
  OBVIOUS
<1> USE DEF IInv
<1>1. "state" \in topic => cell.revision \in 0 .. MaxRevision
  BY BoundAssumption DEF Transitions, LinkedTo, StateRecords
<1> QED
  BY <1>1 DEF TypeOK, Shape, Tabled, Calls, GoodCall, Completed, Completes

(* The tables hold what their topic allows, and a scan has a completion    *)
(* time exactly when it is COMPLETED.                                      *)
THEOREM StoresTypeOK == Spec => []TypeOK
BY StoresInvariant, TypesHold, PTL

(* The invariant follows every answer to its stored row. *)
LEMMA AnswersHold == IInv => AnswersAreStored
BY DEF IInv, Unique, Told, AllRows, AnswersAreStored

(* Any number of sessions that record the same evidence at once, commit    *)
(* and roll back: keys stay unique, and whatever a call answered is stored *)
(* with the caller's transaction and equals what it asked to record.       *)
THEOREM AnswersAreAlwaysStored == Spec => []AnswersAreStored
BY StoresInvariant, AnswersHold, PTL

(* The invariant carries the evidence of a completion. *)
LEMMA EvidenceHolds == IInv => CompletionHasEvidence
<1> SUFFICES ASSUME IInv, "scan" \in topic, cell.status = "COMPLETED"
             PROVE  \E run \in rows :
                      /\ run.table = "run" /\ run.scan # None
                      /\ \A r \in rows : (r.table = "run" /\ r.scan = run.scan) => r = run
                      /\ \E a \in rows : a.table = "attempt" /\ a.content.status = "SUCCEEDED"
                                       /\ a.content.final = run.id /\ a.scan = run.scan
  BY DEF CompletionHasEvidence
<1>1. PICK run \in rows, a \in rows :
        /\ run.table = "run" /\ run.scan # None
        /\ a.table = "attempt" /\ a.content.status = "SUCCEEDED"
        /\ a.content.final = run.id /\ a.scan = run.scan
  BY DEF IInv, Completed, Completes, EvidenceIn
<1>2. ASSUME NEW r \in rows, r.table = "run", r.scan = run.scan PROVE r = run
  <2>1. Clash(r, run)
    BY <1>1, <1>2 DEF Clash, ClashOn, Tables, RunTable
  <2> QED
    BY <2>1 DEF IInv, Unique, AllRows
<1> QED
  BY <1>1, <1>2

(* A committed completion always has its one run and that run's attempt.   *)
THEOREM CompletionAlwaysHasEvidence == Spec => []CompletionHasEvidence
BY StoresInvariant, EvidenceHolds, PTL

(* The invariant keeps the committed attempts a chain. *)
LEMMA ChainHolds == IInv => AttemptsFormAChain
BY DEF IInv, Appending, ChainOf, AttemptsIn, AttemptsFormAChain

(* Sessions that append attempts from what they saw earlier still leave    *)
(* one chain: the number of an attempt that was overtaken is taken.        *)
THEOREM AttemptsAlwaysFormAChain == Spec => []AttemptsFormAChain
BY StoresInvariant, ChainHolds, PTL

(* The invariant links the committed transitions. *)
LEMMA NothingIsLost == IInv => NoLostTransition
<1> SUFFICES ASSUME IInv PROVE NoLostTransition
  OBVIOUS
<1>1. CASE "state" \in topic
  <2>1. LinkedTo(history, cell)
    BY <1>1 DEF IInv, Transitions
  <2> QED
    BY <2>1 DEF LinkedTo, NoLostTransition
<1>2. CASE "state" \notin topic
  BY <1>2 DEF IInv, Transitions, NoLostTransition
<1> QED
  BY <1>1, <1>2

(* The compare-and-set in transactions of the callers: committed           *)
(* transitions are one chain, for any number of sessions and rollbacks.    *)
THEOREM TransitionsAreNeverLost == Spec => []NoLostTransition
BY StoresInvariant, NothingIsLost, PTL
=============================================================================
