----------------------------- MODULE SqlStores ------------------------------
(***************************************************************************)
(* The SQL repositories of app/persistence/repositories.py under           *)
(* concurrent database sessions.                                           *)
(*                                                                         *)
(* A repository method is a sequence of statements in a transaction that   *)
(* its caller owns: the caller commits it or rolls it back later, and      *)
(* other sessions commit between any two statements.  The database is      *)
(* PostgreSQL as the adapters assume it: READ COMMITTED, a unique insert   *)
(* or an update of a row waits for the open transaction that holds the key *)
(* or the row, an update then applies to the newest row, and a failed      *)
(* insert is undone to its SAVEPOINT.                                      *)
(*                                                                         *)
(* A behaviour exercises the tables of one topic; the tables of different  *)
(* topics share no row.  Reads that cannot change any more (rows are never *)
(* deleted) are taken together with the statement that follows them.       *)
(***************************************************************************)
EXTENDS Naturals, FiniteSets, Sequences, FiniteSetsExt

CONSTANTS
  Sessions,      \* concurrent database sessions
  Ids,           \* primary keys
  Keys,          \* values of the unique business key of a table
  Contents,      \* what else a stored row records
  None,          \* SQL NULL
  MaxAttempts,   \* bound on the attempts of the scan
  MaxRevision    \* bound on the revision of the recommendation state

(* A row of recommendation_states; the session stands for updated_at. *)
StateRecords ==
  [state : {"IDLE", "WATCHING"}, revision : Nat, updated_at : Sessions \cup {None}]

ASSUME NoneAssumption == None \notin Sessions /\ None \notin Nat /\ None \notin StateRecords
ASSUME BoundAssumption == MaxRevision \in Nat /\ MaxAttempts \in Nat

VARIABLES
  topic,     \* the tables this behaviour exercises
  rows,      \* the committed rows
  cell,      \* the committed columns that are updated in place
  call,      \* the repository call each session is in
  own,       \* the rows each session has inserted and not committed
  edit,      \* the columns each session has updated and not committed
  held,      \* the recommendation state the session's caller evaluated from
  told,      \* the last answer in each open transaction: what was asked, what came
  moved,     \* the transitions of each session's open transaction
  history    \* the committed transitions of the recommendation state

vars == <<topic, rows, cell, call, own, edit, held, told, moved, history>>

Topics == {{"position"}, {"snapshot"}, {"intent"}, {"state"}, {"run"},
           {"scan", "run", "attempt"}}

(* Attempts as ScanAttempt admits them. *)
AttemptContents ==
  LET refs == Ids \cup {None}
  IN [status : {"RUNNING", "FAILED"}, recovers : refs, duplicate : {None}, final : {None}]
     \cup [status : {"SUCCEEDED"}, recovers : refs, duplicate : {None}, final : refs]
     \cup [status : {"SUCCEEDED"}, recovers : refs, duplicate : Ids, final : {None}]

(* What the insert method of each repository does.  "unique" are the       *)
(* columns under a unique constraint: "id" is the primary key and "key"    *)
(* the business key.  "lookups" are the columns it selects by before it    *)
(* inserts.  "rereads" are the constraints whose violation makes it read   *)
(* the stored row, "compares" the columns in which that row must equal the *)
(* candidate.                                                              *)
PositionTable ==   \* key: (portfolio, instrument) of an OPEN position, else NULL
  [unique |-> {"id", "key"}, lookups |-> <<>>, rereads |-> {}, compares |-> {}]
SnapshotTable ==   \* key: (target, version)
  [unique |-> {"id", "key"}, lookups |-> <<"id", "key">>, rereads |-> {"id", "key"},
   compares |-> {"id", "key", "content"}]
IntentTable ==     \* key: intent_key, which fixes (strategy run, purpose)
  [unique |-> {"id", "key"}, lookups |-> <<"key">>, rereads |-> {"id", "key"},
   compares |-> {"key", "content"}]
StateTable ==      \* key: the plan, which is the primary key
  [unique |-> {"key"}, lookups |-> <<"key">>, rereads |-> {"key"}, compares |-> {}]
ScanTable ==       \* key: scan_lock_key
  [unique |-> {"id", "key"}, lookups |-> <<"key">>, rereads |-> {"key"}, compares |-> {}]
RunTable ==        \* key: (plan, idempotency_key)
  [unique |-> {"id", "key", "scan"}, lookups |-> <<"key">>, rereads |-> {"key"},
   compares |-> {"id", "key", "scan", "content"}]
(* A bug: scan_attempts without uq_scan_attempt_number. *)
AttemptTableUnnumbered ==
  [unique |-> {"id"}, lookups |-> <<>>, rereads |-> {}, compares |-> {}]
AttemptTable ==    \* key: the number of the attempt
  [unique |-> {"id", "key"}, lookups |-> <<>>, rereads |-> {}, compares |-> {}]

Tables ==
  [position |-> PositionTable, snapshot |-> SnapshotTable, intent |-> IntentTable,
   state |-> StateTable, scan |-> ScanTable, run |-> RunTable, attempt |-> AttemptTable]

Idle == [step |-> "idle", row |-> None]
-----------------------------------------------------------------------------
Visible(s) == rows \cup own[s]

Seen(s) == IF edit[s] = None THEN cell ELSE edit[s]

ClashOn(field, a, b) ==
  a.table = b.table /\ field \in Tables[a.table].unique
    /\ a[field] = b[field] /\ a[field] # None

Clash(a, b) == \E field \in Tables[a.table].unique : ClashOn(field, a, b)

(* The row a lookup answers, by the first column that finds one. *)
Found(s, row) ==
  LET lookups == Tables[row.table].lookups
      by(field) == {r \in Visible(s) : ClashOn(field, r, row)}
      hits == {i \in DOMAIN lookups : by(lookups[i]) # {}}
  IN IF hits = {} THEN None ELSE CHOOSE r \in by(lookups[Min(hits)]) : TRUE

(* Does a stored row stand for the caller's candidate? *)
SameEvidence(stored, row) ==
  \A field \in Tables[row.table].compares : stored[field] = row[field]

(* A call returns a row, raises, or goes on to its next statement. *)
Answer(s, asked, row) ==
  /\ call' = [call EXCEPT ![s] = Idle]
  /\ told' = [told EXCEPT ![s] = [asked |-> asked, row |-> row]]

Fail(s) == call' = [call EXCEPT ![s] = Idle] /\ UNCHANGED told

Go(s, step, row) == call' = [call EXCEPT ![s] = [step |-> step, row |-> row]] /\ UNCHANGED told

(* A bug: whatever is stored under the key answers the caller. *)
RetryAny(s, stored, row) == Answer(s, row, stored)

(* _exact_snapshot_retry, _target_version_retry, _exact_strategy_run_retry *)
(* and the retry of a child intent: IdempotencyConflictError, or the row.  *)
Retry(s, stored, row) ==
  IF SameEvidence(stored, row) THEN Answer(s, row, stored) ELSE Fail(s)

(* What a violated constraint means to the method that inserted. *)
OnClash(s, field) ==
  LET row == call[s].row
      stored == Found(s, row)
  IN IF field \in Tables[row.table].rereads /\ stored # None THEN Retry(s, stored, row) ELSE Fail(s)
-----------------------------------------------------------------------------
ScanVisible(s, scan) == \E r \in Visible(s) : r.table = "scan" /\ r.id = scan

(* A caller asks for a row to be recorded: the SELECT before the insert. *)
Lookup(s, row) ==
  LET stored == Found(s, row)
  IN /\ call[s].step = "idle" /\ row.table # "attempt"
     /\ IF stored # None THEN Retry(s, stored, row)
        ELSE Go(s, IF row.scan = None THEN "insert" ELSE "status", row)
     /\ UNCHANGED <<topic, rows, cell, own, edit, held, moved, history>>

(* A strategy run of a logical scan also reads the scan. *)
CheckScan(s) ==
  /\ call[s].step = "status"
  /\ IF ScanVisible(s, call[s].row.scan) /\ Seen(s).status # "COMPLETED"
     THEN Go(s, "insert", call[s].row) ELSE Fail(s)
  /\ UNCHANGED <<topic, rows, cell, own, edit, held, moved, history>>

(* The INSERT in its SAVEPOINT; the database names one violated constraint. *)
Insert(s) ==
  LET row == call[s].row
      broken == {f \in Tables[row.table].unique : \E r \in Visible(s) : ClashOn(f, r, row)}
  IN /\ call[s].step = "insert"
     /\ \A t \in Sessions \ {s} : \A r \in own[t] : ~Clash(r, row)
     /\ IF broken = {}
        THEN /\ own' = [own EXCEPT ![s] = @ \cup {row}]
             /\ Answer(s, row, row)
        ELSE (\E f \in broken : OnClash(s, f)) /\ UNCHANGED own
     /\ UNCHANGED <<topic, rows, cell, edit, held, moved, history>>
-----------------------------------------------------------------------------
Attempts(s) == {r \in Visible(s) : r.table = "attempt"}

Succeeded(attempts) == {a \in attempts : a.content.status = "SUCCEEDED"}

(* validate_scan_attempt_append *)
MayAppend(attempts, a) ==
  IF attempts = {} THEN a.key = 1 /\ a.content.recovers = None
  ELSE LET previous == CHOOSE p \in attempts : \A q \in attempts : q.key <= p.key
       IN /\ a.key = previous.key + 1
          /\ IF Succeeded(attempts) # {}
             THEN a.content.final # None \/
                  (a.content.duplicate # None /\ a.content.recovers = None)
             ELSE a.content.recovers = previous.id

RunStored(s, run, scan) ==
  \E r \in Visible(s) : r.table = "run" /\ r.id = run /\ r.scan = scan

(* _validate_attempt_references *)
ReferencesExist(s, a) ==
  /\ a.content.recovers # None => \E r \in Attempts(s) : r.id = a.content.recovers
  /\ a.content.duplicate # None => \E r \in Succeeded(Attempts(s)) : r.id = a.content.duplicate
  /\ a.content.final # None => RunStored(s, a.content.final, a.scan)

(* The reads and the checks of record_attempt; Insert follows. *)
CheckAttempt(s, a) ==
  /\ call[s].step = "idle" /\ a.table = "attempt"
  /\ IF /\ ScanVisible(s, a.scan)
        /\ ReferencesExist(s, a)
        /\ Seen(s).status = "COMPLETED" => a.content.final # None
        /\ MayAppend(Attempts(s), a)
     THEN Go(s, "insert", a) ELSE Fail(s)
  /\ UNCHANGED <<topic, rows, cell, own, edit, held, moved, history>>

(* attach_final_strategy_run reads the scan's status first ... *)
ReadScan(s, run) ==
  /\ "scan" \in topic /\ call[s].step = "idle"
  /\ ScanVisible(s, run.scan) /\ Seen(s).status = "RUNNING"
  /\ call' = [call EXCEPT ![s] = [step |-> "attach", row |-> run]]
  /\ UNCHANGED <<topic, rows, cell, own, edit, held, told, moved, history>>

(* A bug: any SUCCEEDED attempt of the scan will do. *)
AnySuccess(s, run) == \E a \in Succeeded(Attempts(s)) : a.scan = run.scan

(* The completion needs a SUCCEEDED attempt that names its run. *)
FinalSuccess(s, run) ==
  \E a \in Succeeded(Attempts(s)) : a.scan = run.scan /\ a.content.final = run.id

(* A bug: the completion time is not written. *)
CompletionUnstamped(s) == [status |-> "COMPLETED", completed_at |-> None]

(* What the completion writes; the session stands for completed_at. *)
Completion(s) == [status |-> "COMPLETED", completed_at |-> s]

(* ... then its evidence, and writes the completion by primary key alone. *)
Attach(s) ==
  LET run == call[s].row
  IN /\ call[s].step = "attach"
     /\ IF RunStored(s, run.id, run.scan) /\ FinalSuccess(s, run)
        THEN /\ \A t \in Sessions \ {s} : edit[t] = None
             /\ edit' = [edit EXCEPT ![s] = Completion(s)]
        ELSE UNCHANGED edit
     /\ Fail(s)
     /\ UNCHANGED <<topic, rows, cell, own, held, moved, history>>
-----------------------------------------------------------------------------
StateStored(s) == \E r \in Visible(s) : r.table = "state"

(* The caller reads the recommendation state it will evaluate from. *)
GetState(s) ==
  /\ "state" \in topic /\ call[s].step = "idle" /\ StateStored(s)
  /\ held' = [held EXCEPT ![s] = Seen(s)]
  /\ UNCHANGED <<topic, rows, cell, call, own, edit, told, moved, history>>

(* record_transition: the stored record must be the caller's; the row then *)
(* waits in call[s] for the UPDATE.                                        *)
Propose(s, state) ==
  /\ "state" \in topic /\ call[s].step = "idle" /\ StateStored(s)
  /\ held[s] = Seen(s) /\ held[s].revision < MaxRevision
  /\ call' = [call EXCEPT ![s] = [step |-> "update", row |->
                [state |-> state, revision |-> held[s].revision + 1, updated_at |-> s]]]
  /\ UNCHANGED <<topic, rows, cell, own, edit, held, told, moved, history>>

(* A bug: the UPDATE compares the state and forgets the revision. *)
MatchesState(stored, previous) == stored.state = previous.state

(* The WHERE clause of the UPDATE, on the newest row. *)
Matches(stored, previous) ==
  stored.revision = previous.revision /\ stored.state = previous.state

Transition(s) ==
  /\ call[s].step = "update"
  /\ \A t \in Sessions \ {s} : edit[t] = None
  /\ IF Matches(Seen(s), held[s])
     THEN /\ edit' = [edit EXCEPT ![s] = call[s].row]
          /\ held' = [held EXCEPT ![s] = call[s].row]
          /\ moved' = [moved EXCEPT ![s] = @ \cup {[from |-> held[s], to |-> call[s].row]}]
     ELSE UNCHANGED <<edit, held, moved>>
  /\ Fail(s)
  /\ UNCHANGED <<topic, rows, cell, own, history>>
-----------------------------------------------------------------------------
Open(s) == own[s] # {} \/ edit[s] # None

Ended(s) ==
  /\ own' = [own EXCEPT ![s] = {}]
  /\ edit' = [edit EXCEPT ![s] = None]
  /\ told' = [told EXCEPT ![s] = None]
  /\ moved' = [moved EXCEPT ![s] = {}]

(* The caller commits after its last call returned. *)
Commit(s) ==
  /\ call[s].step = "idle" /\ Open(s)
  /\ rows' = rows \cup own[s]
  /\ cell' = Seen(s)
  /\ history' = history \cup moved[s]
  /\ Ended(s)
  /\ UNCHANGED <<topic, call, held>>

(* The caller gives up, crashes, or is chosen to break a deadlock: what    *)
(* its calls answered is void, but its memory of a state record survives.  *)
Rollback(s) ==
  /\ call[s] # Idle \/ Open(s)
  /\ call' = [call EXCEPT ![s] = Idle]
  /\ Ended(s)
  /\ UNCHANGED <<topic, rows, cell, held, history>>
-----------------------------------------------------------------------------
Row(table, id, key, scan, content) ==
  [table |-> table, id |-> id, key |-> key, scan |-> scan, content |-> content]

AllRows == rows \cup UNION {own[s] : s \in Sessions}

(* uuid4: an identifier no row of the table, stored or in a call, carries. *)
Fresh(table) ==
  LET rowsInCalls == {call[s].row : s \in {q \in Sessions : call[q] # Idle}}
  IN Ids \ {r.id : r \in {q \in AllRows \cup rowsInCalls : q.table = table}}

(* The scans create_or_recover can have answered to a session. *)
KnownScans(s) == {r.id : r \in {q \in Visible(s) : q.table = "scan"}}

(* What a caller may ask to be recorded in a table: one plan, one scan     *)
(* window, and attempts of the scans it knows.                             *)
Requests(s, table) ==
  LET only == CHOOSE k \in Keys : TRUE
  IN CASE table = "position" ->
            {Row(table, id, key, None, None) : id \in Ids, key \in Keys \cup {None}}
       [] table \in {"snapshot", "intent"} ->
            {Row(table, id, key, None, c) : id \in Ids, key \in Keys, c \in Contents}
       [] table = "state" -> {Row(table, None, only, None, None)}
       [] table = "scan" -> {Row(table, id, only, None, None) : id \in Fresh(table)}
       [] table = "run" ->
            {Row(table, id, key, scan, None) : id \in Ids, key \in Keys,
               scan \in IF "scan" \in topic THEN KnownScans(s) ELSE {None}}
       [] table = "attempt" ->
            {Row(table, id, number, scan, content) :
               id \in Fresh(table), number \in 1 .. MaxAttempts,
               scan \in KnownScans(s), content \in AttemptContents}

FirstCell(t) ==
  IF t = {"state"} THEN [state |-> "IDLE", revision |-> 0, updated_at |-> None]
  ELSE [status |-> "RUNNING", completed_at |-> None]

Init ==
  /\ topic \in Topics
  /\ rows = {} /\ cell = FirstCell(topic)
  /\ call = [s \in Sessions |-> Idle]
  /\ own = [s \in Sessions |-> {}]
  /\ edit = [s \in Sessions |-> None]
  /\ held = [s \in Sessions |-> None]
  /\ told = [s \in Sessions |-> None]
  /\ moved = [s \in Sessions |-> {}] /\ history = {}

Next ==
  \E s \in Sessions :
    \/ \E table \in topic : \E row \in Requests(s, table) :
         Lookup(s, row) \/ CheckAttempt(s, row)
    \/ CheckScan(s)
    \/ Insert(s)
    \/ \E run \in {r \in Visible(s) : r.table = "run" /\ r.scan # None} : ReadScan(s, run)
    \/ Attach(s)
    \/ GetState(s)
    \/ \E state \in {"IDLE", "WATCHING"} : Propose(s, state)
    \/ Transition(s)
    \/ Commit(s)
    \/ Rollback(s)

Spec == Init /\ [][Next]_vars
-----------------------------------------------------------------------------
(* The tables hold what their topic allows, every session is between two   *)
(* statements of a call, and exactly a completed scan has completed_at.    *)
TypeOK ==
  /\ topic \in Topics
  /\ \A r \in AllRows : r.table \in topic
  /\ \A s \in Sessions : call[s].step \in
       {"idle", "status", "insert", "attach", "update"}
  /\ "state" \in topic => cell.revision \in 0 .. MaxRevision
  /\ "scan" \in topic => (cell.status = "COMPLETED" <=> cell.completed_at # None)

(* docs/idempotency.md:45, "A uniqueness violation is treated as a         *)
(* duplicate outcome, not a second run": whatever the interleaving, the    *)
(* row a call answered is committed or will be with the caller's own       *)
(* transaction, it is the one row of its keys, and immutable evidence is   *)
(* answered only to a caller whose candidate it equals.                    *)
AnswersAreStored ==
  /\ \A a, b \in rows : Clash(a, b) => a = b
  /\ \A s \in Sessions : told[s] # None =>
       /\ told[s].row \in Visible(s)
       /\ SameEvidence(told[s].row, told[s].asked)

(* logical_scans.attach_final_strategy_run: a scan is COMPLETED only with  *)
(* its one final run and a SUCCEEDED attempt that names it, all committed. *)
CompletionHasEvidence ==
  ("scan" \in topic /\ cell.status = "COMPLETED") =>
    \E run \in rows :
      /\ run.table = "run" /\ run.scan # None
      /\ \A r \in rows : (r.table = "run" /\ r.scan = run.scan) => r = run
      /\ \E a \in rows : a.table = "attempt" /\ a.content.status = "SUCCEEDED"
                       /\ a.content.final = run.id /\ a.scan = run.scan

(* validate_scan_attempt_append checks the attempts its session could see; *)
(* with two sessions appending at once the stored attempts still are one   *)
(* sequential chain, in which a recovery follows an attempt that failed or *)
(* was left running and no provider work follows a success.                *)
AttemptsFormAChain ==
  LET attempts == {r \in rows : r.table = "attempt"}
  IN /\ {a.key : a \in attempts} = 1 .. Cardinality(attempts)
     /\ \A a, b \in attempts : b.key = a.key + 1 =>
          IF \E g \in Succeeded(attempts) : g.key <= a.key
          THEN b.content.final # None \/ b.content.duplicate # None
          ELSE b.content.recovers = a.id

(* record_transition: "recommendation state changed before transition      *)
(* could persist".  The committed transitions are one chain from revision  *)
(* 0: no two start from the same record, none starts from a record that    *)
(* was rolled back, and the stored record is the end of the chain.         *)
NoLostTransition ==
  /\ \A h \in history :
       /\ h.to.revision = h.from.revision + 1
       /\ h.from.revision > 0 => \E g \in history : g.to = h.from
       /\ \A g \in history : g.from.revision = h.from.revision => g = h
  /\ "state" \in topic => cell.revision = Cardinality(history)

(* LogicalScanRepository.attach_final_strategy_run: "Complete a scan       *)
(* exactly once after its final strategy result is persisted."             *)
CompletesOnce ==
  [][("scan" \in topic /\ cell.status = "COMPLETED") => UNCHANGED cell]_vars
=============================================================================
