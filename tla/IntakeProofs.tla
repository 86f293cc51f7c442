---------------------------- MODULE IntakeProofs ----------------------------
(***************************************************************************)
(* Proofs about the two components of MCIntake, for every value of its     *)
(* constants: the body limit and the guards of the endpoint behind it hold *)
(* however a body is cut into messages, and a configuration resolves to    *)
(* the reference in whatever order its layers arrive.                      *)
(***************************************************************************)
EXTENDS MCIntake, SequenceTheorems, MathFacts, TLAPS

-----------------------------------------------------------------------------
(* The HTTP intake. *)

Steps == {"arrived", "receiving", "handling", "replying", "returned", "ended"}

Counters ==
  /\ step \in Steps /\ exceeded \in BOOLEAN
  /\ observed \in Nat /\ delivered \in Nat /\ runs \in {0, 1}
  /\ reply \in {NoReply, 200, 400, 401, 404, 409, 422, 503}

(* The flag is the limit, whatever was delivered is within it. *)
FlagIsLimit ==
  /\ exceeded <=> observed > MaxBytes
  /\ delivered <= MaxBytes /\ delivered <= observed

(* Past the early return the middleware guards this request. *)
OnGuard ==
  /\ step \notin {"arrived", "ended"} => Guarded /\ ~DeclaredTooLarge
  /\ step \in {"arrived", "receiving", "handling"} => ~exceeded
  /\ step = "arrived" => observed = 0

(* Nothing is answered before the application returns, and it returns with *)
(* an answer or with the flag set.                                         *)
Answers ==
  /\ step \in {"arrived", "receiving", "handling", "replying"} => answers = <<>>
  /\ step = "replying" => exceeded \/ reply # NoReply
  /\ step = "returned" =>
       IF exceeded THEN answers = <<>> ELSE reply # NoReply /\ answers = <<reply>>
  /\ step = "ended" =>
       IF ~Guarded THEN answers = <<>>
       ELSE \E status \in Nat : /\ answers = <<status>>
                                /\ status = 413 <=> (DeclaredTooLarge \/ exceeded)
  /\ (step = "ended" /\ ~Guarded) => observed = 0

(* The coordinator was called only for a request nothing refuses. *)
Coordinated ==
  /\ step \in {"arrived", "receiving", "handling"} => runs = 0
  /\ runs > 0 => Refusal = NoReply /\ ~exceeded

IInv == Counters /\ FlagIsLimit /\ OnGuard /\ Answers /\ Coordinated

(* What a refusal can be. *)
LEMMA RefusalStatus == Refusal \in {NoReply, 401, 404, 422, 503}
BY DEF Refusal, TokenRefusal

(* Nothing refuses only a valid token and a dry run of a known plan. *)
LEMMA NothingRefused ==
  Refusal = NoReply =>
    /\ request.configured /\ request.wired /\ request.token = "right"
    /\ request.body = "dry_run" /\ request.planKnown
BY IntakeAssumption, RefusalStatus DEF Refusal, TokenRefusal

(* A request arrives with nothing counted or answered. *)
LEMMA InitIInv == IntakeInit => IInv
<1> SUFFICES ASSUME IntakeInit PROVE IInv
  OBVIOUS
<1> USE IntakeAssumption DEF IntakeInit
<1>1. Counters
  BY DEF Counters, Steps
<1>2. FlagIsLimit
  BY DEF FlagIsLimit
<1>3. OnGuard
  BY DEF OnGuard
<1>4. Answers
  BY DEF Answers
<1>5. Coordinated
  BY DEF Coordinated
<1> QED
  BY <1>1, <1>2, <1>3, <1>4, <1>5 DEF IInv

(* Every step keeps the invariant. *)
LEMMA StepIInv == IInv /\ [IntakeNext]_intakeVars => IInv'
<1> SUFFICES ASSUME IInv, [IntakeNext]_intakeVars PROVE IInv'
  OBVIOUS
<1> USE IntakeAssumption DEF IInv, Counters, Steps, FlagIsLimit, OnGuard, Coordinated
<1>1. CASE PassThrough
  BY <1>1 DEF PassThrough, Answers, Guarded, DeclaredTooLarge, Refusal, TokenRefusal
<1>2. CASE RefuseDeclared
  BY <1>2 DEF RefuseDeclared, Answer, Answers, Guarded, DeclaredTooLarge, Refusal, TokenRefusal
<1>3. CASE Forward
  BY <1>3 DEF Forward, Answers, Guarded, DeclaredTooLarge, Refusal, TokenRefusal
<1>4. ASSUME NEW size \in ChunkSizes, NEW more \in BOOLEAN, Receive(size, more)
      PROVE  IInv'
  <2>1. size \in Nat
    OBVIOUS
  <2>2. CASE observed + size > MaxBytes
    BY <1>4, <2>1, <2>2
       DEF Receive, Answers, Guarded, DeclaredTooLarge, Refusal, TokenRefusal
  <2>3. CASE ~(observed + size > MaxBytes)
    BY <1>4, <2>1, <2>3
       DEF Receive, Answers, Guarded, DeclaredTooLarge, Refusal, TokenRefusal
  <2> QED
    BY <2>2, <2>3
<1>5. CASE Disconnect
  BY <1>5 DEF Disconnect, Answers, Guarded, DeclaredTooLarge, Refusal, TokenRefusal
<1>6. CASE Refuse
  BY <1>6, RefusalStatus DEF Refuse, Answers, Guarded, DeclaredTooLarge, Refusal, TokenRefusal
<1>7. CASE RunOnce
  BY <1>7 DEF RunOnce, Answers, Guarded, DeclaredTooLarge, Refusal, TokenRefusal
<1>8. CASE RunRaises
  BY <1>8 DEF RunRaises, Answer, Answers, Guarded, DeclaredTooLarge, Refusal, TokenRefusal
<1>9. CASE Reply
  BY <1>9 DEF Reply, Answers, Guarded, DeclaredTooLarge, Refusal, TokenRefusal
<1>10. CASE Conclude
  <2> USE <1>10 DEF Conclude, Guarded, DeclaredTooLarge, Refusal, TokenRefusal
  <2>1. (Counters /\ FlagIsLimit /\ OnGuard /\ Coordinated)'
    BY DEF Answer
  <2>2. CASE exceeded
    <3>1. answers' = <<413>> /\ exceeded' /\ step' = "ended" /\ Guarded'
      BY <2>2 DEF Answer, Answers
    <3> QED
      BY <2>1, <3>1 DEF Answers
  <2>3. CASE ~exceeded
    <3>1. answers' = <<reply>> /\ reply \in Nat /\ reply # 413 /\ UNCHANGED exceeded
      BY <2>3 DEF Answers
    <3>2. ~(DeclaredTooLarge \/ exceeded)' /\ step' = "ended" /\ Guarded'
      BY <2>3
    <3> QED
      BY <2>1, <3>1, <3>2 DEF Answers
  <2> QED
    BY <2>2, <2>3
<1>11. CASE UNCHANGED intakeVars
  BY <1>11 DEF intakeVars, Answers, Guarded, DeclaredTooLarge, Refusal, TokenRefusal
<1> QED
  BY <1>1, <1>2, <1>3, <1>4, <1>5, <1>6, <1>7, <1>8, <1>9, <1>10, <1>11 DEF IntakeNext

(* And the invariant refuses an oversize body. *)
LEMMA IInvRefuses == IInv => OversizeIsRefused
<1> SUFFICES ASSUME IInv PROVE OversizeIsRefused
  OBVIOUS
<1> USE IntakeAssumption DEF IInv, Counters, Steps, FlagIsLimit, OnGuard
<1> DEFINE Sent413 == 413 \in {answers[i] : i \in DOMAIN answers}
           Oversize == DeclaredTooLarge \/ observed > MaxBytes
<1>1. runs > 0 => /\ request.configured /\ request.wired /\ request.token = "right"
                  /\ request.body = "dry_run" /\ request.planKnown /\ observed <= MaxBytes
  BY NothingRefused DEF Coordinated
<1>2. CASE answers = <<>>
  <2>1. ~Sent413 /\ Len(answers) = 0
    BY <1>2
  <2>2. step = "ended" => ~Guarded
    BY <1>2 DEF Answers
  <2> QED
    BY <1>1, <2>1, <2>2 DEF OversizeIsRefused
<1>3. ASSUME NEW status, answers = <<status>> PROVE OversizeIsRefused
  <2>1. Len(answers) = 1 /\ (Sent413 <=> status = 413)
    BY <1>3
  <2>2. step \in {"returned", "ended"}
    BY <1>3 DEF Answers
  <2>3. CASE step = "returned"
    <3>1. status = reply
      BY <1>3, <2>3 DEF Answers
    <3> QED
      BY <1>1, <2>1, <2>3, <3>1 DEF OversizeIsRefused
  <2>4. CASE step = "ended"
    <3>1. Guarded /\ (status = 413 <=> (DeclaredTooLarge \/ exceeded))
      BY <1>3, <2>4 DEF Answers
    <3> QED
      BY <1>1, <2>1, <2>4, <3>1 DEF OversizeIsRefused
  <2> QED
    BY <2>2, <2>3, <2>4
<1> QED
  BY <1>2, <1>3 DEF Answers

(* However a body is cut into messages and whatever the application makes  *)
(* of the exception of limited_receive, an oversize request gets one 413   *)
(* and reaches neither the application nor the coordinator.                *)
THEOREM OversizeIsAlwaysRefused == IntakeSpec => []OversizeIsRefused
<1>1. IntakeSpec => []IInv
  BY InitIInv, StepIInv, PTL DEF IntakeSpec
<1> QED
  BY <1>1, IInvRefuses, PTL

-----------------------------------------------------------------------------
(* The values.                                                             *)

LevelStep(f, n) == [m \in 0 .. n |-> IF m = 0 THEN {Null} \cup Scalars ELSE Nested(f[m - 1])]

(* The levels exist: each is made from the one below.                      *)
LEMMA LevelsAreDefined ==
  /\ ValuesUpTo[0] = {Null} \cup Scalars
  /\ \A n \in Nat : ValuesUpTo[n + 1] = Nested(ValuesUpTo[n])
<1> DEFINE Base == {Null} \cup Scalars
           P == {n \in Nat : \E f : f = LevelStep(f, n)}
<1>1. 0 \in P
  <2> DEFINE f == [m \in 0 .. 0 |-> Base]
  <2>1. f = LevelStep(f, 0)
    BY DEF LevelStep
  <2> QED BY <2>1
<1>2. ASSUME NEW n \in P PROVE n + 1 \in P
  <2>1. PICK f : f = LevelStep(f, n)
    OBVIOUS
  <2> DEFINE g == [m \in 0 .. n + 1 |-> IF m <= n THEN f[m] ELSE Nested(f[n])]
  <2>2. \A m \in 0 .. n : g[m] = f[m]
    OBVIOUS
  <2>3. ASSUME NEW m \in 0 .. n + 1 PROVE g[m] = IF m = 0 THEN Base ELSE Nested(g[m - 1])
    <3>1. CASE m = 0
      BY <2>1, <2>2, <3>1 DEF LevelStep
    <3>2. CASE m # 0 /\ m <= n
      <4>1. m \in 0 .. n /\ m - 1 \in 0 .. n
        BY <3>2
      <4>2. f[m] = Nested(f[m - 1])
        BY <2>1, <3>2, <4>1 DEF LevelStep
      <4> QED BY <2>2, <3>2, <4>1, <4>2
    <3>3. CASE m = n + 1
      BY <2>2, <3>3
    <3> QED BY <3>1, <3>2, <3>3
  <2>4. g = [m \in 0 .. n + 1 |-> g[m]]
    OBVIOUS
  <2> HIDE DEF g
  <2>5. g = LevelStep(g, n + 1)
    BY <2>3, <2>4 DEF LevelStep
  <2> QED BY <2>5
<1>3. P = Nat
  <2>1. P \in SUBSET Nat
    OBVIOUS
  <2> HIDE DEF P
  <2> QED BY <1>1, <1>2, <2>1, InductionOverNat
<1>4. ASSUME NEW n \in Nat, NEW f, NEW g, f = LevelStep(f, n), g = LevelStep(g, n + 1)
      PROVE  f[n] = g[n]
  <2> DEFINE Q == {m \in 0 .. n : f[m] = g[m]}
  <2>1. 0 \in Q
    <3>1. f[0] = Base /\ g[0] = Base
      BY <1>4 DEF LevelStep
    <3> QED BY <3>1
  <2>2. ASSUME NEW m \in 1 .. n, m - 1 \in Q PROVE m \in Q
    <3>1. m \in 0 .. n /\ m \in 0 .. n + 1 /\ m # 0
      OBVIOUS
    <3>2. f[m] = Nested(f[m - 1])
      BY <1>4, <3>1 DEF LevelStep
    <3>3. g[m] = Nested(g[m - 1])
      BY <1>4, <3>1 DEF LevelStep
    <3> QED BY <2>2, <3>1, <3>2, <3>3
  <2>3. Q = 0 .. n
    <3>1. Q \in SUBSET (0 .. n)
      OBVIOUS
    <3> HIDE DEF Q
    <3> QED BY <2>1, <2>2, <3>1, InductionUpTo
  <2>4. n \in Q
    BY <2>3
  <2> QED BY <2>4
<1> DEFINE sol(n) == CHOOSE f : f = LevelStep(f, n)
           F == [n \in Nat |-> sol(n)[n]]
<1>5. \A n \in Nat : sol(n) = LevelStep(sol(n), n)
  BY <1>3
<1> HIDE DEF sol
<1>6. F[0] = Base
  BY <1>5 DEF LevelStep
<1>7. ASSUME NEW n \in Nat PROVE F[n + 1] = Nested(F[n])
  <2>1. n + 1 \in Nat /\ n + 1 \in 0 .. n + 1 /\ n + 1 # 0 /\ n + 1 - 1 = n
    OBVIOUS
  <2>2. sol(n + 1)[n + 1] = Nested(sol(n + 1)[n])
    BY <1>5, <2>1 DEF LevelStep
  <2>3. sol(n)[n] = sol(n + 1)[n]
    BY <1>4, <1>5, <2>1
  <2> QED BY <2>1, <2>2, <2>3
<1>8. F = [n \in Nat |-> F[n]]
  OBVIOUS
<1> HIDE DEF F
<1>9. F = [n \in Nat |-> IF n = 0 THEN Base ELSE Nested(F[n - 1])]
  <2>1. ASSUME NEW n \in Nat PROVE F[n] = IF n = 0 THEN Base ELSE Nested(F[n - 1])
    <3>1. CASE n = 0
      BY <1>6, <3>1
    <3>2. CASE n # 0
      <4>1. n - 1 \in Nat /\ n - 1 + 1 = n
        BY <3>2
      <4> QED BY <1>7, <3>2, <4>1
    <3> QED BY <3>1, <3>2
  <2> QED BY <1>8, <2>1
<1>10. ValuesUpTo = [n \in Nat |-> IF n = 0 THEN Base ELSE Nested(ValuesUpTo[n - 1])]
  BY <1>9 DEF ValuesUpTo
<1> HIDE DEF Base
<1>11. ValuesUpTo[0] = Base
  BY <1>10
<1>12. ASSUME NEW n \in Nat PROVE ValuesUpTo[n + 1] = Nested(ValuesUpTo[n])
  <2>1. n + 1 \in Nat /\ n + 1 # 0 /\ n + 1 - 1 = n
    OBVIOUS
  <2> QED BY <1>10, <2>1
<1> QED
  BY <1>11, <1>12 DEF Base

(* What a value of a level is.                                             *)
LEMMA LevelKinds ==
  ASSUME NEW n \in Nat, NEW v \in ValuesUpTo[n]
  PROVE  /\ v.kind \in {"null", "scalar", "list", "map"}
         /\ v.kind = "null" <=> v = Null
         /\ v.kind = "scalar" <=> v \in Scalars
         /\ v.kind = "list" => n > 0 /\ v \in ListsOver(ValuesUpTo[n - 1])
         /\ v.kind = "map" => /\ n > 0 /\ v \in MapsOver(ValuesUpTo[n - 1])
                              /\ v.at \in [Keys -> ValuesUpTo[n - 1] \cup {Absent}] /\ v = Map(v.at)
<1>1. Null.kind = "null" /\ \A s \in Scalars : s.kind = "scalar"
  BY ScalarsAssumption DEF Null
<1>2. CASE n = 0
  BY <1>1, <1>2, LevelsAreDefined
<1>3. CASE n # 0
  <2>1. n - 1 \in Nat /\ n = n - 1 + 1 /\ n > 0
    BY <1>3
  <2> DEFINE below == ValuesUpTo[n - 1]
  <2>2. v \in Nested(below)
    BY <2>1, LevelsAreDefined
  <2> HIDE DEF below
  <2>3. CASE v \in {Null} \cup Scalars
    BY <1>1, <2>3
  <2>4. CASE v \in ListsOver(below)
    <3>1. v.kind = "list"
      BY <2>4 DEF ListsOver
    <3> QED BY <1>1, <2>1, <2>4, <3>1 DEF below
  <2>5. CASE v \in MapsOver(below)
    <3>1. v.kind = "map" /\ v.at \in [Keys -> below \cup {Absent}] /\ v = Map(v.at)
      BY <2>5 DEF MapsOver, Map
    <3> QED BY <1>1, <2>1, <2>5, <3>1 DEF below
  <2> QED BY <2>2, <2>3, <2>4, <2>5 DEF Nested
<1> QED BY <1>2, <1>3

(* What lists and maps are made of may be more.                            *)
LEMMA NestingGrows ==
  ASSUME NEW A, NEW B, A \subseteq B
  PROVE  /\ MapsOver(A) \subseteq MapsOver(B) /\ ListsOver(A) \subseteq ListsOver(B)
         /\ Nested(A) \subseteq Nested(B)
<1>1. MapsOver(A) \subseteq MapsOver(B)
  <2>1. [Keys -> A \cup {Absent}] \subseteq [Keys -> B \cup {Absent}]
    OBVIOUS
  <2> QED BY <2>1 DEF MapsOver
<1>2. ListsOver(A) \subseteq ListsOver(B)
  <2>1. Seq(A) \subseteq Seq(B)
    BY SeqMonotonic
  <2> QED BY <2>1 DEF ListsOver
<1> QED BY <1>1, <1>2 DEF Nested

(* Each level is part of the next one, and all are Values.                 *)
LEMMA LevelsGrow ==
  /\ \A n \in Nat : ValuesUpTo[n] \subseteq ValuesUpTo[n + 1]
  /\ \A n \in 0 .. MaxNesting : ValuesUpTo[n] \subseteq Values
  /\ Parts \subseteq Values
<1> DEFINE T == {n \in Nat : ValuesUpTo[n] \subseteq ValuesUpTo[n + 1]}
<1>1. 0 \in T
  <2>1. ValuesUpTo[0 + 1] = Nested(ValuesUpTo[0]) /\ ValuesUpTo[0] = {Null} \cup Scalars
    BY LevelsAreDefined
  <2> QED BY <2>1 DEF Nested
<1>2. ASSUME NEW n \in T PROVE n + 1 \in T
  <2>1. /\ ValuesUpTo[n + 1] = Nested(ValuesUpTo[n])
        /\ ValuesUpTo[n + 1 + 1] = Nested(ValuesUpTo[n + 1])
    BY LevelsAreDefined
  <2>2. Nested(ValuesUpTo[n]) \subseteq Nested(ValuesUpTo[n + 1])
    BY NestingGrows
  <2> QED BY <2>1, <2>2
<1>3. T = Nat
  <2>1. T \in SUBSET Nat
    OBVIOUS
  <2> HIDE DEF T
  <2> QED BY <1>1, <1>2, <2>1, InductionOverNat
<1>4. \A n \in Nat : ValuesUpTo[n] \subseteq ValuesUpTo[n + 1]
  BY <1>3
<1>5. MaxNesting \in Nat
  BY NestingAssumption
<1> DEFINE U == {k \in 0 .. MaxNesting : ValuesUpTo[MaxNesting - k] \subseteq Values}
<1>6. U = 0 .. MaxNesting
  <2>1. 0 \in U
    BY <1>5 DEF Values
  <2>2. ASSUME NEW k \in 1 .. MaxNesting, k - 1 \in U PROVE k \in U
    <3>1. MaxNesting - k \in Nat /\ MaxNesting - k + 1 = MaxNesting - (k - 1) /\ k \in 0 .. MaxNesting
      BY <1>5
    <3>2. ValuesUpTo[MaxNesting - k] \subseteq ValuesUpTo[MaxNesting - (k - 1)]
      BY <1>4, <3>1
    <3> QED BY <2>2, <3>1, <3>2
  <2>3. U \in SUBSET (0 .. MaxNesting)
    OBVIOUS
  <2> HIDE DEF U
  <2> QED BY <1>5, <2>1, <2>2, <2>3, InductionUpTo
<1>7. ASSUME NEW n \in 0 .. MaxNesting PROVE ValuesUpTo[n] \subseteq Values
  <2>1. MaxNesting - n \in U /\ MaxNesting - (MaxNesting - n) = n
    BY <1>5, <1>6
  <2> QED BY <2>1
<1>8. MaxNesting - 1 \in 0 .. MaxNesting
  BY NestingAssumption
<1> QED
  BY <1>4, <1>7, <1>8 DEF Parts

(* The values, by kind.                                                    *)
LEMMA ValueKinds ==
  ASSUME NEW v \in Values
  PROVE  /\ v.kind \in {"null", "scalar", "list", "map"}
         /\ v.kind = "null" <=> v = Null
         /\ v.kind = "scalar" <=> v \in Scalars
         /\ v.kind = "list" => v \in ListsOver(Parts)
         /\ v.kind = "map" => /\ v \in MapsOver(Parts)
                              /\ v.at \in [Keys -> Parts \cup {Absent}] /\ v = Map(v.at)
BY NestingAssumption, LevelKinds DEF Values, Parts

(* Values are neither directives nor errors, nor is one missing.           *)
LEMMA ValuesAreValues ==
  /\ \A v \in Values : v # Absent /\ v # Delete /\ v # Error
  /\ Absent # Delete /\ Absent # Error /\ Delete # Error
  /\ Absent # Null /\ Delete # Null /\ Error # Null
  /\ Absent.kind = "absent" /\ Delete.kind = "delete" /\ Error.kind = "error" /\ Null.kind = "null"
<1>1. Absent.kind = "absent" /\ Delete.kind = "delete" /\ Error.kind = "error" /\ Null.kind = "null"
  BY DEF Absent, Delete, Error, Null
<1> QED
  BY <1>1, ValueKinds

(* The values are nested parts, and the scalars are parts.                 *)
LEMMA ValuesAreNested ==
  /\ Values = Nested(Parts) /\ Null \in Values /\ Null \in Parts /\ Scalars \subseteq Parts
<1>1. MaxNesting - 1 \in Nat /\ MaxNesting - 1 + 1 = MaxNesting
  BY NestingAssumption
<1>2. Values = Nested(Parts)
  BY <1>1, LevelsAreDefined DEF Values, Parts
<1> DEFINE T == {n \in Nat : {Null} \cup Scalars \subseteq ValuesUpTo[n]}
<1>3. T = Nat
  <2>1. 0 \in T
    BY LevelsAreDefined
  <2>2. \A n \in T : n + 1 \in T
    BY LevelsGrow
  <2>3. T \in SUBSET Nat
    OBVIOUS
  <2> HIDE DEF T
  <2> QED BY <2>1, <2>2, <2>3, InductionOverNat
<1>4. MaxNesting - 1 \in T
  BY <1>1, <1>3
<1> QED
  BY <1>2, <1>4, LevelsGrow DEF Parts

-----------------------------------------------------------------------------
(* Merging values.                                                         *)

(* How deep a value is nested.                                             *)
Level == [v \in Values |-> CHOOSE n \in 0 .. MaxNesting :
            v \in ValuesUpTo[n] /\ \A m \in 0 .. MaxNesting : v \in ValuesUpTo[m] => n <= m]

(* What a map holds is nested less deep than the map.                      *)
LEMMA LevelFalls ==
  /\ Level \in [Values -> Nat]
  /\ \A v \in Values, key \in Keys :
       v.kind = "map" /\ v.at[key] # Absent => v.at[key] \in Values /\ Level[v.at[key]] < Level[v]
<1>1. MaxNesting \in Nat
  BY NestingAssumption
<1>2. ASSUME NEW v \in Values
      PROVE  /\ Level[v] \in 0 .. MaxNesting /\ v \in ValuesUpTo[Level[v]]
             /\ \A m \in 0 .. MaxNesting : v \in ValuesUpTo[m] => Level[v] <= m
  <2> DEFINE T == {m \in 0 .. MaxNesting : v \in ValuesUpTo[m]}
  <2>1. MaxNesting \in T
    BY <1>1 DEF Values
  <2>2. T \in SUBSET Nat /\ T # {}
    BY <2>1
  <2>3. \E n \in T : \A m \in T : n <= m
    <3> HIDE DEF T
    <3> QED BY <2>2, LeastElement
  <2>4. \E n \in 0 .. MaxNesting : v \in ValuesUpTo[n] /\ \A m \in 0 .. MaxNesting : v \in ValuesUpTo[m] => n <= m
    BY <2>3
  <2> QED BY <2>4 DEF Level
<1>3. Level \in [Values -> Nat]
  BY <1>2 DEF Level
<1>4. ASSUME NEW v \in Values, NEW key \in Keys, v.kind = "map", v.at[key] # Absent
      PROVE  v.at[key] \in Values /\ Level[v.at[key]] < Level[v]
  <2> DEFINE n == Level[v]
  <2>1. n \in 0 .. MaxNesting /\ n \in Nat /\ v \in ValuesUpTo[n]
    BY <1>2
  <2> HIDE DEF n
  <2>2. n > 0 /\ v.at \in [Keys -> ValuesUpTo[n - 1] \cup {Absent}]
    BY <1>4, <2>1, LevelKinds
  <2>3. v.at[key] \in ValuesUpTo[n - 1] /\ n - 1 \in 0 .. MaxNesting
    BY <1>1, <1>4, <2>1, <2>2
  <2>4. v.at[key] \in Values
    BY <2>3, LevelsGrow
  <2>5. Level[v.at[key]] <= n - 1 /\ Level[v.at[key]] \in 0 .. MaxNesting
    BY <1>2, <2>3, <2>4
  <2> QED BY <2>1, <2>4, <2>5 DEF n
<1> QED BY <1>3, <1>4

Pairs == Values \X Values
MapPair(p) == p[1].kind = "map" /\ p[2].kind = "map"
BothAt(p, key) == p[1].at[key] # Absent /\ p[2].at[key] # Absent

(* Merging needs the merges of what two maps have in common, and no other. *)
LEMMA MergedValueIsLocal ==
  ASSUME NEW p \in Pairs, NEW f, NEW g,
         MapPair(p) => \A key \in Keys :
           BothAt(p, key) => f[<<p[1].at[key], p[2].at[key]>>] = g[<<p[1].at[key], p[2].at[key]>>]
  PROVE  MergedValue(p[1], p[2], f) = MergedValue(p[1], p[2], g)
<1>1. p[1] \in Values /\ p[2] \in Values
  BY DEF Pairs
<1>2. CASE MapPair(p)
  <2> DEFINE at(merge) == [k \in Keys |->
                  IF p[2].at[k] = Absent THEN p[1].at[k]
                  ELSE IF p[1].at[k] = Absent THEN p[2].at[k]
                  ELSE merge[<<p[1].at[k], p[2].at[k]>>]]
  <2>1. at(f) = at(g)
    BY <1>2 DEF BothAt
  <2> QED BY <2>1 DEF MergedValue
<1>3. CASE ~ MapPair(p)
  <2>1. TypeOf(p[1]) = TypeOf(p[2]) => p[1].kind = p[2].kind
    BY DEF TypeOf
  <2> QED BY <1>3, <2>1 DEF MergedValue, MapPair
<1> QED BY <1>2, <1>3

(* Two values of a level merge into a value of the level, or not at all.   *)
LEMMA MergedLevel ==
  ASSUME NEW n \in Nat, NEW l \in ValuesUpTo[n], NEW h \in ValuesUpTo[n], NEW merge,
         l.kind = "map" /\ h.kind = "map" => \A key \in Keys :
           l.at[key] # Absent /\ h.at[key] # Absent =>
             merge[<<l.at[key], h.at[key]>>] \in ValuesUpTo[n - 1] \cup {Error}
  PROVE  MergedValue(l, h, merge) \in ValuesUpTo[n] \cup {Error}
<1>1. CASE l.kind = "map" /\ h.kind = "map"
  <2>1. /\ n > 0 /\ n - 1 \in Nat /\ n - 1 + 1 = n
        /\ l.at \in [Keys -> ValuesUpTo[n - 1] \cup {Absent}]
        /\ h.at \in [Keys -> ValuesUpTo[n - 1] \cup {Absent}]
    BY <1>1, LevelKinds
  <2> DEFINE at == [k \in Keys |->
                  IF h.at[k] = Absent THEN l.at[k]
                  ELSE IF l.at[k] = Absent THEN h.at[k]
                  ELSE merge[<<l.at[k], h.at[k]>>]]
  <2>2. \A k \in Keys : at[k] \in ValuesUpTo[n - 1] \cup {Absent, Error}
    BY <1>1, <2>1
  <2>3. at = [k \in Keys |-> at[k]]
    OBVIOUS
  <2>4. MergedValue(l, h, merge) \in {h, Error, Checked(at)}
    BY <1>1 DEF MergedValue
  <2> HIDE DEF at
  <2>5. CASE \E k \in Keys : at[k] = Error
    BY <2>4, <2>5 DEF Checked
  <2>6. CASE ~ \E k \in Keys : at[k] = Error
    <3>1. at \in [Keys -> ValuesUpTo[n - 1] \cup {Absent}]
      BY <2>2, <2>3, <2>6
    <3>2. Map(at) \in MapsOver(ValuesUpTo[n - 1])
      BY <3>1 DEF Map, MapsOver
    <3>3. Map(at) \in ValuesUpTo[n]
      BY <2>1, <3>2, LevelsAreDefined DEF Nested
    <3> QED BY <2>4, <2>6, <3>3 DEF Checked
  <2> QED BY <2>5, <2>6
<1>2. CASE ~ (l.kind = "map" /\ h.kind = "map")
  <2>1. TypeOf(l) = TypeOf(h) => l.kind = h.kind
    BY DEF TypeOf
  <2> QED BY <1>2, <2>1 DEF MergedValue
<1> QED BY <1>1, <1>2

(* The merges exist, and stay on the level of what is merged.              *)
LEMMA MergesAreDefined ==
  /\ \A l, h \in Values : MergeValue(l, h) = MergedValue(l, h, Merges)
  /\ \A n \in 0 .. MaxNesting : \A l, h \in ValuesUpTo[n] : MergeValue(l, h) \in ValuesUpTo[n] \cup {Error}
<1> DEFINE T == Values \cup {Error}
           height == [p \in Pairs |-> Level[p[1]]]
           Cut(p, f) == IF MergedValue(p[1], p[2], f) \in T THEN MergedValue(p[1], p[2], f) ELSE Error
           G == [x \in Pairs \X [Pairs -> T] |-> Cut(x[1], x[2])]
<1>1. \A p \in Pairs : p = <<p[1], p[2]>> /\ p[1] \in Values /\ p[2] \in Values
  BY DEF Pairs
<1>2. \A l, h \in Values : <<l, h>> \in Pairs
  BY DEF Pairs
<1>3. height \in [Pairs -> Nat] /\ \A p \in Pairs : height[p] = Level[p[1]]
  BY <1>1, LevelFalls
<1>4. ASSUME NEW p \in Pairs, NEW key \in Keys, MapPair(p), BothAt(p, key)
      PROVE  /\ p[1].at[key] \in Values /\ p[2].at[key] \in Values
             /\ <<p[1].at[key], p[2].at[key]>> \in Pairs
             /\ height[<<p[1].at[key], p[2].at[key]>>] < height[p]
  <2>1. /\ p[1].at[key] \in Values /\ Level[p[1].at[key]] < Level[p[1]] /\ p[2].at[key] \in Values
    BY <1>1, <1>4, LevelFalls DEF MapPair, BothAt
  <2>2. <<p[1].at[key], p[2].at[key]>> \in Pairs
    BY <1>2, <2>1
  <2> HIDE DEF height
  <2> QED BY <1>3, <2>1, <2>2
<1>5. IsRecursion(Pairs, height, T, G)
  <2>1. \A p \in Pairs, f \in [Pairs -> T] : G[<<p, f>>] = Cut(p, f)
    OBVIOUS
  <2>2. G \in [Pairs \X [Pairs -> T] -> T]
    OBVIOUS
  <2>3. ASSUME NEW p \in Pairs, NEW f \in [Pairs -> T], NEW g \in [Pairs -> T],
               \A x \in Pairs : height[x] < height[p] => f[x] = g[x]
        PROVE  G[<<p, f>>] = G[<<p, g>>]
    <3> HIDE DEF G, height, T
    <3>1. MapPair(p) => \A key \in Keys :
            BothAt(p, key) => f[<<p[1].at[key], p[2].at[key]>>] = g[<<p[1].at[key], p[2].at[key]>>]
      BY <1>4, <2>3
    <3>2. MergedValue(p[1], p[2], f) = MergedValue(p[1], p[2], g)
      BY <3>1, MergedValueIsLocal
    <3> QED BY <2>1, <3>2
  <2>4. T # {}
    OBVIOUS
  <2> HIDE DEF G, height, T
  <2> QED BY <1>3, <2>2, <2>3, <2>4 DEF IsRecursion
<1>6. PICK F \in [Pairs -> T] : \A p \in Pairs : F[p] = Cut(p, F)
  <2>1. \A p \in Pairs, f \in [Pairs -> T] : G[<<p, f>>] = Cut(p, f)
    OBVIOUS
  <2> HIDE DEF G, height, T, Cut
  <2>2. \E f \in [Pairs -> T] : \A p \in Pairs : f[p] = G[<<p, f>>]
    BY <1>5, HeightRecursion
  <2> QED BY <2>1, <2>2
<1> HIDE DEF G
<1> DEFINE Stays(p, f) == \A n \in 0 .. MaxNesting :
             p[1] \in ValuesUpTo[n] /\ p[2] \in ValuesUpTo[n] => f[p] \in ValuesUpTo[n] \cup {Error}
<1>7. ASSUME NEW f, NEW p \in Pairs, \A x \in Pairs : height[x] < height[p] => Stays(x, f),
             NEW n \in 0 .. MaxNesting, p[1] \in ValuesUpTo[n], p[2] \in ValuesUpTo[n]
      PROVE  MergedValue(p[1], p[2], f) \in ValuesUpTo[n] \cup {Error}
  <2>1. n \in Nat
    BY NestingAssumption
  <2>2. ASSUME MapPair(p), NEW key \in Keys, BothAt(p, key)
        PROVE  f[<<p[1].at[key], p[2].at[key]>>] \in ValuesUpTo[n - 1] \cup {Error}
    <3> DEFINE x == <<p[1].at[key], p[2].at[key]>>
    <3>1. Stays(x, f)
      BY <1>4, <1>7, <2>2
    <3>2. /\ n > 0 /\ p[1].at \in [Keys -> ValuesUpTo[n - 1] \cup {Absent}]
          /\ p[2].at \in [Keys -> ValuesUpTo[n - 1] \cup {Absent}]
      BY <1>7, <2>1, <2>2, LevelKinds DEF MapPair
    <3>3. x[1] \in ValuesUpTo[n - 1] /\ x[2] \in ValuesUpTo[n - 1]
      BY <2>2, <3>2 DEF BothAt
    <3>4. n - 1 \in 0 .. MaxNesting
      BY <2>1, <3>2, NestingAssumption
    <3> HIDE DEF x
    <3>5. f[x] \in ValuesUpTo[n - 1] \cup {Error}
      BY <3>1, <3>3, <3>4
    <3> QED BY <3>5 DEF x
  <2> QED BY <1>7, <2>1, <2>2, MergedLevel DEF MapPair, BothAt
<1> DEFINE P == {p \in Pairs : Stays(p, F) /\ F[p] = MergedValue(p[1], p[2], F)}
<1>8. P = Pairs
  <2>1. ASSUME NEW p \in Pairs, \A x \in Pairs : height[x] < height[p] => x \in P
        PROVE  p \in P
    <3>1. \A n \in 0 .. MaxNesting : p[1] \in ValuesUpTo[n] /\ p[2] \in ValuesUpTo[n] =>
            MergedValue(p[1], p[2], F) \in ValuesUpTo[n] \cup {Error}
      BY <1>7, <2>1
    <3>2. MaxNesting \in 0 .. MaxNesting /\ p[1] \in Values /\ p[2] \in Values
      BY <1>1, NestingAssumption
    <3>3. MergedValue(p[1], p[2], F) \in T
      BY <3>1, <3>2 DEF Values
    <3>4. F[p] = MergedValue(p[1], p[2], F)
      BY <1>6, <3>3
    <3> QED BY <3>1, <3>4
  <2>2. P \in SUBSET Pairs
    OBVIOUS
  <2> HIDE DEF P, height
  <2> QED BY <1>3, <2>1, <2>2, HeightInduction
<1> DEFINE Step(f) == [p \in Pairs |-> MergedValue(p[1], p[2], f)]
<1>9. F = Step(F)
  BY <1>6, <1>8
<1>10. Merges = CHOOSE f : f = Step(f)
  BY DEF Merges, Pairs
<1>11. Merges = Step(Merges)
  <2> HIDE DEF Step
  <2> QED BY <1>9, <1>10
<1>12. \A p \in Pairs : Merges[p] = MergedValue(p[1], p[2], Merges)
  <2>1. ASSUME NEW f, f = Step(f), NEW p \in Pairs PROVE f[p] = MergedValue(p[1], p[2], f)
    BY <2>1
  <2> HIDE DEF Step
  <2> QED BY <1>11, <2>1
<1> DEFINE Q == {p \in Pairs : Stays(p, Merges)}
<1>13. Q = Pairs
  <2>1. ASSUME NEW p \in Pairs, \A x \in Pairs : height[x] < height[p] => x \in Q
        PROVE  p \in Q
    BY <1>7, <1>12, <2>1
  <2>2. Q \in SUBSET Pairs
    OBVIOUS
  <2> HIDE DEF Q, height
  <2> QED BY <1>3, <2>1, <2>2, HeightInduction
<1>14. ASSUME NEW n \in 0 .. MaxNesting, NEW l \in ValuesUpTo[n], NEW h \in ValuesUpTo[n]
       PROVE  MergeValue(l, h) \in ValuesUpTo[n] \cup {Error}
  <2>1. l \in Values /\ h \in Values /\ <<l, h>> \in Pairs
    BY <1>2, LevelsGrow
  <2>2. Stays(<<l, h>>, Merges)
    BY <1>13, <2>1
  <2> QED BY <2>2 DEF MergeValue
<1> HIDE DEF Step
<1> QED
  BY <1>2, <1>12, <1>14 DEF MergeValue

(* A merge, unfolded.                                                      *)
LEMMA MergeUnfolds ==
  ASSUME NEW l \in Values, NEW h \in Values
  PROVE  LET at == [k \in Keys |-> IF h.at[k] = Absent THEN l.at[k]
                                   ELSE IF l.at[k] = Absent THEN h.at[k]
                                   ELSE MergeValue(l.at[k], h.at[k])]
         IN  MergeValue(l, h) = IF h = Null \/ l = Null THEN h
                                ELSE IF TypeOf(l) # TypeOf(h) THEN Error
                                ELSE IF l.kind # "map" THEN h
                                ELSE Checked(at)
BY MergesAreDefined DEF MergedValue, MergeValue

(* A merge gives a value, or an error.                                     *)
LEMMA MergeType ==
  /\ \A l, h \in Values : MergeValue(l, h) \in Values \cup {Error}
  /\ \A l, h \in Parts : MergeValue(l, h) \in Parts \cup {Error}
<1>1. MaxNesting \in 0 .. MaxNesting /\ MaxNesting - 1 \in 0 .. MaxNesting
  BY NestingAssumption
<1> QED BY <1>1, MergesAreDefined DEF Values, Parts

-----------------------------------------------------------------------------
(* Paths.                                                                  *)

(* A path is followed key by key.                                          *)
LEMMA AlongUnfolds ==
  ASSUME NEW v, NEW path, Len(path) \in Nat
  PROVE  /\ Along(v, path)[0] = v
         /\ \A n \in 1 .. Len(path) : Along(v, path)[n] = Child(Along(v, path)[n - 1], path[n])
<1> DEFINE N == Len(path)
           Step(f, n) == [m \in 0 .. n |-> IF m = 0 THEN v ELSE Child(f[m - 1], path[m])]
           T == {n \in 0 .. N : \E f : f = Step(f, n)}
<1>1. 0 \in T
  <2> DEFINE f == [m \in 0 .. 0 |-> v]
  <2>1. f = Step(f, 0) /\ 0 \in 0 .. N
    OBVIOUS
  <2> HIDE DEF f, Step
  <2> QED BY <2>1
<1>2. ASSUME NEW n \in 1 .. N, n - 1 \in T PROVE n \in T
  <2>1. PICK f : f = Step(f, n - 1)
    BY <1>2
  <2> DEFINE g == [m \in 0 .. n |-> IF m < n THEN f[m] ELSE Child(f[n - 1], path[n])]
  <2>2. ASSUME NEW m \in 0 .. n PROVE g[m] = IF m = 0 THEN v ELSE Child(g[m - 1], path[m])
    <3>1. CASE m < n
      <4>1. m \in 0 .. n - 1 /\ g[m] = f[m]
        BY <3>1
      <4>2. f[m] = IF m = 0 THEN v ELSE Child(f[m - 1], path[m])
        BY <2>1, <4>1
      <4>3. m # 0 => g[m - 1] = f[m - 1]
        BY <4>1
      <4> QED BY <4>1, <4>2, <4>3
    <3>2. CASE m = n
      BY <3>2
    <3> QED BY <3>1, <3>2
  <2>3. g = [m \in 0 .. n |-> g[m]]
    OBVIOUS
  <2> HIDE DEF g
  <2>4. g = Step(g, n)
    BY <2>2, <2>3
  <2> QED BY <2>4
<1>3. T = 0 .. N
  <2>1. T \in SUBSET (0 .. N)
    OBVIOUS
  <2> HIDE DEF T
  <2> QED BY <1>1, <1>2, <2>1, InductionUpTo
<1>4. \E f : f = Step(f, N)
  BY <1>3
<1>5. Along(v, path) = CHOOSE f : f = Step(f, N)
  BY DEF Along
<1>6. Along(v, path) = Step(Along(v, path), N)
  <2> HIDE DEF Step
  <2> QED BY <1>4, <1>5
<1> QED BY <1>6

(* A path is a sequence of keys, no longer than values are deep.           *)
LEMMA PathsArePaths ==
  ASSUME NEW path \in Paths
  PROVE  /\ Len(path) \in 0 .. MaxNesting /\ Len(path) \in Nat /\ path \in [1 .. Len(path) -> Keys]
<1>1. PICK n \in 0 .. MaxNesting : path \in [1 .. n -> Keys]
  BY DEF Paths
<1>2. n \in Nat
  BY NestingAssumption
<1>3. Len(path) = n
  BY <1>1, <1>2
<1> QED BY <1>1, <1>2, <1>3

(* Along a path through a value there are values, and then nothing.        *)
LEMMA AlongValues ==
  ASSUME NEW v \in Values \cup {Absent}, NEW path \in Paths
  PROVE  \A n \in 0 .. Len(path) : Along(v, path)[n] \in Values \cup {Absent}
<1> DEFINE a == Along(v, path)
           T == {n \in 0 .. Len(path) : a[n] \in Values \cup {Absent}}
<1>1. Len(path) \in Nat /\ \A n \in 1 .. Len(path) : path[n] \in Keys
  BY PathsArePaths
<1>2. a[0] = v /\ \A n \in 1 .. Len(path) : a[n] = Child(a[n - 1], path[n])
  BY <1>1, AlongUnfolds
<1> HIDE DEF a
<1>3. ASSUME NEW w \in Values \cup {Absent}, NEW key \in Keys PROVE Child(w, key) \in Values \cup {Absent}
  BY ValueKinds, ValuesAreValues, LevelsGrow DEF Child
<1>4. 0 \in T
  BY <1>1, <1>2
<1>5. ASSUME NEW n \in 1 .. Len(path), n - 1 \in T PROVE n \in T
  <2>1. Child(a[n - 1], path[n]) \in Values \cup {Absent} /\ n \in 0 .. Len(path)
    BY <1>1, <1>3, <1>5
  <2> QED BY <1>2, <2>1
<1>6. T = 0 .. Len(path)
  <2>1. T \in SUBSET (0 .. Len(path))
    OBVIOUS
  <2> HIDE DEF T
  <2> QED BY <1>1, <1>4, <1>5, <2>1, InductionUpTo
<1> QED
  BY <1>6 DEF a

(* Nothing is below nothing.                                               *)
LEMMA NothingIsSilent ==
  ASSUME NEW path \in Paths
  PROVE  /\ \A n \in 0 .. Len(path) : Along(Absent, path)[n] = Absent
         /\ At(Absent, path) = Absent /\ ~ Speaks(Absent, path)
<1> DEFINE a == Along(Absent, path)
           T == {n \in 0 .. Len(path) : a[n] = Absent}
<1>1. Len(path) \in Nat
  BY PathsArePaths
<1>2. a[0] = Absent /\ \A n \in 1 .. Len(path) : a[n] = Child(a[n - 1], path[n])
  BY <1>1, AlongUnfolds
<1> HIDE DEF a
<1>3. \A key : Child(Absent, key) = Absent
  BY DEF Child, Absent
<1>4. T = 0 .. Len(path)
  <2>1. 0 \in T
    BY <1>1, <1>2
  <2>2. \A n \in 1 .. Len(path) : n - 1 \in T => n \in T
    BY <1>2, <1>3
  <2>3. T \in SUBSET (0 .. Len(path))
    OBVIOUS
  <2> HIDE DEF T
  <2> QED BY <1>1, <2>1, <2>2, <2>3, InductionUpTo
<1>5. \A n \in 0 .. Len(path) : a[n] = Absent
  BY <1>4
<1>6. Len(path) \in 0 .. Len(path) /\ Absent.kind = "absent"
  BY <1>1 DEF Absent
<1> QED
  BY <1>5, <1>6 DEF a, At, Speaks

(* A path from the second key on.                                          *)
LEMMA AlongAgrees ==
  ASSUME NEW v, NEW w, NEW path \in Paths, Len(path) > 0, Child(v, path[1]) = Child(w, path[1])
  PROVE  /\ \A n \in 1 .. Len(path) : Along(v, path)[n] = Along(w, path)[n]
         /\ At(v, path) = At(w, path)
<1> DEFINE a == Along(v, path)
           b == Along(w, path)
           T == {n \in 0 .. Len(path) : n > 0 => a[n] = b[n]}
<1>1. Len(path) \in Nat /\ Len(path) \in 1 .. Len(path)
  BY PathsArePaths
<1>2. /\ a[0] = v /\ \A n \in 1 .. Len(path) : a[n] = Child(a[n - 1], path[n])
      /\ b[0] = w /\ \A n \in 1 .. Len(path) : b[n] = Child(b[n - 1], path[n])
  BY <1>1, AlongUnfolds
<1> HIDE DEF a, b
<1>3. T = 0 .. Len(path)
  <2>1. 0 \in T
    BY <1>1
  <2>2. ASSUME NEW n \in 1 .. Len(path), n - 1 \in T PROVE n \in T
    <3>1. n \in 0 .. Len(path) /\ a[n] = Child(a[n - 1], path[n]) /\ b[n] = Child(b[n - 1], path[n])
      BY <1>2
    <3>2. CASE n = 1
      BY <1>2, <3>1, <3>2
    <3>3. CASE n > 1
      <4>1. a[n - 1] = b[n - 1]
        BY <2>2, <3>3
      <4> QED BY <3>1, <4>1
    <3> QED BY <3>2, <3>3
  <2>3. T \in SUBSET (0 .. Len(path))
    OBVIOUS
  <2> HIDE DEF T
  <2> QED BY <1>1, <2>1, <2>2, <2>3, InductionUpTo
<1>4. \A n \in 1 .. Len(path) : a[n] = b[n]
  BY <1>3
<1> QED
  BY <1>1, <1>4 DEF a, b, At

(* A path below a key.                                                     *)
LEMMA AlongBelow ==
  ASSUME NEW v, NEW key, NEW rest, NEW path, Len(rest) \in Nat, Len(path) = Len(rest) + 1,
         path[1] = key, \A n \in 1 .. Len(rest) : path[n + 1] = rest[n]
  PROVE  At(v, path) = At(Child(v, key), rest)
<1> DEFINE a == Along(v, path)
           b == Along(Child(v, key), rest)
           T == {n \in 0 .. Len(rest) : a[n + 1] = b[n]}
<1>1. Len(path) \in Nat
  OBVIOUS
<1>2. /\ a[0] = v /\ \A n \in 1 .. Len(path) : a[n] = Child(a[n - 1], path[n])
      /\ b[0] = Child(v, key) /\ \A n \in 1 .. Len(rest) : b[n] = Child(b[n - 1], rest[n])
  BY <1>1, AlongUnfolds
<1> HIDE DEF a, b
<1>3. 0 \in T
  <2>1. 1 \in 1 .. Len(path)
    BY <1>1
  <2> QED BY <1>2, <2>1
<1>4. ASSUME NEW n \in 1 .. Len(rest), n - 1 \in T PROVE n \in T
  <2>1. n \in 0 .. Len(rest) /\ n + 1 \in 1 .. Len(path) /\ n + 1 - 1 = n /\ n - 1 + 1 = n
    OBVIOUS
  <2>2. a[n + 1] = Child(a[n], path[n + 1])
    BY <1>2, <2>1
  <2>3. a[n] = b[n - 1]
    BY <1>4, <2>1
  <2> QED BY <1>2, <2>1, <2>2, <2>3
<1>5. T = 0 .. Len(rest)
  <2>1. T \in SUBSET (0 .. Len(rest))
    OBVIOUS
  <2> HIDE DEF T
  <2> QED BY <1>3, <1>4, <2>1, InductionUpTo
<1>6. Len(rest) \in T
  BY <1>5
<1> QED
  BY <1>6 DEF a, b, At

-----------------------------------------------------------------------------
(* What merging does to a path.                                            *)

(* The result holds what the higher value says about a path, or what the   *)
(* lower one holds.                                                        *)
Overlays(result, lower, higher, path) ==
  IF Speaks(higher, path) THEN Says(At(result, path), At(higher, path))
  ELSE At(result, path) = At(lower, path)

(* Values that merge do not clash, and the result says what the higher one *)
(* does.                                                                   *)
LEMMA MergeSays ==
  ASSUME NEW l \in Values, NEW h \in Values, MergeValue(l, h) # Error
  PROVE  /\ MergeValue(l, h) \in Values /\ Says(MergeValue(l, h), h) /\ ~ Clash(l, h)
         /\ h.kind # "map" => MergeValue(l, h) = h
         /\ h.kind = "map" => MergeValue(l, h).kind = "map"
<1>1. MergeValue(l, h) \in Values
  BY MergeType
<1>2. h \notin Gone /\ l \notin Gone
  BY ValuesAreValues DEF Gone
<1>3. h = Null \/ l = Null \/ TypeOf(l) = TypeOf(h)
  BY MergeUnfolds
<1>4. TypeOf(l) = TypeOf(h) => l.kind = h.kind
  BY DEF TypeOf
<1>5. ~ Clash(l, h)
  BY <1>2, <1>3 DEF Clash
<1>6. h.kind # "map" => MergeValue(l, h) = h
  BY <1>3, <1>4, MergeUnfolds
<1>7. h.kind = "map" => MergeValue(l, h).kind = "map"
  BY <1>3, <1>4, MergeUnfolds DEF Checked, Map
<1> QED
  BY <1>1, <1>2, <1>5, <1>6, <1>7 DEF Says

(* What a merge holds under a key.                                         *)
LEMMA MergeBelow ==
  ASSUME NEW l \in Values, NEW h \in Values, MergeValue(l, h) # Error, NEW key \in Keys
  PROVE  LET r == MergeValue(l, h)
             x == Child(l, key)
             y == Child(h, key)
             z == Child(r, key)
         IN \/ h.kind # "map" /\ y = Absent /\ z = Absent
            \/ h.kind = "map" /\ x = Absent /\ z = y
            \/ h.kind = "map" /\ y = Absent /\ z = x
            \/ h.kind = "map" /\ x \in Values /\ y \in Values /\ z = MergeValue(x, y) /\ z # Error
<1>1. CASE h.kind # "map"
  BY <1>1, MergeSays DEF Child
<1>2. CASE h.kind = "map" /\ l = Null
  <2>1. MergeValue(l, h) = h /\ l.kind # "map"
    BY <1>2, MergeUnfolds, ValuesAreValues
  <2> QED BY <1>2, <2>1 DEF Child
<1>3. CASE h.kind = "map" /\ l # Null
  <2>1. h # Null
    BY <1>3, ValuesAreValues
  <2>2. l.kind = "map"
    <3>1. TypeOf(l) = TypeOf(h)
      BY <1>3, <2>1, MergeUnfolds
    <3> QED BY <1>3, <3>1 DEF TypeOf
  <2> DEFINE at == [k \in Keys |-> IF h.at[k] = Absent THEN l.at[k]
                                   ELSE IF l.at[k] = Absent THEN h.at[k]
                                   ELSE MergeValue(l.at[k], h.at[k])]
  <2>3. MergeValue(l, h) = Checked(at)
    BY <1>3, <2>1, <2>2, MergeUnfolds
  <2>4. MergeValue(l, h) = Map(at) /\ at[key] # Error
    <3> HIDE DEF at
    <3> QED BY <2>3 DEF Checked
  <2>5. /\ Child(MergeValue(l, h), key) = at[key] /\ Child(l, key) = l.at[key] /\ Child(h, key) = h.at[key]
    <3> HIDE DEF at
    <3> QED BY <1>3, <2>2, <2>4 DEF Child, Map
  <2>6. /\ l.at[key] # Absent => l.at[key] \in Values
        /\ h.at[key] # Absent => h.at[key] \in Values
    BY <1>3, <2>2, LevelFalls
  <2>7. at[key] = IF h.at[key] = Absent THEN l.at[key]
                  ELSE IF l.at[key] = Absent THEN h.at[key]
                  ELSE MergeValue(l.at[key], h.at[key])
    OBVIOUS
  <2> HIDE DEF at
  <2> QED BY <1>3, <2>4, <2>5, <2>6, <2>7
<1> QED BY <1>1, <1>2, <1>3

(* A merge overlays its values on every path.                              *)
LEMMA MergeOverlays ==
  ASSUME NEW l \in Values, NEW h \in Values, MergeValue(l, h) # Error, NEW path \in Paths
  PROVE  /\ Overlays(MergeValue(l, h), l, h, path)
         /\ ~ Clash(At(l, path), At(h, path))
<1> DEFINE N == Len(path)
           a == Along(l, path)
           b == Along(h, path)
           r == Along(MergeValue(l, h), path)
           Both(n) == /\ a[n] \in Values /\ b[n] \in Values
                      /\ r[n] = MergeValue(a[n], b[n]) /\ r[n] # Error
                      /\ \A m \in 0 .. n - 1 : b[m].kind = "map"
           Lower(n) == r[n] = a[n] /\ b[n] = Absent /\ \A m \in 0 .. n : b[m].kind \in {"map", "absent"}
           Higher(n) == /\ r[n] = b[n]
                        /\ \/ a[n] = Absent
                           \/ b[n] = Absent /\ \E m \in 0 .. n : b[m].kind \notin {"map", "absent"}
           T == {n \in 0 .. N : Both(n) \/ Lower(n) \/ Higher(n)}
<1>1. N \in Nat /\ N \in 0 .. N /\ \A n \in 1 .. N : path[n] \in Keys
  BY PathsArePaths
<1>2. /\ a[0] = l /\ b[0] = h /\ r[0] = MergeValue(l, h)
      /\ \A n \in 1 .. N : /\ a[n] = Child(a[n - 1], path[n])
                           /\ b[n] = Child(b[n - 1], path[n])
                           /\ r[n] = Child(r[n - 1], path[n])
  BY <1>1, AlongUnfolds
<1>3. \A n \in 0 .. N : a[n] \in Values \cup {Absent} /\ b[n] \in Values \cup {Absent}
  BY AlongValues
<1>4. At(l, path) = a[N] /\ At(h, path) = b[N] /\ At(MergeValue(l, h), path) = r[N]
  BY DEF At
<1>5. Speaks(h, path) <=> (b[N] # Absent \/ \E n \in 0 .. N : b[n].kind \notin {"map", "absent"})
  BY DEF Speaks, At
<1> HIDE DEF a, b, r
<1>6. 0 \in T
  BY <1>1, <1>2
<1>7. ASSUME NEW n \in 1 .. N, n - 1 \in T PROVE n \in T
  <2>1. /\ n \in 0 .. N /\ n - 1 \in 0 .. N /\ path[n] \in Keys
        /\ a[n] = Child(a[n - 1], path[n]) /\ b[n] = Child(b[n - 1], path[n])
        /\ r[n] = Child(r[n - 1], path[n])
    BY <1>1, <1>2
  <2>2. Child(Absent, path[n]) = Absent
    BY DEF Child, Absent
  <2>3. CASE Both(n - 1)
    <3>1. \A m \in 0 .. n - 1 : m = n - 1 \/ b[m].kind = "map"
      BY <2>3
    <3>2. \/ b[n - 1].kind # "map" /\ b[n] = Absent /\ r[n] = Absent
          \/ b[n - 1].kind = "map" /\ a[n] = Absent /\ r[n] = b[n]
          \/ b[n - 1].kind = "map" /\ b[n] = Absent /\ r[n] = a[n]
          \/ b[n - 1].kind = "map" /\ a[n] \in Values /\ b[n] \in Values /\ r[n] = MergeValue(a[n], b[n]) /\ r[n] # Error
      BY <2>1, <2>3, MergeBelow
    <3>3. b[n - 1].kind # "absent"
      BY <2>3, ValueKinds
    <3>4. CASE b[n - 1].kind # "map" /\ b[n] = Absent /\ r[n] = Absent
      <4>1. Higher(n)
        BY <2>1, <3>3, <3>4
      <4> QED BY <2>1, <4>1
    <3>5. CASE b[n - 1].kind = "map" /\ a[n] = Absent /\ r[n] = b[n]
      BY <2>1, <3>5
    <3>6. CASE b[n - 1].kind = "map" /\ b[n] = Absent /\ r[n] = a[n]
      <4>1. Lower(n)
        BY <3>1, <3>6, ValuesAreValues
      <4> QED BY <2>1, <4>1
    <3>7. CASE b[n - 1].kind = "map" /\ a[n] \in Values /\ b[n] \in Values /\ r[n] = MergeValue(a[n], b[n]) /\ r[n] # Error
      <4>1. Both(n)
        BY <3>1, <3>7
      <4> QED BY <2>1, <4>1
    <3> QED BY <3>2, <3>4, <3>5, <3>6, <3>7
  <2>4. CASE Lower(n - 1)
    <3>1. r[n] = a[n] /\ b[n] = Absent
      BY <2>1, <2>2, <2>4
    <3>2. Lower(n)
      BY <2>4, <3>1, ValuesAreValues
    <3> QED BY <2>1, <3>2
  <2>5. CASE Higher(n - 1)
    <3>1. r[n] = b[n]
      BY <2>1, <2>5
    <3>2. a[n - 1] = Absent => a[n] = Absent
      BY <2>1, <2>2
    <3>3. b[n - 1] = Absent => b[n] = Absent
      BY <2>1, <2>2
    <3>4. Higher(n)
      BY <2>5, <3>1, <3>2, <3>3
    <3> QED BY <2>1, <3>4
  <2> QED BY <1>7, <2>3, <2>4, <2>5
<1>8. T = 0 .. N
  <2>1. T \in SUBSET (0 .. N)
    OBVIOUS
  <2> HIDE DEF T
  <2> QED BY <1>1, <1>6, <1>7, <2>1, InductionUpTo
<1>9. Both(N) \/ Lower(N) \/ Higher(N)
  BY <1>1, <1>8
<1>10. Says(Absent, Absent) /\ ~ Clash(a[N], Absent)
  BY ValuesAreValues DEF Says, Clash, Gone
<1>11. CASE Both(N)
  <2>1. b[N] # Absent
    BY <1>11, ValuesAreValues
  <2>2. Says(r[N], b[N]) /\ ~ Clash(a[N], b[N])
    BY <1>11, MergeSays
  <2> QED BY <1>4, <1>5, <2>1, <2>2 DEF Overlays
<1>12. CASE Lower(N)
  <2>1. ~ Speaks(h, path)
    BY <1>5, <1>12
  <2> QED BY <1>4, <1>10, <1>12, <2>1 DEF Overlays
<1>13. CASE Higher(N)
  <2>1. b[N] = Absent => Says(r[N], b[N]) /\ ~ Clash(a[N], b[N])
    BY <1>10, <1>13
  <2>2. b[N] # Absent => Says(r[N], b[N]) /\ ~ Clash(a[N], b[N])
    BY <1>1, <1>3, <1>13, ValuesAreValues DEF Says, Clash, Gone
  <2>3. ~ Speaks(h, path) => r[N] = a[N]
    BY <1>5, <1>13
  <2> QED BY <1>4, <2>1, <2>2, <2>3 DEF Overlays
<1> QED BY <1>9, <1>11, <1>12, <1>13

(* Values that do not merge clash, or two they hold do not merge.          *)
LEMMA ErrorsBelow ==
  ASSUME NEW l \in Values, NEW h \in Values, MergeValue(l, h) = Error
  PROVE  \/ Clash(l, h)
         \/ \E key \in Keys : /\ l.kind = "map" /\ h.kind = "map"
                              /\ l.at[key] # Absent /\ h.at[key] # Absent
                              /\ MergeValue(l.at[key], h.at[key]) = Error
<1>1. h # Error /\ l \notin Gone \cup {Error} /\ h \notin Gone
  BY ValuesAreValues DEF Gone
<1>2. h # Null /\ l # Null
  BY <1>1, MergeUnfolds
<1>3. CASE TypeOf(l) # TypeOf(h)
  BY <1>1, <1>2, <1>3 DEF Clash
<1>4. CASE TypeOf(l) = TypeOf(h)
  <2> DEFINE at == [k \in Keys |-> IF h.at[k] = Absent THEN l.at[k]
                                   ELSE IF l.at[k] = Absent THEN h.at[k]
                                   ELSE MergeValue(l.at[k], h.at[k])]
  <2>1. l.kind = h.kind
    BY <1>4 DEF TypeOf
  <2>2. l.kind = "map" /\ h.kind = "map" /\ Checked(at) = Error
    BY <1>1, <1>2, <1>4, <2>1, MergeUnfolds
  <2>3. \A k \in Keys : /\ l.at[k] # Error /\ h.at[k] # Error
    BY <2>2, LevelFalls, ValuesAreValues
  <2>4. \E k \in Keys : at[k] = Error
    <3> HIDE DEF at
    <3>1. Map(at) # Error
      BY DEF Map, Error
    <3> QED BY <2>2, <3>1 DEF Checked
  <2>5. PICK key \in Keys : at[key] = Error
    BY <2>4
  <2>6. l.at[key] # Absent /\ h.at[key] # Absent /\ MergeValue(l.at[key], h.at[key]) = Error
    BY <2>3, <2>5
  <2> QED BY <2>2, <2>6
<1> QED BY <1>3, <1>4

(* Values that do not merge clash on a path.                               *)
LEMMA ErrorsClash ==
  ASSUME NEW l \in Values, NEW h \in Values, MergeValue(l, h) = Error
  PROVE  \E path \in Paths : Clash(At(l, path), At(h, path))
<1> DEFINE Short(n) == {path \in Paths : Len(path) <= n}
           T == {n \in 0 .. MaxNesting : \A v, w \in ValuesUpTo[n] : MergeValue(v, w) = Error =>
                   \E path \in Short(n) : Clash(At(v, path), At(w, path))}
<1>1. MaxNesting \in Nat
  BY NestingAssumption
<1>2. ASSUME NEW n \in 0 .. MaxNesting, NEW v, NEW w, Clash(v, w)
      PROVE  \E path \in Short(n) : Clash(At(v, path), At(w, path))
  <2> DEFINE top == [i \in 1 .. 0 |-> i]
  <2>1. top \in [1 .. 0 -> Keys] /\ Len(top) = 0
    OBVIOUS
  <2>2. top \in Paths
    BY <1>1, <2>1 DEF Paths
  <2> HIDE DEF top
  <2>3. At(v, top) = v /\ At(w, top) = w
    BY <2>1, AlongUnfolds DEF At
  <2> QED BY <1>2, <2>1, <2>2, <2>3
<1>3. 0 \in T
  <2>1. ASSUME NEW v \in ValuesUpTo[0], NEW w \in ValuesUpTo[0], MergeValue(v, w) = Error
        PROVE  \E path \in Short(0) : Clash(At(v, path), At(w, path))
    <3>1. v \in Values /\ w \in Values
      BY <1>1, LevelsGrow
    <3>2. v.kind # "map"
      BY LevelKinds
    <3>3. Clash(v, w)
      BY <2>1, <3>1, <3>2, ErrorsBelow
    <3> HIDE DEF Short
    <3> QED BY <1>1, <1>2, <3>3
  <2> QED BY <1>1, <2>1
<1>4. ASSUME NEW n \in 1 .. MaxNesting, n - 1 \in T PROVE n \in T
  <2>1. ASSUME NEW v \in ValuesUpTo[n], NEW w \in ValuesUpTo[n], MergeValue(v, w) = Error
        PROVE  \E path \in Short(n) : Clash(At(v, path), At(w, path))
    <3>1. v \in Values /\ w \in Values /\ n \in Nat /\ n \in 0 .. MaxNesting
      BY <1>1, LevelsGrow
    <3>2. CASE Clash(v, w)
      <4> HIDE DEF Short
      <4> QED BY <1>2, <3>1, <3>2
    <3>3. ASSUME NEW key \in Keys, v.kind = "map", w.kind = "map",
                 v.at[key] # Absent, w.at[key] # Absent, MergeValue(v.at[key], w.at[key]) = Error
          PROVE  \E path \in Short(n) : Clash(At(v, path), At(w, path))
      <4>1. v.at[key] \in ValuesUpTo[n - 1] /\ w.at[key] \in ValuesUpTo[n - 1]
        BY <3>1, <3>3, LevelKinds
      <4>2. PICK rest \in Short(n - 1) : Clash(At(v.at[key], rest), At(w.at[key], rest))
        BY <1>4, <3>3, <4>1
      <4>3. Len(rest) \in Nat /\ Len(rest) <= n - 1 /\ rest \in [1 .. Len(rest) -> Keys]
        BY <4>2, PathsArePaths
      <4> DEFINE m == Len(rest) + 1
                 path == [i \in 1 .. m |-> IF i = 1 THEN key ELSE rest[i - 1]]
      <4>4. m \in Nat /\ m \in 0 .. MaxNesting /\ m <= n /\ m >= 1
        BY <1>1, <3>1, <4>3
      <4>5. path \in [1 .. m -> Keys]
        <5>1. ASSUME NEW i \in 1 .. m, i # 1 PROVE rest[i - 1] \in Keys
          <6>1. i - 1 \in 1 .. Len(rest)
            BY <4>3, <5>1
          <6> QED BY <4>3, <6>1
        <5> QED BY <5>1
      <4>6. Len(path) = m
        BY <4>4
      <4>7. path[1] = key /\ \A i \in 1 .. Len(rest) : path[i + 1] = rest[i]
        BY <4>3
      <4> HIDE DEF path
      <4>8. path \in Paths
        BY <4>4, <4>5 DEF Paths
      <4>9. At(v, path) = At(Child(v, key), rest) /\ At(w, path) = At(Child(w, key), rest)
        BY <4>3, <4>6, <4>7, AlongBelow
      <4>10. Child(v, key) = v.at[key] /\ Child(w, key) = w.at[key]
        BY <3>3 DEF Child
      <4> QED BY <4>2, <4>4, <4>6, <4>8, <4>9, <4>10
    <3> QED BY <2>1, <3>1, <3>2, <3>3, ErrorsBelow
  <2> QED BY <2>1
<1>5. T = 0 .. MaxNesting
  <2>1. T \in SUBSET (0 .. MaxNesting)
    OBVIOUS
  <2> HIDE DEF T
  <2> QED BY <1>1, <1>3, <1>4, <2>1, InductionUpTo
<1>6. MaxNesting \in T
  BY <1>1, <1>5
<1> QED BY <1>6 DEF Values

-----------------------------------------------------------------------------
(* Merging keyed lists.                                                    *)

EntryIds == {Scalar("text", key) : key \in Keys}
KeyedParts == {items \in Seq(Parts) : Keyed(items)}

(* The entry with an id.                                                   *)
EntryAt(items, id) ==
  IF id \notin IdsOf(items) THEN Absent
  ELSE items[CHOOSE i \in DOMAIN items : Id(items[i]) = id]

(* What the entry with an id becomes.                                      *)
MergedEntry(lower, higher) ==
  IF higher = Absent THEN lower ELSE IF lower = Absent THEN higher ELSE MergeValue(lower, higher)

(* The entries of a keyed list are told apart by their ids.                *)
LEMMA KeyedPartsAreKeyed ==
  ASSUME NEW items \in KeyedParts
  PROVE  /\ Len(items) \in Nat /\ DOMAIN items = 1 .. Len(items)
         /\ \A i \in DOMAIN items : /\ items[i] \in Parts /\ items[i] # Error /\ items[i] # Absent
                                    /\ IsEntry(items[i]) /\ Id(items[i]) \in EntryIds
                                    /\ Id(items[i]) \in IdsOf(items)
         /\ \A i, j \in DOMAIN items : Id(items[i]) = Id(items[j]) => i = j
         /\ Error \notin Range(items) /\ IdsOf(items) \subseteq EntryIds
<1>1. items \in Seq(Parts) /\ Keyed(items)
  BY DEF KeyedParts
<1>2. Len(items) \in Nat /\ DOMAIN items = 1 .. Len(items) /\ \A i \in DOMAIN items : items[i] \in Parts
  BY <1>1, LenProperties
<1>3. \A i \in DOMAIN items : items[i] # Error /\ items[i] # Absent
  BY <1>2, LevelsGrow, ValuesAreValues
<1>4. \A i \in DOMAIN items : IsEntry(items[i]) /\ Id(items[i]) \in EntryIds
  BY <1>1 DEF Keyed, IsEntry, EntryIds
<1>5. \A i \in DOMAIN items : Id(items[i]) \in IdsOf(items)
  BY DEF IdsOf
<1>6. Error \notin Range(items)
  BY <1>3 DEF Range
<1>7. IdsOf(items) \subseteq EntryIds
  BY <1>4 DEF IdsOf
<1> QED
  BY <1>1, <1>2, <1>3, <1>4, <1>5, <1>6, <1>7 DEF Keyed

(* The entry with an id is found where it is.                              *)
LEMMA EntryFound ==
  ASSUME NEW items \in KeyedParts
  PROVE  /\ \A i \in DOMAIN items : EntryAt(items, Id(items[i])) = items[i]
         /\ \A id : EntryAt(items, id) = Absent <=> id \notin IdsOf(items)
         /\ \A id \in IdsOf(items) : \E i \in DOMAIN items : Id(items[i]) = id /\ EntryAt(items, id) = items[i]
         /\ \A id : EntryAt(items, id) \in Parts \cup {Absent}
<1>1. ASSUME NEW i \in DOMAIN items PROVE EntryAt(items, Id(items[i])) = items[i]
  <2> DEFINE j == CHOOSE k \in DOMAIN items : Id(items[k]) = Id(items[i])
  <2>1. j \in DOMAIN items /\ Id(items[j]) = Id(items[i])
    OBVIOUS
  <2>2. j = i
    BY <2>1, KeyedPartsAreKeyed
  <2>3. Id(items[i]) \in IdsOf(items)
    BY KeyedPartsAreKeyed
  <2> QED BY <2>2, <2>3 DEF EntryAt
<1>2. ASSUME NEW id, id \in IdsOf(items)
      PROVE  \E i \in DOMAIN items : Id(items[i]) = id /\ EntryAt(items, id) = items[i]
  BY <1>1, <1>2 DEF IdsOf
<1>3. ASSUME NEW id, id \notin IdsOf(items) PROVE EntryAt(items, id) = Absent
  BY <1>3 DEF EntryAt
<1> QED
  BY <1>1, <1>2, <1>3, KeyedPartsAreKeyed

(* Entries of one id merge into one of that id.                            *)
LEMMA EntriesMerge ==
  ASSUME NEW x \in Parts, NEW y \in Parts, IsEntry(x), IsEntry(y), Id(x) = Id(y), MergeValue(x, y) # Error
  PROVE  /\ MergeValue(x, y) \in Parts /\ IsEntry(MergeValue(x, y)) /\ Id(MergeValue(x, y)) = Id(x)
<1> DEFINE z == MergeValue(x, y)
<1>1. x \in Values /\ y \in Values
  BY LevelsGrow
<1>2. z \in Parts
  BY MergeType
<1>3. x.kind = "map" /\ y.kind = "map" /\ "id" \in Keys
  BY DEF IsEntry
<1>4. z.kind = "map"
  BY <1>1, <1>3, MergeSays
<1>5. Child(x, "id") = Id(x) /\ Child(y, "id") = Id(y) /\ Child(z, "id") = Id(z)
  BY <1>3, <1>4 DEF Child, Id
<1>6. Id(x).kind = "scalar"
  BY DEF IsEntry, Scalar
<1>7. Id(x) # Absent
  BY <1>6, ValuesAreValues
<1>8. Id(x) \in Values /\ Id(z) = MergeValue(Id(x), Id(y)) /\ Id(z) # Error
  BY <1>1, <1>3, <1>5, <1>7, MergeBelow
<1>9. Id(z) = Id(x)
  BY <1>6, <1>8, MergeSays
<1> QED
  BY <1>2, <1>3, <1>4, <1>9 DEF IsEntry

(* What putting an entry into a keyed list does.                           *)
LEMMA PutEntryWorks ==
  ASSUME NEW items \in KeyedParts, NEW item \in Parts, IsEntry(item)
  PROVE  LET r == PutEntry(items, item)
             id == Id(item)
         IN /\ (EntryAt(items, id) # Absent /\ MergeValue(EntryAt(items, id), item) = Error) => Error \in Range(r)
            /\ ~ (EntryAt(items, id) # Absent /\ MergeValue(EntryAt(items, id), item) = Error) =>
                 /\ r \in KeyedParts
                 /\ IdsOf(r) = IdsOf(items) \cup {id}
                 /\ Len(r) >= Len(items) /\ \A i \in 1 .. Len(items) : Id(r[i]) = Id(items[i])
                 /\ id \in IdsOf(items) => Len(r) = Len(items)
                 /\ id \notin IdsOf(items) => Len(r) = Len(items) + 1 /\ Id(r[Len(r)]) = id
                 /\ \A other : EntryAt(r, other) = IF other = id THEN MergedEntry(EntryAt(items, id), item)
                                                   ELSE EntryAt(items, other)
<1> DEFINE r == PutEntry(items, item)
           id == Id(item)
<1>1. /\ Len(items) \in Nat /\ DOMAIN items = 1 .. Len(items) /\ items \in Seq(Parts)
      /\ Error \notin Range(items)
      /\ \A i \in 1 .. Len(items) : /\ items[i] \in Parts /\ items[i] # Error /\ items[i] # Absent
                                    /\ IsEntry(items[i]) /\ Id(items[i]) \in IdsOf(items)
      /\ \A i, j \in 1 .. Len(items) : Id(items[i]) = Id(items[j]) => i = j
  BY KeyedPartsAreKeyed DEF KeyedParts
<1>2. item # Absent
  BY LevelsGrow, ValuesAreValues
<1>3. CASE id \notin IdsOf(items)
  <2>1. r = Append(items, item) /\ EntryAt(items, id) = Absent
    BY <1>1, <1>3 DEF PutEntry, EntryAt
  <2>2. /\ r \in Seq(Parts) /\ Len(r) = Len(items) + 1 /\ DOMAIN r = 1 .. Len(items) + 1
        /\ \A i \in 1 .. Len(items) : r[i] = items[i]
        /\ r[Len(items) + 1] = item
    BY <1>1, <2>1
  <2> HIDE DEF r
  <2>3. \A i \in DOMAIN r : i = Len(items) + 1 \/ i \in 1 .. Len(items)
    BY <1>1, <2>2
  <2>4. \A i \in 1 .. Len(items) : Id(r[i]) # id
    BY <1>1, <1>3, <2>2
  <2>5. Keyed(r)
    <3>1. \A i \in DOMAIN r : IsEntry(r[i])
      BY <1>1, <2>2, <2>3
    <3>2. ASSUME NEW i \in DOMAIN r, NEW j \in DOMAIN r, Id(r[i]) = Id(r[j]) PROVE i = j
      BY <1>1, <2>2, <2>3, <2>4, <3>2
    <3> QED BY <3>1, <3>2 DEF Keyed
  <2>6. r \in KeyedParts
    BY <2>2, <2>5 DEF KeyedParts
  <2>7. Len(items) + 1 \in DOMAIN r /\ 1 .. Len(items) \subseteq DOMAIN r
    BY <1>1, <2>2
  <2>8. IdsOf(r) = IdsOf(items) \cup {id}
    <3>1. \A other \in IdsOf(r) : other \in IdsOf(items) \cup {id}
      BY <1>1, <2>2, <2>3 DEF IdsOf
    <3>2. \A other \in IdsOf(items) \cup {id} : other \in IdsOf(r)
      BY <1>1, <2>2, <2>7 DEF IdsOf
    <3> QED BY <3>1, <3>2
  <2>9. ASSUME NEW other
        PROVE  EntryAt(r, other) = IF other = id THEN MergedEntry(EntryAt(items, id), item) ELSE EntryAt(items, other)
    <3>1. CASE other = id
      BY <1>2, <2>1, <2>2, <2>6, <2>7, <3>1, EntryFound DEF MergedEntry
    <3>2. CASE other # id /\ other \in IdsOf(items)
      <4>1. PICK i \in DOMAIN items : Id(items[i]) = other /\ EntryAt(items, other) = items[i]
        BY <3>2, EntryFound
      <4>2. i \in DOMAIN r /\ r[i] = items[i]
        BY <1>1, <2>2, <2>7, <4>1
      <4>3. EntryAt(r, other) = items[i]
        BY <2>6, <4>1, <4>2, EntryFound
      <4> QED BY <3>2, <4>1, <4>3
    <3>3. CASE other # id /\ other \notin IdsOf(items)
      BY <2>8, <3>3 DEF EntryAt
    <3> QED BY <3>1, <3>2, <3>3
  <2>10. /\ Len(r) >= Len(items) /\ \A i \in 1 .. Len(items) : Id(r[i]) = Id(items[i])
         /\ Len(r) = Len(items) + 1 /\ Id(r[Len(r)]) = id
    BY <1>1, <2>2
  <2> HIDE DEF id
  <2> QED BY <1>3, <2>1, <2>6, <2>8, <2>9, <2>10 DEF r, id
<1>4. CASE id \in IdsOf(items)
  <2>1. PICK k \in DOMAIN items : Id(items[k]) = id /\ EntryAt(items, id) = items[k]
    BY <1>4, EntryFound
  <2>2. k \in 1 .. Len(items) /\ items[k] # Absent
    BY <1>1, <2>1
  <2>3. r = [i \in 1 .. Len(items) |->
               IF Id(items[i]) = id THEN MergeValue(items[i], item) ELSE items[i]]
    BY <1>1, <1>4 DEF PutEntry
  <2> HIDE DEF r
  <2>4. /\ DOMAIN r = 1 .. Len(items) /\ r[k] = MergeValue(items[k], item)
        /\ \A i \in 1 .. Len(items) : i # k => r[i] = items[i]
    BY <1>1, <2>1, <2>2, <2>3
  <2>5. CASE MergeValue(items[k], item) = Error
    <3>1. Error \in Range(r)
      BY <2>2, <2>4, <2>5 DEF Range
    <3> HIDE DEF id
    <3> QED BY <2>1, <2>2, <2>5, <3>1 DEF r, id
  <2>6. CASE MergeValue(items[k], item) # Error
    <3>1. r[k] \in Parts /\ IsEntry(r[k]) /\ Id(r[k]) = id
      BY <1>1, <2>1, <2>2, <2>4, <2>6, EntriesMerge
    <3>2. \A i \in 1 .. Len(items) : r[i] \in Parts /\ IsEntry(r[i]) /\ Id(r[i]) = Id(items[i])
      BY <1>1, <2>1, <2>4, <3>1
    <3>3. r = [i \in 1 .. Len(items) |-> r[i]]
      BY <2>3
    <3>4. r \in Seq(Parts) /\ Len(r) = Len(items)
      <4>1. r \in [1 .. Len(items) -> Parts]
        BY <3>2, <3>3
      <4>2. Len(items) \in Nat
        BY <1>1
      <4> QED BY <4>1, <4>2
    <3>5. r \in KeyedParts
      BY <1>1, <2>4, <3>2, <3>4 DEF KeyedParts, Keyed
    <3>6. IdsOf(r) = IdsOf(items) \cup {id}
      <4>1. IdsOf(r) = IdsOf(items)
        BY <1>1, <2>4, <3>2 DEF IdsOf
      <4> QED BY <1>4, <4>1
    <3>7. ASSUME NEW other
          PROVE  EntryAt(r, other) = IF other = id THEN MergedEntry(EntryAt(items, id), item) ELSE EntryAt(items, other)
      <4>1. CASE other = id
        <5>1. EntryAt(r, id) = r[k]
          BY <2>2, <2>4, <3>1, <3>5, EntryFound
        <5> QED BY <1>2, <2>1, <2>2, <2>4, <4>1, <5>1 DEF MergedEntry
      <4>2. CASE other # id /\ other \in IdsOf(items)
        <5>1. PICK i \in DOMAIN items : Id(items[i]) = other /\ EntryAt(items, other) = items[i]
          BY <4>2, EntryFound
        <5>2. i \in DOMAIN r /\ r[i] = items[i]
          BY <1>1, <2>1, <2>4, <4>2, <5>1
        <5>3. EntryAt(r, other) = items[i]
          BY <3>5, <5>1, <5>2, EntryFound
        <5> QED BY <4>2, <5>1, <5>3
      <4>3. CASE other # id /\ other \notin IdsOf(items)
        BY <3>6, <4>3 DEF EntryAt
      <4> QED BY <4>1, <4>2, <4>3
    <3>8. Len(r) >= Len(items)
      BY <1>1, <3>4
    <3> HIDE DEF id
    <3> QED BY <1>4, <2>1, <2>6, <3>2, <3>4, <3>5, <3>6, <3>7, <3>8 DEF r, id
  <2> QED BY <2>5, <2>6
<1> QED BY <1>3, <1>4

(* The entries are put into the list one after another.                    *)
EntriesPut(lower, higher, u) ==
  /\ u[0] = lower
  /\ \A n \in 1 .. Len(higher) : u[n] = PutEntry(u[n - 1], higher[n])

(* MergeKeyedList puts the entries of the higher list in turn.             *)
LEMMA ListsMergeInTurn ==
  ASSUME NEW lower, NEW higher, Len(higher) \in Nat
  PROVE  \E u : /\ EntriesPut(lower, higher, u)
                /\ MergeKeyedList(lower, higher) =
                     IF Error \in Range(u[Len(higher)]) THEN Error ELSE List(u[Len(higher)])
<1> DEFINE N == Len(higher)
           Step(f, n) == [m \in 0 .. n |-> IF m = 0 THEN lower ELSE PutEntry(f[m - 1], higher[m])]
           T == {n \in 0 .. N : \E f : f = Step(f, n)}
<1>1. 0 \in T
  <2> DEFINE f == [m \in 0 .. 0 |-> lower]
  <2>1. f = Step(f, 0) /\ 0 \in 0 .. N
    OBVIOUS
  <2> HIDE DEF f, Step
  <2> QED BY <2>1
<1>2. ASSUME NEW n \in 1 .. N, n - 1 \in T PROVE n \in T
  <2>1. PICK f : f = Step(f, n - 1)
    BY <1>2
  <2> DEFINE g == [m \in 0 .. n |-> IF m < n THEN f[m] ELSE PutEntry(f[n - 1], higher[n])]
  <2>2. ASSUME NEW m \in 0 .. n PROVE g[m] = IF m = 0 THEN lower ELSE PutEntry(g[m - 1], higher[m])
    <3>1. CASE m < n
      <4>1. m \in 0 .. n - 1 /\ g[m] = f[m]
        BY <3>1
      <4>2. f[m] = IF m = 0 THEN lower ELSE PutEntry(f[m - 1], higher[m])
        BY <2>1, <4>1
      <4>3. m # 0 => g[m - 1] = f[m - 1]
        BY <4>1
      <4> QED BY <4>1, <4>2, <4>3
    <3>2. CASE m = n
      BY <3>2
    <3> QED BY <3>1, <3>2
  <2>3. g = [m \in 0 .. n |-> g[m]]
    OBVIOUS
  <2> HIDE DEF g
  <2>4. g = Step(g, n)
    BY <2>2, <2>3
  <2> QED BY <2>4
<1>3. T = 0 .. N
  <2>1. T \in SUBSET (0 .. N)
    OBVIOUS
  <2> HIDE DEF T
  <2> QED BY <1>1, <1>2, <2>1, InductionUpTo
<1>4. \E f : f = Step(f, N)
  BY <1>3
<1> DEFINE u == CHOOSE f : f = Step(f, N)
<1>5. u = Step(u, N)
  <2> HIDE DEF Step
  <2> QED BY <1>4
<1>6. MergeKeyedList(lower, higher) = IF Error \in Range(u[N]) THEN Error ELSE List(u[N])
  BY DEF MergeKeyedList
<1> HIDE DEF u
<1>7. EntriesPut(lower, higher, u)
  BY <1>5 DEF EntriesPut
<1> QED BY <1>6, <1>7

(* What the list is after n entries, as long as each one merged.           *)
PutSoFar(lower, higher, items, n) ==
  /\ items \in KeyedParts
  /\ IdsOf(items) = IdsOf(lower) \cup {Id(higher[i]) : i \in 1 .. n}
  /\ \A id : EntryAt(items, id) =
               IF \E i \in 1 .. n : Id(higher[i]) = id THEN MergedEntry(EntryAt(lower, id), EntryAt(higher, id))
               ELSE EntryAt(lower, id)
  /\ Len(items) >= Len(lower) /\ \A i \in 1 .. Len(lower) : Id(items[i]) = Id(lower[i])
  /\ \A i \in Len(lower) + 1 .. Len(items) :
       \E p \in 1 .. n : Id(items[i]) = Id(higher[p]) /\ Id(higher[p]) \notin IdsOf(lower)
  /\ \A i, j \in Len(lower) + 1 .. Len(items) : \A p, q \in 1 .. n :
       i < j /\ Id(items[i]) = Id(higher[p]) /\ Id(items[j]) = Id(higher[q]) => p < q

Unmergeable(lower, higher, i) ==
  /\ EntryAt(lower, Id(higher[i])) # Absent
  /\ MergeValue(EntryAt(lower, Id(higher[i])), higher[i]) = Error

(* One more entry.                                                         *)
LEMMA PutOneMore ==
  ASSUME NEW lower \in KeyedParts, NEW higher \in KeyedParts, NEW n \in 1 .. Len(higher),
         NEW items, PutSoFar(lower, higher, items, n - 1)
  PROVE  /\ Unmergeable(lower, higher, n) => Error \in Range(PutEntry(items, higher[n]))
         /\ ~ Unmergeable(lower, higher, n) => PutSoFar(lower, higher, PutEntry(items, higher[n]), n)
<1> DEFINE item == higher[n]
           id == Id(item)
           r == PutEntry(items, item)
<1>1. /\ Len(higher) \in Nat /\ n \in DOMAIN higher /\ item \in Parts /\ IsEntry(item)
      /\ \A i, j \in 1 .. Len(higher) : Id(higher[i]) = Id(higher[j]) => i = j
      /\ EntryAt(higher, id) = item
  BY KeyedPartsAreKeyed, EntryFound
<1>2. ~ \E i \in 1 .. n - 1 : Id(higher[i]) = id
  BY <1>1
<1>3. items \in KeyedParts /\ EntryAt(items, id) = EntryAt(lower, id)
  BY <1>2 DEF PutSoFar
<1>4. Len(items) \in Nat /\ Len(lower) \in Nat /\ Len(items) >= Len(lower)
  BY <1>3, KeyedPartsAreKeyed DEF PutSoFar
<1>5. CASE Unmergeable(lower, higher, n)
  BY <1>1, <1>3, <1>5, PutEntryWorks DEF Unmergeable
<1>6. CASE ~ Unmergeable(lower, higher, n)
  <2>1. /\ r \in KeyedParts /\ IdsOf(r) = IdsOf(items) \cup {id}
        /\ Len(r) >= Len(items) /\ \A i \in 1 .. Len(items) : Id(r[i]) = Id(items[i])
        /\ id \in IdsOf(items) => Len(r) = Len(items)
        /\ id \notin IdsOf(items) => Len(r) = Len(items) + 1 /\ Id(r[Len(r)]) = id
        /\ \A other : EntryAt(r, other) = IF other = id THEN MergedEntry(EntryAt(items, id), item)
                                          ELSE EntryAt(items, other)
    BY <1>1, <1>3, <1>6, PutEntryWorks DEF Unmergeable
  <2> HIDE DEF r, id, item
  <2>2. Len(r) \in Nat
    BY <2>1, KeyedPartsAreKeyed
  <2>3. \A i \in 1 .. n : i = n \/ i \in 1 .. n - 1
    BY <1>1
  <2>4. Id(higher[n]) = id /\ n \in 1 .. n
    BY DEF id, item
  <2>5. IdsOf(r) = IdsOf(lower) \cup {Id(higher[i]) : i \in 1 .. n}
    <3>1. {Id(higher[i]) : i \in 1 .. n} = {Id(higher[i]) : i \in 1 .. n - 1} \cup {id}
      <4>1. \A i \in 1 .. n - 1 : i \in 1 .. n
        BY <1>1
      <4> QED BY <2>3, <2>4, <4>1
    <3> QED BY <2>1, <3>1 DEF PutSoFar
  <2>6. ASSUME NEW other
        PROVE  EntryAt(r, other) =
                 IF \E i \in 1 .. n : Id(higher[i]) = other THEN MergedEntry(EntryAt(lower, other), EntryAt(higher, other))
                 ELSE EntryAt(lower, other)
    <3>1. CASE other = id
      BY <1>1, <1>3, <2>1, <2>4, <3>1
    <3>2. CASE other # id
      <4>1. (\E i \in 1 .. n : Id(higher[i]) = other) <=> (\E i \in 1 .. n - 1 : Id(higher[i]) = other)
        BY <2>3, <2>4, <3>2
      <4>2. EntryAt(r, other) = EntryAt(items, other)
        BY <2>1, <3>2
      <4> QED BY <4>1, <4>2 DEF PutSoFar
    <3> QED BY <3>1, <3>2
  <2>7. Len(r) >= Len(lower) /\ \A i \in 1 .. Len(lower) : Id(r[i]) = Id(lower[i])
    <3>1. \A i \in 1 .. Len(lower) : i \in 1 .. Len(items) /\ Id(items[i]) = Id(lower[i])
      BY <1>4 DEF PutSoFar
    <3> QED BY <1>4, <2>1, <2>2, <3>1
  <2>8. ASSUME NEW i \in Len(lower) + 1 .. Len(r)
        PROVE  \/ i = Len(r) /\ Len(r) = Len(items) + 1 /\ Id(r[i]) = id /\ id \notin IdsOf(items)
               \/ i \in Len(lower) + 1 .. Len(items) /\ Id(r[i]) = Id(items[i])
    BY <1>4, <2>1, <2>2
  <2>9. IdsOf(lower) \subseteq IdsOf(items)
    BY DEF PutSoFar
  <2>10. ASSUME NEW i \in Len(lower) + 1 .. Len(r)
         PROVE  \E p \in 1 .. n : Id(r[i]) = Id(higher[p]) /\ Id(higher[p]) \notin IdsOf(lower)
    <3>1. CASE i = Len(r) /\ Len(r) = Len(items) + 1 /\ Id(r[i]) = id /\ id \notin IdsOf(items)
      BY <2>4, <2>9, <3>1
    <3>2. CASE i \in Len(lower) + 1 .. Len(items) /\ Id(r[i]) = Id(items[i])
      <4>1. PICK p \in 1 .. n - 1 : Id(items[i]) = Id(higher[p]) /\ Id(higher[p]) \notin IdsOf(lower)
        BY <3>2 DEF PutSoFar
      <4>2. p \in 1 .. n
        BY <1>1
      <4> QED BY <3>2, <4>1, <4>2
    <3> QED BY <2>8, <3>1, <3>2
  <2>11. \A a, b \in 1 .. n : Id(higher[a]) = Id(higher[b]) => a = b
    <3>1. \A a \in 1 .. n : a \in 1 .. Len(higher)
      BY <1>1
    <3> QED BY <1>1, <3>1
  <2>12. \A a \in 1 .. n - 1 : a \in 1 .. n
    BY <1>1
  <2>13. ASSUME NEW i \in Len(lower) + 1 .. Len(r), NEW j \in Len(lower) + 1 .. Len(r),
                NEW p \in 1 .. n, NEW q \in 1 .. n, i < j, Id(r[i]) = Id(higher[p]), Id(r[j]) = Id(higher[q])
         PROVE  p < q
    <3>1. i \in Len(lower) + 1 .. Len(items) /\ Id(r[i]) = Id(items[i])
      BY <1>4, <2>2, <2>8, <2>13
    <3>2. PICK m \in 1 .. n - 1 : Id(items[i]) = Id(higher[m])
      BY <3>1 DEF PutSoFar
    <3>3. p = m
      <4>1. Id(higher[p]) = Id(higher[m]) /\ m \in 1 .. n
        BY <2>13, <2>12, <3>1, <3>2
      <4> QED BY <2>11, <4>1
    <3>4. CASE j = Len(r) /\ Len(r) = Len(items) + 1 /\ Id(r[j]) = id /\ id \notin IdsOf(items)
      <4>1. q = n
        BY <1>1, <2>4, <2>13, <3>4
      <4> QED BY <1>1, <3>2, <3>3, <4>1
    <3>5. CASE j \in Len(lower) + 1 .. Len(items) /\ Id(r[j]) = Id(items[j])
      <4>1. PICK k \in 1 .. n - 1 : Id(items[j]) = Id(higher[k])
        BY <3>5 DEF PutSoFar
      <4>2. q = k
        <5>1. Id(higher[q]) = Id(higher[k]) /\ k \in 1 .. n
          BY <2>13, <2>12, <3>5, <4>1
        <5> QED BY <2>11, <5>1
      <4> QED BY <2>13, <3>1, <3>2, <3>3, <3>5, <4>1, <4>2 DEF PutSoFar
    <3> QED BY <2>8, <3>4, <3>5
  <2>14. PutSoFar(lower, higher, r, n)
    BY <2>1, <2>5, <2>6, <2>7, <2>10, <2>13 DEF PutSoFar
  <2> QED BY <1>6, <2>14 DEF r, item
<1> QED BY <1>5, <1>6

(* All entries.                                                            *)
LEMMA AllEntriesPut ==
  ASSUME NEW lower \in KeyedParts, NEW higher \in KeyedParts
  PROVE  \/ /\ MergeKeyedList(lower, higher) = Error
            /\ \E i \in 1 .. Len(higher) : Unmergeable(lower, higher, i)
         \/ /\ \A i \in 1 .. Len(higher) : ~ Unmergeable(lower, higher, i)
            /\ \E items : /\ MergeKeyedList(lower, higher) = List(items)
                          /\ PutSoFar(lower, higher, items, Len(higher))
<1> DEFINE N == Len(higher)
           Failed(u, n) == /\ Error \in Range(u[n])
                           /\ \E i \in 1 .. n : Unmergeable(lower, higher, i)
           Put(u, n) == /\ PutSoFar(lower, higher, u[n], n)
                        /\ \A i \in 1 .. n : ~ Unmergeable(lower, higher, i)
<1>1. N \in Nat /\ N \in 0 .. N
  BY KeyedPartsAreKeyed
<1>2. PICK u : /\ EntriesPut(lower, higher, u)
               /\ MergeKeyedList(lower, higher) = IF Error \in Range(u[N]) THEN Error ELSE List(u[N])
  BY <1>1, ListsMergeInTurn
<1> DEFINE T == {n \in 0 .. N : Failed(u, n) \/ Put(u, n)}
<1>3. 0 \in T
  <2>1. u[0] = lower
    BY <1>2 DEF EntriesPut
  <2>2. Len(lower) \in Nat
    BY KeyedPartsAreKeyed
  <2>3. PutSoFar(lower, higher, lower, 0)
    BY <2>2 DEF PutSoFar
  <2>4. Put(u, 0)
    BY <2>1, <2>3
  <2> HIDE DEF Put, Failed
  <2> QED BY <1>1, <2>4
<1>4. ASSUME NEW n \in 1 .. N, n - 1 \in T PROVE n \in T
  <2>1. u[n] = PutEntry(u[n - 1], higher[n]) /\ n \in 0 .. N /\ n \in 1 .. n
    BY <1>1, <1>2 DEF EntriesPut
  <2>2. \A i \in 1 .. n : i \in 1 .. n - 1 \/ i = n
    BY <1>1
  <2>3. CASE Failed(u, n - 1)
    <3>1. u[n] = u[n - 1]
      BY <2>1, <2>3 DEF PutEntry
    <3>2. 1 .. n - 1 \subseteq 1 .. n
      BY <1>1
    <3>3. Failed(u, n)
      BY <2>3, <3>1, <3>2
    <3> HIDE DEF Failed, Put
    <3> QED BY <2>1, <3>3
  <2>4. CASE Put(u, n - 1)
    <3>1. /\ Unmergeable(lower, higher, n) => Error \in Range(u[n])
          /\ ~ Unmergeable(lower, higher, n) => PutSoFar(lower, higher, u[n], n)
      BY <2>1, <2>4, PutOneMore
    <3>2. Failed(u, n) \/ Put(u, n)
      BY <2>1, <2>2, <2>4, <3>1
    <3> HIDE DEF Failed, Put
    <3> QED BY <2>1, <3>2
  <2> QED BY <1>4, <2>3, <2>4
<1>5. T = 0 .. N
  <2>1. T \in SUBSET (0 .. N)
    OBVIOUS
  <2> HIDE DEF T
  <2> QED BY <1>1, <1>3, <1>4, <2>1, InductionUpTo
<1>6. Failed(u, N) \/ Put(u, N)
  BY <1>1, <1>5
<1>7. CASE Failed(u, N)
  BY <1>2, <1>7
<1>8. CASE Put(u, N)
  <2>1. Error \notin Range(u[N])
    BY <1>8, KeyedPartsAreKeyed DEF PutSoFar
  <2> QED BY <1>2, <1>8, <2>1
<1> QED BY <1>6, <1>7, <1>8

(* A keyed list as the map it stands for.                                  *)
LEMMA KeyedListAsMap ==
  ASSUME NEW items \in KeyedParts
  PROVE  LET at == [key \in Keys |-> EntryAt(items, Scalar("text", key))]
         IN  AsMap("keyed_items", List(items)) = Map(at) /\ Map(at) \in Values
<1> DEFINE at == [key \in Keys |-> EntryAt(items, Scalar("text", key))]
<1>1. AsMap("keyed_items", List(items)) = Map(at)
  BY DEF AsMap, EntryAt, List
<1>2. at \in [Keys -> Parts \cup {Absent}]
  BY EntryFound
<1> HIDE DEF at
<1>3. Map(at) \in Values
  BY <1>2, ValuesAreNested DEF Nested, Map, MapsOver
<1> QED BY <1>1, <1>3 DEF at

(* Merging keyed lists merges the maps they stand for.                     *)
LEMMA KeyedListsMerge ==
  ASSUME NEW lower \in KeyedParts, NEW higher \in KeyedParts
  PROVE  LET l == AsMap("keyed_items", List(lower))
             h == AsMap("keyed_items", List(higher))
             r == MergeKeyedList(lower, higher)
         IN  /\ l \in Values /\ h \in Values
             /\ r = Error => MergeValue(l, h) = Error
             /\ r # Error => \E items : /\ r = List(items) /\ PutSoFar(lower, higher, items, Len(higher))
                                        /\ AsMap("keyed_items", r) = MergeValue(l, h)
<1> DEFINE lat == [key \in Keys |-> EntryAt(lower, Scalar("text", key))]
           hat == [key \in Keys |-> EntryAt(higher, Scalar("text", key))]
           l == AsMap("keyed_items", List(lower))
           h == AsMap("keyed_items", List(higher))
           at == [k \in Keys |-> IF hat[k] = Absent THEN lat[k]
                                 ELSE IF lat[k] = Absent THEN hat[k]
                                 ELSE MergeValue(lat[k], hat[k])]
<1>1. l = Map(lat) /\ h = Map(hat) /\ l \in Values /\ h \in Values
  BY KeyedListAsMap
<1>2. \A key \in Keys : lat[key] = EntryAt(lower, Scalar("text", key)) /\ hat[key] = EntryAt(higher, Scalar("text", key))
  OBVIOUS
<1> HIDE DEF lat, hat, l, h
<1>3. MergeValue(l, h) = Checked(at)
  <2>1. l.at = lat /\ h.at = hat /\ l.kind = "map" /\ h.kind = "map"
    BY <1>1 DEF Map
  <2>2. TypeOf(l) = TypeOf(h) /\ l # Null /\ h # Null
    BY <2>1, ValuesAreValues DEF TypeOf
  <2> QED BY <1>1, <2>1, <2>2, MergeUnfolds
<1>4. \A key \in Keys : at[key] = MergedEntry(EntryAt(lower, Scalar("text", key)), EntryAt(higher, Scalar("text", key)))
  BY <1>2 DEF MergedEntry
<1>5. at = [key \in Keys |-> at[key]]
  OBVIOUS
<1> HIDE DEF at
<1>6. CASE \E i \in 1 .. Len(higher) : Unmergeable(lower, higher, i)
  <2>1. PICK i \in 1 .. Len(higher) : Unmergeable(lower, higher, i)
    BY <1>6
  <2>2. i \in DOMAIN higher /\ Id(higher[i]) \in EntryIds /\ higher[i] # Absent /\ EntryAt(higher, Id(higher[i])) = higher[i]
    BY KeyedPartsAreKeyed, EntryFound
  <2>3. PICK key \in Keys : Id(higher[i]) = Scalar("text", key)
    BY <2>2 DEF EntryIds
  <2>4. at[key] = Error
    BY <1>4, <2>1, <2>2, <2>3 DEF MergedEntry, Unmergeable
  <2>5. MergeValue(l, h) = Error
    BY <1>3, <2>4 DEF Checked
  <2>6. MergeKeyedList(lower, higher) = Error
    BY <1>6, AllEntriesPut
  <2> QED BY <1>1, <2>5, <2>6 DEF l, h
<1>7. CASE \A i \in 1 .. Len(higher) : ~ Unmergeable(lower, higher, i)
  <2>1. PICK items : MergeKeyedList(lower, higher) = List(items) /\ PutSoFar(lower, higher, items, Len(higher))
    BY <1>7, AllEntriesPut
  <2>2. items \in KeyedParts
    BY <2>1 DEF PutSoFar
  <2>3. ASSUME NEW key \in Keys PROVE at[key] = EntryAt(items, Scalar("text", key)) /\ at[key] # Error
    <3> DEFINE id == Scalar("text", key)
    <3>1. (\E i \in 1 .. Len(higher) : Id(higher[i]) = id) <=> EntryAt(higher, id) # Absent
      <4>1. DOMAIN higher = 1 .. Len(higher)
        BY KeyedPartsAreKeyed
      <4>2. EntryAt(higher, id) = Absent <=> id \notin IdsOf(higher)
        BY EntryFound
      <4> HIDE DEF id
      <4> QED BY <4>1, <4>2 DEF IdsOf
    <3>2. EntryAt(items, id) = IF \E i \in 1 .. Len(higher) : Id(higher[i]) = id
                               THEN MergedEntry(EntryAt(lower, id), EntryAt(higher, id)) ELSE EntryAt(lower, id)
      BY <2>1 DEF PutSoFar
    <3>3. EntryAt(items, id) # Error
      BY <2>2, EntryFound, LevelsGrow, ValuesAreValues
    <3>4. at[key] = MergedEntry(EntryAt(lower, id), EntryAt(higher, id))
      BY <1>4
    <3> HIDE DEF id
    <3>5. at[key] = EntryAt(items, id)
      BY <3>1, <3>2, <3>4 DEF MergedEntry
    <3> QED BY <3>3, <3>5 DEF id
  <2>4. MergeValue(l, h) = Map(at)
    BY <1>3, <2>3 DEF Checked
  <2>5. at = [key \in Keys |-> EntryAt(items, Scalar("text", key))]
    BY <1>5, <2>3
  <2>6. AsMap("keyed_items", List(items)) = Map(at)
    BY <2>2, <2>5, KeyedListAsMap
  <2>7. List(items) # Error
    BY DEF List, Error
  <2> QED BY <1>1, <2>1, <2>4, <2>6, <2>7 DEF l, h
<1> QED BY <1>6, <1>7

-----------------------------------------------------------------------------
(* Merging a field.                                                        *)

(* The one path without a key, and where paths begin with a key.           *)
LEMMA PathsBegin ==
  ASSUME NEW path \in Paths
  PROVE  /\ Len(path) = 0 => \A v : At(v, path) = v
         /\ Len(path) # 0 => /\ Len(path) \in Nat /\ Len(path) >= 1 /\ path[1] \in Keys
                             /\ \A v : Along(v, path)[0] = v /\ Along(v, path)[1] = Child(v, path[1])
<1>1. Len(path) \in Nat /\ \A n \in 1 .. Len(path) : path[n] \in Keys
  BY PathsArePaths
<1>2. \A v : /\ Along(v, path)[0] = v
             /\ \A n \in 1 .. Len(path) : Along(v, path)[n] = Child(Along(v, path)[n - 1], path[n])
  BY <1>1, AlongUnfolds
<1>3. CASE Len(path) = 0
  BY <1>2, <1>3 DEF At
<1>4. CASE Len(path) # 0
  <2>1. 1 \in 1 .. Len(path) /\ 1 - 1 = 0
    BY <1>1, <1>4
  <2>2. ASSUME NEW v PROVE Along(v, path)[1] = Child(v, path[1])
    <3>1. Along(v, path)[1] = Child(Along(v, path)[1 - 1], path[1])
      BY <1>2, <2>1
    <3> QED BY <1>2, <2>1, <3>1
  <2> QED BY <1>1, <1>2, <1>4, <2>1, <2>2
<1> QED BY <1>3, <1>4

(* A path of one key.                                                      *)
LEMMA OneKeyPath ==
  ASSUME NEW key \in Keys
  PROVE  \E path \in Paths : \A v : At(v, path) = Child(v, key)
<1> DEFINE path == [i \in 1 .. 1 |-> key]
<1>1. path \in [1 .. 1 -> Keys] /\ Len(path) = 1 /\ path[1] = key
  OBVIOUS
<1>2. 1 \in 0 .. MaxNesting
  BY NestingAssumption
<1> HIDE DEF path
<1>3. path \in Paths
  BY <1>1, <1>2 DEF Paths
<1>4. \A v : At(v, path) = Child(v, key)
  BY <1>1, <1>3, PathsBegin DEF At
<1> QED BY <1>3, <1>4

(* What a directive says about the path of its key, and below it.          *)
LEMMA DirectiveSpeaks ==
  ASSUME NEW v, NEW path \in Paths, Len(path) # 0, Child(v, path[1]) = Delete
  PROVE  Speaks(v, path) /\ At(v, path) \in Gone /\ (At(v, path) = Delete => Len(path) = 1)
<1> DEFINE a == Along(v, path)
           T == {n \in 0 .. Len(path) : n > 1 => a[n] = Absent}
<1>1. Len(path) \in Nat /\ Len(path) >= 1 /\ a[1] = Delete
  BY PathsBegin
<1>2. \A n \in 1 .. Len(path) : a[n] = Child(a[n - 1], path[n])
  BY <1>1, AlongUnfolds
<1> HIDE DEF a
<1>3. \A key : Child(Absent, key) = Absent /\ Child(Delete, key) = Absent
  BY DEF Child, Absent, Delete
<1>4. T = 0 .. Len(path)
  <2>1. 0 \in T
    BY <1>1
  <2>2. ASSUME NEW n \in 1 .. Len(path), n - 1 \in T PROVE n \in T
    <3>1. CASE n = 1
      BY <3>1
    <3>2. CASE n = 2
      <4>1. a[n] = Child(a[1], path[n])
        BY <1>2, <3>2
      <4> QED BY <1>1, <1>3, <4>1
    <3>3. CASE n > 2
      <4>1. a[n - 1] = Absent /\ a[n] = Child(a[n - 1], path[n])
        BY <1>2, <2>2, <3>3
      <4> QED BY <1>3, <4>1
    <3> QED BY <3>1, <3>2, <3>3
  <2>3. T \in SUBSET (0 .. Len(path))
    OBVIOUS
  <2> HIDE DEF T
  <2> QED BY <1>1, <2>1, <2>2, <2>3, InductionUpTo
<1>5. Len(path) > 1 => a[Len(path)] = Absent
  BY <1>1, <1>4
<1>6. 1 \in 0 .. Len(path) /\ a[1].kind \notin {"map", "absent"}
  BY <1>1 DEF Delete
<1>7. At(v, path) = a[Len(path)]
  BY DEF a, At
<1>8. Speaks(v, path)
  <2>1. Along(v, path)[1].kind \notin {"map", "absent"}
    BY <1>6 DEF a
  <2> QED BY <1>6, <2>1 DEF Speaks
<1>9. Len(path) = 1 \/ Len(path) > 1
  <2>1. \A n \in Nat : n >= 1 => n = 1 \/ n > 1
    OBVIOUS
  <2> QED BY <1>1, <2>1
<1> QED
  BY <1>1, <1>5, <1>7, <1>8, <1>9, ValuesAreValues DEF Gone

(* Trees that agree below a path's first key agree on what is said there.  *)
LEMMA SpeaksAgrees ==
  ASSUME NEW v, NEW w, NEW path \in Paths, Len(path) # 0, Child(v, path[1]) = Child(w, path[1]),
         v.kind \in {"map", "absent"}, w.kind \in {"map", "absent"}
  PROVE  At(v, path) = At(w, path) /\ (Speaks(v, path) <=> Speaks(w, path))
<1>1. /\ Len(path) \in Nat /\ Len(path) > 0
      /\ Along(v, path)[0] = v /\ Along(w, path)[0] = w
  BY PathsBegin
<1>2. /\ \A n \in 1 .. Len(path) : Along(v, path)[n] = Along(w, path)[n]
      /\ At(v, path) = At(w, path)
  BY <1>1, AlongAgrees
<1>3. \A n \in 0 .. Len(path) : n = 0 \/ n \in 1 .. Len(path)
  BY <1>1
<1>4. (\E n \in 0 .. Len(path) : Along(v, path)[n].kind \notin {"map", "absent"})
      <=> (\E n \in 0 .. Len(path) : Along(w, path)[n].kind \notin {"map", "absent"})
  BY <1>1, <1>2, <1>3
<1> QED
  BY <1>2, <1>4 DEF Speaks

(* The extensions of a layer over those that were inherited.               *)
LEMMA ExtensionsMerge ==
  ASSUME NEW lat \in [Keys -> Parts \cup {Absent}],
         NEW hat \in [Keys -> Parts \cup {Delete} \cup {Absent}],
         NEW l, l = Map(lat) \/ (l = Absent /\ lat = Nothing)
  PROVE  LET h == Map(hat)
             r == MergeExtensions(lat, hat)
         IN  /\ r # Error => /\ r \in MapsOver(Parts)
                             /\ \A path \in Paths : Overlays(r, l, h, path) /\ ~ Clash(At(l, path), At(h, path))
             /\ r = Error => \E path \in Paths : Clash(At(l, path), At(h, path))
<1> DEFINE h == Map(hat)
           r == MergeExtensions(lat, hat)
           lower == [k \in Keys |-> IF hat[k] = Delete THEN Absent ELSE lat[k]]
           higher == [k \in Keys |-> IF hat[k] = Delete THEN Absent ELSE hat[k]]
           x == Map(lower)
           y == Map(higher)
<1>1. \A key \in Keys : Child(l, key) = lat[key] /\ Child(h, key) = hat[key]
  BY DEF Child, Map, Absent, Nothing
<1>2. /\ l.kind \in {"map", "absent"} /\ h.kind = "map" /\ l \notin {Delete, Null} /\ h \notin Gone \cup {Null}
      /\ l = Absent \/ l.kind = "map"
  BY ValuesAreValues DEF Map, Gone
<1>3. x \in Values /\ y \in Values /\ x.kind = "map" /\ y.kind = "map"
  <2>1. \A k \in Keys : lower[k] \in Parts \cup {Absent} /\ higher[k] \in Parts \cup {Absent}
    OBVIOUS
  <2>2. lower \in [Keys -> Parts \cup {Absent}] /\ higher \in [Keys -> Parts \cup {Absent}]
    BY <2>1
  <2> HIDE DEF lower, higher
  <2> QED BY <2>2, ValuesAreNested DEF Nested, Map, MapsOver
<1>4. \A key \in Keys : /\ hat[key] # Delete => Child(x, key) = lat[key] /\ Child(y, key) = hat[key]
                        /\ hat[key] = Delete => Child(x, key) = Absent /\ Child(y, key) = Absent
  BY DEF Child, Map
<1>5. r = IF \E k \in Keys : hat[k] = Delete /\ lat[k] = Absent THEN Error ELSE MergeValue(x, y)
  BY DEF MergeExtensions, MergeMap
<1>6. \A key \in Keys : lat[key] \in Values \cup {Absent}
  BY LevelsGrow
<1> HIDE DEF h, r, x, y, lower, higher
<1>7. ASSUME NEW path \in Paths, Len(path) # 0, hat[path[1]] # Delete
      PROVE  /\ At(l, path) = At(x, path) /\ At(h, path) = At(y, path)
             /\ Speaks(h, path) <=> Speaks(y, path)
  <2>1. path[1] \in Keys
    BY <1>7, PathsBegin
  <2>2. Child(l, path[1]) = Child(x, path[1]) /\ Child(h, path[1]) = Child(y, path[1])
    BY <1>1, <1>4, <1>7, <2>1
  <2> QED BY <1>2, <1>3, <1>7, <2>2, SpeaksAgrees
<1>8. ASSUME NEW path \in Paths, Len(path) # 0, hat[path[1]] = Delete
      PROVE  /\ Speaks(h, path) /\ At(h, path) \in Gone
             /\ At(h, path) = Delete => At(l, path) = lat[path[1]]
             /\ At(x, path) = Absent /\ At(y, path) = Absent /\ ~ Speaks(y, path)
  <2>1. path[1] \in Keys /\ Along(l, path)[1] = Child(l, path[1])
    BY <1>8, PathsBegin
  <2>2. Child(h, path[1]) = Delete /\ Child(x, path[1]) = Absent /\ Child(y, path[1]) = Absent
    BY <1>1, <1>4, <1>8, <2>1
  <2>3. Speaks(h, path) /\ At(h, path) \in Gone /\ (At(h, path) = Delete => Len(path) = 1)
    BY <1>8, <2>2, DirectiveSpeaks
  <2>4. At(h, path) = Delete => At(l, path) = lat[path[1]]
    BY <1>1, <2>1, <2>3 DEF At
  <2>5. Child(Absent, path[1]) = Absent /\ Absent.kind = "absent"
    BY DEF Child, Absent
  <2>6. At(x, path) = Absent /\ At(y, path) = Absent /\ ~ Speaks(y, path)
    BY <1>3, <1>8, <2>2, <2>5, SpeaksAgrees, NothingIsSilent
  <2> QED BY <2>3, <2>4, <2>6
<1>9. ASSUME NEW key \in Keys, hat[key] = Delete, lat[key] = Absent
      PROVE  \E path \in Paths : Clash(At(l, path), At(h, path))
  <2>1. PICK path \in Paths : \A v : At(v, path) = Child(v, key)
    BY OneKeyPath
  <2>2. At(l, path) = Absent /\ At(h, path) = Delete
    BY <1>1, <1>9, <2>1
  <2> QED BY <2>2 DEF Clash, Gone
<1>10. CASE \E k \in Keys : hat[k] = Delete /\ lat[k] = Absent
  BY <1>5, <1>9, <1>10 DEF h, r
<1>11. CASE ~ \E k \in Keys : hat[k] = Delete /\ lat[k] = Absent
  <2>1. r = MergeValue(x, y)
    BY <1>5, <1>11
  <2>2. CASE r = Error
    <3>1. PICK path \in Paths : Clash(At(x, path), At(y, path))
      BY <1>3, <2>1, <2>2, ErrorsClash
    <3>2. Len(path) # 0
      <4>1. ~ Clash(x, y)
        BY <1>3, ValuesAreValues DEF Clash, TypeOf
      <4> QED BY <3>1, <4>1, PathsBegin
    <3>3. hat[path[1]] # Delete
      <4>1. ~ Clash(Absent, Absent)
        BY ValuesAreValues DEF Clash, Gone
      <4> QED BY <1>8, <3>1, <3>2, <4>1
    <3>4. Clash(At(l, path), At(h, path))
      BY <1>7, <3>1, <3>2, <3>3
    <3> QED BY <2>2, <3>4 DEF h, r
  <2>3. CASE r # Error
    <3>1. r \in Values /\ r.kind = "map"
      BY <1>3, <2>1, <2>3, MergeSays
    <3>2. r \in MapsOver(Parts)
      BY <3>1, ValueKinds
    <3>3. ASSUME NEW path \in Paths PROVE Overlays(r, l, h, path) /\ ~ Clash(At(l, path), At(h, path))
      <4>1. Overlays(r, x, y, path) /\ ~ Clash(At(x, path), At(y, path))
        BY <1>3, <2>1, <2>3, MergeOverlays
      <4>2. CASE Len(path) = 0
        <5>1. At(l, path) = l /\ At(h, path) = h /\ At(r, path) = r
          BY <4>2, PathsBegin
        <5>2. Speaks(h, path)
          BY <1>2, <5>1 DEF Speaks, Gone
        <5>3. Says(r, h)
          BY <1>2, <3>1 DEF Says
        <5>4. ~ Clash(l, h)
          BY <1>2 DEF Clash, TypeOf, Gone
        <5> QED BY <5>1, <5>2, <5>3, <5>4 DEF Overlays
      <4>3. CASE Len(path) # 0 /\ hat[path[1]] # Delete
        BY <1>7, <4>1, <4>3 DEF Overlays
      <4>4. CASE Len(path) # 0 /\ hat[path[1]] = Delete
        <5>1. path[1] \in Keys
          BY <4>4, PathsBegin
        <5>2. At(r, path) = Absent
          BY <1>8, <4>1, <4>4 DEF Overlays
        <5>3. Overlays(r, l, h, path)
          <6>1. Speaks(h, path) /\ At(h, path) \in Gone
            BY <1>8, <4>4
          <6>2. Says(At(r, path), At(h, path))
            <7>1. At(h, path).kind # "map"
              BY <6>1, ValuesAreValues DEF Gone
            <7> QED BY <5>2, <6>1, <7>1 DEF Says
          <6> QED BY <6>1, <6>2 DEF Overlays
        <5>4. lat[path[1]] # Absent /\ lat[path[1]] \in Values
          BY <1>6, <1>11, <4>4, <5>1
        <5>5. ~ Clash(At(l, path), At(h, path))
          BY <1>8, <4>4, <5>4, ValuesAreValues DEF Clash, Gone
        <5> QED BY <5>3, <5>5
      <4> QED BY <4>2, <4>3, <4>4
    <3> QED BY <2>3, <3>2, <3>3 DEF h, r
  <2> QED BY <2>2, <2>3
<1> QED BY <1>10, <1>11

(* A field that no lower layer had.                                        *)
LEMMA FirstOverlays ==
  ASSUME NEW h \in Values, NEW path \in Paths
  PROVE  Overlays(h, Absent, h, path) /\ ~ Clash(At(Absent, path), At(h, path))
<1>1. At(Absent, path) = Absent
  BY NothingIsSilent
<1>2. At(h, path) \in Values \cup {Absent}
  <2>1. Len(path) \in 0 .. Len(path)
    BY PathsArePaths
  <2> QED BY <2>1, AlongValues DEF At
<1>3. ~ Speaks(h, path) => At(h, path) = Absent
  BY DEF Speaks
<1>4. Says(At(h, path), At(h, path))
  <2>1. CASE At(h, path) = Absent
    BY <2>1, ValuesAreValues DEF Says, Gone
  <2>2. CASE At(h, path) \in Values
    <3>1. At(h, path) \notin Gone
      BY <2>2, ValuesAreValues DEF Gone
    <3> QED BY <3>1 DEF Says
  <2> QED BY <1>2, <2>1, <2>2
<1>5. ~ Clash(Absent, At(h, path))
  BY <1>2, ValuesAreValues DEF Clash, Gone
<1> QED
  BY <1>1, <1>3, <1>4, <1>5 DEF Overlays

(* The merge of a field, as the reference sees it.                         *)
FieldMerged(field, l, h, r) ==
  /\ r # Error => /\ r \in ResolvedValues(field)
                  /\ \A path \in Paths : Overlays(AsMap(field, r), l, h, path) /\ ~ Clash(At(l, path), At(h, path))
  /\ r = Error => \E path \in Paths : Clash(At(l, path), At(h, path))

(* What the schema accepts are values, of the kind the field has.          *)
LEMMA ResolvedKinds ==
  /\ Texts \subseteq Values /\ Texts \cup {Null} \subseteq Values
  /\ MapsOver(Parts) \subseteq Values /\ ListsOver(Parts) \subseteq Values
  /\ \A v \in Texts : v.kind = "scalar" /\ TypeOf(v) = <<"scalar", "text">>
  /\ \A v \in MapsOver(Parts) : v.kind = "map" /\ v = Map(v.at) /\ v.at \in [Keys -> Parts \cup {Absent}]
  /\ \A v \in ListsOver(Parts) : v.kind = "list" /\ TypeOf(v) = <<"list">> /\ v = List(v.items) /\ v.items \in Seq(Parts)
<1>1. /\ MapsOver(Parts) \subseteq Values /\ ListsOver(Parts) \subseteq Values
      /\ Scalars \subseteq Values /\ Null \in Values
  BY ValuesAreNested DEF Nested
<1>2. \A v \in Texts : v \in Scalars /\ v.kind = "scalar" /\ TypeOf(v) = <<"scalar", "text">>
  BY ScalarsAssumption DEF Texts, TypeOf
<1>3. ASSUME NEW v \in MapsOver(Parts)
      PROVE  v.kind = "map" /\ v = Map(v.at) /\ v.at \in [Keys -> Parts \cup {Absent}]
  BY <1>3 DEF MapsOver, Map
<1>4. ASSUME NEW v \in ListsOver(Parts)
      PROVE  v.kind = "list" /\ TypeOf(v) = <<"list">> /\ v = List(v.items) /\ v.items \in Seq(Parts)
  BY <1>4 DEF ListsOver, List, TypeOf
<1> QED BY <1>1, <1>2, <1>3, <1>4

(* Every value a field may have is a tree of values.                       *)
LEMMA ResolvedTrees ==
  ASSUME NEW field \in Required, NEW v \in ResolvedValues(field)
  PROVE  AsMap(field, v) \in Values
<1>1. CASE field = "keyed_items"
  <2>1. v \in ListsOver(Parts) /\ Keyed(v.items)
    BY <1>1 DEF ResolvedValues
  <2>2. v = List(v.items) /\ v.items \in KeyedParts
    BY <2>1, ResolvedKinds DEF KeyedParts
  <2> QED BY <1>1, <2>2, KeyedListAsMap
<1>2. CASE field # "keyed_items"
  <2>1. AsMap(field, v) = v
    BY <1>2 DEF AsMap
  <2>2. v \in Texts \/ v \in MapsOver(Parts) \/ v \in ListsOver(Parts) \/ v \in Texts \cup {Null}
    BY <1>2 DEF ResolvedValues, Required
  <2> QED BY <2>1, <2>2, ResolvedKinds
<1> QED BY <1>1, <1>2

(* MergeField, for every field: an error clashes, a result overlays.       *)
LEMMA FieldMerges ==
  ASSUME NEW field \in Required, NEW inherited,
         field \in DOMAIN inherited => inherited[field] \in ResolvedValues(field),
         NEW higher \in PatchValues(field)
  PROVE  FieldMerged(field, IF field \in DOMAIN inherited THEN AsMap(field, inherited[field]) ELSE Absent,
                     AsMap(field, higher), MergeField(field, inherited, higher))
<1> DEFINE has == field \in DOMAIN inherited
           l == IF has THEN AsMap(field, inherited[field]) ELSE Absent
           h == AsMap(field, higher)
           r == MergeField(field, inherited, higher)
<1> SUFFICES FieldMerged(field, l, h, r)
  OBVIOUS
<1>1. CASE field = "extensions"
  <2>1. higher \in MapsOver(Parts \cup {Delete}) /\ (has => inherited[field] \in MapsOver(Parts))
    BY <1>1 DEF PatchValues, ResolvedValues
  <2>2. h = higher /\ (has => l = inherited[field])
    BY <1>1 DEF AsMap
  <2>3. higher = Map(higher.at) /\ higher.at \in [Keys -> Parts \cup {Delete} \cup {Absent}]
    BY <2>1 DEF MapsOver, Map
  <2> DEFINE lat == IF has THEN inherited[field].at ELSE Nothing
  <2>4. lat \in [Keys -> Parts \cup {Absent}] /\ (l = Map(lat) \/ (l = Absent /\ lat = Nothing))
    <3>1. CASE has
      BY <2>1, <2>2, <3>1, ResolvedKinds
    <3>2. CASE ~ has
      BY <3>2 DEF Nothing
    <3> QED BY <3>1, <3>2
  <2>5. r = MergeExtensions(lat, higher.at)
    BY <1>1 DEF MergeField
  <2> HIDE DEF lat, l, h, r
  <2>6. /\ r # Error => /\ r \in MapsOver(Parts)
                        /\ \A path \in Paths : Overlays(r, l, h, path) /\ ~ Clash(At(l, path), At(h, path))
        /\ r = Error => \E path \in Paths : Clash(At(l, path), At(h, path))
    BY <2>2, <2>3, <2>4, <2>5, ExtensionsMerge
  <2>7. AsMap(field, r) = r /\ ResolvedValues(field) = MapsOver(Parts)
    BY <1>1 DEF AsMap, ResolvedValues
  <2> QED BY <2>6, <2>7 DEF FieldMerged
<1>2. CASE field # "extensions" /\ ~ has
  <2>1. higher \in ResolvedValues(field) /\ r = higher /\ l = Absent
    BY <1>2 DEF PatchValues, MergeField
  <2>2. h \in Values
    BY <2>1, ResolvedTrees
  <2>3. h = AsMap(field, r)
    BY <2>1
  <2>4. r # Error
    <3>1. h # Error
      BY <2>2, ValuesAreValues
    <3>2. CASE field = "keyed_items"
      <4>1. higher \in ListsOver(Parts)
        BY <2>1, <3>2 DEF ResolvedValues
      <4> QED BY <2>1, <4>1, ResolvedKinds, ValuesAreValues
    <3>3. CASE field # "keyed_items"
      BY <2>3, <3>1, <3>3 DEF AsMap
    <3> QED BY <3>2, <3>3
  <2> HIDE DEF l, h, r
  <2> QED BY <2>1, <2>2, <2>3, <2>4, FirstOverlays DEF FieldMerged
<1>3. CASE field = "keyed_items" /\ has
  <2>1. /\ higher \in ListsOver(Parts) /\ Keyed(higher.items)
        /\ inherited[field] \in ListsOver(Parts) /\ Keyed(inherited[field].items)
    BY <1>3 DEF ResolvedValues, PatchValues
  <2> DEFINE lower == inherited[field]
  <2>2. /\ higher = List(higher.items) /\ higher.items \in KeyedParts
        /\ lower = List(lower.items) /\ lower.items \in KeyedParts
    BY <2>1, ResolvedKinds DEF KeyedParts
  <2>3. r = MergeKeyedList(lower.items, higher.items)
    BY <1>3 DEF MergeField
  <2>4. l = AsMap("keyed_items", List(lower.items)) /\ h = AsMap("keyed_items", List(higher.items))
    BY <1>3, <2>2
  <2> HIDE DEF l, h, r, lower
  <2>5. /\ l \in Values /\ h \in Values
        /\ r = Error => MergeValue(l, h) = Error
        /\ r # Error => \E items : /\ r = List(items) /\ PutSoFar(lower.items, higher.items, items, Len(higher.items))
                                   /\ AsMap("keyed_items", r) = MergeValue(l, h)
    BY <2>2, <2>3, <2>4, KeyedListsMerge
  <2>6. CASE r = Error
    BY <2>5, <2>6, ErrorsClash DEF FieldMerged
  <2>7. CASE r # Error
    <3>1. PICK items : /\ r = List(items) /\ PutSoFar(lower.items, higher.items, items, Len(higher.items))
                       /\ AsMap("keyed_items", r) = MergeValue(l, h)
      BY <2>5, <2>7
    <3>2. items \in Seq(Parts) /\ Keyed(items)
      BY <3>1 DEF PutSoFar, KeyedParts
    <3>3. r \in ResolvedValues(field)
      BY <1>3, <3>1, <3>2 DEF ResolvedValues, ListsOver, List
    <3>4. AsMap(field, r) = MergeValue(l, h)
      BY <1>3, <3>1
    <3>5. MergeValue(l, h) # Error
      <4>1. MergeValue(l, h) = AsMap("keyed_items", List(items)) /\ items \in KeyedParts
        BY <3>1 DEF PutSoFar
      <4> QED BY <4>1, KeyedListAsMap, ValuesAreValues
    <3> QED BY <2>5, <2>7, <3>3, <3>4, <3>5, MergeOverlays DEF FieldMerged
  <2> QED BY <2>6, <2>7
<1>4. CASE field \notin {"extensions", "keyed_items"} /\ has
  <2>1. /\ higher \in ResolvedValues(field) /\ inherited[field] \in ResolvedValues(field)
        /\ r = MergeValue(inherited[field], higher)
        /\ l = inherited[field] /\ h = higher
    BY <1>4 DEF PatchValues, MergeField, AsMap
  <2>2. \A v : AsMap(field, v) = v
    BY <1>4 DEF AsMap
  <2>3. l \in Values /\ h \in Values
    <3>1. AsMap(field, higher) \in Values /\ AsMap(field, inherited[field]) \in Values
      BY <2>1, ResolvedTrees
    <3> QED BY <2>1, <2>2, <3>1
  <2> HIDE DEF l, h, r
  <2>4. CASE r = Error
    BY <2>1, <2>3, <2>4, ErrorsClash DEF FieldMerged
  <2>5. CASE r # Error
    <3>1. r \in Values /\ (h.kind # "map" => r = h) /\ (h.kind = "map" => r.kind = "map")
      BY <2>1, <2>3, <2>5, MergeSays
    <3>2. CASE field = "settings"
      <4>1. h \in MapsOver(Parts) /\ ResolvedValues(field) = MapsOver(Parts)
        BY <2>1, <3>2 DEF ResolvedValues
      <4>2. r \in ResolvedValues(field)
        BY <3>1, <4>1, ResolvedKinds, ValueKinds
      <4> QED BY <2>1, <2>2, <2>3, <2>5, <4>2, MergeOverlays DEF FieldMerged
    <3>3. CASE field # "settings"
      <4>1. h \in Texts \/ h \in ListsOver(Parts) \/ h \in Texts \cup {Null}
        BY <1>4, <2>1, <3>3 DEF ResolvedValues, Required
      <4>2. h.kind # "map"
        BY <4>1, ResolvedKinds, ValuesAreValues
      <4>3. r \in ResolvedValues(field)
        BY <2>1, <3>1, <4>2
      <4> QED BY <2>1, <2>2, <2>3, <2>5, <4>3, MergeOverlays DEF FieldMerged
    <3> QED BY <3>2, <3>3
  <2> QED BY <2>4, <2>5
<1> QED BY <1>1, <1>2, <1>3, <1>4

-----------------------------------------------------------------------------
(* The layers by precedence.                                               *)

(* Each scope has a rank of its own.                                       *)
LEMMA RanksAreDistinct ==
  ASSUME NEW s \in Range(Precedence)
  PROVE  /\ Rank(s) \in 1 .. 7 /\ Precedence[Rank(s)] = s
         /\ \A t \in Range(Precedence) : Rank(s) = Rank(t) => s = t
<1>1. DOMAIN Precedence = 1 .. 7
  BY DEF Precedence
<1>2. \A t \in Range(Precedence) : \E i \in DOMAIN Precedence : Precedence[i] = t
  BY DEF Range
<1>3. \A t \in Range(Precedence) : Rank(t) \in DOMAIN Precedence /\ Precedence[Rank(t)] = t
  BY <1>2 DEF Rank
<1> QED BY <1>1, <1>3

Scoped(layers) ==
  /\ Len(layers) \in Nat /\ DOMAIN layers = 1 .. Len(layers)
  /\ \A i \in DOMAIN layers : layers[i].scope \in Range(Precedence)

(* Sorting rearranges the layers, by rank.                                 *)
LEMMA SortingRearranges ==
  ASSUME NEW layers, Scoped(layers)
  PROVE  /\ DOMAIN Sorted(layers) = 1 .. Len(layers) /\ Len(Sorted(layers)) = Len(layers)
         /\ \A n \in DOMAIN layers : \E i \in DOMAIN layers :
              PlaceOf(layers, i) = n /\ Sorted(layers)[n] = layers[i]
         /\ \A i \in DOMAIN layers : PlaceOf(layers, i) \in DOMAIN layers
                                     /\ Sorted(layers)[PlaceOf(layers, i)] = layers[i]
         /\ \A i, j \in DOMAIN layers : PlaceOf(layers, i) = PlaceOf(layers, j) => i = j
         /\ \A n, m \in DOMAIN layers : n < m =>
              Rank(Sorted(layers)[n].scope) <= Rank(Sorted(layers)[m].scope)
<1> DEFINE D == DOMAIN layers
           rank(i) == Rank(layers[i].scope)
           R == {e \in D \X D : Before(layers, e[1], e[2])}
           at(n) == CHOOSE i \in D : PlaceOf(layers, i) = n
<1>1. D = 1 .. Len(layers) /\ Len(layers) \in Nat /\ D \subseteq Int
  BY DEF Scoped
<1>2. \A i \in D : rank(i) \in Int
  <2>1. \A i \in D : rank(i) \in 1 .. 7
    BY RanksAreDistinct DEF Scoped
  <2> QED BY <2>1
<1>3. \A i, j \in D : Before(layers, i, j) <=> rank(i) < rank(j) \/ (rank(i) = rank(j) /\ i < j)
  BY DEF Before
<1>4. IsFiniteSet(D) /\ Cardinality(D) = Len(layers)
  <2>1. 1 \in Int /\ Len(layers) \in Int
    BY <1>1
  <2>2. IsFiniteSet(1 .. Len(layers)) /\ Cardinality(1 .. Len(layers)) = IF 1 > Len(layers) THEN 0 ELSE Len(layers) - 1 + 1
    BY <2>1, FS_Interval
  <2> QED BY <1>1, <2>2
<1>5. \A i, j \in D : <<i, j>> \in R <=> Before(layers, i, j)
  OBVIOUS
<1>6. \A i \in D : PlaceOf(layers, i) = PlaceIn(D, R, i)
  <2> TAKE i \in D
  <2>1. {j \in D : Before(layers, j, i)} = {j \in D : <<j, i>> \in R}
    BY <1>5
  <2> QED BY <2>1 DEF PlaceOf, PlaceIn
<1> HIDE DEF R, D, rank, at
<1>7. /\ \A i \in D : <<i, i>> \notin R
      /\ \A i, j, k \in D : <<i, j>> \in R /\ <<j, k>> \in R => <<i, k>> \in R
      /\ \A i, j \in D : i # j => <<i, j>> \in R \/ <<j, i>> \in R
  BY <1>1, <1>2, <1>3, <1>5
<1>8. /\ \A i \in D : PlaceOf(layers, i) \in 1 .. Len(layers)
      /\ \A i, j \in D : PlaceOf(layers, i) = PlaceOf(layers, j) => i = j
      /\ \A n \in 1 .. Len(layers) : \E i \in D : PlaceOf(layers, i) = n
      /\ \A i, j \in D : <<i, j>> \in R => PlaceOf(layers, i) < PlaceOf(layers, j)
  <2>1. /\ \A i \in D : PlaceIn(D, R, i) \in 1 .. Cardinality(D)
        /\ \A i, j \in D : PlaceIn(D, R, i) = PlaceIn(D, R, j) => i = j
        /\ \A k \in 1 .. Cardinality(D) : \E i \in D : PlaceIn(D, R, i) = k
        /\ \A i, j \in D : <<i, j>> \in R => PlaceIn(D, R, i) < PlaceIn(D, R, j)
    <3>1. IsFiniteSet(D)
      BY <1>4
    <3> QED BY <1>7, <3>1, PlacesAreBijective
  <2> QED BY <1>4, <1>6, <2>1
<1>9. \A n \in D : at(n) \in D /\ PlaceOf(layers, at(n)) = n
  BY <1>1, <1>8 DEF at
<1>10. \A i \in D : at(PlaceOf(layers, i)) = i
  BY <1>1, <1>8, <1>9
<1>11. Sorted(layers) = [n \in D |-> layers[at(n)]]
  BY DEF Sorted, at, D
<1>12. DOMAIN Sorted(layers) = 1 .. Len(layers) /\ Len(Sorted(layers)) = Len(layers)
  BY <1>1, <1>11
<1>13. ASSUME NEW n \in D, NEW m \in D, n < m
       PROVE  Rank(Sorted(layers)[n].scope) <= Rank(Sorted(layers)[m].scope)
  <2>1. at(n) \in D /\ at(m) \in D /\ PlaceOf(layers, at(n)) = n /\ PlaceOf(layers, at(m)) = m
    BY <1>9
  <2>2. ~ (PlaceOf(layers, at(m)) < PlaceOf(layers, at(n)))
    BY <1>1, <1>13, <2>1
  <2>3. ~ (rank(at(m)) < rank(at(n)))
    BY <1>3, <1>5, <1>8, <2>1, <2>2
  <2>4. rank(at(n)) <= rank(at(m))
    BY <1>2, <2>1, <2>3
  <2> QED BY <1>11, <2>4 DEF rank
<1>14. /\ \A n \in D : \E i \in D : PlaceOf(layers, i) = n /\ Sorted(layers)[n] = layers[i]
       /\ \A i \in D : PlaceOf(layers, i) \in D /\ Sorted(layers)[PlaceOf(layers, i)] = layers[i]
  <2>1. \A n \in D : Sorted(layers)[n] = layers[at(n)]
    BY <1>11
  <2> QED BY <1>1, <1>8, <1>9, <1>10, <2>1
<1> QED
  BY <1>8, <1>12, <1>13, <1>14 DEF D

(* A request, and what sorting its layers leaves as it is.                 *)
LEMMA SortedRequest ==
  ASSUME NEW r \in Resolutions
  PROVE  LET os == Sorted(r.layers) IN
         /\ r.deadline \in Int
         /\ Len(os) \in Nat /\ DOMAIN os = 1 .. Len(os) /\ (os = <<>> <=> r.layers = <<>>)
         /\ Range(os) = Range(r.layers)
         /\ \A n \in DOMAIN os : ValidLayer(os[n]) /\ os[n].scope \in Range(Precedence)
         /\ \A n, m \in DOMAIN os : n < m => Rank(os[n].scope) <= Rank(os[m].scope)
         /\ (\E i, j \in DOMAIN r.layers : i # j /\ r.layers[i].scope = r.layers[j].scope)
              <=> (\E n, m \in DOMAIN os : n # m /\ os[n].scope = os[m].scope)
<1> DEFINE layers == r.layers
           os == Sorted(layers)
<1>1. r.deadline \in Int /\ layers \in Seq(Range(layers)) /\ \A l \in Range(layers) : ValidLayer(l)
  BY ResolutionsAssumption
<1> HIDE DEF layers, os
<1>2. Len(layers) \in Nat /\ DOMAIN layers = 1 .. Len(layers)
  BY <1>1, LenProperties
<1>3. \A i \in DOMAIN layers : layers[i] \in Range(layers) /\ layers[i].scope \in Range(Precedence)
  <2>1. \A i \in DOMAIN layers : layers[i] \in Range(layers)
    BY DEF Range
  <2> QED BY <1>1, <2>1 DEF ValidLayer
<1>4. Scoped(layers)
  BY <1>2, <1>3 DEF Scoped
<1>5. /\ DOMAIN os = 1 .. Len(layers) /\ Len(os) = Len(layers)
      /\ \A n \in DOMAIN layers : \E i \in DOMAIN layers :
           PlaceOf(layers, i) = n /\ os[n] = layers[i]
      /\ \A i \in DOMAIN layers : PlaceOf(layers, i) \in DOMAIN layers
                                  /\ os[PlaceOf(layers, i)] = layers[i]
      /\ \A i, j \in DOMAIN layers : PlaceOf(layers, i) = PlaceOf(layers, j) => i = j
      /\ \A n, m \in DOMAIN layers : n < m => Rank(os[n].scope) <= Rank(os[m].scope)
  BY <1>4, SortingRearranges DEF os
<1>6. Len(os) \in Nat /\ DOMAIN os = 1 .. Len(os) /\ DOMAIN os = DOMAIN layers
  BY <1>2, <1>5
<1>7. os = <<>> <=> layers = <<>>
  <2>1. layers = <<>> <=> Len(layers) = 0
    BY <1>1, EmptySeq
  <2>2. os = [n \in DOMAIN layers |-> os[n]]
    BY DEF os, Sorted
  <2>3. Len(os) = 0 => os = <<>>
    <3>1. ASSUME Len(os) = 0 PROVE os = <<>>
      <4>1. os \in Seq({os[n] : n \in DOMAIN layers})
        BY <1>2, <2>2
      <4> QED BY <3>1, <4>1, EmptySeq
    <3> QED BY <3>1
  <2>4. os = <<>> => Len(os) = 0
    OBVIOUS
  <2> QED BY <1>5, <2>1, <2>3, <2>4
<1>8. Range(os) = Range(layers)
  BY <1>5, <1>6 DEF Range
<1>9. \A n \in DOMAIN os : ValidLayer(os[n]) /\ os[n].scope \in Range(Precedence)
  BY <1>1, <1>3, <1>5, <1>6
<1>10. (\E i, j \in DOMAIN layers : i # j /\ layers[i].scope = layers[j].scope)
         <=> (\E n, m \in DOMAIN os : n # m /\ os[n].scope = os[m].scope)
  <2>1. ASSUME NEW i \in DOMAIN layers, NEW j \in DOMAIN layers, i # j, layers[i].scope = layers[j].scope
        PROVE  \E n, m \in DOMAIN os : n # m /\ os[n].scope = os[m].scope
    <3>1. PlaceOf(layers, i) \in DOMAIN os /\ PlaceOf(layers, j) \in DOMAIN os /\ PlaceOf(layers, i) # PlaceOf(layers, j)
      BY <1>5, <1>6, <2>1
    <3>2. os[PlaceOf(layers, i)] = layers[i] /\ os[PlaceOf(layers, j)] = layers[j]
      BY <1>5
    <3> QED BY <2>1, <3>1, <3>2
  <2>2. ASSUME NEW n \in DOMAIN os, NEW m \in DOMAIN os, n # m, os[n].scope = os[m].scope
        PROVE  \E i, j \in DOMAIN layers : i # j /\ layers[i].scope = layers[j].scope
    <3>1. PICK i \in DOMAIN layers : PlaceOf(layers, i) = n /\ os[n] = layers[i]
      BY <1>5, <1>6
    <3>2. PICK j \in DOMAIN layers : PlaceOf(layers, j) = m /\ os[m] = layers[j]
      BY <1>5, <1>6
    <3>3. i # j
      BY <2>2, <3>1, <3>2
    <3> QED BY <2>2, <3>1, <3>2, <3>3
  <2> QED BY <2>1, <2>2
<1> QED
  BY <1>1, <1>5, <1>6, <1>7, <1>8, <1>9, <1>10 DEF os, layers

-----------------------------------------------------------------------------
(* The reference, layer by layer.                                          *)

LastOf(speakers) == CHOOSE i \in speakers : \A j \in speakers : j <= i

(* What stands is the word of the last speaker, by name.                   *)
LEMMA StandingIs ==
  ASSUME NEW field, NEW path, NEW n
  PROVE  Standing(field, path, n) =
           IF Speakers(field, path, n) = {} THEN Absent
           ELSE At(Said(field, LastOf(Speakers(field, path, n))), path)
BY DEF Standing, LastOf

(* The next layer has the word, if it speaks.                              *)
LEMMA StandingUnfolds ==
  ASSUME NEW field, NEW path
  PROVE  /\ Standing(field, path, 0) = Absent
         /\ \A n \in Nat : Standing(field, path, n + 1) =
              IF Speaks(Said(field, n + 1), path) THEN At(Said(field, n + 1), path)
              ELSE Standing(field, path, n)
<1> DEFINE speakers(n) == Speakers(field, path, n)
<1>1. Standing(field, path, 0) = Absent
  <2>1. speakers(0) = {}
    BY DEF Speakers
  <2> QED BY <2>1, StandingIs
<1>2. ASSUME NEW n \in Nat, Speaks(Said(field, n + 1), path)
      PROVE  Standing(field, path, n + 1) = At(Said(field, n + 1), path)
  <2>1. n + 1 \in speakers(n + 1) /\ speakers(n + 1) \subseteq 1 .. n + 1
    BY <1>2 DEF Speakers
  <2> HIDE DEF speakers
  <2>2. \A i \in speakers(n + 1) : i \in Int /\ i <= n + 1
    BY <2>1
  <2>3. LastOf(speakers(n + 1)) = n + 1
    <3>1. LastOf(speakers(n + 1)) \in speakers(n + 1) /\ \A j \in speakers(n + 1) : j <= LastOf(speakers(n + 1))
      BY <2>1, <2>2 DEF LastOf
    <3> QED BY <2>1, <2>2, <3>1
  <2> QED BY <2>1, <2>3, StandingIs DEF speakers
<1>3. ASSUME NEW n \in Nat, ~ Speaks(Said(field, n + 1), path)
      PROVE  Standing(field, path, n + 1) = Standing(field, path, n)
  <2>1. speakers(n + 1) = speakers(n)
    <3>1. \A i \in 1 .. n + 1 : i = n + 1 \/ i \in 1 .. n
      OBVIOUS
    <3>2. 1 .. n \subseteq 1 .. n + 1
      OBVIOUS
    <3> QED BY <1>3, <3>1, <3>2 DEF Speakers
  <2> QED BY <2>1, StandingIs
<1> QED BY <1>1, <1>2, <1>3

(* What says the same clashes with the same.                               *)
LEMMA SaysKeepsClash ==
  ASSUME NEW v \in Values \cup {Absent}, NEW s, Says(v, s), NEW c
  PROVE  Clash(v, c) <=> Clash(s, c)
<1>1. CASE s \in Gone
  <2>1. v = Absent
    <3>1. s.kind # "map"
      BY <1>1, ValuesAreValues DEF Gone
    <3> QED BY <1>1, <3>1 DEF Says
  <2> QED BY <1>1, <2>1 DEF Clash, Gone
<1>2. CASE s \notin Gone /\ s.kind = "map"
  <2>1. v.kind = "map"
    BY <1>2 DEF Says
  <2>2. v \notin Gone \cup {Null} /\ s \notin Gone \cup {Null}
    BY <1>2, <2>1, ValuesAreValues DEF Gone
  <2>3. TypeOf(v) = TypeOf(s)
    BY <1>2, <2>1 DEF TypeOf
  <2> QED BY <2>2, <2>3 DEF Clash
<1>3. CASE s \notin Gone /\ s.kind # "map"
  <2>1. v = s
    BY <1>3 DEF Says
  <2> QED BY <2>1
<1> QED BY <1>1, <1>2, <1>3

(* The reference reads the request and the ordered layers alone.           *)
LEMMA ReferenceUnchanged ==
  ASSUME UNCHANGED <<resolution, ordered>>
  PROVE  /\ \A n : Patch(n)' = Patch(n) /\ ItemsOf(n)' = ItemsOf(n)
         /\ \A field, n : Said(field, n)' = Said(field, n)
         /\ \A field, path, n : Standing(field, path, n)' = Standing(field, path, n)
         /\ \A layer : Lawful(layer)' = Lawful(layer)
         /\ \A id, n, place : FirstAppears(id, n, place)' = FirstAppears(id, n, place)
         /\ \A id, other : AppearsBefore(id, other)' = AppearsBefore(id, other)
         /\ Refusals' = Refusals
<1>1. \A n : Patch(n)' = Patch(n)
  BY DEF Patch
<1>2. \A n : ItemsOf(n)' = ItemsOf(n)
  BY <1>1 DEF ItemsOf
<1>3. \A field, n : Said(field, n)' = Said(field, n)
  BY <1>1 DEF Said
<1>4. \A field, path, n : Speakers(field, path, n)' = Speakers(field, path, n)
  BY <1>3 DEF Speakers
<1>5. \A field, path, n : Standing(field, path, n)' = Standing(field, path, n)
  BY DEF Standing, Speakers, Said, Patch
<1>6. \A layer : Lawful(layer)' = Lawful(layer)
  BY DEF Lawful
<1>7. \A id, n, place : FirstAppears(id, n, place)' = FirstAppears(id, n, place)
  BY <1>2 DEF FirstAppears
<1>8. \A id, other : AppearsBefore(id, other)' = AppearsBefore(id, other)
  BY <1>2, <1>7 DEF AppearsBefore
<1>9. Refusals' = Refusals
  BY <1>3, <1>5, <1>6 DEF Refusals
<1> QED
  BY <1>1, <1>2, <1>3, <1>5, <1>6, <1>7, <1>8, <1>9

-----------------------------------------------------------------------------
(* The resolution, layer by layer.                                         *)

(* What the snapshot holds of a field when it has the merged fields m.     *)
HeldIn(m, field) == IF field \in DOMAIN m THEN AsMap(field, m[field]) ELSE Absent
ItemsIn(m) == IF "keyed_items" \in DOMAIN m THEN m["keyed_items"].items ELSE <<>>

(* After n layers the fields are those of the layers, and what the schema  *)
(* accepts.                                                                *)
FieldsAfter(m, n) ==
  /\ DOMAIN m = UNION {DOMAIN Patch(i) : i \in 1 .. n} /\ DOMAIN m \subseteq Required
  /\ \A field \in DOMAIN m : m[field] \in ResolvedValues(field)

(* A path holds what stands about it, and nothing has clashed.             *)
HoldsAfter(m, n) ==
  \A field \in Required, path \in Paths :
    /\ Says(At(HeldIn(m, field), path), Standing(field, path, n))
    /\ \A i \in 1 .. n : ~ Clash(Standing(field, path, i - 1), At(Said(field, i), path))

(* The entries are those of the layers, where they first appeared.         *)
EntriesAfter(m, n) ==
  /\ IdsOf(ItemsIn(m)) = UNION {IdsOf(ItemsOf(i)) : i \in 1 .. n}
  /\ \A i \in DOMAIN ItemsIn(m) : \E k \in 1 .. n : \E place \in DOMAIN ItemsOf(k) :
       FirstAppears(Id(ItemsIn(m)[i]), k, place)
  /\ \A i, j \in DOMAIN ItemsIn(m) : i < j => AppearsBefore(Id(ItemsIn(m)[i]), Id(ItemsIn(m)[j]))

(* What the snapshot holds at a path is a value, or nothing.               *)
LEMMA HeldValues ==
  ASSUME NEW m, NEW n, FieldsAfter(m, n), NEW field \in Required, NEW path \in Paths
  PROVE  At(HeldIn(m, field), path) \in Values \cup {Absent}
<1>1. HeldIn(m, field) \in Values \cup {Absent}
  BY ResolvedTrees DEF HeldIn, FieldsAfter
<1>2. Len(path) \in 0 .. Len(path)
  BY PathsArePaths
<1> QED BY <1>1, <1>2, AlongValues DEF At

(* The fields a scope may set are fields of the configuration.             *)
LEMMA LayersSayRequired ==
  ASSUME NEW layer, ValidLayer(layer)
  PROVE  DOMAIN layer.patch \subseteq Required
<1>1. AllowedFields(layer.scope) \subseteq Required
  BY DEF AllowedFields, Required
<1> QED BY <1>1 DEF ValidLayer

(* What the next layer makes of a field.                                   *)
LEMMA NextField ==
  ASSUME NEW n \in Nat, ValidLayer(ordered[n + 1]), FieldsAfter(merged, n), HoldsAfter(merged, n),
         NEW field \in Required
  PROVE  LET layer == ordered[n + 1]
             next == MergedWith(layer)
         IN /\ DOMAIN next = DOMAIN merged \cup DOMAIN layer.patch
            /\ field \notin DOMAIN layer.patch =>
                 /\ HeldIn(next, field) = HeldIn(merged, field) /\ Said(field, n + 1) = Absent
                 /\ field \in DOMAIN next => next[field] = merged[field]
            /\ field \in DOMAIN layer.patch =>
                 /\ next[field] = MergeField(field, merged, layer.patch[field])
                 /\ FieldMerged(field, HeldIn(merged, field), Said(field, n + 1), next[field])
                 /\ HeldIn(next, field) = AsMap(field, next[field])
<1> DEFINE layer == ordered[n + 1]
           next == MergedWith(layer)
<1>1. DOMAIN next = DOMAIN merged \cup DOMAIN layer.patch
  BY DEF MergedWith
<1>2. \A f \in DOMAIN next : next[f] = IF f \in DOMAIN layer.patch THEN MergeField(f, merged, layer.patch[f]) ELSE merged[f]
  BY DEF MergedWith
<1>3. Patch(n + 1) = layer.patch
  BY DEF Patch
<1> HIDE DEF next
<1>4. CASE field \notin DOMAIN layer.patch
  BY <1>1, <1>2, <1>3, <1>4 DEF HeldIn, Said, next
<1>5. CASE field \in DOMAIN layer.patch
  <2>1. layer.patch[field] \in PatchValues(field)
    BY <1>5 DEF ValidLayer
  <2>2. field \in DOMAIN merged => merged[field] \in ResolvedValues(field)
    BY DEF FieldsAfter
  <2>3. FieldMerged(field, IF field \in DOMAIN merged THEN AsMap(field, merged[field]) ELSE Absent,
                    AsMap(field, layer.patch[field]), MergeField(field, merged, layer.patch[field]))
    BY <2>1, <2>2, FieldMerges
  <2>4. field \in DOMAIN next /\ next[field] = MergeField(field, merged, layer.patch[field])
    BY <1>1, <1>2, <1>5
  <2>5. HeldIn(merged, field) = IF field \in DOMAIN merged THEN AsMap(field, merged[field]) ELSE Absent
    BY DEF HeldIn
  <2>6. Said(field, n + 1) = AsMap(field, layer.patch[field])
    BY <1>3, <1>5 DEF Said
  <2>7. FieldMerged(field, HeldIn(merged, field), Said(field, n + 1), next[field])
    BY <2>3, <2>4, <2>5, <2>6
  <2>8. HeldIn(next, field) = AsMap(field, next[field])
    BY <2>4 DEF HeldIn
  <2> QED BY <1>1, <1>5, <2>4, <2>7, <2>8 DEF next
<1> QED BY <1>4, <1>5

(* A layer that does not merge clashes with what stands.                   *)
LEMMA ErrorsAreClashes ==
  ASSUME NEW n \in Nat, ValidLayer(ordered[n + 1]), FieldsAfter(merged, n), HoldsAfter(merged, n),
         NEW field \in DOMAIN MergedWith(ordered[n + 1]), MergedWith(ordered[n + 1])[field] = Error
  PROVE  field \in Required /\ \E path \in Paths : Clash(Standing(field, path, n), At(Said(field, n + 1), path))
<1> DEFINE layer == ordered[n + 1]
           next == MergedWith(layer)
<1>1. DOMAIN next = DOMAIN merged \cup DOMAIN layer.patch
  BY DEF MergedWith
<1>2. field \in Required
  BY <1>1, LayersSayRequired DEF FieldsAfter
<1>3. field \in DOMAIN layer.patch
  <2>1. ASSUME field \notin DOMAIN layer.patch PROVE FALSE
    <3>1. next[field] = merged[field] /\ field \in DOMAIN merged
      BY <1>1, <1>2, <2>1, NextField
    <3>2. merged[field] \in ResolvedValues(field)
      BY <3>1 DEF FieldsAfter
    <3>3. Error \in ResolvedValues(field)
      BY <3>1, <3>2
    <3>4. AsMap(field, Error) \in Values
      BY <1>2, <3>3, ResolvedTrees
    <3>5. CASE field # "keyed_items"
      BY <3>4, <3>5, ValuesAreValues DEF AsMap
    <3>6. CASE field = "keyed_items"
      <4>1. Error \in ListsOver(Parts)
        BY <3>3, <3>6 DEF ResolvedValues
      <4> QED BY <4>1, ResolvedKinds, ValuesAreValues
    <3> QED BY <3>5, <3>6
  <2> QED BY <2>1
<1>4. FieldMerged(field, HeldIn(merged, field), Said(field, n + 1), next[field])
  BY <1>2, <1>3, NextField
<1> HIDE DEF next
<1>5. next[field] = Error
  BY DEF next
<1>6. PICK path \in Paths : Clash(At(HeldIn(merged, field), path), At(Said(field, n + 1), path))
  BY <1>4, <1>5 DEF FieldMerged
<1>7. Says(At(HeldIn(merged, field), path), Standing(field, path, n))
  BY <1>2, <1>6 DEF HoldsAfter
<1>8. Clash(Standing(field, path, n), At(Said(field, n + 1), path))
  BY <1>2, <1>6, <1>7, HeldValues, SaysKeepsClash
<1> QED BY <1>2, <1>8

(* One that does has its fields, and its word.                             *)
LEMMA NextFields ==
  ASSUME NEW n \in Nat, ValidLayer(ordered[n + 1]), FieldsAfter(merged, n), HoldsAfter(merged, n),
         \A field \in DOMAIN MergedWith(ordered[n + 1]) : MergedWith(ordered[n + 1])[field] # Error
  PROVE  /\ FieldsAfter(MergedWith(ordered[n + 1]), n + 1)
         /\ HoldsAfter(MergedWith(ordered[n + 1]), n + 1)
<1> DEFINE layer == ordered[n + 1]
           next == MergedWith(layer)
<1>1. DOMAIN next = DOMAIN merged \cup DOMAIN layer.patch
  BY DEF MergedWith
<1>2. DOMAIN next \subseteq Required
  BY <1>1, LayersSayRequired DEF FieldsAfter
<1>3. \A i \in 1 .. n + 1 : i = n + 1 \/ i \in 1 .. n
  OBVIOUS
<1>4. DOMAIN next = UNION {DOMAIN Patch(i) : i \in 1 .. n + 1}
  <2>1. DOMAIN merged = UNION {DOMAIN Patch(i) : i \in 1 .. n}
    BY DEF FieldsAfter
  <2>2. Patch(n + 1) = layer.patch
    BY DEF Patch
  <2>3. n + 1 \in 1 .. n + 1 /\ 1 .. n \subseteq 1 .. n + 1
    OBVIOUS
  <2> HIDE DEF next, layer
  <2> QED BY <1>1, <1>3, <2>1, <2>2, <2>3
<1>5. ASSUME NEW field \in DOMAIN next PROVE next[field] \in ResolvedValues(field)
  <2>1. CASE field \in DOMAIN layer.patch
    BY <1>2, <1>5, <2>1, NextField DEF FieldMerged
  <2>2. CASE field \notin DOMAIN layer.patch
    <3>1. next[field] = merged[field] /\ field \in DOMAIN merged
      BY <1>1, <1>2, <1>5, <2>2, NextField
    <3> QED BY <3>1 DEF FieldsAfter
  <2> QED BY <2>1, <2>2
<1>6. ASSUME NEW field \in Required, NEW path \in Paths
      PROVE  /\ Says(At(HeldIn(next, field), path), Standing(field, path, n + 1))
             /\ ~ Clash(Standing(field, path, n), At(Said(field, n + 1), path))
  <2>1. /\ Says(At(HeldIn(merged, field), path), Standing(field, path, n))
        /\ At(HeldIn(merged, field), path) \in Values \cup {Absent}
    BY HeldValues DEF HoldsAfter
  <2>2. Standing(field, path, n + 1) = IF Speaks(Said(field, n + 1), path) THEN At(Said(field, n + 1), path)
                                       ELSE Standing(field, path, n)
    BY StandingUnfolds
  <2>3. CASE field \in DOMAIN layer.patch
    <3>1. next[field] # Error
      BY <1>1, <2>3
    <3>2. FieldMerged(field, HeldIn(merged, field), Said(field, n + 1), next[field]) /\ HeldIn(next, field) = AsMap(field, next[field])
      BY <2>3, NextField
    <3> HIDE DEF next
    <3>3. /\ Overlays(HeldIn(next, field), HeldIn(merged, field), Said(field, n + 1), path)
          /\ ~ Clash(At(HeldIn(merged, field), path), At(Said(field, n + 1), path))
      BY <3>1, <3>2 DEF FieldMerged
    <3>4. ~ Clash(Standing(field, path, n), At(Said(field, n + 1), path))
      BY <2>1, <3>3, SaysKeepsClash
    <3> QED BY <2>1, <2>2, <3>3, <3>4 DEF Overlays
  <2>4. CASE field \notin DOMAIN layer.patch
    <3>1. HeldIn(next, field) = HeldIn(merged, field) /\ Said(field, n + 1) = Absent
      BY <2>4, NextField
    <3>2. ~ Speaks(Absent, path) /\ At(Absent, path) = Absent
      BY NothingIsSilent
    <3>3. \A s : ~ Clash(s, Absent)
      BY ValuesAreValues DEF Clash, Gone
    <3> HIDE DEF next
    <3> QED BY <2>1, <2>2, <3>1, <3>2, <3>3
  <2> QED BY <2>3, <2>4
<1>7. HoldsAfter(next, n + 1)
  <2>1. ASSUME NEW field \in Required, NEW path \in Paths, NEW i \in 1 .. n + 1
        PROVE  ~ Clash(Standing(field, path, i - 1), At(Said(field, i), path))
    <3>1. CASE i = n + 1
      <4>1. i - 1 = n
        BY <3>1
      <4> QED BY <1>6, <3>1, <4>1
    <3>2. CASE i \in 1 .. n
      BY <3>2 DEF HoldsAfter
    <3> QED BY <1>3, <3>1, <3>2
  <2> HIDE DEF next
  <2> QED BY <1>6, <2>1 DEF HoldsAfter
<1> QED
  BY <1>2, <1>4, <1>5, <1>7 DEF FieldsAfter

(* The entries of the next layer are merged in place, or appended.         *)
LEMMA NextEntries ==
  ASSUME NEW n \in Nat, n + 1 \in DOMAIN ordered, 1 .. n + 1 \subseteq DOMAIN ordered,
         ValidLayer(ordered[n + 1]), FieldsAfter(merged, n), HoldsAfter(merged, n), EntriesAfter(merged, n),
         \A field \in DOMAIN MergedWith(ordered[n + 1]) : MergedWith(ordered[n + 1])[field] # Error
  PROVE  EntriesAfter(MergedWith(ordered[n + 1]), n + 1)
<1> DEFINE layer == ordered[n + 1]
           next == MergedWith(layer)
           lower == ItemsIn(merged)
           higher == ItemsOf(n + 1)
           items == ItemsIn(next)
           before == UNION {IdsOf(ItemsOf(i)) : i \in 1 .. n}
           F == "keyed_items"
<1> SUFFICES EntriesAfter(next, n + 1)
  OBVIOUS
<1>1. F \in Required
  BY DEF Required
<1>2. DOMAIN next = DOMAIN merged \cup DOMAIN layer.patch /\ (F \in DOMAIN next => next[F] # Error)
  BY DEF MergedWith
<1>3. /\ F \in DOMAIN layer.patch => next[F] = MergeField(F, merged, layer.patch[F])
      /\ F \notin DOMAIN layer.patch /\ F \in DOMAIN next => next[F] = merged[F]
  BY <1>1, NextField
<1>4. IdsOf(<<>>) = {}
  BY DEF IdsOf
<1>5. \A i \in 1 .. n + 1 : i = n + 1 \/ i \in 1 .. n
  OBVIOUS
<1>6. n + 1 \in 1 .. n + 1 /\ 1 .. n \subseteq 1 .. n + 1
  OBVIOUS
<1>7. /\ IdsOf(lower) = before
      /\ \A i \in DOMAIN lower : \E k \in 1 .. n : \E place \in DOMAIN ItemsOf(k) : FirstAppears(Id(lower[i]), k, place)
      /\ \A i, j \in DOMAIN lower : i < j => AppearsBefore(Id(lower[i]), Id(lower[j]))
  BY DEF EntriesAfter
<1>8. higher = IF F \in DOMAIN layer.patch THEN layer.patch[F].items ELSE <<>>
  BY DEF ItemsOf, Patch
<1>9. items = IF F \in DOMAIN next THEN next[F].items ELSE <<>>
  BY DEF ItemsIn
<1>10. lower = IF F \in DOMAIN merged THEN merged[F].items ELSE <<>>
  BY DEF ItemsIn
<1> HIDE DEF next, lower, items
(* It is enough to know the entries by their ids.                          *)
<1>11. ASSUME IdsOf(items) = before \cup IdsOf(higher),
              \A i \in DOMAIN items : \E k \in 1 .. n + 1 : \E place \in DOMAIN ItemsOf(k) : FirstAppears(Id(items[i]), k, place),
              \A i, j \in DOMAIN items : i < j => AppearsBefore(Id(items[i]), Id(items[j]))
       PROVE  EntriesAfter(next, n + 1)
  <2>1. UNION {IdsOf(ItemsOf(i)) : i \in 1 .. n + 1} = before \cup IdsOf(higher)
    BY <1>5, <1>6
  <2> HIDE DEF before, higher
  <2> QED BY <1>11, <2>1 DEF EntriesAfter, items
<1>12. ASSUME NEW place \in DOMAIN higher, Id(higher[place]) \notin before
       PROVE  FirstAppears(Id(higher[place]), n + 1, place)
  BY <1>12 DEF FirstAppears
<1> HIDE DEF higher, before
<1>13. CASE F \notin DOMAIN layer.patch
  <2>1. items = lower /\ higher = <<>>
    BY <1>2, <1>3, <1>8, <1>9, <1>10, <1>13
  <2>2. IdsOf(items) = before \cup IdsOf(higher)
    BY <1>4, <1>7, <2>1
  <2> QED BY <1>6, <1>7, <1>11, <2>1, <2>2
<1>14. CASE F \in DOMAIN layer.patch
  <2>1. layer.patch[F] \in ListsOver(Parts) /\ Keyed(layer.patch[F].items)
    BY <1>14 DEF ValidLayer, PatchValues, ResolvedValues
  <2>2. higher \in KeyedParts
    BY <1>8, <1>14, <2>1, ResolvedKinds DEF KeyedParts
  <2>3. Len(higher) \in Nat /\ DOMAIN higher = 1 .. Len(higher)
    BY <2>2, KeyedPartsAreKeyed
  <2>4. CASE F \notin DOMAIN merged
    <3>1. next[F] = layer.patch[F]
      BY <1>3, <1>14, <2>4 DEF MergeField
    <3>2. lower = <<>> /\ items = higher
      BY <1>2, <1>8, <1>9, <1>10, <1>14, <2>4, <3>1
    <3>3. before = {}
      BY <1>4, <1>7, <3>2
    <3>4. \A place \in DOMAIN higher : FirstAppears(Id(higher[place]), n + 1, place)
      BY <1>12, <3>3
    <3>5. \A i \in DOMAIN items : \E k \in 1 .. n + 1 : \E place \in DOMAIN ItemsOf(k) : FirstAppears(Id(items[i]), k, place)
      BY <1>6, <3>2, <3>4 DEF higher
    <3>6. ASSUME NEW i \in DOMAIN items, NEW j \in DOMAIN items, i < j
          PROVE  AppearsBefore(Id(items[i]), Id(items[j]))
      BY <3>2, <3>4, <3>6 DEF AppearsBefore, higher
    <3> QED BY <1>11, <3>2, <3>3, <3>5, <3>6
  <2>5. CASE F \in DOMAIN merged
    <3>1. merged[F] \in ListsOver(Parts) /\ Keyed(merged[F].items)
      BY <2>5 DEF FieldsAfter, ResolvedValues
    <3>2. lower \in KeyedParts
      BY <1>10, <2>5, <3>1, ResolvedKinds DEF KeyedParts
    <3>3. Len(lower) \in Nat /\ DOMAIN lower = 1 .. Len(lower)
      BY <3>2, KeyedPartsAreKeyed
    <3>4. next[F] = MergeKeyedList(lower, higher) /\ next[F] # Error
      BY <1>2, <1>3, <1>8, <1>10, <1>14, <2>5 DEF MergeField
    <3>5. PutSoFar(lower, higher, items, Len(higher))
      <4>1. PICK put : next[F] = List(put) /\ PutSoFar(lower, higher, put, Len(higher))
        BY <2>2, <3>2, <3>4, KeyedListsMerge
      <4>2. items = put
        BY <1>2, <1>9, <1>14, <4>1 DEF List
      <4> QED BY <4>1, <4>2
    <3>6. /\ Len(items) \in Nat /\ DOMAIN items = 1 .. Len(items)
          /\ Len(items) >= Len(lower) /\ \A i \in 1 .. Len(lower) : Id(items[i]) = Id(lower[i])
      BY <3>5, KeyedPartsAreKeyed DEF PutSoFar
    <3>7. IdsOf(items) = before \cup IdsOf(higher)
      <4>1. IdsOf(items) = IdsOf(lower) \cup {Id(higher[i]) : i \in 1 .. Len(higher)}
        BY <3>5 DEF PutSoFar
      <4> QED BY <1>7, <2>3, <4>1 DEF IdsOf
    <3>8. \A i \in DOMAIN items : i \in DOMAIN lower \/ i \in Len(lower) + 1 .. Len(items)
      BY <3>3, <3>6
    <3>9. ASSUME NEW i \in DOMAIN lower
          PROVE  \E k \in 1 .. n : \E place \in DOMAIN ItemsOf(k) : FirstAppears(Id(items[i]), k, place)
      BY <1>7, <3>3, <3>6, <3>9
    <3>10. ASSUME NEW i \in Len(lower) + 1 .. Len(items)
           PROVE  \E place \in DOMAIN higher : Id(items[i]) = Id(higher[place]) /\ FirstAppears(Id(items[i]), n + 1, place)
      <4>1. PICK place \in 1 .. Len(higher) : Id(items[i]) = Id(higher[place]) /\ Id(higher[place]) \notin IdsOf(lower)
        BY <3>5 DEF PutSoFar
      <4> QED BY <1>7, <1>12, <2>3, <4>1
    <3>11. \A i \in DOMAIN items : \E k \in 1 .. n + 1 : \E place \in DOMAIN ItemsOf(k) : FirstAppears(Id(items[i]), k, place)
      BY <1>6, <3>8, <3>9, <3>10 DEF higher
    <3>12. ASSUME NEW i \in DOMAIN items, NEW j \in DOMAIN items, i < j
           PROVE  AppearsBefore(Id(items[i]), Id(items[j]))
      <4>1. CASE i \in DOMAIN lower /\ j \in DOMAIN lower
        BY <1>7, <3>3, <3>6, <3>12, <4>1
      <4>2. CASE i \in DOMAIN lower /\ j \in Len(lower) + 1 .. Len(items)
        <5>1. PICK k \in 1 .. n : \E place \in DOMAIN ItemsOf(k) : FirstAppears(Id(items[i]), k, place)
          BY <3>9, <4>2
        <5>2. PICK place \in DOMAIN higher : FirstAppears(Id(items[j]), n + 1, place)
          BY <3>10, <4>2
        <5>3. k < n + 1 /\ k \in DOMAIN ordered
          BY <1>6
        <5> QED BY <5>1, <5>2, <5>3 DEF AppearsBefore, higher
      <4>3. CASE i \in Len(lower) + 1 .. Len(items) /\ j \in Len(lower) + 1 .. Len(items)
        <5>1. PICK p \in DOMAIN higher : Id(items[i]) = Id(higher[p]) /\ FirstAppears(Id(items[i]), n + 1, p)
          BY <3>10, <4>3
        <5>2. PICK q \in DOMAIN higher : Id(items[j]) = Id(higher[q]) /\ FirstAppears(Id(items[j]), n + 1, q)
          BY <3>10, <4>3
        <5>3. p < q
          BY <2>3, <3>5, <3>12, <4>3, <5>1, <5>2 DEF PutSoFar
        <5> QED BY <5>1, <5>2, <5>3 DEF AppearsBefore, higher
      <4>4. i \in Int /\ j \in Int /\ ~ (j \in DOMAIN lower /\ i \in Len(lower) + 1 .. Len(items))
        BY <3>3, <3>6, <3>12
      <4> QED BY <3>8, <4>1, <4>2, <4>3, <4>4
    <3> QED BY <1>11, <3>7, <3>11, <3>12
  <2> QED BY <2>4, <2>5
<1> QED BY <1>13, <1>14

-----------------------------------------------------------------------------
(* The invariant: the layers are sorted once, and each layer merged so far *)
(* has passed its checks.                                                  *)
LayersInOrder ==
  \/ ordered = <<>> /\ parents = <<>> /\ merged = <<>>
  \/ ordered = Sorted(resolution.layers) /\ resolution.layers # <<>> /\ resolution.deadline > Now

LayersChecked ==
  /\ parents \in Seq(Range(Precedence)) /\ Len(parents) <= Len(ordered)
  /\ \A i \in 1 .. Len(parents) :
       /\ parents[i] = ordered[i].scope /\ ordered[i].readable
       /\ ordered[i].expires \in Lawful(ordered[i])
       /\ ordered[i].scope = "RUNTIME_OVERRIDE" => expires = ordered[i].expires
  /\ \A i, j \in 1 .. Len(parents) : parents[i] = parents[j] => i = j

RInv ==
  /\ resolution \in Resolutions /\ LayersInOrder /\ LayersChecked
  /\ FieldsAfter(merged, Len(parents))
  /\ HoldsAfter(merged, Len(parents))
  /\ EntriesAfter(merged, Len(parents))
  /\ ResolutionMatchesReference

(* Before the first layer nothing is held.                                 *)
LEMMA NothingHeld ==
  FieldsAfter(<<>>, 0) /\ HoldsAfter(<<>>, 0) /\ EntriesAfter(<<>>, 0)
<1>1. DOMAIN <<>> = {} /\ 1 .. 0 = {}
  OBVIOUS
<1>2. FieldsAfter(<<>>, 0)
  BY <1>1 DEF FieldsAfter
<1>3. HoldsAfter(<<>>, 0)
  <2>1. ASSUME NEW field \in Required, NEW path \in Paths
        PROVE  Says(At(HeldIn(<<>>, field), path), Standing(field, path, 0))
    <3>1. HeldIn(<<>>, field) = Absent
      BY <1>1 DEF HeldIn
    <3>2. At(Absent, path) = Absent /\ Standing(field, path, 0) = Absent
      BY NothingIsSilent, StandingUnfolds
    <3> QED BY <3>1, <3>2 DEF Says, Gone
  <2> QED BY <1>1, <2>1 DEF HoldsAfter
<1>4. EntriesAfter(<<>>, 0)
  <2>1. ItemsIn(<<>>) = <<>>
    BY <1>1 DEF ItemsIn
  <2>2. IdsOf(<<>>) = {}
    BY <1>1 DEF IdsOf
  <2> QED BY <1>1, <2>1, <2>2 DEF EntriesAfter
<1> QED BY <1>2, <1>3, <1>4

(* What each reason to refuse rests on, and that there are no others.      *)
LEMMA Reasons ==
  LET layers == resolution.layers IN
  /\ resolution.deadline <= Now => "deadline" \in Refusals
  /\ (\E i, j \in DOMAIN layers : i # j /\ layers[i].scope = layers[j].scope) => "duplicate" \in Refusals
  /\ (\E l \in Range(layers) : ~ l.readable) => "not_found" \in Refusals
  /\ (\E l \in Range(layers) : l.expires \notin Lawful(l)) => "expiry" \in Refusals
  /\ (\E field \in Required, path \in Paths, n \in DOMAIN ordered :
        Clash(Standing(field, path, n - 1), At(Said(field, n), path))) => "merge" \in Refusals
  /\ (\E field \in Required : \A l \in Range(layers) : field \notin DOMAIN l.patch) => "invalid" \in Refusals
  /\ /\ ~ (resolution.deadline <= Now)
     /\ ~ (\E i, j \in DOMAIN layers : i # j /\ layers[i].scope = layers[j].scope)
     /\ \A l \in Range(layers) : l.readable /\ l.expires \in Lawful(l)
     /\ \A field \in Required, path \in Paths, n \in DOMAIN ordered :
          ~ Clash(Standing(field, path, n - 1), At(Said(field, n), path))
     /\ \A field \in Required : \E l \in Range(layers) : field \in DOMAIN l.patch
     => Refusals = {}
BY DEF Refusals

(* The checks of an expiry, and the lawful expiries.                       *)
LEMMA ExpiriesAreLawful ==
  ASSUME NEW layer, ValidLayer(layer), resolution \in Resolutions
  PROVE  ValidExpiry(layer) <=> layer.expires \in Lawful(layer)
<1>1. resolution.deadline \in Int /\ layer.expires \in Int \cup {Unset} /\ MaxTtl \in Int /\ Unset \notin Int
  BY ResolutionsAssumption, MaxTtlAssumption DEF ValidLayer
<1>2. CASE layer.scope # "RUNTIME_OVERRIDE"
  BY <1>2 DEF ValidExpiry, Lawful
<1>3. CASE layer.scope = "RUNTIME_OVERRIDE" /\ layer.expires = Unset
  BY <1>1, <1>3 DEF ValidExpiry, Lawful
<1>4. CASE layer.scope = "RUNTIME_OVERRIDE" /\ layer.expires \in Int
  <2>1. layer.expires # Unset
    BY <1>1, <1>4
  <2>2. Now \in Int
    BY DEF Now
  <2> QED BY <1>1, <1>4, <2>1, <2>2 DEF ValidExpiry, Lawful, Now
<1> QED BY <1>1, <1>2, <1>3, <1>4

(* The layers of a sorted request.                                         *)
LEMMA LayersSorted ==
  ASSUME resolution \in Resolutions, LayersInOrder, LayersChecked, ordered # <<>>
  PROVE  /\ ordered = Sorted(resolution.layers) /\ resolution.deadline > Now /\ resolution.deadline \in Int
         /\ Len(ordered) \in Nat /\ DOMAIN ordered = 1 .. Len(ordered) /\ Len(ordered) >= 1
         /\ Range(ordered) = Range(resolution.layers)
         /\ \A i \in DOMAIN ordered : ordered[i] \in Range(resolution.layers) /\ ValidLayer(ordered[i])
                                      /\ ordered[i].scope \in Range(Precedence)
         /\ \A i, j \in DOMAIN ordered : i < j => Rank(ordered[i].scope) <= Rank(ordered[j].scope)
         /\ (\E i, j \in DOMAIN resolution.layers : i # j /\ resolution.layers[i].scope = resolution.layers[j].scope)
              <=> (\E i, j \in DOMAIN ordered : i # j /\ ordered[i].scope = ordered[j].scope)
<1>1. ordered = Sorted(resolution.layers) /\ resolution.deadline > Now
  BY DEF LayersInOrder
<1>2. /\ resolution.deadline \in Int
      /\ Len(ordered) \in Nat /\ DOMAIN ordered = 1 .. Len(ordered)
      /\ Range(ordered) = Range(resolution.layers)
      /\ \A i \in DOMAIN ordered : ValidLayer(ordered[i]) /\ ordered[i].scope \in Range(Precedence)
      /\ \A i, j \in DOMAIN ordered : i < j => Rank(ordered[i].scope) <= Rank(ordered[j].scope)
      /\ (\E i, j \in DOMAIN resolution.layers : i # j /\ resolution.layers[i].scope = resolution.layers[j].scope)
           <=> (\E i, j \in DOMAIN ordered : i # j /\ ordered[i].scope = ordered[j].scope)
  BY <1>1, SortedRequest
<1>3. Len(ordered) >= 1
  <2>1. ordered \in Seq(Range(ordered))
    <3>1. ordered = [i \in 1 .. Len(ordered) |-> ordered[i]]
      BY <1>1, <1>2 DEF Sorted
    <3>2. \A i \in 1 .. Len(ordered) : ordered[i] \in Range(ordered)
      BY <1>2 DEF Range
    <3> QED BY <1>2, <3>1, <3>2
  <2> QED BY <1>2, <2>1, EmptySeq
<1>4. \A i \in DOMAIN ordered : ordered[i] \in Range(resolution.layers)
  BY <1>2 DEF Range
<1> QED BY <1>1, <1>2, <1>3, <1>4

-----------------------------------------------------------------------------
(* Beside the outcome, what is not assigned keeps the invariant.           *)
LEMMA RestIsKept ==
  ASSUME RInv, UNCHANGED <<resolution, ordered, merged, parents, expires>>,
         (Refusals' = Refusals) => ResolutionMatchesReference'
  PROVE  RInv'
<1>1. /\ \A n : Patch(n)' = Patch(n) /\ ItemsOf(n)' = ItemsOf(n)
      /\ \A field, n : Said(field, n)' = Said(field, n)
      /\ \A field, path, n : Standing(field, path, n)' = Standing(field, path, n)
      /\ \A layer : Lawful(layer)' = Lawful(layer)
      /\ \A id, n, place : FirstAppears(id, n, place)' = FirstAppears(id, n, place)
      /\ \A id, other : AppearsBefore(id, other)' = AppearsBefore(id, other)
      /\ Refusals' = Refusals
  BY ReferenceUnchanged
<1>2. LayersInOrder' /\ LayersChecked'
  BY <1>1 DEF RInv, LayersInOrder, LayersChecked
<1>3. FieldsAfter(merged, Len(parents))'
  BY <1>1 DEF RInv, FieldsAfter
<1>4. HoldsAfter(merged, Len(parents))'
  BY <1>1 DEF RInv, HoldsAfter
<1>5. EntriesAfter(merged, Len(parents))'
  BY <1>1 DEF RInv, EntriesAfter
<1> QED BY <1>1, <1>2, <1>3, <1>4, <1>5 DEF RInv

(* Ending for a reason keeps the invariant.                                *)
LEMMA EndKeepsRInv ==
  ASSUME RInv, NEW result, End(result), result = "none" \/ result \in Refusals, result # "resolved"
  PROVE  RInv'
<1>1. UNCHANGED <<resolution, ordered, merged, parents, expires>> /\ outcome' = result
  BY DEF End
<1>2. (Refusals' = Refusals) => ResolutionMatchesReference'
  BY <1>1 DEF ResolutionMatchesReference
<1> QED BY <1>1, <1>2, RestIsKept

(* Resolving when every layer is merged and every field is there.          *)
LEMMA CompleteMatches ==
  ASSUME RInv, ordered # <<>>, Len(parents) = Len(ordered), Required \subseteq DOMAIN merged
  PROVE  /\ Refusals = {}
         /\ Range(parents) = {l.scope : l \in Range(resolution.layers)}
         /\ \A i, j \in DOMAIN parents : i < j => Rank(parents[i]) < Rank(parents[j])
         /\ \A l \in Range(resolution.layers) : l.scope = "RUNTIME_OVERRIDE" => expires = l.expires
         /\ \A field \in Required, path \in Paths :
              Says(At(AsMap(field, merged[field]), path), Standing(field, path, Len(ordered)))
         /\ LET items == merged["keyed_items"].items IN
            \A i, j \in DOMAIN items : i < j => AppearsBefore(Id(items[i]), Id(items[j]))
<1> DEFINE os == ordered
           N == Len(ordered)
           layers == resolution.layers
<1>1. LayersInOrder /\ LayersChecked /\ resolution \in Resolutions
  BY DEF RInv
<1>2. /\ resolution.deadline > Now /\ resolution.deadline \in Int
      /\ N \in Nat /\ DOMAIN os = 1 .. N
      /\ Range(os) = Range(layers)
      /\ \A i \in DOMAIN os : os[i] \in Range(layers) /\ os[i].scope \in Range(Precedence)
      /\ \A i, j \in DOMAIN os : i < j => Rank(os[i].scope) <= Rank(os[j].scope)
      /\ (\E i, j \in DOMAIN layers : i # j /\ layers[i].scope = layers[j].scope)
           <=> (\E i, j \in DOMAIN os : i # j /\ os[i].scope = os[j].scope)
  BY <1>1, LayersSorted
<1>3. /\ \A i \in 1 .. N : /\ parents[i] = os[i].scope /\ os[i].readable /\ os[i].expires \in Lawful(os[i])
                           /\ os[i].scope = "RUNTIME_OVERRIDE" => expires = os[i].expires
      /\ \A i, j \in 1 .. N : parents[i] = parents[j] => i = j
      /\ DOMAIN parents = 1 .. N
  BY <1>1 DEF LayersChecked
<1>4. \A l \in Range(layers) : \E i \in 1 .. N : l = os[i]
  BY <1>2 DEF Range
<1>5. FieldsAfter(merged, N) /\ HoldsAfter(merged, N) /\ EntriesAfter(merged, N)
  BY DEF RInv
<1> HIDE DEF os, N, layers
<1>6. Refusals = {}
  <2>1. ~ (\E i, j \in DOMAIN layers : i # j /\ layers[i].scope = layers[j].scope)
    BY <1>2, <1>3
  <2>2. \A l \in Range(layers) : l.readable /\ l.expires \in Lawful(l)
    BY <1>3, <1>4
  <2>3. \A field \in Required, path \in Paths, n \in DOMAIN os :
          ~ Clash(Standing(field, path, n - 1), At(Said(field, n), path))
    BY <1>2, <1>5 DEF HoldsAfter
  <2>4. \A field \in Required : \E l \in Range(layers) : field \in DOMAIN l.patch
    <3>1. ASSUME NEW field \in Required PROVE \E i \in 1 .. N : field \in DOMAIN os[i].patch
      BY <1>5 DEF FieldsAfter, Patch, os
    <3> QED BY <1>2, <3>1
  <2>5. ~ (resolution.deadline <= Now)
    BY <1>2 DEF Now
  <2> QED BY <2>1, <2>2, <2>3, <2>4, <2>5, Reasons DEF layers, os
<1>7. Range(parents) = {l.scope : l \in Range(layers)}
  <2>1. Range(parents) = {os[i].scope : i \in 1 .. N}
    BY <1>3 DEF Range
  <2> QED BY <1>2, <1>4, <2>1
<1>8. ASSUME NEW i \in DOMAIN parents, NEW j \in DOMAIN parents, i < j
      PROVE  Rank(parents[i]) < Rank(parents[j])
  <2>1. i \in 1 .. N /\ j \in 1 .. N /\ i # j
    BY <1>2, <1>3, <1>8
  <2>2. parents[i] = os[i].scope /\ parents[j] = os[j].scope /\ parents[i] # parents[j]
    BY <1>3, <2>1
  <2>3. parents[i] \in Range(Precedence) /\ parents[j] \in Range(Precedence) /\ Rank(parents[i]) <= Rank(parents[j])
    BY <1>2, <1>8, <2>1, <2>2
  <2>4. Rank(parents[i]) # Rank(parents[j]) /\ Rank(parents[i]) \in 1 .. 7 /\ Rank(parents[j]) \in 1 .. 7
    BY <2>2, <2>3, RanksAreDistinct
  <2> QED BY <2>3, <2>4
<1>9. \A l \in Range(layers) : l.scope = "RUNTIME_OVERRIDE" => expires = l.expires
  BY <1>3, <1>4
<1>10. ASSUME NEW field \in Required, NEW path \in Paths
       PROVE  Says(At(AsMap(field, merged[field]), path), Standing(field, path, N))
  <2>1. HeldIn(merged, field) = AsMap(field, merged[field])
    BY DEF HeldIn
  <2>2. Says(At(HeldIn(merged, field), path), Standing(field, path, N))
    BY <1>5 DEF HoldsAfter
  <2> QED BY <2>1, <2>2
<1>11. LET items == merged["keyed_items"].items IN
       \A i, j \in DOMAIN items : i < j => AppearsBefore(Id(items[i]), Id(items[j]))
  <2>1. "keyed_items" \in Required
    BY DEF Required
  <2>2. ItemsIn(merged) = merged["keyed_items"].items
    BY <2>1 DEF ItemsIn
  <2> QED BY <1>5, <2>2 DEF EntriesAfter
<1> QED BY <1>6, <1>7, <1>8, <1>9, <1>10, <1>11 DEF layers, N

(* A request arrives with nothing sorted or merged.                        *)
LEMMA InitRInv ==
  ASSUME ConfigurationInit PROVE RInv
<1>1. /\ resolution \in Resolutions /\ ordered = <<>> /\ merged = <<>> /\ parents = <<>> /\ outcome = "none"
      /\ Len(parents) = 0
  BY DEF ConfigurationInit
<1>2. LayersInOrder /\ LayersChecked
  BY <1>1 DEF LayersInOrder, LayersChecked
<1>3. ResolutionMatchesReference
  BY <1>1 DEF ResolutionMatchesReference
<1> QED BY <1>1, <1>2, <1>3, NothingHeld DEF RInv

(* The layers are sorted, unless the deadline has passed or none came.     *)
LEMMA BeginKeepsRInv ==
  ASSUME RInv, Begin PROVE RInv'
<1>1. /\ outcome = "none" /\ ordered = <<>> /\ resolution \in Resolutions /\ parents = <<>> /\ merged = <<>>
  <2>1. ordered = <<>> /\ LayersInOrder /\ LayersChecked
    BY DEF Begin, RInv
  <2>2. parents = <<>> /\ merged = <<>>
    <3>1. resolution \in Resolutions
      BY DEF RInv
    <3>2. resolution.layers # <<>> => Sorted(resolution.layers) # <<>>
      BY <3>1, SortedRequest
    <3> QED BY <2>1, <3>2 DEF LayersInOrder
  <2> QED BY <2>1, <2>2 DEF Begin, RInv
<1>2. CASE resolution.deadline <= Now
  <2>1. End("deadline") /\ "deadline" \in Refusals
    BY <1>2, Reasons DEF Begin
  <2> QED BY <2>1, EndKeepsRInv
<1>3. CASE ~ (resolution.deadline <= Now) /\ resolution.layers = <<>>
  <2>1. Range(resolution.layers) = {}
    BY <1>3 DEF Range
  <2>2. End("invalid") /\ "invalid" \in Refusals
    BY <1>3, <2>1, Reasons DEF Begin, Required
  <2> QED BY <2>2, EndKeepsRInv
<1>4. CASE ~ (resolution.deadline <= Now) /\ resolution.layers # <<>>
  <2>1. ordered' = Sorted(resolution.layers) /\ UNCHANGED <<resolution, merged, parents, expires, outcome>>
    BY <1>4 DEF Begin
  <2>2. resolution.deadline \in Int /\ Len(Sorted(resolution.layers)) \in Nat
    BY <1>1, SortedRequest
  <2>3. LayersInOrder'
    BY <1>4, <2>1, <2>2 DEF LayersInOrder, Now
  <2>4. LayersChecked'
    <3>1. parents' = <<>> /\ Len(parents') = 0 /\ Len(ordered') \in Nat
      BY <1>1, <2>1, <2>2
    <3> QED BY <3>1 DEF LayersChecked
  <2>5. FieldsAfter(<<>>, 0)' /\ HoldsAfter(<<>>, 0)' /\ EntriesAfter(<<>>, 0)'
    BY NothingHeld, PTL
  <2>6. merged' = <<>> /\ Len(parents') = 0
    BY <1>1, <2>1
  <2>7. FieldsAfter(merged, Len(parents))'
    BY <2>5, <2>6
  <2>8. HoldsAfter(merged, Len(parents))'
    BY <2>5, <2>6
  <2>9. EntriesAfter(merged, Len(parents))'
    BY <2>5, <2>6
  <2>10. ResolutionMatchesReference'
    BY <1>1, <2>1 DEF ResolutionMatchesReference
  <2> QED BY <1>1, <2>1, <2>3, <2>4, <2>7, <2>8, <2>9, <2>10 DEF RInv
<1> QED BY <1>2, <1>3, <1>4

(* A layer is merged when it passes its checks and nothing clashes.        *)
LEMMA ApplyLayerKeepsRInv ==
  ASSUME RInv, ApplyLayer PROVE RInv'
<1> DEFINE n == Len(parents)
           layer == ordered[n + 1]
           next == MergedWith(layer)
<1>1. LayersInOrder /\ LayersChecked /\ resolution \in Resolutions /\ outcome = "none"
      /\ FieldsAfter(merged, n) /\ HoldsAfter(merged, n) /\ EntriesAfter(merged, n)
  BY DEF RInv, ApplyLayer
<1>2. n \in Nat /\ n < Len(ordered) /\ ordered # <<>>
  <2>1. n \in Nat
    BY <1>1 DEF LayersChecked
  <2>2. n < Len(ordered)
    BY DEF ApplyLayer
  <2> QED BY <2>1, <2>2
<1>3. /\ Len(ordered) \in Nat /\ DOMAIN ordered = 1 .. Len(ordered)
      /\ \A i \in DOMAIN ordered : ordered[i] \in Range(resolution.layers) /\ ValidLayer(ordered[i])
                                   /\ ordered[i].scope \in Range(Precedence)
      /\ (\E i, j \in DOMAIN resolution.layers : i # j /\ resolution.layers[i].scope = resolution.layers[j].scope)
           <=> (\E i, j \in DOMAIN ordered : i # j /\ ordered[i].scope = ordered[j].scope)
  BY <1>1, <1>2, LayersSorted
<1>4. n + 1 \in DOMAIN ordered /\ 1 .. n + 1 \subseteq DOMAIN ordered
  BY <1>2, <1>3
<1>5. layer \in Range(resolution.layers) /\ ValidLayer(layer) /\ layer.scope \in Range(Precedence)
  BY <1>3, <1>4
<1>6. /\ parents \in Seq(Range(Precedence)) /\ DOMAIN parents = 1 .. n
      /\ \A i \in 1 .. n :
           /\ parents[i] = ordered[i].scope /\ ordered[i].readable
           /\ ordered[i].expires \in Lawful(ordered[i])
           /\ ordered[i].scope = "RUNTIME_OVERRIDE" => expires = ordered[i].expires
      /\ \A i, j \in 1 .. n : parents[i] = parents[j] => i = j
  BY <1>1 DEF LayersChecked
<1>7. CASE layer.scope \in Range(parents)
  <2>1. PICK i \in 1 .. n : parents[i] = layer.scope
    BY <1>6, <1>7 DEF Range
  <2>2. i \in DOMAIN ordered /\ i # n + 1 /\ ordered[i].scope = ordered[n + 1].scope
    BY <1>2, <1>4, <1>6, <2>1
  <2>3. "duplicate" \in Refusals
    BY <1>3, <1>4, <2>2, Reasons
  <2>4. End("duplicate")
    BY <1>7 DEF ApplyLayer
  <2> QED BY <2>3, <2>4, EndKeepsRInv
<1>8. CASE layer.scope \notin Range(parents) /\ ~ layer.readable
  <2>1. "not_found" \in Refusals
    BY <1>5, <1>8, Reasons
  <2>2. End("not_found")
    BY <1>8 DEF ApplyLayer
  <2> QED BY <2>1, <2>2, EndKeepsRInv
<1>9. CASE layer.scope \notin Range(parents) /\ layer.readable /\ ~ ValidExpiry(layer)
  <2>1. layer.expires \notin Lawful(layer)
    BY <1>1, <1>5, <1>9, ExpiriesAreLawful
  <2>2. "expiry" \in Refusals
    BY <1>5, <2>1, Reasons
  <2>3. End("expiry")
    BY <1>9 DEF ApplyLayer
  <2> QED BY <2>2, <2>3, EndKeepsRInv
<1>10. CASE /\ layer.scope \notin Range(parents) /\ layer.readable /\ ValidExpiry(layer)
            /\ \E field \in DOMAIN next : next[field] = Error
  <2>1. PICK field \in DOMAIN next : next[field] = Error
    BY <1>10
  <2>2. field \in Required /\ \E path \in Paths : Clash(Standing(field, path, n), At(Said(field, n + 1), path))
    BY <1>1, <1>2, <1>5, <2>1, ErrorsAreClashes
  <2>3. (n + 1) - 1 = n
    BY <1>2
  <2>4. "merge" \in Refusals
    BY <1>4, <2>2, <2>3, Reasons
  <2>5. End("merge")
    BY <1>10 DEF ApplyLayer
  <2> QED BY <2>4, <2>5, EndKeepsRInv
<1>11. CASE /\ layer.scope \notin Range(parents) /\ layer.readable /\ ValidExpiry(layer)
            /\ ~ (\E field \in DOMAIN next : next[field] = Error)
  <2>1. /\ merged' = next /\ parents' = Append(parents, layer.scope)
        /\ expires' = IF layer.expires = Unset THEN expires ELSE layer.expires
        /\ UNCHANGED <<resolution, ordered, outcome>>
    BY <1>11 DEF ApplyLayer
  <2>2. FieldsAfter(next, n + 1) /\ HoldsAfter(next, n + 1)
    BY <1>1, <1>2, <1>5, <1>11, NextFields
  <2>3. EntriesAfter(next, n + 1)
    BY <1>1, <1>2, <1>4, <1>5, <1>11, NextEntries
  <2>4. /\ \A i : Patch(i)' = Patch(i) /\ ItemsOf(i)' = ItemsOf(i)
        /\ \A field, i : Said(field, i)' = Said(field, i)
        /\ \A field, path, i : Standing(field, path, i)' = Standing(field, path, i)
        /\ \A l : Lawful(l)' = Lawful(l)
        /\ \A id, i, place : FirstAppears(id, i, place)' = FirstAppears(id, i, place)
        /\ \A id, other : AppearsBefore(id, other)' = AppearsBefore(id, other)
    BY <2>1, ReferenceUnchanged
  <2>5. /\ Len(parents') = n + 1 /\ parents' \in Seq(Range(Precedence))
        /\ parents'[n + 1] = layer.scope /\ \A i \in 1 .. n : parents'[i] = parents[i]
    BY <1>5, <1>6, <2>1
  <2>6. LayersInOrder'
    BY <1>1, <1>2, <2>1 DEF LayersInOrder
  <2>7. layer.expires \in Lawful(layer)
    BY <1>1, <1>5, <1>11, ExpiriesAreLawful
  <2>8. \A i \in 1 .. n + 1 : i = n + 1 \/ i \in 1 .. n
    BY <1>2
  <2>9. \A i \in 1 .. n : ordered[i].scope = "RUNTIME_OVERRIDE" => expires' = ordered[i].expires
    <3>1. SUFFICES ASSUME NEW i \in 1 .. n, ordered[i].scope = "RUNTIME_OVERRIDE"
                   PROVE  expires' = ordered[i].expires
      OBVIOUS
    <3>2. layer.scope # "RUNTIME_OVERRIDE"
      BY <1>6, <1>11, <3>1 DEF Range
    <3>3. layer.expires = Unset
      BY <1>11, <3>2 DEF ValidExpiry
    <3> QED BY <1>6, <2>1, <3>1, <3>3
  <2>10. layer.scope = "RUNTIME_OVERRIDE" => expires' = layer.expires
    BY <1>11, <2>1 DEF ValidExpiry
  <2> HIDE DEF next
  <2>11. LayersChecked'
    <3>1. \A i \in 1 .. n + 1 : /\ parents'[i] = ordered[i].scope /\ ordered[i].readable
                                /\ ordered[i].expires \in Lawful(ordered[i])
                                /\ ordered[i].scope = "RUNTIME_OVERRIDE" => expires' = ordered[i].expires
      BY <1>6, <1>11, <2>5, <2>7, <2>8, <2>9, <2>10
    <3>2. \A i, j \in 1 .. n + 1 : parents'[i] = parents'[j] => i = j
      <4>1. \A i \in 1 .. n : parents[i] # layer.scope
        BY <1>6, <1>11 DEF Range
      <4> HIDE DEF n, layer
      <4> QED BY <1>6, <2>5, <2>8, <4>1
    <3>3. n + 1 <= Len(ordered)
      BY <1>2, <1>3
    <3>4. \A l : Lawful(l)' = Lawful(l)
      BY <2>4
    <3> QED BY <2>1, <2>4, <2>5, <3>1, <3>2, <3>3 DEF LayersChecked
  <2>12. Len(parents') = n + 1 /\ merged' = next
    BY <2>1, <2>5
  <2> HIDE DEF n
  <2>13. FieldsAfter(merged, Len(parents))'
    BY <2>2, <2>4, <2>12 DEF FieldsAfter
  <2>14. HoldsAfter(merged, Len(parents))'
    BY <2>2, <2>4, <2>12 DEF HoldsAfter
  <2>15. EntriesAfter(merged, Len(parents))'
    BY <2>3, <2>4, <2>12 DEF EntriesAfter
  <2>16. ResolutionMatchesReference'
    BY <1>1, <2>1 DEF ResolutionMatchesReference
  <2> QED BY <1>1, <2>1, <2>6, <2>11, <2>13, <2>14, <2>15, <2>16 DEF RInv
<1> QED BY <1>7, <1>8, <1>9, <1>10, <1>11

(* What the schema refuses lacks a field that no layer has.                *)
LEMMA ValidateKeepsRInv ==
  ASSUME RInv, Validate PROVE RInv'
<1>1. LayersInOrder /\ LayersChecked /\ resolution \in Resolutions /\ outcome = "none" /\ ordered # <<>>
      /\ Len(parents) = Len(ordered) /\ FieldsAfter(merged, Len(ordered))
  BY DEF RInv, Validate
<1>2. DOMAIN ordered = 1 .. Len(ordered) /\ Range(ordered) = Range(resolution.layers)
  BY <1>1, LayersSorted
<1>3. CASE Required \subseteq DOMAIN merged
  <2>1. \A field \in Required : field \in DOMAIN merged /\ merged[field] \in ResolvedValues(field)
    BY <1>1, <1>3 DEF FieldsAfter
  <2>2. End("resolved")
    BY <2>1 DEF Validate
  <2>3. /\ Refusals = {}
        /\ Range(parents) = {l.scope : l \in Range(resolution.layers)}
        /\ \A i, j \in DOMAIN parents : i < j => Rank(parents[i]) < Rank(parents[j])
        /\ \A l \in Range(resolution.layers) : l.scope = "RUNTIME_OVERRIDE" => expires = l.expires
        /\ \A field \in Required, path \in Paths :
             Says(At(AsMap(field, merged[field]), path), Standing(field, path, Len(ordered)))
        /\ LET items == merged["keyed_items"].items IN
           \A i, j \in DOMAIN items : i < j => AppearsBefore(Id(items[i]), Id(items[j]))
    BY <1>1, <1>3, CompleteMatches
  <2>4. UNCHANGED <<resolution, ordered, merged, parents, expires>> /\ outcome' = "resolved"
    BY <2>2 DEF End
  <2>5. /\ \A n : Patch(n)' = Patch(n) /\ ItemsOf(n)' = ItemsOf(n)
        /\ \A field, n : Said(field, n)' = Said(field, n)
        /\ \A field, path, n : Standing(field, path, n)' = Standing(field, path, n)
        /\ \A layer : Lawful(layer)' = Lawful(layer)
        /\ \A id, n, place : FirstAppears(id, n, place)' = FirstAppears(id, n, place)
        /\ \A id, other : AppearsBefore(id, other)' = AppearsBefore(id, other)
        /\ Refusals' = Refusals
    BY <2>4, ReferenceUnchanged
  <2>6. ResolutionMatchesReference'
    BY <2>3, <2>4, <2>5 DEF ResolutionMatchesReference
  <2> QED BY <2>4, <2>6, RestIsKept
<1>4. CASE \E field \in Required : field \notin DOMAIN merged
  <2>1. End("invalid")
    BY <1>4 DEF Validate
  <2>2. PICK field \in Required : field \notin DOMAIN merged
    BY <1>4
  <2>3. \A i \in 1 .. Len(ordered) : field \notin DOMAIN ordered[i].patch
    BY <1>1, <2>2 DEF FieldsAfter, Patch
  <2>4. \A l \in Range(resolution.layers) : field \notin DOMAIN l.patch
    BY <1>2, <2>3 DEF Range
  <2> QED BY <2>1, <2>4, Reasons, EndKeepsRInv
<1> QED BY <1>3, <1>4

(* Nothing happens, and the invariant stays.                               *)
LEMMA StutterKeepsRInv ==
  ASSUME RInv, UNCHANGED configurationVars PROVE RInv'
<1>1. UNCHANGED <<resolution, ordered, merged, parents, expires, outcome>>
  BY DEF configurationVars
<1>2. /\ \A field, path, n : Standing(field, path, n)' = Standing(field, path, n)
      /\ \A id, other : AppearsBefore(id, other)' = AppearsBefore(id, other)
  BY <1>1, ReferenceUnchanged
<1>3. (Refusals' = Refusals) => ResolutionMatchesReference'
  BY <1>1, <1>2 DEF RInv, ResolutionMatchesReference
<1> QED BY <1>1, <1>3, RestIsKept

(* Every step of the resolution keeps the invariant.                       *)
LEMMA StepKeepsRInv ==
  ASSUME RInv, [ConfigurationNext]_configurationVars PROVE RInv'
BY BeginKeepsRInv, ApplyLayerKeepsRInv, ValidateKeepsRInv, StutterKeepsRInv DEF ConfigurationNext

(* The fields and the parents have their types.                            *)
LEMMA RInvTypeOK ==
  ASSUME RInv PROVE ConfigurationTypeOK
<1>1. DOMAIN merged \subseteq Required /\ \A field \in DOMAIN merged : merged[field] \in ResolvedValues(field)
  BY DEF RInv, FieldsAfter
<1>2. /\ Len(parents) \in Nat /\ DOMAIN parents = 1 .. Len(parents)
      /\ \A i, j \in 1 .. Len(parents) : parents[i] = parents[j] => i = j
      /\ parents = [i \in 1 .. Len(parents) |-> parents[i]]
  BY DEF RInv, LayersChecked
<1>3. parents \in Bijection(1 .. Len(parents), Range(parents))
  BY <1>2 DEF Range, Bijection, Injection, Surjection, IsInjective
<1>4. ExistsBijection(1 .. Len(parents), Range(parents))
  BY <1>3 DEF ExistsBijection
<1>5. Cardinality(Range(parents)) = Len(parents)
  BY <1>2, <1>4, FS_CountingElements
<1> QED BY <1>1, <1>5 DEF ConfigurationTypeOK

(* In whatever order the layers of a request arrive, the resolution is the *)
(* reference of docs/configuration.md: refused exactly when it has a       *)
(* reason, and otherwise at every path what the highest layer that speaks  *)
(* about it says, for all keys, scalars, depths, layers and deadlines.     *)
THEOREM ResolutionsMatchTheReference == ConfigurationSpec => []ResolutionMatchesReference
<1>1. ConfigurationSpec => []RInv
  BY InitRInv, StepKeepsRInv, PTL DEF ConfigurationSpec
<1>2. RInv => ResolutionMatchesReference
  BY DEF RInv
<1> QED BY <1>1, <1>2, PTL

(* The fields of a snapshot are what the schema of resolved configurations *)
(* accepts, and no scope is merged twice.                                  *)
THEOREM SnapshotsAreValid == ConfigurationSpec => []ConfigurationTypeOK
<1>1. ConfigurationSpec => []RInv
  BY InitRInv, StepKeepsRInv, PTL DEF ConfigurationSpec
<1> QED BY <1>1, RInvTypeOK, PTL

-----------------------------------------------------------------------------
(* The two components, of which a behaviour runs one.                      *)
OneRuns ==
  \/ IInv /\ ConfigurationIdle
  \/ RInv /\ IntakeIdle

(* A behaviour begins with one component idle.                             *)
LEMMA InitOneRuns ==
  ASSUME Init PROVE OneRuns
BY InitIInv, InitRInv DEF Init, OneRuns

(* The idle one stays idle, and the other keeps its invariant.             *)
LEMMA StepOneRuns ==
  ASSUME OneRuns, [Next]_vars PROVE OneRuns'
<1>1. CASE IInv /\ ConfigurationIdle
  <2>1. [IntakeNext]_intakeVars /\ UNCHANGED configurationVars
    BY <1>1 DEF Next, vars, ConfigurationIdle
  <2>2. IInv'
    BY <1>1, <2>1, StepIInv
  <2>3. ConfigurationIdle'
    BY <1>1, <2>1 DEF ConfigurationIdle, configurationVars
  <2> QED BY <2>2, <2>3 DEF OneRuns
<1>2. CASE RInv /\ IntakeIdle
  <2>1. [ConfigurationNext]_configurationVars /\ UNCHANGED intakeVars
    BY <1>2 DEF Next, vars, IntakeIdle
  <2>2. RInv'
    BY <1>2, <2>1, StepKeepsRInv
  <2>3. IntakeIdle'
    BY <1>2, <2>1 DEF IntakeIdle, intakeVars
  <2> QED BY <2>2, <2>3 DEF OneRuns
<1> QED BY <1>1, <1>2 DEF OneRuns

(* So it is throughout.                                                    *)
LEMMA OneAlwaysRuns == Spec => []OneRuns
BY InitOneRuns, StepOneRuns, PTL DEF Spec

(* The state of the component that runs has its type: the fields of a      *)
(* snapshot are what its schema accepts, no scope is merged twice, and the *)
(* application gets no more bytes than arrived.                            *)
THEOREM IntakeTypes == Spec => []TypeOK
<1>1. ASSUME OneRuns PROVE TypeOK
  <2>1. CASE IInv /\ ConfigurationIdle
    <3>1. IntakeTypeOK
      BY <2>1 DEF IInv, Counters, Steps, FlagIsLimit, IntakeTypeOK
    <3> QED BY <2>1, <3>1 DEF TypeOK, ConfigurationIdle
  <2>2. CASE RInv /\ IntakeIdle
    BY <2>2, RInvTypeOK DEF TypeOK, IntakeIdle
  <2> QED BY <1>1, <2>1, <2>2 DEF OneRuns
<1> QED BY <1>1, OneAlwaysRuns, PTL

(* Every resolution that runs matches the reference of                     *)
(* docs/configuration.md.                                                  *)
THEOREM EveryResolutionAlwaysMatches == Spec => []EveryResolutionMatches
<1>1. ASSUME OneRuns PROVE EveryResolutionMatches
  BY <1>1 DEF OneRuns, RInv, ConfigurationIdle, EveryResolutionMatches
<1> QED BY <1>1, OneAlwaysRuns, PTL

(* And every request that runs meets the body limit and the guards.        *)
THEOREM OversizeIsRefusedWherever == Spec => []OversizeIsRefused
<1>1. ASSUME OneRuns PROVE OversizeIsRefused
  <2>1. CASE IntakeIdle
    BY <2>1, IntakeAssumption DEF IntakeIdle, OversizeIsRefused
  <2> QED BY <1>1, <2>1, IInvRefuses DEF OneRuns
<1> QED BY <1>1, OneAlwaysRuns, PTL
=============================================================================
