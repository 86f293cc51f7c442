------------------------------ MODULE MCIntake ------------------------------
(* The HTTP intake and the configuration resolver, each on its own inputs: *)
(* a behaviour runs one of them.                                           *)
EXTENDS ConfigurationResolution, AdminIntake

CONSTANT Idle   \* the input of a component that does not run

-----------------------------------------------------------------------------
MCRequests ==
  [path : {"admin", "root/admin", "other"}, declared : SUBSET {0, 2, 3},
   configured : BOOLEAN, wired : BOOLEAN, token : {"absent", "wrong", "right"},
   planKnown : BOOLEAN, body : {"malformed", "other", "dry_run"}]

-----------------------------------------------------------------------------
One == Scalar("integer", 1)
Two == Scalar("integer", 2)
Text == Scalar("text", "t")
MCKeys == {"a", "b", "c", "d", "id"}
MCScalars == {One, Two, Text} \cup {Scalar("text", key) : key \in MCKeys}

MapOf(at) == Map([key \in MCKeys |-> IF key \in DOMAIN at THEN at[key] ELSE Absent])

(* Every map with the key a, b or both, over the given values. *)
Maps(forA, forB) ==
  {MapOf([a |-> x, b |-> y]) : x \in forA, y \in forB}
  \cup {MapOf([a |-> x]) : x \in forA} \cup {MapOf([b |-> y]) : y \in forB}
Inner == {MapOf([c |-> One]), MapOf([c |-> Two, d |-> One])}
Item(id, at) == Map([MapOf(at).at EXCEPT !["id"] = Scalar("text", id)])
ItemsA == {Item("a", [c |-> One]), Item("a", [c |-> Text]), Item("a", [d |-> Two])}
ItemsB == {Item("b", [c |-> Two]), Item("b", [c |-> Null])}

ValuesOf(field) ==
  CASE field = "settings" -> Maps({One, Null, Text} \cup Inner, {Two})
    [] field = "extensions" -> Maps({One, Null, Text, Delete} \cup Inner, {Delete})
    [] field = "rules" -> {List(<<MapOf([a |-> One])>>), List(<<MapOf([a |-> Text]), MapOf([b |-> Two])>>)}
    [] field = "keyed_items" ->
         {List(<<x>>) : x \in ItemsA \cup ItemsB} \cup {List(<<y, x>>) : x \in ItemsA, y \in ItemsB}
    [] field = "nullable_note" -> {Null, Text}

Complete ==
  [configuration_name |-> Text, settings |-> MapOf([b |-> One]), rules |-> List(<<>>),
   keyed_items |-> List(<<>>), extensions |-> MapOf([b |-> One]), nullable_note |-> Null]
With(field, v, patch) ==
  [f \in DOMAIN patch \cup {field} |-> IF f = field THEN v ELSE patch[f]]

Layer(scope, patch, expiry, readable) ==
  [scope |-> scope, patch |-> patch, expires |-> expiry, readable |-> readable]
Resolve(deadline, layers) == [deadline |-> deadline, layers |-> layers]

(* Three layers that all may set one field, out of order. *)
ManyValues ==
  UNION {{Resolve(2, <<Layer("ROTATION_PLAN", z, Unset, TRUE), Layer("SYSTEM", x, Unset, TRUE),
                       Layer("STRATEGY", y, Unset, TRUE)>>) :
            x \in {With(field, v, Complete) : v \in ValuesOf(field)},
            y \in {<<>>} \cup {With(field, v, <<>>) : v \in ValuesOf(field)},
            z \in {<<>>} \cup {With(field, v, <<>>) : v \in ValuesOf(field)}} :
         field \in {"settings", "extensions", "rules", "keyed_items", "nullable_note"}}

(* Up to three layers in every order, with the things a layer is refused for. *)
Note(v) == With("nullable_note", v, <<>>)
SomeLayers ==
  {Layer("SYSTEM", Complete, Unset, TRUE), Layer("USER", Note(Text), Unset, TRUE),
   Layer("USER", Note(Null), Unset, FALSE), Layer("PORTFOLIO", Note(Text), 1, TRUE),
   Layer("MARKET", With("settings", MapOf([a |-> Text]), <<>>), Unset, TRUE)}
  \cup {Layer("RUNTIME_OVERRIDE", Note(Null), e, TRUE) : e \in {Unset, 0, 1, 2, 3}}
ManyOrders ==
  {Resolve(deadline, ls) : deadline \in {0, 1, 3},
     ls \in UNION {[1 .. n -> SomeLayers] : n \in 0 .. 3}}

MCResolutions == ManyValues \cup ManyOrders

-----------------------------------------------------------------------------
IntakeIdle ==
  /\ request = Idle /\ step = "idle" /\ observed = 0 /\ delivered = 0 /\ exceeded = FALSE
  /\ reply = NoReply /\ answers = <<>> /\ runs = 0
ConfigurationIdle ==
  /\ resolution = Idle /\ ordered = <<>> /\ merged = <<>> /\ parents = <<>>
  /\ expires = Unset /\ outcome = "idle"

vars == <<configurationVars, intakeVars>>

Init ==
  \/ IntakeInit /\ ConfigurationIdle
  \/ ConfigurationInit /\ IntakeIdle

Next ==
  \/ step # "idle" /\ IntakeNext /\ UNCHANGED configurationVars
  \/ outcome # "idle" /\ ConfigurationNext /\ UNCHANGED intakeVars

Spec == Init /\ [][Next]_vars

(* The types of whichever component runs. *)
TypeOK ==
  /\ request # Idle => IntakeTypeOK
  /\ resolution # Idle => ConfigurationTypeOK

(* ResolutionMatchesReference of the component that runs. *)
EveryResolutionMatches == resolution # Idle => ResolutionMatchesReference
=============================================================================
