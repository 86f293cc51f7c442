---------------------- MODULE ConfigurationResolution ----------------------
(***************************************************************************)
(* ConfigurationResolver.resolve: the layers of a run are sorted by the    *)
(* precedence of their scopes and merged one after another, each after its *)
(* own checks.  Values are what merging tells apart: null, typed scalars,  *)
(* lists, maps, and the delete directive of an extensions entry.           *)
(***************************************************************************)
EXTENDS Integers, FiniteSets, Sequences, Functions

CONSTANTS
  Resolutions,   \* the requests: layers in order of arrival, and a deadline
  MaxTtl,        \* maximum_runtime_ttl
  Unset,         \* no runtime_expires_at
  Keys,          \* the keys of maps, which are also the ids of keyed entries
  Scalars,       \* the scalar values
  MaxNesting     \* how deep values are nested

VARIABLES
  resolution,   \* the request
  ordered,      \* ordered_layers: the layers by precedence, once they are sorted
  merged,       \* the fields merged so far
  parents,      \* parent_versions: the scopes merged so far
  expires,      \* runtime_expires_at of the snapshot
  outcome       \* "none" while resolving, then "resolved" or why not

configurationVars == <<resolution, ordered, merged, parents, expires, outcome>>

Precedence ==
  <<"SYSTEM", "MARKET", "STRATEGY", "USER", "PORTFOLIO", "ROTATION_PLAN", "RUNTIME_OVERRIDE">>
Rank(scope) == CHOOSE i \in DOMAIN Precedence : Precedence[i] = scope

Required == {"configuration_name", "settings", "rules", "keyed_items", "extensions",
             "nullable_note"}
Now == 0   \* times count from the moment of the resolution

Null == [kind |-> "null"]
Scalar(type, v) == [kind |-> "scalar", type |-> type, value |-> v]
List(items) == [kind |-> "list", items |-> items]
Map(at) == [kind |-> "map", at |-> at]   \* at[key] is Absent where a key is missing
Absent == [kind |-> "absent"]
Delete == [kind |-> "delete"]
Error == [kind |-> "error"]

TypeOf(v) == IF v.kind = "scalar" THEN <<v.kind, v.type>> ELSE <<v.kind>>
-----------------------------------------------------------------------------
(* Values, by how deep they are nested.                                    *)
MapsOver(values) == [kind : {"map"}, at : [Keys -> values \cup {Absent}]]
ListsOver(values) == [kind : {"list"}, items : Seq(values)]
Nested(values) == {Null} \cup Scalars \cup ListsOver(values) \cup MapsOver(values)

ValuesUpTo[n \in Nat] == IF n = 0 THEN {Null} \cup Scalars ELSE Nested(ValuesUpTo[n - 1])
Values == ValuesUpTo[MaxNesting]
Parts == ValuesUpTo[MaxNesting - 1]

(* The entries of a keyed list are maps, each with an id of its own.       *)
Id(item) == item.at["id"]
IdsOf(items) == {Id(items[i]) : i \in DOMAIN items}
IsEntry(item) ==
  item.kind = "map" /\ "id" \in Keys /\ \E key \in Keys : Id(item) = Scalar("text", key)
Keyed(items) ==
  /\ \A i \in DOMAIN items : IsEntry(items[i])
  /\ \A i, j \in DOMAIN items : Id(items[i]) = Id(items[j]) => i = j

(* What ResolvedConfigurationSchema accepts, and LayerPatchSchema, which   *)
(* has delete directives in extensions, too.                               *)
Texts == {s \in Scalars : s.type = "text"}
ResolvedValues(field) ==
  CASE field = "configuration_name" -> Texts
    [] field \in {"settings", "extensions"} -> MapsOver(Parts)
    [] field = "rules" -> ListsOver(Parts)
    [] field = "keyed_items" -> {v \in ListsOver(Parts) : Keyed(v.items)}
    [] field = "nullable_note" -> Texts \cup {Null}
PatchValues(field) ==
  IF field = "extensions" THEN MapsOver(Parts \cup {Delete}) ELSE ResolvedValues(field)

(* The fields a layer may set, by its scope.                               *)
AllowedFields(scope) ==
  {"settings", "extensions", "nullable_note"}
    \cup (IF scope \in {"SYSTEM", "STRATEGY", "ROTATION_PLAN"} THEN {"rules", "keyed_items"} ELSE {})
    \cup (IF scope = "SYSTEM" THEN {"configuration_name"} ELSE {})

ValidLayer(layer) ==
  /\ layer.scope \in Range(Precedence) /\ layer.readable \in BOOLEAN
  /\ layer.expires \in Int \cup {Unset}
  /\ DOMAIN layer.patch \subseteq AllowedFields(layer.scope)
  /\ \A field \in DOMAIN layer.patch : layer.patch[field] \in PatchValues(field)

ASSUME ResolutionsAssumption ==
  \A r \in Resolutions :
    /\ r.deadline \in Int /\ r.layers \in Seq(Range(r.layers))
    /\ \A l \in Range(r.layers) : ValidLayer(l)
ASSUME MaxTtlAssumption == MaxTtl \in Nat \ {0} /\ Unset \notin Int
ASSUME NestingAssumption == MaxNesting \in Nat \ {0}
ASSUME ScalarsAssumption == \A s \in Scalars : s.kind = "scalar"
-----------------------------------------------------------------------------
(* A map with an error in it is an error. *)
Checked(at) == IF \E k \in Keys : at[k] = Error THEN Error ELSE Map(at)

(* _merge_value: maps merge key by key, merge being what it calls itself.  *)
MergedValue(lower, higher, merge) ==
  IF higher = Null \/ lower = Null THEN higher
  ELSE IF TypeOf(lower) # TypeOf(higher) THEN Error
  ELSE IF lower.kind # "map" THEN higher
  ELSE Checked([k \in Keys |->
                  IF higher.at[k] = Absent THEN lower.at[k]
                  ELSE IF lower.at[k] = Absent THEN higher.at[k]
                  ELSE merge[<<lower.at[k], higher.at[k]>>]])

Merges[pair \in Values \X Values] == MergedValue(pair[1], pair[2], Merges)
MergeValue(lower, higher) == Merges[<<lower, higher>>]

(* An entry is merged in place, a new one is appended. *)
PutEntry(items, item) ==
  IF Error \in Range(items) THEN items
  ELSE IF Id(item) \notin IdsOf(items) THEN Append(items, item)
  ELSE [i \in DOMAIN items |->
          IF Id(items[i]) = Id(item) THEN MergeValue(items[i], item) ELSE items[i]]

MergeKeyedList(lower, higher) ==
  LET upto[n \in 0 .. Len(higher)] ==
        IF n = 0 THEN lower ELSE PutEntry(upto[n - 1], higher[n])
      result == upto[Len(higher)]
  IN IF Error \in Range(result) THEN Error ELSE List(result)

(* A bug: a nested map replaces the inherited one. *)
MergeMapShallow(lower, higher) ==
  Map([k \in Keys |-> IF higher[k] = Absent THEN lower[k] ELSE higher[k]])
MergeMap(lower, higher) == MergeValue(Map(lower), Map(higher))

(* A bug: a delete directive without a parent entry is kept as a value. *)
MergeExtensionsKeeping(lower, higher) == MergeMapShallow(lower, higher)

(* Only extensions may delete, and only what they inherit. *)
MergeExtensions(lower, higher) ==
  LET without(at) == [k \in Keys |-> IF higher[k] = Delete THEN Absent ELSE at[k]]
  IN IF \E k \in Keys : higher[k] = Delete /\ lower[k] = Absent THEN Error
     ELSE MergeMap(without(lower), without(higher))

Nothing == [k \in Keys |-> Absent]
MergeField(field, inherited, higher) ==
  IF field = "extensions"
  THEN MergeExtensions(IF field \in DOMAIN inherited THEN inherited[field].at ELSE Nothing, higher.at)
  ELSE IF field \notin DOMAIN inherited THEN higher
  ELSE IF field = "keyed_items" THEN MergeKeyedList(inherited[field].items, higher.items)
  ELSE MergeValue(inherited[field], higher)
-----------------------------------------------------------------------------
(* sorted() is stable: layers of one scope stay in order of arrival.       *)
Before(layers, j, i) ==
  \/ Rank(layers[j].scope) < Rank(layers[i].scope)
  \/ Rank(layers[j].scope) = Rank(layers[i].scope) /\ j < i
PlaceOf(layers, i) == 1 + Cardinality({j \in DOMAIN layers : Before(layers, j, i)})
Sorted(layers) ==
  [n \in DOMAIN layers |-> layers[CHOOSE i \in DOMAIN layers : PlaceOf(layers, i) = n]]

(* _validate_runtime_expiry, and its counterpart for the other scopes *)
ValidExpiry(layer) ==
  IF layer.scope = "RUNTIME_OVERRIDE"
  THEN /\ layer.expires # Unset
       /\ layer.expires > Now /\ layer.expires <= resolution.deadline
       /\ layer.expires - Now <= MaxTtl
  ELSE layer.expires = Unset

MergedWith(layer) ==
  [field \in DOMAIN merged \cup DOMAIN layer.patch |->
     IF field \in DOMAIN layer.patch THEN MergeField(field, merged, layer.patch[field])
     ELSE merged[field]]

End(result) ==
  outcome' = result /\ UNCHANGED <<resolution, ordered, merged, parents, expires>>

Begin ==
  /\ outcome = "none" /\ ordered = <<>>
  /\ IF resolution.deadline <= Now THEN End("deadline")
     ELSE IF resolution.layers = <<>> THEN End("invalid")
     ELSE /\ ordered' = Sorted(resolution.layers)
          /\ UNCHANGED <<resolution, merged, parents, expires, outcome>>

(* One layer: its checks in order, then its fields. *)
ApplyLayer ==
  LET layer == ordered[Len(parents) + 1]
      next == MergedWith(layer)
  IN /\ outcome = "none" /\ Len(parents) < Len(ordered)
     /\ IF layer.scope \in Range(parents) THEN End("duplicate")
        ELSE IF ~layer.readable THEN End("not_found")
        ELSE IF ~ValidExpiry(layer) THEN End("expiry")
        ELSE IF \E field \in DOMAIN next : next[field] = Error THEN End("merge")
        ELSE /\ merged' = next
             /\ parents' = Append(parents, layer.scope)
             /\ expires' = IF layer.expires = Unset THEN expires ELSE layer.expires
             /\ UNCHANGED <<resolution, ordered, outcome>>

(* The complete schema validates what the sparse layers left. *)
Validate ==
  /\ outcome = "none" /\ ordered # <<>> /\ Len(parents) = Len(ordered)
  /\ End(IF \A field \in Required : field \in DOMAIN merged /\ merged[field] \in ResolvedValues(field)
         THEN "resolved" ELSE "invalid")

ConfigurationInit ==
  /\ resolution \in Resolutions
  /\ ordered = <<>> /\ merged = <<>> /\ parents = <<>>
  /\ expires = Unset /\ outcome = "none"

ConfigurationNext == Begin \/ ApplyLayer \/ Validate
ConfigurationSpec == ConfigurationInit /\ [][ConfigurationNext]_configurationVars
-----------------------------------------------------------------------------
(* Where a path of map keys leads, key by key.                             *)
Child(v, key) == IF v.kind = "map" THEN v.at[key] ELSE Absent
Along(v, path) ==
  LET along[n \in 0 .. Len(path)] == IF n = 0 THEN v ELSE Child(along[n - 1], path[n])
  IN along
At(v, path) == Along(v, path)[Len(path)]

Paths == UNION {[1 .. n -> Keys] : n \in 0 .. MaxNesting}

(* A keyed list as the map it stands for. *)
AsMap(field, v) ==
  IF field = "keyed_items"
  THEN Map([key \in Keys |->
              IF Scalar("text", key) \notin IdsOf(v.items) THEN Absent
              ELSE v.items[CHOOSE i \in DOMAIN v.items : Id(v.items[i]) = Scalar("text", key)]])
  ELSE v

(* A layer speaks about a path when it gives it a value, or gives one of   *)
(* its ancestors a value that is no map.                                   *)
Speaks(v, path) ==
  \/ At(v, path) # Absent
  \/ \E n \in 0 .. Len(path) : Along(v, path)[n].kind \notin {"map", "absent"}

(* What the nth layer by precedence says about a field.                    *)
Patch(n) == ordered[n].patch
Said(field, n) == IF field \in DOMAIN Patch(n) THEN AsMap(field, Patch(n)[field]) ELSE Absent

(* What stands about a path after n layers: the word of the last speaker.  *)
Speakers(field, path, n) == {i \in 1 .. n : Speaks(Said(field, i), path)}
Standing(field, path, n) ==
  IF Speakers(field, path, n) = {} THEN Absent
  ELSE LET last == CHOOSE i \in Speakers(field, path, n) :
                     \A j \in Speakers(field, path, n) : j <= i
       IN At(Said(field, last), path)

Gone == {Absent, Delete}

(* A value cannot replace one of another type, and nothing cannot be       *)
(* deleted.                                                                *)
Clash(standing, statement) ==
  \/ /\ {standing, statement} \cap (Gone \cup {Null}) = {}
     /\ TypeOf(standing) # TypeOf(statement)
  \/ standing \in Gone /\ statement = Delete

(* "a positive expiry no later than the run deadline" and the maximum TTL,  *)
(* for a runtime override only *)
Lawful(layer) ==
  IF layer.scope = "RUNTIME_OVERRIDE"
  THEN (Now + 1) .. (IF resolution.deadline < Now + MaxTtl THEN resolution.deadline ELSE Now + MaxTtl)
  ELSE {Unset}

(* The reasons to refuse a request, whatever the order they are met in. *)
Refusals ==
  LET layers == resolution.layers
      reason(r, holds) == IF holds THEN {r} ELSE {}
  IN reason("deadline", resolution.deadline <= Now)
     \cup reason("duplicate", \E i, j \in DOMAIN layers : i # j /\ layers[i].scope = layers[j].scope)
     \cup reason("not_found", \E l \in Range(layers) : ~l.readable)
     \cup reason("expiry", \E l \in Range(layers) : l.expires \notin Lawful(l))
     \cup reason("merge", \E field \in Required, path \in Paths, n \in DOMAIN ordered :
                            Clash(Standing(field, path, n - 1), At(Said(field, n), path)))
     \cup reason("invalid", \E field \in Required :
                              \A l \in Range(layers) : field \notin DOMAIN l.patch)

Says(v, statement) ==
  CASE statement \in Gone -> v = Absent
    [] statement.kind = "map" -> v.kind = "map"
    [] OTHER -> v = statement

(* The layer and the place at which an entry of a keyed list appears.      *)
ItemsOf(n) == IF "keyed_items" \in DOMAIN Patch(n) THEN Patch(n)["keyed_items"].items ELSE <<>>
FirstAppears(id, n, place) ==
  /\ place \in DOMAIN ItemsOf(n) /\ Id(ItemsOf(n)[place]) = id
  /\ \A m \in 1 .. n - 1 : id \notin IdsOf(ItemsOf(m))

(* One entry of a keyed list appeared before another.                      *)
AppearsBefore(id, other) ==
  \E n, m \in DOMAIN ordered : \E p \in DOMAIN ItemsOf(n), q \in DOMAIN ItemsOf(m) :
    /\ FirstAppears(id, n, p) /\ FirstAppears(other, m, q)
    /\ n < m \/ (n = m /\ p < q)

(* docs/configuration.md, "Deterministic merge rules": in whatever order   *)
(* the layers arrive, a request is refused exactly when it has a reason,   *)
(* and otherwise every path of the snapshot holds what the highest layer   *)
(* that speaks about it says, keyed entries keep the place where they      *)
(* first appeared, the parents are in order of precedence and the snapshot *)
(* expires with the one runtime override.                                  *)
ResolutionMatchesReference ==
  outcome # "none" =>
    IF outcome # "resolved" THEN outcome \in Refusals
    ELSE /\ Refusals = {}
         /\ Range(parents) = {l.scope : l \in Range(resolution.layers)}
         /\ \A i, j \in DOMAIN parents : i < j => Rank(parents[i]) < Rank(parents[j])
         /\ \A l \in Range(resolution.layers) : l.scope = "RUNTIME_OVERRIDE" => expires = l.expires
         /\ \A field \in Required, path \in Paths :
              Says(At(AsMap(field, merged[field]), path),
                   Standing(field, path, Len(ordered)))
         /\ LET items == merged["keyed_items"].items IN
            \A i, j \in DOMAIN items : i < j => AppearsBefore(Id(items[i]), Id(items[j]))

ConfigurationTypeOK ==
  /\ DOMAIN merged \subseteq Required
  /\ \A field \in DOMAIN merged : merged[field] \in ResolvedValues(field)
  /\ Cardinality(Range(parents)) = Len(parents)
=============================================================================
