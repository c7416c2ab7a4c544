------------------------------ MODULE Planning ------------------------------
(***************************************************************************)
(* From a config file and a command line to a plan of tasks and Cases:     *)
(* core/planning.py and core/parameters.py.                                *)
(*                                                                         *)
(* A parameter specification is                                            *)
(*   [accepted, default, required, matrix, path, secret]                   *)
(* where accepted stands for its type, range and choices.  A value is      *)
(*   [v, base]                                                             *)
(* and base, for a path, is the directory it has been resolved against.    *)
(* What the code raises an error for is a predicate, ...Refused, and the   *)
(* operator beside it gives what it returns otherwise.                     *)
(***************************************************************************)
EXTENDS Integers, Sequences, FiniteSets, SequencesExt

Value(n) == [v |-> n, base |-> "none"]
Null == Value(-1)      \* Python's None
Missing == Value(-2)   \* no default
Empty == Value(0)      \* a falsy value: "", an empty list
Redacted == Value(-3)

-----------------------------------------------------------------------------
(* Parameter.validate, validate_parameters, public_parameters *)

ValueRefused(spec, value) ==
  IF value = Null THEN spec.required \/ spec.default # Null
  ELSE \/ value.v \notin spec.accepted
       \/ spec.required /\ value = Empty

Resolved(value, base) ==
  IF value \in {Null, Empty} \/ value.base # "none" THEN value
  ELSE [value EXCEPT !.base = base]

Supplied(spec, supplied, name) ==
  IF name \in DOMAIN supplied THEN supplied[name] ELSE spec.default

ParametersRefused(schema, supplied) ==
  \/ ~(DOMAIN supplied \subseteq DOMAIN schema)
  \/ \E name \in DOMAIN schema :
       LET value == Supplied(schema[name], supplied, name)
       IN  IF value = Missing THEN schema[name].required
           ELSE ValueRefused(schema[name], value)

\* An optional parameter without a value or a default is left out.
Parameters(schema, supplied, base) ==
  LET value(name) == Supplied(schema[name], supplied, name)
  IN  [name \in {n \in DOMAIN schema : value(n) # Missing} |->
         IF schema[name].path THEN Resolved(value(name), base) ELSE value(name)]

PublicParameters(schema, parameters) ==
  [name \in DOMAIN parameters |->
     IF schema[name].secret /\ parameters[name] \notin {Null, Empty}
     THEN Redacted ELSE parameters[name]]

-----------------------------------------------------------------------------
(* schema_for.  A scenario is                                               *)
(*   [schema, modes, metrics, capabilities, exclusive, http]                *)
(* and a profile, which is chosen by the value of the parameter "profile",  *)
(* is [mode, schema].                                                       *)

Profile(scenario, profiles, supplied) ==
  profiles[Supplied(scenario.schema["profile"], supplied, "profile").v]

SchemaRefused(scenario, profiles, supplied) ==
  \/ Supplied(scenario.schema["profile"], supplied, "profile").v \notin DOMAIN profiles
  \/ Profile(scenario, profiles, supplied).mode \notin scenario.modes

\* A profile's declaration replaces the scenario's.
SchemaFor(scenario, profiles, supplied) ==
  Profile(scenario, profiles, supplied).schema @@ scenario.schema

-----------------------------------------------------------------------------
(* expand_cases.  A definition is [kind, matrix, items]: kind is "none",    *)
(* "matrix" or "items", matrix a sequence of [name, values] in the order    *)
(* of the file, items a sequence of overrides.                              *)

\* The last name of the matrix varies fastest.
Product(matrix) ==
  FoldLeft(LAMBDA cases, axis :
             FlattenSeq([i \in DOMAIN cases |->
                           [j \in DOMAIN axis.values |->
                              cases[i] @@ (axis.name :> axis.values[j])]]),
           << <<>> >>, matrix)

ItemsOf(definition) ==
  CASE definition.kind = "none" -> << <<>> >>
    [] definition.kind = "matrix" -> Product(definition.matrix)
    [] OTHER -> definition.items

CasesRefused(definition, schema, limit) ==
  LET axes == definition.matrix
      count == FoldLeft(LAMBDA n, axis : n * Len(axis.values), 1, axes)
      mayVary(name) == name \in DOMAIN schema /\ schema[name].matrix
  IN  CASE definition.kind = "none" -> FALSE
        [] definition.kind = "matrix" ->
             \/ axes = <<>> \/ \E i \in DOMAIN axes : axes[i].values = <<>>
             \/ count > limit
             \/ \E i \in DOMAIN axes : ~mayVary(axes[i].name)
        [] OTHER ->
             \/ definition.items = <<>>
             \/ \E i \in DOMAIN definition.items :
                  \E name \in DOMAIN definition.items[i] : ~mayVary(name)

-----------------------------------------------------------------------------
(* build_plan.  An entry of the file is [name, scenario, given, cases].     *)
(* w is what is installed and exists: [scenarios, profiles, requires,       *)
(* files, limit, observe].                                                  *)

\* Slip: an option of the command line wins over the file.
GivenCommandFirst(common, entry) == common @@ entry.given

\* {**common, **entry}
Given(common, entry) == entry.given @@ common

\* Paths of the command line are relative to the working directory, and are
\* resolved before those of the file.
WithCommandPaths(common, entry, schema) ==
  LET given == Given(common, entry)
  IN  [name \in DOMAIN given |->
         IF /\ name \in DOMAIN common /\ name \notin DOMAIN entry.given
            /\ name \in DOMAIN schema /\ schema[name].path
         THEN Resolved(given[name], "cwd") ELSE given[name]]

\* The supplied values of each Case of a task.
Overridden(common, entry, scenario, profiles) ==
  LET schema == SchemaFor(scenario, profiles, Given(common, entry))
      items == ItemsOf(entry.cases)
  IN  [i \in DOMAIN items |-> items[i] @@ WithCommandPaths(common, entry, schema)]

\* What a Case asks for, or else what its scenario measures.
Chosen(parameters, scenario) ==
  IF parameters["metrics"] = Empty THEN scenario.metrics
  ELSE parameters["metrics"]

\* Benchmark.validate: values that do not go together.
Contradictory(parameters, scenario) ==
  \E pair \in scenario.exclusive :
    /\ DOMAIN pair \subseteq DOMAIN parameters
    /\ \A name \in DOMAIN pair : parameters[name] = pair[name]

\* The files have to exist, the metrics to find their facts, and an observer
\* needs an HTTP service.
CaseRefused(schema, supplied, scenario, w) ==
  LET parameters == Parameters(schema, supplied, "config")
  IN  \/ ParametersRefused(schema, supplied)
      \/ Contradictory(parameters, scenario)
      \/ \E name \in DOMAIN parameters :
           /\ schema[name].path /\ parameters[name] \notin {Null, Empty}
           /\ parameters[name] \notin w.files
      \/ ~(w.requires[Chosen(parameters, scenario).v] \subseteq scenario.capabilities)
      \/ w.observe /\ ~scenario.http

TaskRefused(common, entry, w) ==
  LET scenario == w.scenarios[entry.scenario]
      given == Given(common, entry)
      schema == SchemaFor(scenario, w.profiles, given)
      cases == Overridden(common, entry, scenario, w.profiles)
  IN  \/ SchemaRefused(scenario, w.profiles, given)
      \/ CasesRefused(entry.cases, schema, w.limit)
      \/ \E i \in DOMAIN cases :
           CaseRefused(schema, cases[i], scenario, w)

Task(common, entry, w) ==
  LET scenario == w.scenarios[entry.scenario]
      schema == SchemaFor(scenario, w.profiles, Given(common, entry))
      cases == Overridden(common, entry, scenario, w.profiles)
      parameters(i) == Parameters(schema, cases[i], "config")
  IN  [name |-> entry.name, schema |-> schema,
       cases |-> [i \in DOMAIN cases |->
                    [parameters(i) EXCEPT
                       !["metrics"] = Chosen(parameters(i), scenario)]]]

\* Entries that were not selected only have to have a name of their own.
Selected(entries, selected) ==
  SelectSeq(entries, LAMBDA e : selected = {} \/ e.name \in selected)

PlanRefused(common, entries, selected, w) ==
  LET tasks == Selected(entries, selected)
      names == {entries[i].name : i \in DOMAIN entries}
  IN  \/ entries = <<>> \/ Cardinality(names) # Len(entries)
      \/ ~(selected \subseteq names)
      \/ \E i \in DOMAIN tasks : TaskRefused(common, tasks[i], w)

Plan(common, entries, selected, w) ==
  LET tasks == Selected(entries, selected)
  IN  [i \in DOMAIN tasks |-> Task(common, tasks[i], w)]

PublicPlan(plan) ==
  [i \in DOMAIN plan |->
     [plan[i] EXCEPT !.cases =
        [j \in DOMAIN @ |-> PublicParameters(plan[i].schema, @[j])]]]
=============================================================================
