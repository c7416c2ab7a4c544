--------------------------- MODULE MCComputations ---------------------------
(***************************************************************************)
(* Small inputs for TLC, one set for each computation.                     *)
(***************************************************************************)
EXTENDS Computations

UpTo(S, n) == UNION {[1..k -> S] : k \in 0..n}
From1(S, n) == UpTo(S, n) \ {<<>>}

-----------------------------------------------------------------------------
(* Two profiles, one of which needs a parameter of its own; a path, a       *)
(* secret, a parameter that must be given and two that may vary.            *)

Parameter(accepted, default, required, matrix, path, secret) ==
  [accepted |-> accepted, default |-> default, required |-> required,
   matrix |-> matrix, path |-> path, secret |-> secret]

Plain(accepted, default) == Parameter(accepted, default, FALSE, TRUE, FALSE, FALSE)

Scenario ==
  [schema |-> ("profile" :> Parameter({1, 2, 3}, P!Value(1), FALSE, FALSE, FALSE, FALSE))
              @@ ("model" :> Parameter({1, 2}, P!Missing, TRUE, FALSE, FALSE, FALSE))
              @@ ("file" :> Parameter({1, 2}, P!Missing, FALSE, FALSE, TRUE, FALSE))
              @@ ("key" :> Parameter({0, 1}, P!Null, FALSE, FALSE, FALSE, TRUE))
              @@ ("metrics" :> Plain({0, 1, 2}, P!Empty))
              @@ ("load" :> Plain({1, 2, 3}, P!Value(1))),
   modes |-> {"closed", "open"}, metrics |-> P!Value(1), capabilities |-> {"stream"},
   exclusive |-> {("key" :> P!Value(1)) @@ ("load" :> P!Value(3))}, http |-> TRUE]

MCWorld ==
  [scenarios |-> [serving |-> Scenario],
   profiles |-> <<[mode |-> "closed", schema |-> ("load" :> Plain({1, 2}, P!Value(1)))],
                  [mode |-> "open",
                   schema |-> ("rate" :> Parameter({1, 2}, P!Missing, TRUE, TRUE, FALSE, FALSE))]>>,
   requires |-> <<{"stream"}, {"answers"}>>,
   files |-> {[v |-> 1, base |-> "cwd"], [v |-> 1, base |-> "config"],
              [v |-> 2, base |-> "config"]},
   limit |-> 4, observe |-> TRUE]

Commons ==
  {<<>>, "model" :> P!Value(1), ("model" :> P!Value(2)) @@ ("file" :> P!Value(1)),
   ("file" :> P!Value(2)) @@ ("key" :> P!Value(1)),
   ("profile" :> P!Value(2)) @@ ("load" :> P!Value(3))}

Givens ==
  {"model" :> P!Value(1), ("model" :> P!Value(2)) @@ ("file" :> P!Value(2)),
   ("model" :> P!Value(2)) @@ ("file" :> P!Empty) @@ ("key" :> P!Value(1)),
   ("model" :> P!Value(1)) @@ ("profile" :> P!Value(2)) @@ ("rate" :> P!Value(1)),
   "load" :> P!Value(2), "other" :> P!Value(1)}

Axis(name, values) == [name |-> name, values |-> [i \in DOMAIN values |-> P!Value(values[i])]]
NoCases == [kind |-> "none", matrix |-> <<>>, items |-> <<>>]

Definitions ==
  {NoCases} \cup
  {[NoCases EXCEPT !.kind = "matrix", !.matrix = m] :
     m \in {<<Axis("load", <<1, 2>>), Axis("metrics", <<1, 0>>)>>,
            <<Axis("metrics", <<0>>), Axis("load", <<2, 1>>)>>,
            <<Axis("model", <<1, 2>>)>>, <<Axis("load", <<1, 2, 3>>), Axis("rate", <<1, 2>>)>>,
            <<Axis("rate", <<2, 1>>)>>}} \cup
  {[NoCases EXCEPT !.kind = "items", !.items = i] :
     i \in {<<"load" :> P!Value(2), <<>>>>, <<"metrics" :> P!Value(2)>>, <<>>}}

MCPlanInputs ==
  {[common |-> c, selected |-> s,
    entries |-> <<[name |-> "a", scenario |-> "serving", given |-> g, cases |-> d],
                  [name |-> "b", scenario |-> "serving", given |-> h, cases |-> NoCases]>>] :
     c \in Commons, s \in {{}, {"a"}, {"b"}, {"c"}}, g \in Givens, d \in Definitions,
     h \in {"model" :> P!Value(2), "other" :> P!Value(1)}}

-----------------------------------------------------------------------------
Rows == {[offset |-> 0, input |-> 1, output |-> 1, whole |-> TRUE],
         [offset |-> 2, input |-> 2, output |-> 1, whole |-> TRUE],
         [offset |-> None, input |-> 1, output |-> 1, whole |-> TRUE],
         [offset |-> 1, input |-> 1, output |-> 0, whole |-> TRUE]}

MCTraceInputs ==
  {[rows |-> r, skip |-> s, order |-> o, warmup |-> 2,
    p |-> [replay |-> y, shuffle |-> h, start |-> t, maxSamples |-> m, count |-> c]] :
     r \in From1(Rows, 3), s \in BOOLEAN, o \in {<<1>>, <<2, 1>>, <<3, 1, 2>>},
     y \in BOOLEAN, h \in BOOLEAN, t \in 0..1, m \in {None, 2}, c \in 1..2}

Length(mean, std, lower, upper) ==
  [mean |-> mean, std |-> std, lower |-> lower, upper |-> upper]

MCLengthInputs ==
  {[input |-> Length(m, s, l, u), output |-> Length(2, t, None, v), limit |-> limit,
    draws |-> -3..14, items |-> [i \in 1..n |-> i], size |-> 2, number |-> number] :
     m \in 1..3, s \in {None, 1}, l \in {None, 1, 3}, u \in {None, 2, 4}, t \in {None, 1},
     v \in {None, 3}, limit \in {None, 0, 5, 9}, n \in {0, 1, 3, 4}, number \in {1, 3, 5}}

Said == {[role |-> "user", text |-> 1], [role |-> "assistant", text |-> 1],
         [role |-> "system", text |-> 1], [role |-> "other", text |-> 1],
         [role |-> "user", text |-> 0]}

MCTalkInputs ==
  {[records |-> r, maxTurns |-> m, needed |-> n, repeat |-> p, cliSystem |-> TRUE] :
     r \in {<<a, b>> : a \in UpTo(Said, 4), b \in UpTo({t \in Said : t.role = "user"}, 1)},
     m \in 1..2, n \in {1, 3}, p \in BOOLEAN}

-----------------------------------------------------------------------------
MCByteInputs ==
  {[chunks |-> c] : c \in UpTo(UpTo({"cr", "lf", "x"}, 2), 3)}

Line(time, thought, content) ==
  R!Payload(time, thought, content, "none", R!NoUsage, None)

MCStreamInputs ==
  {[lines |-> [i \in DOMAIN kinds |->
      CASE kinds[i] = "text" -> Line(i, FALSE, TRUE)
        [] kinds[i] = "thought" -> Line(i, TRUE, FALSE)
        [] kinds[i] = "both" -> Line(i, TRUE, TRUE)
        [] kinds[i] = "usage" -> R!Payload(i, FALSE, FALSE, "stop",
                                   [R!NoUsage EXCEPT !.input = 1, !.output = 2], None)
        [] OTHER -> R!Line(kinds[i], i)]] :
     kinds \in From1({"text", "thought", "both", "usage", "noise", "cut", "done"}, 4)}

MCThoughtInputs ==
  {[prompt |-> p, output |-> o] :
     p \in UpTo({"start", "end", "ws"}, 2), o \in From1({"start", "end", "ws", "x"}, 4)}

MCValueInputs ==
  {[samples |-> s, present |-> p] :
     s \in From1(0..3, 4), p \in {<<>>, <<None>>, <<2, None, 1>>, <<None, 3, 0, 1>>}}

-----------------------------------------------------------------------------
Pair(i, o) == [input |-> i, output |-> o]

Requests ==
  {[sample |-> s, cost |-> c, status |-> t, usage |-> u, response |-> r] :
     s \in 1..2, c \in 1..2, t \in {"success", "failed", "other"},
     u \in {T!Absent, T!NoPair, Pair(1, 2)}, r \in {T!Absent, Pair(2, 2)}}

MCTokenInputs ==
  {[requests |-> q, complete |-> c, duration |-> d,
    samples |-> <<[sample |-> 1, usage |-> u, records |-> b],
                  [sample |-> 2, usage |-> Pair(3, 1), records |-> <<>>]>>] :
     q \in UpTo({r \in Requests : r.cost = 1 \/ r.status = "success"}, 2),
     u \in {T!Absent, Pair(1, 1)}, b \in {<<>>, <<Pair(1, 1), Pair(1, None)>>},
     <<c, d>> \in {<<TRUE, 2>>, <<TRUE, 0>>, <<FALSE, 2>>}}

Result(tokens) == T!ThroughputResult(tokens, 2, "none")

RunCases ==
  {[status |-> s, complete |-> c, own |-> o, common |-> Result(3)] :
     s \in {"success", "skipped", "discarded", "failed"}, c \in BOOLEAN,
     o \in {T!NoResult, Result(2), Result(None)}}

MCRunInputs ==
  {<<[performance |-> p, status |-> s, cases |-> a],
     [performance |-> TRUE, status |-> "success", cases |-> b]>> :
     p \in BOOLEAN, s \in {"success", "skipped"}, a \in UpTo(RunCases, 1),
     b \in UpTo(RunCases, 2)}

Outputs ==
  {[prompt |-> 1, output |-> o, latency |-> l, scheduled |-> 1, first |-> f, last |-> t,
    candidates |-> 1] : o \in 1..3, l \in {1, 3}, f \in 1..2, t \in 1..4}

MCBatchInputs ==
  {[outputs |-> b, slo |-> s] :
     b \in {<<<<x>>>> : x \in Outputs} \cup {<<<<x, y>>>> : x \in Outputs, y \in Outputs}
          \cup {<<<<x, y>>, <<y>>>> : x \in Outputs, y \in {o \in Outputs : o.latency = 1}},
     s \in {[ttft |-> 2, step |-> None], [step |-> 1], [execution |-> 2, prefill |-> 1]}}

-----------------------------------------------------------------------------
MCWindowInputs ==
  {[tokens |-> t, context |-> c, stride |-> s] :
     t \in {f \in [0..4 -> 0..4] : f[0] <= 1 /\ f[3] > 0 /\ f[4] > 0}
          \cup {[c \in 0..n |-> c] : n \in 5..9},
     c \in 2..3, s \in 1..3}

Outcomes == {"right", "wrong", "unparsed", "unclosed", "service", "sandbox", "timeout",
             "raised"}

MCAnswerInputs ==
  From1([outcome : Outcomes, subject : {"a", "b"}], 2)
    \cup [1..3 -> [outcome : Outcomes \ {"unclosed", "timeout"}, subject : {"a", "b"}]]

Reply(values) ==
  [sent |-> TRUE, choices |-> TRUE, reasoning |-> TRUE, tokens |-> Len(values),
   logprobs |-> values]

MCChoiceInputs ==
  {[prompt |-> 1, fulls |-> [i \in DOMAIN r |-> Len(r[i])],
    replies |-> [i \in DOMAIN r |-> Reply(r[i] \o <<9>>)]] :
     r \in [1..3 -> {<<None>> \o v : v \in UpTo(0..2, 2)}]}

MCTextInputs == {[p |-> p, q |-> q] : p \in UpTo(1..3, 3), q \in UpTo(1..3, 3)}
=============================================================================
