--------------------------- MODULE MCConversation ---------------------------
(***************************************************************************)
(* Small conversations for TLC: two sessions of up to three turns, and the *)
(* replies that differ in what follows from them.                          *)
(***************************************************************************)
EXTENDS ConversationProperties

MCSessions == 0..1
MCSlo == [ttft |-> 3, tpot |-> 1, e2el |-> 5]

\* Nothing said; one token: all of a first prompt, or a part of what a later
\* one repeats; and four, which no turn but a third can have repeated.
MCHits == {None, 1, 4}

Usage(output, thinking) ==
  [NoUsage EXCEPT !.input = 0, !.output = output, !.reasoning = thinking]
Text(time, finish, queue) ==
  Payload(time, FALSE, TRUE, finish, NoUsage, queue)
Tail3(time, usage, queue) ==
  <<Payload(time, FALSE, FALSE, "none", usage, queue), Line("done", time)>>

MCStreams ==
  { \* content only, with usage
    <<Text(2, "none", None), Text(3, "stop", None)>>
      \o Tail3(4, Usage(2, None), 0),
    \* thoughts, then content, more tokens than events
    <<Payload(2, TRUE, FALSE, "none", NoUsage, None),
      Payload(5, TRUE, TRUE, "none", NoUsage, 1),
      Payload(6, FALSE, FALSE, "length", NoUsage, None)>>
      \o Tail3(6, Usage(5, 3), 2),
    \* a time in the queue and no usage at all
    <<Line("noise", 1), Text(4, "stop", 1), Line("done", 4)>>,
    \* thoughts only
    <<Payload(2, TRUE, FALSE, "stop", Usage(1, 1), None), Line("done", 2)>>,
    \* the transport fails in the middle
    <<Text(2, "none", None), Line("cut", 3)>> }
=============================================================================
