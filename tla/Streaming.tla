----------------------------- MODULE Streaming ------------------------------
(***************************************************************************)
(* A streamed response: the lines of runtime/http_client.py and the        *)
(* observation that generation_performance/common/streaming.py and         *)
(* token_counting.py make of them.                                         *)
(*                                                                         *)
(* A chunk is a sequence of bytes: "cr", "lf" or payload.  A line of an    *)
(* event stream has a kind and a time, when the collector reads it:        *)
(*   "noise"    a comment, a blank line, another field, no choices         *)
(*   "payload"  an event: usage, finish reason, text, token ids            *)
(*   "broken"   not a JSON object, or a value the parsers refuse           *)
(*   "done"     [DONE]                                                     *)
(*   "cut"      the transport fails                                        *)
(***************************************************************************)
EXTENDS Statistics, TLC

-----------------------------------------------------------------------------
(* iter_response_lines *)

EatByte(state, byte) ==
  IF byte = "lf" /\ state.cr THEN [state EXCEPT !.cr = FALSE]
  ELSE IF byte \in {"cr", "lf"}
  THEN [lines |-> Append(state.lines, state.pending), pending |-> <<>>,
        cr |-> byte = "cr"]
  ELSE [state EXCEPT !.pending = Append(@, byte), !.cr = FALSE]

\* Slip: a CR at the end of a chunk is forgotten.
EatChunkAlone(state, chunk) ==
  FoldLeft(EatByte, [state EXCEPT !.cr = FALSE], chunk)

\* skip_lf: an LF that opens a chunk belongs to the CR that ended the last
\* one that was not empty.
EatChunk(state, chunk) == FoldLeft(EatByte, state, chunk)

ResponseLines(chunks) ==
  LET all == FoldLeft(EatChunk,
                      [lines |-> <<>>, pending |-> <<>>, cr |-> FALSE], chunks)
  IN  IF all.pending = <<>> THEN all.lines
      ELSE Append(all.lines, all.pending)

-----------------------------------------------------------------------------
(* collect_chat_stream and collect_completion_stream *)

Line(kind, time) == [kind |-> kind, time |-> time]

\* What an event may say; a count or a time that is missing is None.
Payload(time, thought, content, finish, usage, queue) ==
  [kind |-> "payload", time |-> time, thought |-> thought,
   content |-> content, finish |-> finish, usage |-> usage, queue |-> queue]

NoUsage == [input |-> None, output |-> None, reasoning |-> None,
            cached |-> None]

\* token_usage: an event has both counts or none.
Counts == Nat \cup {None}
Usages == {NoUsage} \cup [input : Nat, output : Nat, reasoning : Counts,
                         cached : Counts]

Finishes == {"none", "stop", "length", "other"}

StreamLines ==
  [kind : {"noise", "broken", "done", "cut"}, time : Nat]
    \cup [kind : {"payload"}, time : Nat, thought : BOOLEAN,
          content : BOOLEAN, finish : Finishes, usage : Usages,
          queue : Counts]

Opened == [state |-> "reading", events |-> <<>>, content |-> <<>>,
           reasoning |-> <<>>, usage |-> NoUsage, queue |-> None,
           finish |-> "none"]

\* An event with a thought and with content counts once; a later usage
\* replaces an earlier one, and so does a later queue time, which need not
\* come with a usage.
TakePayload(seen, line) ==
  LET stamped(times, holds) == IF holds THEN Append(times, line.time) ELSE times
  IN  [state |-> "reading",
       events |-> stamped(seen.events, line.thought \/ line.content),
       content |-> stamped(seen.content, line.content),
       reasoning |-> stamped(seen.reasoning, line.thought),
       usage |-> IF line.usage = NoUsage THEN seen.usage ELSE line.usage,
       queue |-> IF line.queue = None THEN seen.queue ELSE line.queue,
       finish |-> IF line.finish = "none" THEN seen.finish ELSE line.finish]

ReadLine(seen, line) ==
  IF seen.state # "reading" \/ line.kind = "noise" THEN seen
  ELSE IF line.kind = "payload" THEN TakePayload(seen, line)
  ELSE [seen EXCEPT !.state = IF line.kind = "done" THEN "ended" ELSE "error"]

\* An observation needs an output, and a usage that does not deny it.
CollectChat(stream) ==
  LET seen == FoldLeft(ReadLine, Opened, stream)
  IN  IF \/ seen.state = "error" \/ seen.events = <<>>
         \/ seen.usage.output = 0
      THEN [seen EXCEPT !.state = "error"]
      ELSE [seen EXCEPT !.state = "observed"]

\* Completions have text only, and neither channels nor a finish reason.
CollectCompletion(stream) ==
  LET text(l) == IF l.kind # "payload" THEN l
                 ELSE [l EXCEPT !.thought = FALSE, !.finish = "none"]
  IN  [CollectChat([i \in DOMAIN stream |-> text(stream[i])])
         EXCEPT !.content = <<>>,
                !.usage = [@ EXCEPT !.reasoning = None, !.cached = None]]
=============================================================================
