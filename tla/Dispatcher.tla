----------------------------- MODULE Dispatcher -----------------------------
(***************************************************************************)
(* CollectingDispatcher (rasa_sdk/executor.py): the object through which a *)
(* custom action talks to the user.  It has no concurrency of its own, so  *)
(* it is modelled as a record and its methods as operators from records to *)
(* records; the modules that run actions hold the records in variables.    *)
(*                                                                         *)
(* The sink is an unbounded asyncio.Queue: put() never suspends, so each   *)
(* method is one atomic step even where the code awaits the sink.          *)
(***************************************************************************)
EXTENDS Naturals, Sequences

\* A record of the dispatcher: `attached` says whether the executor has
\* injected a sink, `queue` is what that sink (and the executor, for the
\* terminal events) holds, oldest first.
NewDispatcher ==
  [messages |-> <<>>, attached |-> FALSE, accumulated |-> <<>>,
   active |-> FALSE, cancelled |-> FALSE, queue |-> <<>>]

\* The dicts placed in the sink.  A chunk's payload is abstracted to `chunk`.
StartEvent    == [event |-> "stream_start"]
ChunkEvent(c) == [event |-> "stream_chunk", chunk |-> c]
EndEvent      == [event |-> "stream_end"]

StreamEvents(payloads) ==
  [event : {"stream_start", "stream_end"}]
    \cup [event : {"stream_chunk"}, chunk : payloads]

\* The dispatchers whose chunks are `payloads` and whose sink holds `events`.
Dispatchers(payloads, events) ==
  [messages : Seq(payloads), attached : BOOLEAN, accumulated : Seq(payloads),
   active : BOOLEAN, cancelled : BOOLEAN, queue : Seq(events)]

Put(d, e) == [d EXCEPT !.queue = Append(@, e)]

Emit(d, e) == IF d.attached THEN Put(d, e) ELSE d

-----------------------------------------------------------------------------
(* The methods.                                                            *)

utter_message(d, m) == [d EXCEPT !.messages = Append(@, m)]

\* A second stream_start forgets what was accumulated, and forgets a barge-in.
stream_start(d) ==
  Emit([d EXCEPT !.accumulated = <<>>, !.cancelled = FALSE, !.active = TRUE],
       StartEvent)

Accept(d, c) == Emit([d EXCEPT !.accumulated = Append(@, c)], ChunkEvent(c))

\* Mutant: the implicit stream_start comes before the check for a barge-in.
StartThenCheck(d, c) ==
  LET opened == IF d.active THEN d ELSE stream_start(d) IN
    IF opened.cancelled THEN opened ELSE Accept(opened, c)

\* Mutant: the implicit stream_start swallows the chunk that caused it.
StartInsteadOfChunk(d, c) ==
  IF d.cancelled THEN d
  ELSE IF d.active THEN Accept(d, c) ELSE stream_start(d)

\* After a barge-in the chunk is dropped; outside a stream it opens one.
stream_chunk(d, c) ==
  IF d.cancelled THEN d
  ELSE Accept(IF d.active THEN d ELSE stream_start(d), c)

\* With a sink the chunks have been delivered; without one they are replayed.
stream_end(d) ==
  [(IF d.attached THEN Put(d, EndEvent)
    ELSE [d EXCEPT !.messages = @ \o d.accumulated])
   EXCEPT !.accumulated = <<>>, !.active = FALSE]

cancel_stream(d) == [d EXCEPT !.cancelled = TRUE]

\* executor.run, after the action has returned: a stream left open is closed.
AutoClose(d) == IF d.active THEN stream_end(d) ELSE d

=============================================================================
