-------------------------- MODULE DispatcherProofs --------------------------
(* What the methods of the dispatcher preserve, for every payload and every *)
(* set of events the sink may hold.                                         *)
EXTENDS Dispatcher, TLAPS

\* Placing an event in the sink of a dispatcher gives a dispatcher.
LEMMA PutType ==
  ASSUME NEW P, NEW E, NEW d \in Dispatchers(P, E), NEW e \in E
  PROVE  Put(d, e) \in Dispatchers(P, E)
<1>1. d.queue \in Seq(E)
  BY DEF Dispatchers
<1>2. Append(d.queue, e) \in Seq(E)
  BY <1>1
<1> QED
  BY <1>2 DEF Put, Dispatchers

\* Attaching the sink gives a dispatcher.
LEMMA AttachType ==
  ASSUME NEW P, NEW E, NEW d \in Dispatchers(P, E)
  PROVE  [d EXCEPT !.attached = TRUE] \in Dispatchers(P, E)
BY DEF Dispatchers

\* stream_start gives a dispatcher.
LEMMA StartType ==
  ASSUME NEW P, NEW E, StreamEvents(P) \subseteq E, NEW d \in Dispatchers(P, E)
  PROVE  stream_start(d) \in Dispatchers(P, E)
<1> DEFINE s == [d EXCEPT !.accumulated = <<>>, !.cancelled = FALSE, !.active = TRUE]
<1>1. s \in Dispatchers(P, E)
  BY <<>> \in Seq(P) DEF Dispatchers
<1>2. StartEvent \in E
  BY DEF StartEvent, StreamEvents
<1> QED
  BY <1>1, <1>2, PutType DEF stream_start, Emit

\* So does a chunk that is not dropped.
LEMMA AcceptType ==
  ASSUME NEW P, NEW E, StreamEvents(P) \subseteq E, NEW d \in Dispatchers(P, E),
         NEW c \in P
  PROVE  Accept(d, c) \in Dispatchers(P, E)
<1> DEFINE s == [d EXCEPT !.accumulated = Append(@, c)]
<1>1. s \in Dispatchers(P, E)
  <2>1. Append(d.accumulated, c) \in Seq(P)
    BY DEF Dispatchers
  <2> QED
    BY <2>1 DEF Dispatchers
<1>2. ChunkEvent(c) \in E
  BY DEF ChunkEvent, StreamEvents
<1> QED
  BY <1>1, <1>2, PutType DEF Accept, Emit

\* And stream_chunk, dropped or not, with or without an implicit start.
LEMMA ChunkType ==
  ASSUME NEW P, NEW E, StreamEvents(P) \subseteq E, NEW d \in Dispatchers(P, E),
         NEW c \in P
  PROVE  stream_chunk(d, c) \in Dispatchers(P, E)
<1>1. stream_start(d) \in Dispatchers(P, E)
  BY StartType
<1> QED
  BY <1>1, AcceptType DEF stream_chunk

\* And stream_end, with a sink or replaying the chunks.
LEMMA EndType ==
  ASSUME NEW P, NEW E, StreamEvents(P) \subseteq E, NEW d \in Dispatchers(P, E)
  PROVE  stream_end(d) \in Dispatchers(P, E)
<1> DEFINE s == IF d.attached THEN Put(d, EndEvent)
                ELSE [d EXCEPT !.messages = @ \o d.accumulated]
<1>1. EndEvent \in E
  BY DEF EndEvent, StreamEvents
<1>2. [d EXCEPT !.messages = @ \o d.accumulated] \in Dispatchers(P, E)
  <2>1. d.messages \o d.accumulated \in Seq(P)
    BY DEF Dispatchers
  <2> QED
    BY <2>1 DEF Dispatchers
<1>3. s \in Dispatchers(P, E)
  BY <1>1, <1>2, PutType
<1>4. [s EXCEPT !.accumulated = <<>>, !.active = FALSE] \in Dispatchers(P, E)
  BY <1>3, <<>> \in Seq(P) DEF Dispatchers
<1> QED
  BY <1>4 DEF stream_end

\* The executor closes what the action left open.
LEMMA AutoCloseType ==
  ASSUME NEW P, NEW E, StreamEvents(P) \subseteq E, NEW d \in Dispatchers(P, E)
  PROVE  AutoClose(d) \in Dispatchers(P, E)
BY EndType DEF AutoClose

-----------------------------------------------------------------------------
\* Only stream_start takes the barge-in flag down: a chunk leaves it as it is.
LEMMA ChunkKeepsFlag ==
  ASSUME NEW P, NEW E, NEW d \in Dispatchers(P, E), NEW c
  PROVE  stream_chunk(d, c).cancelled = d.cancelled
BY DEF stream_chunk, stream_start, Accept, Emit, Put, Dispatchers

\* And so do the end of a stream and the closing of an open one.
LEMMA EndKeepsFlag ==
  ASSUME NEW P, NEW E, NEW d \in Dispatchers(P, E)
  PROVE  /\ stream_end(d).cancelled = d.cancelled
         /\ AutoClose(d).cancelled = d.cancelled
BY DEF stream_end, AutoClose, Put, Dispatchers

\* What the streaming methods do to a sink that is attached.
LEMMA AttachedStartEnd ==
  ASSUME NEW P, NEW E, NEW d \in Dispatchers(P, E), d.attached
  PROVE  /\ stream_start(d).queue = Append(d.queue, StartEvent)
         /\ stream_start(d).active /\ stream_start(d).attached
         /\ stream_end(d).queue = Append(d.queue, EndEvent)
         /\ ~stream_end(d).active
BY DEF stream_start, stream_end, Emit, Put, Dispatchers

\* A chunk after a barge-in is dropped; outside a stream it starts one.
LEMMA AttachedChunk ==
  ASSUME NEW P, NEW E, StreamEvents(P) \subseteq E, NEW d \in Dispatchers(P, E),
         d.attached, NEW c \in P
  PROVE  /\ d.cancelled => stream_chunk(d, c) = d
         /\ ~d.cancelled =>
              /\ stream_chunk(d, c).active
              /\ stream_chunk(d, c).queue =
                   IF d.active THEN Append(d.queue, ChunkEvent(c))
                   ELSE Append(Append(d.queue, StartEvent), ChunkEvent(c))
<1>1. ASSUME NEW x \in Dispatchers(P, E), x.attached
      PROVE  /\ Accept(x, c).queue = Append(x.queue, ChunkEvent(c))
             /\ Accept(x, c).active = x.active
  BY <1>1 DEF Accept, Emit, Put, Dispatchers
<1>2. stream_start(d) \in Dispatchers(P, E)
  BY StartType
<1>3. /\ stream_start(d).queue = Append(d.queue, StartEvent)
      /\ stream_start(d).active /\ stream_start(d).attached
  BY AttachedStartEnd
<1>4. /\ Accept(stream_start(d), c).queue = Append(stream_start(d).queue, ChunkEvent(c))
      /\ Accept(stream_start(d), c).active = stream_start(d).active
  BY <1>1, <1>2, <1>3
<1>5. /\ Accept(d, c).queue = Append(d.queue, ChunkEvent(c))
      /\ Accept(d, c).active = d.active
  BY <1>1
<1> QED
  BY <1>3, <1>4, <1>5 DEF stream_chunk

=============================================================================
