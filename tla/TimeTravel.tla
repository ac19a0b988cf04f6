----------------------------- MODULE TimeTravel -----------------------------
(***************************************************************************)
(* What undoing, rewinding and restarting promise, without replaying any   *)
(* history: the conversation as it is in effect, and a stack of snapshots, *)
(* one per action and message in effect, of what was in effect before it.  *)
(***************************************************************************)
EXTENDS Naturals, Sequences

VARIABLES
  now,   \* the events in effect
  saved  \* the snapshots, oldest first

travelVars == <<now, saved>>

Beginning == now = <<>> /\ saved = <<>>

Record(e) ==
  /\ e.event \notin {"restart", "undo", "rewind"}
  /\ now' = Append(now, e)
  /\ saved' = IF e.event \in {"action", "user"}
                THEN Append(saved, [event |-> e.event, before |-> now])
                ELSE saved

Forget == now' = <<>> /\ saved' = <<>>

\* Snapshot i is restored; it and later ones are gone.
Restore(i) == now' = saved[i].before /\ saved' = SubSeq(saved, 1, i - 1)

\* The snapshots of a type among the first n.
Of(type, n) == {i \in 1 .. n : saved[i].event = type}

IsLast(i, snapshots) == i \in snapshots /\ \A j \in snapshots : j <= i

\* Back to before the last action among the first n snapshots, or to the
\* beginning.
BackToAction(n) ==
  \/ \E a \in Of("action", n) : IsLast(a, Of("action", n)) /\ Restore(a)
  \/ Of("action", n) = {} /\ Forget

Undo(e) == e.event = "undo" /\ BackToAction(Len(saved))

\* Back to before the action, a listen, that came before the last message.
Rewind(e) ==
  /\ e.event = "rewind"
  /\ \/ \E u \in Of("user", Len(saved)) :
          IsLast(u, Of("user", Len(saved))) /\ BackToAction(u)
     \/ Of("user", Len(saved)) = {} /\ Forget

Restart(e) == e.event = "restart" /\ Forget

\* The conversation is told of an event.
Told(e) == Record(e) \/ Undo(e) \/ Rewind(e) \/ Restart(e)

=============================================================================
