---------------------------- MODULE IORefProofs ----------------------------
(***************************************************************************)
(* The references of the I/O service: every step of the service counts     *)
(* them exactly, one thread drops the last, and with what IOProofs says of *)
(* the operations this is IoInv, for any number of sessions and threads.   *)
(***************************************************************************)
EXTENDS IOProofs

(* Where an operation is agrees with what its session has gone through. *)
LEMMA PhasesStep ==
  ASSUME IoIInv, IoNext
  PROVE  Phases'
<1>0. /\ IoTypeOK /\ WithSession /\ Twice /\ OnePlace /\ Phases
      /\ Base /\ Refs /\ Counted /\ LastOne
  BY DEF IoIInv
<1>1. ASSUME NEW s \in IoSessions, RequestRefused(s)
      PROVE  Phases'
  <2>1. \A r \in IoSessions :
          /\ (InRing(r)' <=> InRing(r)) /\ (Waiting(r)' <=> Waiting(r))
          /\ (Handed(r)' <=> Handed(r)) /\ (InHand(r, "handle")' <=> InHand(r, "handle"))
    BY <1>1 DEF RequestRefused, io_queues, io_threads, InRing, Waiting,
         Handed, InHand
  <2>2. /\ UNCHANGED <<io_list, io_mutex, kernel>> /\ io_phase[s] = "new"
        /\ io_handled' = [io_handled EXCEPT ![s] = @ + 1]
        /\ io_phase' = [io_phase EXCEPT ![s] = "end"]
    BY <1>1 DEF RequestRefused, EndOf, io_service, io_queues
  <2>3. \A r \in IoSessions : r # s => io_phase'[r] = io_phase[r] /\ io_handled'[r] = io_handled[r]
    BY <1>0, <2>2 DEF IoTypeOK
  <2>4. io_phase'[s] = "end" /\ io_handled'[s] = io_handled[s] + 1 /\ io_handled[s] = 0
    BY <1>0, <2>2 DEF IoTypeOK, Phases, PhaseOf
  <2> QED BY <1>0, <2>1, <2>2, <2>3, <2>4 DEF Phases, PhaseOf
<1>2. ASSUME NEW s \in IoSessions, Submit(s)
      PROVE  Phases'
  <2>1. \A r \in IoSessions :
          /\ (InRing(r)' <=> InRing(r)) /\ (Waiting(r)' <=> Waiting(r))
          /\ (Handed(r)' <=> Handed(r)) /\ (InHand(r, "handle")' <=> InHand(r, "handle"))
    BY <1>2 DEF Submit, io_threads, InRing, Waiting, Handed, InHand
  <2>2. /\ UNCHANGED <<io_list, io_handled>> /\ io_phase[s] = "new" /\ io_mutex = IoNone
        /\ io_mutex' = s /\ kernel' = kernel \cup {s}
        /\ io_phase' = [io_phase EXCEPT ![s] = "linking"]
    BY <1>2 DEF Submit
  <2>3. \A r \in IoSessions : io_phase'[r] = IF r = s THEN "linking" ELSE io_phase[r]
    BY <1>0, <2>2 DEF IoTypeOK
  <2>4. \A r \in IoSessions : io_phase[r] # "linking"
    BY <1>0, <2>2, IoAssumption DEF Phases, PhaseOf
  <2> QED BY <1>0, <2>1, <2>2, <2>3, <2>4 DEF Phases, PhaseOf
<1>3. ASSUME NEW s \in IoSessions, Link(s)
      PROVE  Phases'
  <2>1. \A r \in IoSessions :
          /\ (InRing(r)' <=> InRing(r)) /\ (Waiting(r)' <=> Waiting(r))
          /\ (Handed(r)' <=> Handed(r)) /\ (InHand(r, "handle")' <=> InHand(r, "handle"))
    BY <1>3 DEF Link, io_queues, io_threads, InRing, Waiting, Handed, InHand
  <2>2. /\ UNCHANGED <<kernel, io_handled>> /\ io_phase[s] = "linking"
        /\ io_mutex' = IoNone /\ io_list' = io_list \cup {s}
        /\ io_phase' = [io_phase EXCEPT ![s] = "out"]
    BY <1>3 DEF Link, io_queues
  <2>3. \A r \in IoSessions : io_phase'[r] = IF r = s THEN "out" ELSE io_phase[r]
    BY <1>0, <2>2 DEF IoTypeOK
  <2>4. io_mutex = s /\ IoNone \notin IoSessions /\ ~InHand(s, "handle")
    BY <1>0, <2>2, IoAssumption DEF Phases, PhaseOf
  <2> QED BY <1>0, <2>1, <2>2, <2>3, <2>4 DEF Phases, PhaseOf
<1>4. ASSUME NEW s \in IoSessions, KernelDone(s)
      PROVE  Phases'
  <2>1. \A r \in IoSessions :
          /\ Waiting(r)' <=> Waiting(r)
          /\ (Handed(r)' <=> Handed(r)) /\ (InHand(r, "handle")' <=> InHand(r, "handle"))
    BY <1>4 DEF KernelDone, io_threads, Waiting, Handed, InHand
  <2> QED BY <1>4, <1>0, <2>1, DoneMoves DEF KernelDone, io_service,
       io_sessions, Phases, PhaseOf
<1>5. CASE HandleEvent
  BY <1>5, <1>0, PhasesKept DEF HandleEvent, io_service, io_threads,
       io_sessions
<1>6. CASE aio_finish
  <2>1. \A r \in IoSessions :
          (Handed(r)' <=> Handed(r)) /\ (InHand(r, "handle")' <=> InHand(r, "handle"))
    BY <1>6 DEF aio_finish, io_threads, Handed, InHand
  <2> QED BY <1>6, <1>0, <2>1, FinishMoves DEF aio_finish, io_sessions,
       Phases, PhaseOf
<1>7. CASE EventError
  <2>1. IoPut("error", IoNone) /\ "error" \in IoKinds
    BY <1>7 DEF EventError, IoKinds
  <2>2. \A r \in IoSessions :
          /\ (InRing(r)' <=> InRing(r)) /\ (Waiting(r)' <=> Waiting(r))
          /\ (Handed(r)' <=> Handed(r)) /\ (InHand(r, "handle")' <=> InHand(r, "handle"))
    BY <1>7, <2>1, PutMoves DEF EventError, io_queues, io_threads, InRing,
         Handed, InHand
  <2> QED BY <1>7, <1>0, <2>2 DEF EventError, io_service, io_queues,
       io_sessions, Phases, PhaseOf
<1>8. CASE EventDeleted
  <2>1. IoPut("deleted", IoNone) /\ "deleted" \in IoKinds
    BY <1>8 DEF EventDeleted, IoKinds
  <2>2. \A r \in IoSessions :
          /\ (InRing(r)' <=> InRing(r)) /\ (Waiting(r)' <=> Waiting(r))
          /\ (Handed(r)' <=> Handed(r)) /\ (InHand(r, "handle")' <=> InHand(r, "handle"))
    BY <1>8, <2>1, PutMoves DEF EventDeleted, io_queues, io_threads, InRing,
         Handed, InHand
  <2> QED BY <1>8, <1>0, <2>2 DEF EventDeleted, io_service, io_queues,
       io_sessions, Phases, PhaseOf
<1>9. CASE PollerStop
  <2>1. \A r \in IoSessions :
          /\ InRing(r)' <=> InRing(r)
          /\ (Handed(r)' <=> Handed(r)) /\ (InHand(r, "handle")' <=> InHand(r, "handle"))
    BY <1>9 DEF PollerStop, io_queues, io_threads, InRing, Handed, InHand
  <2> QED BY <1>9, <1>0, <2>1, StopMoves DEF PollerStop, io_service,
       io_queues, io_sessions, Phases, PhaseOf
<1>10. ASSUME NEW t \in IoActors, IoGet(t)
      PROVE  Phases'
  <2>1. \A r \in IoSessions : InRing(r)' <=> InRing(r)
    BY <1>10 DEF IoGet, io_queues, InRing
  <2>2. UNCHANGED <<io_list, io_mutex, kernel, io_phase, io_handled>>
    BY <1>10 DEF IoGet, io_service, io_queues, io_sessions
  <2> QED BY <1>10, <1>0, <2>1, <2>2, GetMoves DEF Phases, PhaseOf
<1>11. ASSUME NEW t \in IoActors, HandleSuccess(t)
      PROVE  Phases'
  <2> DEFINE r == on_ses[t]
  <2>1. r \in IoSessions /\ Handed(r)
    BY <1>11, <1>0 DEF HandleSuccess, WithSession, Handed
  <2>2. \A x \in IoSessions :
          /\ (InRing(x)' <=> InRing(x)) /\ (Waiting(x)' <=> Waiting(x))
          /\ (Handed(x)' <=> Handed(x)) /\ (InHand(x, "handle")' <=> InHand(x, "handle") \/ x = r)
    BY <1>11, <1>0 DEF HandleSuccess, IoGoto, io_queues, InRing, Waiting,
         Handed, InHand, IoTypeOK
  <2>3. /\ io_list' = io_list \ {r}
        /\ UNCHANGED <<io_mutex, kernel, io_phase, io_handled>> /\ io_mutex = IoNone
    BY <1>11 DEF HandleSuccess, Locked, io_queues, io_sessions
  <2> HIDE DEF r
  <2>4. io_phase[r] = "out"
    BY <1>0, <2>1, <2>3, IoAssumption DEF Phases, PhaseOf, IoTypeOK
  <2> QED BY <1>0, <2>1, <2>2, <2>3, <2>4 DEF Phases, PhaseOf
<1>12. ASSUME NEW t \in IoActors, HandleSession(t)
      PROVE  Phases'
  <2>0. PICK r \in IoSessions : r = on_ses[t]
    BY <1>12, <1>0 DEF HandleSession, WithSession
  <2>1. InHand(r, "handle")
    BY <1>12, <2>0 DEF HandleSession, InHand
  <2>2. \A u \in IoActors : u # t /\ act[u] \in {"success", "handle"} => on_ses[u] # r
    BY <1>12, <1>0, <2>0 DEF HandleSession, Twice
  <2>3. \A u \in IoActors : on_ses'[u] = on_ses[u] /\ act'[u] = IF u = t THEN "decref" ELSE act[u]
    BY <1>12, <1>0 DEF HandleSession, IoGoto, IoTypeOK
  <2>4. UNCHANGED <<io_list, io_mutex, kernel, ring, io_results>> /\ act[t] = "handle"
    BY <1>12 DEF HandleSession, io_service, io_queues
  <2>5. \A x \in IoSessions : /\ io_phase'[x] = IF x = r THEN "end" ELSE io_phase[x]
                              /\ io_handled'[x] = IF x = r THEN io_handled[x] + 1 ELSE io_handled[x]
    BY <1>12, <1>0, <2>0 DEF HandleSession, EndOf, IoTypeOK
  <2>6. /\ \A x \in IoSessions : (InRing(x)' <=> InRing(x)) /\ (Waiting(x)' <=> Waiting(x))
        /\ \A x \in IoSessions \ {r} : /\ Handed(x)' <=> Handed(x)
                                       /\ InHand(x, "handle")' <=> InHand(x, "handle")
    BY <2>0, <2>3, <2>4 DEF InRing, Waiting, Handed, InHand
  <2>7. ~Handed(r)' /\ ~InHand(r, "handle")' /\ Handed(r)
    BY <2>0, <2>1, <2>2, <2>3 DEF Handed, InHand
  <2>8. r \notin kernel /\ ~InRing(r) /\ ~Waiting(r)
    BY <1>0, <2>1, <2>7 DEF OnePlace
  <2>9. io_phase[r] = "out" /\ r \notin io_list /\ io_handled[r] = 0 /\ io_mutex # r
    BY <1>0, <2>1 DEF Phases, PhaseOf
  <2>10. PhaseOf(r)'
    <3>1. io_phase'[r] = "end" /\ io_handled'[r] = 1
      BY <2>5, <2>9
    <3>2. r \notin io_list' /\ io_mutex' # r /\ r \notin kernel'
      BY <2>4, <2>8, <2>9
    <3>3. ~InRing(r)' /\ ~Waiting(r)'
      BY <2>6, <2>8
    <3> QED BY <2>7, <3>1, <3>2, <3>3 DEF PhaseOf
  <2>11. ASSUME NEW x \in IoSessions \ {r}
        PROVE  PhaseOf(x)'
    <3>1. PhaseOf(x)
      BY <1>0 DEF Phases
    <3> QED BY <2>4, <2>5, <2>6, <3>1 DEF PhaseOf
  <2> QED BY <2>1, <2>10, <2>11 DEF Phases
<1>13. ASSUME NEW t \in IoActors, handle_stop(t)
      PROVE  Phases'
  <2>1. \A r \in IoSessions :
          /\ (InRing(r)' <=> InRing(r)) /\ (Waiting(r)' <=> Waiting(r))
          /\ (Handed(r)' <=> Handed(r)) /\ (InHand(r, "handle")' <=> InHand(r, "handle"))
    BY <1>13, <1>0 DEF handle_stop, io_unbind, IoGoto, io_queues, io_service,
         InRing, Waiting, Handed, InHand, IoTypeOK
  <2>2. UNCHANGED <<io_list, io_mutex, kernel, io_phase, io_handled>>
    BY <1>13 DEF handle_stop, io_queues, io_service, io_sessions, io_service
  <2> QED BY <1>0, <2>1, <2>2 DEF Phases, PhaseOf
<1>14. ASSUME NEW t \in IoActors, shutdown_io_service(t)
      PROVE  Phases'
  <2>1. \A r \in IoSessions :
          /\ (InRing(r)' <=> InRing(r)) /\ (Waiting(r)' <=> Waiting(r))
          /\ (Handed(r)' <=> Handed(r)) /\ (InHand(r, "handle")' <=> InHand(r, "handle"))
    BY <1>14, <1>0 DEF shutdown_io_service, IoGoto, io_queues, InRing,
         Waiting, Handed, InHand, IoTypeOK
  <2>2. UNCHANGED <<io_list, io_mutex, kernel, io_phase, io_handled>>
    BY <1>14 DEF shutdown_io_service, io_queues, io_sessions, io_service
  <2> QED BY <1>0, <2>1, <2>2 DEF Phases, PhaseOf
<1>15. ASSUME NEW t \in IoActors, decref(t)
      PROVE  Phases'
  <2>1. \A r \in IoSessions :
          /\ (InRing(r)' <=> InRing(r)) /\ (Waiting(r)' <=> Waiting(r))
          /\ (Handed(r)' <=> Handed(r)) /\ (InHand(r, "handle")' <=> InHand(r, "handle"))
    BY <1>15, <1>0 DEF decref, IoGoto, AfterDecref, io_queues, InRing,
         Waiting, Handed, InHand, IoTypeOK
  <2>2. UNCHANGED <<io_list, io_mutex, kernel, io_phase, io_handled>>
    BY <1>15 DEF decref, io_queues, io_sessions, io_service
  <2> QED BY <1>0, <2>1, <2>2 DEF Phases, PhaseOf
<1>16. ASSUME NEW t \in IoActors, DrainOne(t)
      PROVE  Phases'
  <2>1. \A x \in IoSessions :
          /\ Waiting(x)' <=> Waiting(x)
          /\ (Handed(x)' <=> Handed(x)) /\ (InHand(x, "handle")' <=> InHand(x, "handle"))
    BY <1>16 DEF DrainOne, io_threads, Waiting, Handed, InHand
  <2> DEFINE r == Head(ring)
  <2>2. /\ r \in IoSessions /\ InRing(r)
        /\ \A x \in IoSessions : InRing(x)' <=> InRing(x) /\ x # r
    <3>1. IoSessions # {}
      BY <1>16, <1>0 DEF DrainOne, IoTypeOK
    <3> QED BY <1>16, <3>1, DrainMoves
  <2>3. /\ io_list' = io_list \ {r}
        /\ io_handled' = [io_handled EXCEPT ![r] = @ + 1]
        /\ io_phase' = [io_phase EXCEPT ![r] = "end"]
        /\ UNCHANGED <<io_mutex, kernel>>
    BY <1>16 DEF DrainOne, EndOf
  <2> HIDE DEF r
  <2>4. r \notin kernel /\ ~Waiting(r) /\ ~Handed(r)
    BY <1>0, <2>2 DEF OnePlace
  <2>5. io_mutex = IoNone
    BY <1>16, <1>0 DEF DrainOne, LastOne, Base
  <2>6. io_phase[r] = "out" /\ ~InHand(r, "handle")
    BY <1>0, <2>2, <2>4, <2>5, IoAssumption DEF Phases, PhaseOf, Handed,
         InHand
  <2> QED BY <1>0, <2>1, <2>2, <2>3, <2>4, <2>6 DEF Phases, PhaseOf, IoTypeOK
<1>17. ASSUME NEW t \in IoActors, handle_unbound(t)
      PROVE  Phases'
  <2>1. \A r \in IoSessions :
          /\ (InRing(r)' <=> InRing(r)) /\ (Waiting(r)' <=> Waiting(r))
          /\ (Handed(r)' <=> Handed(r)) /\ (InHand(r, "handle")' <=> InHand(r, "handle"))
    BY <1>17, <1>0 DEF handle_unbound, IoGoto, io_queues, InRing, Waiting,
         Handed, InHand, IoTypeOK
  <2>2. UNCHANGED <<io_list, io_mutex, kernel, io_phase, io_handled>>
    BY <1>17 DEF handle_unbound, io_queues, io_sessions, io_service
  <2> QED BY <1>0, <2>1, <2>2 DEF Phases, PhaseOf
<1>18. CASE OwnerUnbinds
  <2>1. \A r \in IoSessions :
          /\ (InRing(r)' <=> InRing(r)) /\ (Waiting(r)' <=> Waiting(r))
          /\ (Handed(r)' <=> Handed(r)) /\ (InHand(r, "handle")' <=> InHand(r, "handle"))
    BY <1>18, <1>0 DEF OwnerUnbinds, io_unbind, IoGoto, io_queues, io_service,
         InRing, Waiting, Handed, InHand, IoTypeOK
  <2>2. UNCHANGED <<io_list, io_mutex, kernel, io_phase, io_handled>>
    BY <1>18 DEF OwnerUnbinds, io_queues, io_service, io_sessions, io_service
  <2> QED BY <1>0, <2>1, <2>2 DEF Phases, PhaseOf
<1>19. CASE ServiceDeinit
  BY <1>19, <1>0, PhasesKept DEF ServiceDeinit, io_queues, io_threads,
       io_sessions
<1>20. CASE IoFinished
  BY SMTT(30), <1>20, <1>0, PhasesKept DEF IoFinished, io_vars, io_service, io_queues,
       io_threads, io_sessions
<1> QED BY <1>1, <1>2, <1>3, <1>4, <1>5, <1>6, <1>7, <1>8, <1>9, <1>10, <1>11,
     <1>12, <1>13, <1>14, <1>15, <1>16, <1>17, <1>18, <1>19, <1>20 DEF IoNext,
     IoRequest, IoPoller, IoHandler

(* The counter of the event descriptor and what the poller thread has read of it
   agree with the ring. *)
LEMMA CountedStep ==
  ASSUME IoIInv, IoNext
  PROVE  Counted'
<1>0. /\ IoTypeOK /\ WithSession /\ Twice /\ OnePlace /\ Phases
      /\ Base /\ Refs /\ Counted /\ LastOne
  BY DEF IoIInv
<1>1. ASSUME NEW s \in IoSessions, RequestRefused(s)
      PROVE  Counted'
  BY <1>1, <1>0, CountedKept DEF RequestRefused, io_queues, io_poller
<1>2. ASSUME NEW s \in IoSessions, Submit(s)
      PROVE  Counted'
  BY <1>2, <1>0, CountedKept DEF Submit, io_poller
<1>3. ASSUME NEW s \in IoSessions, Link(s)
      PROVE  Counted'
  BY <1>3, <1>0, CountedKept DEF Link, io_queues, io_poller
<1>4. ASSUME NEW s \in IoSessions, KernelDone(s)
      PROVE  Counted'
  BY <1>4, <1>0, IoAssumption DEF KernelDone, io_service, io_poller,
       io_threads, io_sessions, Counted, IoTypeOK
<1>5. CASE HandleEvent
  BY <1>5, <1>0, IoAssumption DEF HandleEvent, io_service, io_threads,
       io_sessions, Counted, IoTypeOK
<1>6. CASE aio_finish
  BY SMTT(30), <1>6, <1>0, IoAssumption DEF aio_finish, EventRef, io_threads,
       io_sessions, Counted, IoTypeOK
<1>7. CASE EventError
  BY <1>7, <1>0, IoAssumption DEF EventError, IoPut, io_service, io_queues,
       io_threads, io_sessions, Counted, IoTypeOK
<1>8. CASE EventDeleted
  BY <1>8, <1>0, IoAssumption DEF EventDeleted, IoPut, io_service, io_queues,
       io_threads, io_sessions, Counted, IoTypeOK
<1>9. CASE PollerStop
  BY <1>9, <1>0, IoAssumption DEF PollerStop, IoPut, io_service, io_queues,
       io_threads, io_sessions, Counted, IoTypeOK
<1>10. ASSUME NEW t \in IoActors, IoGet(t)
      PROVE  Counted'
  BY <1>10, <1>0, CountedKept DEF IoGet, io_queues, io_poller
<1>11. ASSUME NEW t \in IoActors, HandleSuccess(t)
      PROVE  Counted'
  BY <1>11, <1>0, CountedKept DEF HandleSuccess, io_queues, io_poller
<1>12. ASSUME NEW t \in IoActors, HandleSession(t)
      PROVE  Counted'
  BY <1>12, <1>0, CountedKept DEF HandleSession, io_queues, io_poller
<1>13. ASSUME NEW t \in IoActors, handle_stop(t)
      PROVE  Counted'
  BY <1>13, <1>0, IoAssumption DEF handle_stop, io_unbind, IoGoto, io_service,
       io_queues, io_sessions, Counted, IoTypeOK
<1>14. ASSUME NEW t \in IoActors, shutdown_io_service(t)
      PROVE  Counted'
  BY <1>14, <1>0, CountedKept DEF shutdown_io_service, io_queues, io_poller
<1>15. ASSUME NEW t \in IoActors, decref(t)
      PROVE  Counted'
  BY <1>15, <1>0, CountedKept DEF decref, io_queues, io_poller
<1>16. ASSUME NEW t \in IoActors, DrainOne(t)
      PROVE  Counted'
  BY <1>16, <1>0 DEF DrainOne, io_poller, Counted, LastOne, Base, Deleting,
       IoTypeOK
<1>17. ASSUME NEW t \in IoActors, handle_unbound(t)
      PROVE  Counted'
  BY <1>17, <1>0, CountedKept DEF handle_unbound, io_queues, io_poller
<1>18. CASE OwnerUnbinds
  BY <1>18, <1>0, IoAssumption DEF OwnerUnbinds, io_unbind, io_service,
       io_queues, io_sessions, IoGoto, Counted, IoTypeOK
<1>19. CASE ServiceDeinit
  BY <1>19, <1>0, CountedKept DEF ServiceDeinit, io_queues, io_poller
<1>20. CASE IoFinished
  BY <1>20, <1>0, CountedKept DEF IoFinished, io_vars, io_queues, io_poller
<1> QED BY <1>1, <1>2, <1>3, <1>4, <1>5, <1>6, <1>7, <1>8, <1>9, <1>10, <1>11,
     <1>12, <1>13, <1>14, <1>15, <1>16, <1>17, <1>18, <1>19, <1>20 DEF IoNext,
     IoRequest, IoPoller, IoHandler


Holding(a) == a \in {"success", "handle", "deleted", "decref"}

LEMMA ActorsFinite ==
  IsFiniteSet(IoActors)
BY IoAssumption, FS_AddElement DEF IoActors

LEMMA CountsFinite ==
  ASSUME IoTypeOK
  PROVE  /\ IsFiniteSet(Holders) /\ Cardinality(Holders) \in Nat
         /\ IsFiniteSet(Successes) /\ Cardinality(Successes) \in Nat
<1>1. Holders \subseteq IoActors
  BY DEF Holders
<1>2. Len(io_results) \in Nat /\ Successes \subseteq 1..Len(io_results)
  BY DEF IoTypeOK, Successes
<1>3. IsFiniteSet(1..Len(io_results))
  BY <1>2, FS_Interval
<1>4. IsFiniteSet(Holders) /\ IsFiniteSet(Successes)
  BY Zenon, <1>1, <1>2, <1>3, ActorsFinite, FS_Subset
<1> QED BY <1>4, FS_CardinalityType

(* A thread that moves on takes up or gives up a reference, or neither. *)
Moves(t, w) == act' = [act EXCEPT ![t] = w]

LEMMA HoldersMove ==
  ASSUME IoTypeOK, NEW t \in IoActors, NEW w, Moves(t, w)
  PROVE  /\ Cardinality(Holders) \in Nat
         /\ Holding(w) /\ ~Holding(act[t]) => Cardinality(Holders') = Cardinality(Holders) + 1
         /\ ~Holding(w) /\ Holding(act[t]) => Cardinality(Holders') = Cardinality(Holders) - 1
         /\ (Holding(w) <=> Holding(act[t])) => Cardinality(Holders') = Cardinality(Holders)
<1>1. \A u \in IoActors : act'[u] = IF u = t THEN w ELSE act[u]
  BY DEF IoTypeOK, Moves
<1>2. \A u \in IoActors : /\ u \in Holders <=> Holding(act[u])
                          /\ u \in Holders' <=> Holding(act'[u])
  BY DEF Holders, Holding
<1>3. Holders \subseteq IoActors /\ Holders' \subseteq IoActors
  BY DEF Holders
<1>4. IsFiniteSet(Holders) /\ Cardinality(Holders) \in Nat
  BY CountsFinite
<1>5. CASE Holding(w) /\ ~Holding(act[t])
  <2>1. Holders' = Holders \cup {t} /\ t \notin Holders
    BY <1>1, <1>2, <1>3, <1>5
  <2> QED BY <1>4, <1>5, <2>1, FS_AddElement
<1>6. CASE ~Holding(w) /\ Holding(act[t])
  <2>1. Holders' = Holders \ {t} /\ t \in Holders
    BY <1>1, <1>2, <1>3, <1>6
  <2> QED BY SMTT(30), <1>4, <1>6, <2>1, FS_RemoveElement
<1>7. CASE Holding(w) <=> Holding(act[t])
  <2>1. Holders' = Holders
    BY <1>1, <1>2, <1>3, <1>7
  <2> QED BY <1>4, <1>7, <2>1
<1> QED BY <1>4, <1>5, <1>6, <1>7

LEMMA SuccessesPut ==
  ASSUME NEW kind, kind # "success", ResultPut(kind)
  PROVE  Successes' = Successes
<1>1. \A i : i \in 1..Len(io_results') <=> i \in 1..Len(io_results) \/ i = Len(io_results) + 1
  BY DEF ResultPut
<1>2. Len(io_results) + 1 \notin 1..Len(io_results)
  BY DEF ResultPut
<1> QED BY <1>1, <1>2 DEF ResultPut, Same, Successes

LEMMA SuccessesFinish ==
  ASSUME IoTypeOK, CompletionTaken
  PROVE  Cardinality(Successes') = Cardinality(Successes) + 1
<1> DEFINE n == Len(io_results) + 1
<1>1. n \notin Successes /\ n \in 1..Len(io_results') /\ n \in Nat /\ Len(io_results) \in Nat
      /\ Len(io_results) <= Len(io_results')
  BY DEF CompletionTaken, Successes
<1>2. io_results'[n].kind = "success"
  BY DEF CompletionTaken
<1>3. \A i \in 1..Len(io_results') : io_results'[i].kind = "success" =>
        i = n \/ (i \in 1..Len(io_results) /\ io_results[i].kind = "success")
  BY FinishEntries
<1>4. \A i \in 1..Len(io_results) : i \in 1..Len(io_results') /\ io_results'[i] = io_results[i]
  BY <1>1 DEF CompletionTaken, Same
<1> HIDE DEF n
<1>5. Successes' = Successes \cup {n}
  BY <1>1, <1>2, <1>3, <1>4 DEF Successes
<1> QED BY Zenon, <1>1, <1>5, CountsFinite, FS_AddElement

LEMMA SuccessesTaken ==
  ASSUME IoTypeOK, NEW t \in IoActors, ResultTaken(t)
  PROVE  Cardinality(Successes') = Cardinality(Successes)
           - IF io_results[1].kind = "success" THEN 1 ELSE 0
<1> DEFINE rest == Successes \ {1}
           shift == [j \in rest |-> j - 1]
<1>1. /\ Len(io_results) \in Nat \ {0} /\ Len(io_results') = Len(io_results) - 1
      /\ \A i \in 1..Len(io_results') : io_results'[i] = io_results[i + 1]
  BY DEF ResultTaken
<1>2. \A i \in Successes' : i \in Nat /\ i + 1 \in rest /\ (i + 1) - 1 = i
  BY <1>1 DEF Successes
<1>3. \A j \in rest : j \in Nat /\ j - 1 \in Successes'
  BY <1>1 DEF Successes
<1>4. shift \in Bijection(rest, Successes')
  <2>1. shift \in [rest -> Successes']
    BY <1>3
  <2>2. \A i, j \in rest : shift[i] = shift[j] => i = j
    BY <1>3
  <2>3. \A i \in Successes' : \E j \in rest : shift[j] = i
    BY <1>2
  <2> HIDE DEF shift, rest
  <2> QED BY <2>1, <2>2, <2>3 DEF Bijection, Injection, Surjection, IsInjective
<1>6. IsFiniteSet(Successes) /\ Cardinality(Successes) \in Nat
  BY CountsFinite
<1>7. /\ IsFiniteSet(rest)
      /\ Cardinality(rest) = Cardinality(Successes) - IF 1 \in Successes THEN 1 ELSE 0
  BY <1>6, FS_RemoveElement
<1>8. ExistsBijection(rest, Successes')
  BY <1>4 DEF ExistsBijection
<1> HIDE DEF rest
<1>9. Cardinality(Successes') = Cardinality(rest)
  BY <1>7, <1>8, FS_Bijection
<1>10. 1 \in Successes <=> io_results[1].kind = "success"
  BY <1>1 DEF Successes
<1> QED BY <1>7, <1>9, <1>10


(* Who begins to unbind takes the reference of the descriptor over when it finds
   the node gone (Communicator.cc:1990-2016).                              *)
LEMMA UnbindRefs ==
  ASSUME IoTypeOK, Base, Refs, NEW t \in IoActors, ~Holding(act[t]), io_unbind(t),
         UNCHANGED <<io_ref, event_fd, io_results>>
  PROVE  Refs'
<1>1. Successes' = Successes
  BY DEF Successes
<1>2. Cardinality(Holders) \in Nat /\ Cardinality(Successes) \in Nat
  BY CountsFinite
<1>3. CASE node = "watched"
  <2>1. act' = [act EXCEPT ![t] = "idle"] /\ ~Holding("idle") /\ act[t] # "deleted"
    BY <1>3 DEF io_unbind, IoGoto, Holding
  <2>2. Cardinality(Holders') = Cardinality(Holders)
    <3>1. Moves(t, "idle")
      BY <2>1 DEF Moves
    <3> QED BY <2>1, <3>1, HoldersMove
  <2>3. HasBase' <=> HasBase
    BY <2>1 DEF HasBase, IoTypeOK
  <2> QED BY <1>1, <1>2, <2>2, <2>3 DEF Refs
<1>4. CASE node # "watched"
  <2>1. act' = [act EXCEPT ![t] = "deleted"] /\ Holding("deleted")
    BY <1>4 DEF io_unbind, IoGoto, Holding
  <2>2. Cardinality(Holders') = Cardinality(Holders) + 1
    <3>1. Moves(t, "deleted")
      BY <2>1 DEF Moves
    <3> QED BY <2>1, <3>1, HoldersMove
  <2>3. event_fd = 1 /\ \A u \in IoActors : act[u] # "deleted"
    BY DEF io_unbind, Base, Deleting, IoTypeOK
  <2>4. HasBase /\ ~HasBase'
    BY SMTT(30), <2>1, <2>3 DEF HasBase, IoTypeOK
  <2> QED BY <1>1, <1>2, <2>2, <2>4 DEF Refs, IoTypeOK
<1> QED BY <1>3, <1>4

(* The reference count is what the threads, the results and the open descriptor
   hold (IOService_linux.cc:270-302). *)
LEMMA RefsStep ==
  ASSUME IoIInv, IoNext
  PROVE  Refs'
<1>0. /\ IoTypeOK /\ WithSession /\ Twice /\ OnePlace /\ Phases
      /\ Base /\ Refs /\ Counted /\ LastOne
  BY DEF IoIInv
<1>1. ASSUME NEW s \in IoSessions, RequestRefused(s)
      PROVE  Refs'
  BY <1>1, <1>0, RefsKept DEF RequestRefused, io_service, io_threads
<1>2. ASSUME NEW s \in IoSessions, Submit(s)
      PROVE  Refs'
  BY <1>2, <1>0, RefsKept DEF Submit, io_threads
<1>3. ASSUME NEW s \in IoSessions, Link(s)
      PROVE  Refs'
  BY <1>3, <1>0, RefsKept DEF Link, io_threads
<1>4. ASSUME NEW s \in IoSessions, KernelDone(s)
      PROVE  Refs'
  BY <1>4, <1>0, RefsKept DEF KernelDone, io_service, io_threads
<1>5. CASE HandleEvent
  BY <1>5, <1>0, RefsKept DEF HandleEvent, io_service, io_threads
<1>6. CASE aio_finish
  <2>1. CompletionTaken
    BY <1>6, FinishEffect
  <2>2. Cardinality(Successes') = Cardinality(Successes) + 1
    BY <1>0, <2>1, SuccessesFinish
  <2>3. io_ref' = io_ref + 1 /\ UNCHANGED <<event_fd, act>>
    BY <1>6 DEF aio_finish, EventRef, io_threads
  <2>4. Holders' = Holders /\ (HasBase' <=> HasBase)
    BY <2>3 DEF Holders, HasBase
  <2>5. Cardinality(Holders) \in Nat /\ Cardinality(Successes) \in Nat
    BY <1>0, CountsFinite
  <2> HIDE DEF IoActors
  <2> QED BY <1>0, <2>2, <2>3, <2>4, <2>5 DEF Refs
<1>7. CASE EventError
  <2>1. ResultPut("error")
    BY <1>7, PutEffect DEF EventError, IoKinds
  <2>2. Successes' = Successes
    BY <2>1, SuccessesPut
  <2>3. UNCHANGED <<io_ref, event_fd, act>>
    BY <1>7 DEF EventError, io_service, io_threads
  <2> QED BY <1>0, <2>2, <2>3 DEF Refs, Holders, HasBase
<1>8. CASE EventDeleted
  <2>1. ResultPut("deleted")
    BY <1>8, PutEffect DEF EventDeleted, IoKinds
  <2>2. Successes' = Successes
    BY <2>1, SuccessesPut
  <2>3. UNCHANGED <<io_ref, event_fd, act>>
    BY <1>8 DEF EventDeleted, io_service, io_threads
  <2> QED BY <1>0, <2>2, <2>3 DEF Refs, Holders, HasBase
<1>9. CASE PollerStop
  <2>1. /\ node = "none" => UNCHANGED io_results
        /\ node # "none" => ResultPut(IF node = "watched" THEN "stopped" ELSE "deleted")
    BY <1>9, StopEffect
  <2>2. Successes' = Successes
    <3>1. CASE node = "none"
      BY <2>1, <3>1 DEF Successes
    <3>2. CASE node # "none"
      BY <2>1, <3>2, SuccessesPut
    <3> QED BY <3>1, <3>2
  <2>3. UNCHANGED <<io_ref, event_fd, act>>
    BY <1>9 DEF PollerStop, io_service, io_threads
  <2> QED BY <1>0, <2>2, <2>3 DEF Refs, Holders, HasBase
<1>10. ASSUME NEW t \in IoActors, IoGet(t)
      PROVE  Refs'
  <2>1. ResultTaken(t)
    BY <1>10, GetEffect
  <2> DEFINE kind == io_results[1].kind
  <2>2. Cardinality(Successes') = Cardinality(Successes) - IF kind = "success" THEN 1 ELSE 0
    BY <1>0, <2>1, SuccessesTaken
  <2>3. /\ act' = [act EXCEPT ![t] = kind] /\ kind \in IoKinds /\ act[t] = "idle"
        /\ Len(io_results) \in Nat \ {0} /\ UNCHANGED <<io_ref, event_fd>>
    BY <1>10, <2>1 DEF ResultTaken, IoGet, io_service
  <2>4. kind = "deleted" => event_fd = 1 /\ \A u \in IoActors : act[u] # "deleted"
    <3> SUFFICES ASSUME kind = "deleted"
                 PROVE  event_fd = 1 /\ \A u \in IoActors : act[u] # "deleted"
      OBVIOUS
    <3>1. 1 \in 1..Len(io_results) /\ DeletedResult(1)
      BY <2>3 DEF DeletedResult
    <3> QED BY <1>0, <3>1 DEF Base, Once, Deleting
  <2> HIDE DEF kind
  <2>5. /\ kind = "deleted" => HasBase /\ ~HasBase'
        /\ kind # "deleted" => (HasBase' <=> HasBase)
    BY <1>0, <2>3, <2>4 DEF HasBase, IoTypeOK
  <2>6. Cardinality(Holders') = Cardinality(Holders)
          + IF kind \in {"success", "deleted"} THEN 1 ELSE 0
    <3>1. ~Holding("idle") /\ (kind \in {"success", "deleted"} <=> Holding(kind))
      BY <2>3 DEF Holding, IoKinds
    <3>2. Moves(t, kind)
      BY <2>3 DEF Moves
    <3> QED BY <1>0, <2>3, <3>1, <3>2, HoldersMove
  <2>7. Cardinality(Holders) \in Nat /\ Cardinality(Successes) \in Nat
    BY <1>0, CountsFinite
  <2>8. kind = "success" => kind # "deleted"
    OBVIOUS
  <2> QED BY <1>0, <2>2, <2>3, <2>5, <2>6, <2>7, <2>8 DEF Refs, IoTypeOK
<1>11. ASSUME NEW t \in IoActors, HandleSuccess(t)
      PROVE  Refs'
  <2>1. act' = [act EXCEPT ![t] = "handle"] /\ act[t] = "success"
    BY <1>11 DEF HandleSuccess, IoGoto
  <2>2. Cardinality(Holders') = Cardinality(Holders)
    <3>1. Holding("success") /\ Holding("handle") /\ Moves(t, "handle")
      BY <2>1 DEF Holding, Moves
    <3> QED BY <1>0, <2>1, <3>1, HoldersMove
  <2>3. UNCHANGED <<io_ref, event_fd, io_results>>
    BY <1>11 DEF HandleSuccess
  <2>4. Successes' = Successes /\ (HasBase' <=> HasBase)
    BY <1>0, <2>1, <2>3 DEF Successes, HasBase, IoTypeOK
  <2>5. Cardinality(Holders) \in Nat /\ Cardinality(Successes) \in Nat
    BY <1>0, CountsFinite
  <2> QED BY <1>0, <2>2, <2>3, <2>4, <2>5 DEF Refs, IoTypeOK
<1>12. ASSUME NEW t \in IoActors, HandleSession(t)
      PROVE  Refs'
  <2>1. act' = [act EXCEPT ![t] = "decref"] /\ act[t] = "handle"
    BY <1>12 DEF HandleSession, IoGoto
  <2>2. Cardinality(Holders') = Cardinality(Holders)
    <3>1. Holding("handle") /\ Holding("decref") /\ Moves(t, "decref")
      BY <2>1 DEF Holding, Moves
    <3> QED BY <1>0, <2>1, <3>1, HoldersMove
  <2>3. UNCHANGED <<io_ref, event_fd, io_results>>
    BY <1>12 DEF HandleSession, io_service
  <2>4. Successes' = Successes /\ (HasBase' <=> HasBase)
    BY <1>0, <2>1, <2>3 DEF Successes, HasBase, IoTypeOK
  <2>5. Cardinality(Holders) \in Nat /\ Cardinality(Successes) \in Nat
    BY <1>0, CountsFinite
  <2> QED BY <1>0, <2>2, <2>3, <2>4, <2>5 DEF Refs, IoTypeOK
<1>13. ASSUME NEW t \in IoActors, handle_stop(t)
      PROVE  Refs'
  <2>1. act[t] \in {"error", "stopped"} /\ ~Holding(act[t]) /\ UNCHANGED <<io_ref, event_fd, io_results>>
    BY <1>13 DEF handle_stop, io_service, Holding
  <2>2. CASE io_unbind(t)
    BY <1>0, <2>1, <2>2, UnbindRefs
  <2>3. CASE act' = [act EXCEPT ![t] = "idle"]
    <3>1. Cardinality(Holders') = Cardinality(Holders)
      <4>1. ~Holding("idle") /\ Moves(t, "idle")
        BY <2>3 DEF Holding, Moves
      <4> QED BY <1>0, <2>1, <4>1, HoldersMove
    <3>2. Successes' = Successes /\ (HasBase' <=> HasBase)
      BY <1>0, <2>1, <2>3 DEF Successes, HasBase, IoTypeOK
    <3> QED BY <1>0, <2>1, <3>1, <3>2 DEF Refs
  <2> QED BY <1>13, <2>2, <2>3 DEF handle_stop, IoGoto
<1>14. ASSUME NEW t \in IoActors, shutdown_io_service(t)
      PROVE  Refs'
  <2>1. act' = [act EXCEPT ![t] = "decref"] /\ act[t] = "deleted"
    BY <1>14 DEF shutdown_io_service, IoGoto
  <2>2. Cardinality(Holders') = Cardinality(Holders)
    <3>1. Holding("deleted") /\ Holding("decref") /\ Moves(t, "decref")
      BY <2>1 DEF Holding, Moves
    <3> QED BY <1>0, <2>1, <3>1, HoldersMove
  <2>3. UNCHANGED <<io_ref, io_results>> /\ event_fd' = 0
    BY <1>14 DEF shutdown_io_service
  <2>4. Successes' = Successes /\ ~HasBase /\ ~HasBase'
    <3>1. Successes' = Successes
      BY <2>3 DEF Successes
    <3>2. ~HasBase /\ ~HasBase'
      BY <2>1, <2>3 DEF HasBase
    <3> QED BY <3>1, <3>2
  <2>5. Cardinality(Holders) \in Nat /\ Cardinality(Successes) \in Nat
    BY <1>0, CountsFinite
  <2> QED BY <1>0, <2>2, <2>3, <2>4, <2>5 DEF Refs, IoTypeOK
<1>15. ASSUME NEW t \in IoActors, decref(t)
      PROVE  Refs'
  <2> DEFINE w == AfterDecref(io_ref - 1)
  <2>1. act' = [act EXCEPT ![t] = w] /\ act[t] = "decref" /\ w \in {"drain", "idle"}
    BY <1>15 DEF decref, IoGoto, AfterDecref
  <2> HIDE DEF w
  <2>2. Cardinality(Holders') = Cardinality(Holders) - 1
    <3>1. Holding("decref") /\ ~Holding(w) /\ Moves(t, w)
      BY <2>1 DEF Holding, Moves
    <3> QED BY <1>0, <2>1, <3>1, HoldersMove
  <2>3. io_ref' = io_ref - 1 /\ UNCHANGED <<event_fd, io_results>>
    BY <1>15 DEF decref
  <2>4. Successes' = Successes /\ (HasBase' <=> HasBase)
    BY <1>0, <2>1, <2>3 DEF Successes, HasBase, IoTypeOK
  <2>5. Cardinality(Holders) \in Nat /\ Cardinality(Successes) \in Nat
    BY <1>0, CountsFinite
  <2> QED BY <1>0, <2>2, <2>3, <2>4, <2>5 DEF Refs, IoTypeOK
<1>16. ASSUME NEW t \in IoActors, DrainOne(t)
      PROVE  Refs'
  BY <1>16, <1>0, RefsKept DEF DrainOne, io_threads
<1>17. ASSUME NEW t \in IoActors, handle_unbound(t)
      PROVE  Refs'
  <2>1. act' = [act EXCEPT ![t] = "idle"] /\ act[t] = "drain"
    BY <1>17 DEF handle_unbound, IoGoto
  <2>2. Cardinality(Holders') = Cardinality(Holders)
    <3>1. ~Holding("drain") /\ ~Holding("idle") /\ Moves(t, "idle")
      BY <2>1 DEF Holding, Moves
    <3> QED BY <1>0, <2>1, <3>1, HoldersMove
  <2>3. UNCHANGED <<io_ref, event_fd, io_results>>
    BY <1>17 DEF handle_unbound
  <2>4. Successes' = Successes /\ (HasBase' <=> HasBase)
    BY <1>0, <2>1, <2>3 DEF Successes, HasBase, IoTypeOK
  <2>5. Cardinality(Holders) \in Nat /\ Cardinality(Successes) \in Nat
    BY <1>0, CountsFinite
  <2> QED BY <1>0, <2>2, <2>3, <2>4, <2>5 DEF Refs, IoTypeOK
<1>18. CASE OwnerUnbinds
  <2>1. ~Holding(act[IoApp]) /\ UNCHANGED <<io_ref, event_fd, io_results>>
    BY <1>18 DEF OwnerUnbinds, io_service, Holding
  <2> QED BY <1>18, <1>0, <2>1, UnbindRefs, AppActs DEF OwnerUnbinds
<1>19. CASE ServiceDeinit
  BY <1>19, <1>0, RefsKept DEF ServiceDeinit, io_threads
<1>20. CASE IoFinished
  BY <1>20, <1>0, RefsKept DEF IoFinished, io_vars, io_service, io_threads
<1> QED BY <1>1, <1>2, <1>3, <1>4, <1>5, <1>6, <1>7, <1>8, <1>9, <1>10, <1>11,
     <1>12, <1>13, <1>14, <1>15, <1>16, <1>17, <1>18, <1>19, <1>20 DEF IoNext,
     IoRequest, IoPoller, IoHandler


(* Who holds a reference is counted, and when it is the only one the descriptor
   is closed and no result of an operation waits.                          *)
LEMMA OneRef ==
  ASSUME IoTypeOK, Refs, NEW t \in IoActors, Holding(act[t])
  PROVE  /\ io_ref >= 1
         /\ io_ref = 1 => Holders = {t} /\ Successes = {} /\ ~HasBase
<1>1. t \in Holders
  BY DEF Holders, Holding
<1>2. /\ IsFiniteSet(Holders \ {t})
      /\ Cardinality(Holders \ {t}) = Cardinality(Holders) - 1
  BY <1>1, CountsFinite, FS_RemoveElement
<1>3. Cardinality(Holders \ {t}) \in Nat /\ Cardinality(Holders) \in Nat /\ Cardinality(Successes) \in Nat
  BY <1>2, CountsFinite, FS_CardinalityType
<1>4. io_ref = 1 => /\ Cardinality(Holders \ {t}) = 0 /\ Cardinality(Successes) = 0
                    /\ ~HasBase
  BY <1>2, <1>3 DEF Refs
<1>5. io_ref = 1 => Holders \ {t} = {} /\ Successes = {}
  BY <1>2, <1>4, CountsFinite, FS_EmptySet
<1>6. io_ref >= 1
  BY <1>2, <1>3 DEF Refs
<1> QED BY <1>1, <1>4, <1>5, <1>6

LEMMA NoRefs ==
  ASSUME IoTypeOK, Refs, io_ref = 0
  PROVE  Holders = {} /\ Successes = {} /\ ~HasBase
<1>1. Cardinality(Holders) \in Nat /\ Cardinality(Successes) \in Nat
  BY CountsFinite
<1>2. Cardinality(Holders) = 0 /\ Cardinality(Successes) = 0 /\ ~HasBase
  BY <1>1 DEF Refs
<1> QED BY <1>2, CountsFinite, FS_EmptySet

(* Once the descriptor is closed its node is gone, so the poller thread takes
   nothing from the ring, and no request is between io_submit and the list. *)
LEMMA Closed ==
  ASSUME IoTypeOK, Base, Counted, event_fd = 0
  PROVE  node = "none" /\ cnt = 0 /\ io_mutex = IoNone /\ ~Deleting
<1>1. ~Deleting /\ unbinding /\ io_mutex = IoNone
  BY DEF Base
<1>2. node = "none"
  BY SMTT(30), <1>1 DEF Base, Deleting, IoTypeOK
<1> QED BY <1>1, <1>2 DEF Counted

(* One thread drops the last reference, after the descriptor is closed, and ends
   the service (IOService_linux.cc:270-302). *)
LEMMA LastOneStep ==
  ASSUME IoIInv, IoNext
  PROVE  LastOne'
<1>0. /\ IoTypeOK /\ WithSession /\ Twice /\ OnePlace /\ Phases
      /\ Base /\ Refs /\ Counted /\ LastOne
  BY DEF IoIInv
<1>1. ASSUME NEW s \in IoSessions, RequestRefused(s)
      PROVE  LastOne'
  BY <1>1, <1>0, LastOneKept DEF RequestRefused, io_service, io_threads
<1>2. ASSUME NEW s \in IoSessions, Submit(s)
      PROVE  LastOne'
  BY <1>2, <1>0, LastOneKept DEF Submit, io_threads
<1>3. ASSUME NEW s \in IoSessions, Link(s)
      PROVE  LastOne'
  <2>1. UNCHANGED <<io_ref, event_fd, act, flag>>
    BY <1>3 DEF Link, io_threads
  <2>2. io_mutex # IoNone
    BY <1>3, <1>0, IoAssumption DEF Link, Phases, PhaseOf
  <2>3. event_fd # 0
    BY <1>0, <2>2 DEF Base
  <2> QED BY <1>0, <2>1, <2>3 DEF LastOne
<1>4. ASSUME NEW s \in IoSessions, KernelDone(s)
      PROVE  LastOne'
  BY <1>4, <1>0, LastOneKept DEF KernelDone, io_service, io_threads
<1>5. CASE HandleEvent
  BY <1>5, <1>0, LastOneKept DEF HandleEvent, io_service, io_threads
<1>6. CASE aio_finish
  <2>1. io_ref' = io_ref + 1 /\ UNCHANGED <<event_fd, act, flag, io_list>> /\ cnt > 0
    BY <1>6 DEF aio_finish, EventRef, io_threads
  <2>2. event_fd # 0
    BY <1>0, <2>1, Closed DEF IoTypeOK
  <2> QED BY <1>0, <2>1, <2>2 DEF LastOne
<1>7. CASE EventError
  BY <1>7, <1>0, LastOneKept DEF EventError, io_service, io_threads
<1>8. CASE EventDeleted
  BY <1>8, <1>0, LastOneKept DEF EventDeleted, io_service, io_threads
<1>9. CASE PollerStop
  BY SMTT(30), <1>9, <1>0, LastOneKept DEF PollerStop, io_service, io_threads
<1>10. ASSUME NEW t \in IoActors, IoGet(t)
      PROVE  LastOne'
  <2>1. ResultTaken(t)
    BY <1>10, GetEffect
  <2>2. UNCHANGED <<io_ref, event_fd, flag, io_list>>
    BY <1>10 DEF IoGet, io_service
  <2>3. \A u \in IoActors : act'[u] = "drain" <=> act[u] = "drain"
    BY <1>0, <2>1 DEF ResultTaken, IoTypeOK, IoKinds
  <2> QED BY <1>0, <2>2, <2>3 DEF LastOne
<1>11. ASSUME NEW t \in IoActors, HandleSuccess(t)
      PROVE  LastOne'
  <2>1. act' = [act EXCEPT ![t] = "handle"] /\ act[t] = "success"
    BY <1>11 DEF HandleSuccess, IoGoto
  <2>2. UNCHANGED <<io_ref, event_fd, flag>> /\ io_list' \subseteq io_list
    BY <1>11 DEF HandleSuccess
  <2>3. \A u \in IoActors : act'[u] = "drain" <=> act[u] = "drain"
    BY <1>0, <2>1 DEF IoTypeOK, IoKinds
  <2> QED BY <1>0, <2>2, <2>3 DEF LastOne
<1>12. ASSUME NEW t \in IoActors, HandleSession(t)
      PROVE  LastOne'
  <2>1. act' = [act EXCEPT ![t] = "decref"] /\ act[t] = "handle"
    BY <1>12 DEF HandleSession, IoGoto
  <2>2. UNCHANGED <<io_ref, event_fd, flag>> /\ io_list' \subseteq io_list
    BY <1>12 DEF HandleSession, io_service
  <2>3. \A u \in IoActors : act'[u] = "drain" <=> act[u] = "drain"
    BY <1>0, <2>1 DEF IoTypeOK, IoKinds
  <2> QED BY <1>0, <2>2, <2>3 DEF LastOne
<1>13. ASSUME NEW t \in IoActors, handle_stop(t)
      PROVE  LastOne'
  <2>1. UNCHANGED <<io_ref, event_fd, flag, io_list>>
    BY <1>13 DEF handle_stop, io_service
  <2>2. \A u \in IoActors : act'[u] = "drain" <=> act[u] = "drain"
    BY <1>13, <1>0 DEF handle_stop, io_unbind, IoGoto, IoTypeOK
  <2> QED BY <1>0, <2>1, <2>2 DEF LastOne
<1>14. ASSUME NEW t \in IoActors, shutdown_io_service(t)
      PROVE  LastOne'
  <2>1. act' = [act EXCEPT ![t] = "decref"] /\ act[t] = "deleted"
    BY <1>14 DEF shutdown_io_service, IoGoto
  <2>2. UNCHANGED <<io_ref, flag, io_list>> /\ event_fd' = 0
    BY <1>14 DEF shutdown_io_service
  <2>3. \A u \in IoActors : act'[u] = "drain" <=> act[u] = "drain"
    BY <1>0, <2>1 DEF IoTypeOK
  <2>4. io_ref > 0
    <3>1. Holding(act[t])
      BY <2>1 DEF Holding
    <3> QED BY <1>0, <3>1, OneRef DEF IoTypeOK
  <2> QED BY <1>0, <2>2, <2>3, <2>4 DEF LastOne
<1>15. ASSUME NEW t \in IoActors, decref(t)
      PROVE  LastOne'
  <2>1. /\ act[t] = "decref" /\ io_ref' = io_ref - 1
        /\ act' = [act EXCEPT ![t] = IF io_ref - 1 = 0 THEN "drain" ELSE "idle"]
        /\ UNCHANGED <<event_fd, flag, io_list>>
    BY <1>15 DEF decref, IoGoto, AfterDecref
  <2>2. io_ref >= 1 /\ (io_ref = 1 => Holders = {t} /\ ~HasBase)
    <3>1. Holding(act[t])
      BY <2>1 DEF Holding
    <3> QED BY <1>0, <3>1, OneRef
  <2>3. \A u \in IoActors : act[u] # "drain"
    BY <1>0, <2>2 DEF LastOne
  <2>4. ~flag
    BY <1>0, <2>2 DEF LastOne
  <2>5. io_ref = 1 => event_fd = 0
    <3>1. Holders = {t} => \A u \in IoActors : act[u] # "deleted"
      BY <2>1 DEF Holders
    <3> QED BY <1>0, <2>2, <3>1 DEF HasBase, IoTypeOK
  <2>6. CASE io_ref = 1
    <3>1. \A u \in IoActors : act'[u] = "drain" <=> u = t
      BY <1>0, <2>1, <2>3, <2>6 DEF IoTypeOK
    <3> QED BY <2>1, <2>4, <2>5, <2>6, <3>1 DEF LastOne
  <2>7. CASE io_ref > 1
    <3>1. \A u \in IoActors : act'[u] # "drain"
      BY <1>0, <2>1, <2>3, <2>7 DEF IoTypeOK
    <3> QED BY <1>0, <2>1, <2>4, <2>7, <3>1 DEF LastOne, IoTypeOK
  <2> QED BY <1>0, <2>2, <2>6, <2>7 DEF IoTypeOK
<1>16. ASSUME NEW t \in IoActors, DrainOne(t)
      PROVE  LastOne'
  <2>1. UNCHANGED <<io_ref, event_fd, act, flag>> /\ act[t] = "drain"
    BY <1>16 DEF DrainOne, io_threads
  <2> QED BY <1>0, <2>1 DEF LastOne
<1>17. ASSUME NEW t \in IoActors, handle_unbound(t)
      PROVE  LastOne'
  <2>1. /\ act[t] = "drain" /\ io_list = {} /\ flag' = TRUE
        /\ act' = [act EXCEPT ![t] = "idle"]
        /\ UNCHANGED <<event_fd, io_ref, io_list>>
    BY <1>17 DEF handle_unbound, IoGoto
  <2>2. \A u \in IoActors : act'[u] # "drain"
    BY <1>0, <2>1 DEF LastOne, IoTypeOK
  <2> QED BY <1>0, <2>1, <2>2 DEF LastOne
<1>18. CASE OwnerUnbinds
  <2>1. UNCHANGED <<io_ref, event_fd, flag, io_list>>
    BY <1>18 DEF OwnerUnbinds, io_service
  <2>2. \A u \in IoActors : act'[u] = "drain" <=> act[u] = "drain"
    BY <1>18, <1>0 DEF OwnerUnbinds, io_unbind, IoGoto, IoTypeOK
  <2> QED BY <1>0, <2>1, <2>2 DEF LastOne
<1>19. CASE ServiceDeinit
  BY <1>19, <1>0, LastOneKept DEF ServiceDeinit, io_threads
<1>20. CASE IoFinished
  BY <1>20, <1>0, LastOneKept DEF IoFinished, io_vars, io_service, io_threads
<1> QED BY <1>1, <1>2, <1>3, <1>4, <1>5, <1>6, <1>7, <1>8, <1>9, <1>10, <1>11,
     <1>12, <1>13, <1>14, <1>15, <1>16, <1>17, <1>18, <1>19, <1>20 DEF IoNext,
     IoRequest, IoPoller, IoHandler


(* The service starts in the invariant: bound, with the reference of the open
   descriptor and no operation.                                            *)
LEMMA IoInitial ==
  ASSUME IoInit
  PROVE  IoIInv
<1>1. IoTypeOK
  <2>1. io_list = {} /\ kernel = {} /\ ring = <<>> /\ io_results = <<>>
    BY DEF IoInit
  <2>2. ring \in Seq(IoSessions) /\ io_results \in Seq(IoResults)
    BY <2>1
  <2>3. /\ act \in [IoActors -> IoKinds \cup {"idle", "handle", "decref", "drain"}]
        /\ on_ses \in [IoActors -> IoSessions \cup {IoNone}]
    BY DEF IoInit
  <2>4. /\ io_phase \in [IoSessions -> {"new", "linking", "out", "end"}]
        /\ io_handled \in [IoSessions -> Nat]
    BY DEF IoInit
  <2>5. /\ unbinding \in BOOLEAN /\ poller_stopped \in BOOLEAN
        /\ flag \in BOOLEAN /\ deinited \in BOOLEAN
    BY Zenon DEF IoInit
  <2> QED BY <2>1, <2>2, <2>3, <2>4, <2>5 DEF IoInit, IoTypeOK
<1>2. Len(ring) = 0 /\ Len(io_results) = 0 /\ 1..0 = {}
  BY DEF IoInit
<1>3. WithSession /\ Twice
  BY <1>2 DEF IoInit, WithSession, Twice
<1>4. \A s \in IoSessions : ~InRing(s) /\ ~Waiting(s) /\ ~Handed(s) /\ ~InHand(s, "handle")
  BY <1>2 DEF IoInit, InRing, Waiting, Handed, InHand
<1>5. OnePlace /\ Phases
  BY <1>4, IoAssumption DEF IoInit, OnePlace, Phases, PhaseOf
<1>6. ~Deleting /\ Once
  BY <1>2 DEF IoInit, Deleting, Once
<1>7. Base /\ Counted /\ LastOne
  BY <1>2, <1>6 DEF IoInit, Base, Counted, LastOne
<1>8. Successes = {} /\ Holders = {} /\ HasBase
  BY <1>2 DEF IoInit, Successes, Holders, HasBase
<1>9. Refs
  BY <1>8, FS_EmptySet DEF IoInit, Refs
<1> QED BY <1>1, <1>3, <1>5, <1>7, <1>9 DEF IoIInv

LEMMA IoStep ==
  ASSUME IoIInv, [IoNext]_io_vars
  PROVE  IoIInv'
<1>1. CASE IoNext
  BY <1>1, IoTypeStep, WithSessionStep, BaseStep, TwiceStep, OnePlaceStep, PhasesStep,
     CountedStep, RefsStep, LastOneStep DEF IoIInv
<1>2. CASE UNCHANGED io_vars
  <2>0. /\ IoTypeOK /\ WithSession /\ Twice /\ OnePlace /\ Phases
        /\ Base /\ Refs /\ Counted /\ LastOne
    BY DEF IoIInv
  <2> USE <1>2, <2>0 DEF io_vars, io_service, io_queues, io_poller, io_threads, io_sessions
  <2>1. IoTypeOK'
    BY DEF IoTypeOK
  <2>2. WithSession' /\ Twice' /\ OnePlace'
    BY WithSessionKept, TwiceKept, OnePlaceKept
  <2>3. Phases' /\ Base' /\ Counted'
    BY PhasesKept, BaseKept, CountedKept
  <2>4. Refs' /\ LastOne'
    BY SMTT(30), RefsKept, LastOneKept
  <2> QED BY <2>1, <2>2, <2>3, <2>4 DEF IoIInv
<1> QED BY <1>1, <1>2

(* The invariant says what IoInv does of the sessions, the references, the last
   of them and the end of the service.                                     *)
LEMMA IoEnough ==
  ASSUME IoIInv
  PROVE  IoInv
<1>0. /\ IoTypeOK /\ WithSession /\ Twice /\ OnePlace /\ Phases
      /\ Base /\ Refs /\ Counted /\ LastOne
  BY SMTT(30) DEF IoIInv
<1>1. \A s \in IoSessions :
        /\ io_handled[s] = IF io_phase[s] = "end" THEN 1 ELSE 0
        /\ s \in io_list <=> io_phase[s] = "out" /\ ~InHand(s, "handle")
        /\ io_phase[s] \in {"out", "linking"} <=>
             \/ s \in kernel
             \/ \E i \in 1..Len(ring) : ring[i] = s
             \/ Waiting(s)
             \/ InHand(s, "success") \/ InHand(s, "handle")
  <2>1. \A s \in IoSessions : Handed(s) <=> InHand(s, "success") \/ InHand(s, "handle")
    BY DEF Handed, InHand
  <2> QED BY SMTT(30), <1>0, <2>1 DEF Phases, PhaseOf, InRing
<1>2. ASSUME NEW t \in IoActors, act[t] = "drain"
      PROVE  /\ io_mutex = IoNone /\ event_fd = 0 /\ io_ref = 0 /\ cnt = 0
             /\ \A u \in IoActors \ {t} : act[u] \in {"idle", "error", "stopped"}
             /\ ~flag
  <2>1. io_ref = 0 /\ event_fd = 0 /\ ~flag /\ \A u \in IoActors \ {t} : act[u] # "drain"
    BY <1>0, <1>2 DEF LastOne
  <2>2. Holders = {}
    BY <1>0, <2>1, NoRefs
  <2>3. \A u \in IoActors \ {t} : act[u] \in {"idle", "error", "stopped"}
    BY <1>0, <2>1, <2>2 DEF Holders, IoTypeOK, IoKinds
  <2> QED BY <1>0, <2>1, <2>3, Closed
<1>3. cnt <= Len(ring)
  BY <1>0 DEF Counted, IoTypeOK
<1>4. flag => io_list = {} /\ io_ref = 0 /\ Holders = {} /\ kernel = {}
  <2> SUFFICES ASSUME flag
               PROVE  io_list = {} /\ io_ref = 0 /\ Holders = {} /\ kernel = {}
    OBVIOUS
  <2>1. io_list = {} /\ io_ref = 0 /\ event_fd = 0
    BY <1>0 DEF LastOne
  <2>2. Holders = {} /\ io_mutex = IoNone
    BY <1>0, <2>1, NoRefs, Closed
  <2>3. \A s \in IoSessions : ~InHand(s, "handle")
    BY <2>2 DEF Holders, InHand
  <2>4. ASSUME NEW s \in kernel
        PROVE  FALSE
    <3>1. s \in IoSessions
      BY <1>0 DEF IoTypeOK
    <3> QED BY <1>0, <2>1, <2>2, <2>3, <3>1, IoAssumption DEF Phases, PhaseOf
  <2> QED BY <2>1, <2>2, <2>4
<1>5. poller_stopped /\ io_results = <<>> /\ (\A t \in IoActors : act[t] = "idle") => flag
  <2> SUFFICES ASSUME poller_stopped, io_results = <<>>, \A t \in IoActors : act[t] = "idle", ~flag
               PROVE  FALSE
    OBVIOUS
  <2>1. node = "none" /\ 1..Len(io_results) = {}
    BY <1>0 DEF Base
  <2>2. ~Deleting
    BY <2>1 DEF Deleting
  <2>3. event_fd = 0
    BY <1>0, <2>1, <2>2 DEF Base, IoTypeOK
  <2>4. Successes = {} /\ Holders = {} /\ ~HasBase
    BY <2>1, <2>3 DEF Successes, Holders, HasBase
  <2>5. io_ref = 0
    BY <1>0, <2>4, FS_EmptySet DEF Refs
  <2> QED BY <1>0, <2>3, <2>5 DEF LastOne
<1>6. io_ref = Cardinality(Successes) + Cardinality(Holders) + IF HasBase THEN 1 ELSE 0
  BY <1>0 DEF Refs
<1> QED BY <1>1, <1>2, <1>3, <1>4, <1>5, <1>6 DEF IoInv

(* IOService_linux.cc:270-328, Communicator.cc:914-947: whatever the number of
   sessions and handler threads, every operation that was accepted is handled
   once and not before it has finished, the references are counted exactly, the
   last one is dropped by a thread that is alone with the sessions left, and
   handle_unbound is not missed.                                           *)
THEOREM IoSafe == IoSpec => []IoInv
<1>1. IoInit => IoIInv
  BY IoInitial
<1>2. IoIInv /\ [IoNext]_io_vars => IoIInv'
  BY IoStep
<1>3. IoIInv => IoInv
  BY IoEnough
<1> QED BY <1>1, <1>2, <1>3, PTL DEF IoSpec
=============================================================================
