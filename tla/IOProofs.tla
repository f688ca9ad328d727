------------------------------ MODULE IOProofs ------------------------------
(***************************************************************************)
(* The inductive invariant of the I/O service and the part of it that is   *)
(* about the operations: each is in one place, which agrees with what its  *)
(* session has gone through; the node of the event descriptor is deleted   *)
(* once; the counter of the descriptor agrees with the ring.               *)
(***************************************************************************)
EXTENDS IOService, FiniteSetTheorems, TLAPS

IoKinds == {"success", "error", "deleted", "stopped"}
IoResults == [kind : IoKinds, on : IoSessions \cup {IoNone}]

IoTypeOK ==
  /\ event_fd \in {0, 1} /\ io_ref \in Int /\ io_list \subseteq IoSessions
  /\ io_mutex \in IoSessions \cup {IoNone}
  /\ kernel \subseteq IoSessions /\ ring \in Seq(IoSessions)
  /\ counter \in Nat /\ cnt \in Nat
  /\ node \in {"watched", "deleted", "none"}
  /\ io_results \in Seq(IoResults)
  /\ act \in [IoActors -> IoKinds \cup {"idle", "handle", "decref", "drain"}]
  /\ on_ses \in [IoActors -> IoSessions \cup {IoNone}]
  /\ io_phase \in [IoSessions -> {"new", "linking", "out", "end"}]
  /\ io_handled \in [IoSessions -> Nat]
  /\ unbinding \in BOOLEAN /\ poller_stopped \in BOOLEAN
  /\ flag \in BOOLEAN /\ deinited \in BOOLEAN

(* An operation is in one place: under way in the kernel, in the ring, in a
   result that waits, or in the hands of one thread.                       *)
InRing(s) == \E i \in 1..Len(ring) : ring[i] = s
Handed(s) == \E t \in IoActors : act[t] \in {"success", "handle"} /\ on_ses[t] = s
WithSession ==
  /\ \A i \in 1..Len(io_results) :
       io_results[i].kind = "success" <=> io_results[i].on \in IoSessions
  /\ \A t \in IoActors : act[t] \in {"success", "handle"} => on_ses[t] \in IoSessions
Twice == 
  /\ \A i, j \in 1..Len(ring) : ring[i] = ring[j] => i = j
  /\ \A i, j \in 1..Len(io_results) :
       io_results[i].kind = "success" /\ io_results[i].on = io_results[j].on => i = j
  /\ \A t, u \in IoActors :
       /\ act[t] \in {"success", "handle"} /\ act[u] \in {"success", "handle"}
       /\ on_ses[t] = on_ses[u]
       => t = u
OnePlace == \A s \in IoSessions :
  /\ s \in kernel => ~InRing(s) /\ ~Waiting(s) /\ ~Handed(s)
  /\ InRing(s) => ~Waiting(s) /\ ~Handed(s)
  /\ Waiting(s) => ~Handed(s)

(* What each session has gone through tells where it is. *)
PhaseOf(s) ==
  /\ io_handled[s] = IF io_phase[s] = "end" THEN 1 ELSE 0
  /\ s \in io_list <=> io_phase[s] = "out" /\ ~InHand(s, "handle")
  /\ io_phase[s] = "linking" <=> io_mutex = s
  /\ InHand(s, "handle") => io_phase[s] = "out"
  /\ io_phase[s] \in {"out", "linking"} <=>
       s \in kernel \/ InRing(s) \/ Waiting(s) \/ Handed(s)
Phases == \A s \in IoSessions : PhaseOf(s)

(* The reference of the open descriptor: its node is deleted once, by who
   unbinds, and what is left of the node shuts the service down once.      *)
DeletedResult(i) == io_results[i].kind = "deleted"
Deleting == \/ node = "deleted" 
            \/ \E i \in 1..Len(io_results) : DeletedResult(i)
            \/ \E t \in IoActors : act[t] = "deleted"
Once ==
  /\ \A i, j \in 1..Len(io_results) : DeletedResult(i) /\ DeletedResult(j) => i = j
  /\ \A t, u \in IoActors : act[t] = "deleted" /\ act[u] = "deleted" => t = u
  /\ \A i \in 1..Len(io_results), t \in IoActors : ~(DeletedResult(i) /\ act[t] = "deleted")
  /\ node = "deleted" => /\ \A i \in 1..Len(io_results) : ~DeletedResult(i)
                         /\ \A t \in IoActors : act[t] # "deleted"
Base ==
  /\ Once
  /\ Deleting <=> unbinding /\ event_fd = 1
  /\ event_fd = 0 => unbinding /\ io_mutex = IoNone
  /\ node = "watched" => ~unbinding
  /\ poller_stopped => node = "none"
  /\ node = "none" /\ ~unbinding =>
       \/ \E i \in 1..Len(io_results) : io_results[i].kind \in {"error", "stopped"}
       \/ \E t \in IoActors : act[t] \in {"error", "stopped"}

Refs == io_ref = Cardinality(Successes) + Cardinality(Holders) + IF HasBase THEN 1 ELSE 0

(* The poller thread takes from the ring only what it has read of the counter. *)
Counted == /\ node # "none" => counter + cnt = Len(ring)
           /\ node = "none" => cnt = 0

LastOne ==
  /\ \A t, u \in IoActors : act[t] = "drain" /\ act[u] = "drain" => t = u
  /\ \A t \in IoActors : act[t] = "drain" => io_ref = 0 /\ event_fd = 0 /\ ~flag
  /\ flag => io_ref = 0 /\ event_fd = 0 /\ io_list = {}
  /\ event_fd = 0 /\ ~flag => io_ref > 0 \/ \E t \in IoActors : act[t] = "drain"

IoIInv == /\ IoTypeOK /\ WithSession /\ Twice /\ OnePlace /\ Phases /\ Base /\ Refs
          /\ Counted /\ LastOne

(* What Append and Tail do to a sequence. *)
LEMMA Appended ==
  ASSUME NEW S, NEW q \in Seq(S), NEW x \in S
  PROVE  /\ Append(q, x) \in Seq(S) /\ Len(q) \in Nat
         /\ Len(Append(q, x)) = Len(q) + 1
         /\ \A i \in 1..Len(q) : Append(q, x)[i] = q[i]
         /\ Append(q, x)[Len(q) + 1] = x
  OBVIOUS

LEMMA Shortened ==
  ASSUME NEW S, NEW q \in Seq(S), q # <<>>
  PROVE  /\ Tail(q) \in Seq(S) /\ Len(q) \in Nat \ {0}
         /\ Len(Tail(q)) = Len(q) - 1
         /\ \A i \in 1..Len(q) - 1 : Tail(q)[i] = q[i + 1]
         /\ Head(q) = q[1] /\ Head(q) \in S
  OBVIOUS

(* The results that wait have one of the four kinds (Communicator.cc:914-947). *)
LEMMA HeadResult ==
  ASSUME IoIInv, io_results # <<>>
  PROVE  /\ Head(io_results) \in IoResults
         /\ Head(io_results).kind \in IoKinds
         /\ Head(io_results).on \in IoSessions \cup {IoNone}
         /\ Tail(io_results) \in Seq(IoResults)
<1>1. Head(io_results) \in IoResults /\ Tail(io_results) \in Seq(IoResults)
  BY DEF IoIInv, IoTypeOK
<1> QED BY <1>1 DEF IoResults

(* Every step keeps the types. *)
LEMMA IoTypeStep ==
  ASSUME IoIInv, IoNext
  PROVE  IoTypeOK'
<1> USE IoAssumption DEF IoActors
<1>1. ASSUME NEW s \in IoSessions, RequestRefused(s)
      PROVE  IoTypeOK'
  BY <1>1 DEF RequestRefused, EndOf, io_service, io_queues, io_poller,
       io_threads, IoKinds, IoResults, IoIInv, IoTypeOK
<1>2. ASSUME NEW s \in IoSessions, Submit(s)
      PROVE  IoTypeOK'
  BY <1>2 DEF Submit, io_poller, io_threads, IoKinds, IoResults, IoIInv,
       IoTypeOK
<1>3. ASSUME NEW s \in IoSessions, Link(s)
      PROVE  IoTypeOK'
  BY <1>3 DEF Link, io_queues, io_poller, io_threads, IoKinds, IoResults,
       IoIInv, IoTypeOK
<1>4. ASSUME NEW s \in IoSessions, KernelDone(s)
      PROVE  IoTypeOK'
  BY <1>4 DEF KernelDone, io_service, io_poller, io_threads, io_sessions,
       IoKinds, IoResults, IoIInv, IoTypeOK
<1>5. CASE HandleEvent
  BY <1>5 DEF HandleEvent, io_service, io_threads, io_sessions, IoKinds,
       IoResults, IoIInv, IoTypeOK
<1>6. CASE aio_finish
  <2>1. Head(ring) \in IoSessions /\ Tail(ring) \in Seq(IoSessions)
    BY <1>6 DEF aio_finish, IoIInv, IoTypeOK
  <2> DEFINE result == [kind |-> "success", on |-> Head(ring)]
             error == [kind |-> "error", on |-> IoNone]
  <2>2. result \in IoResults /\ error \in IoResults
    BY <2>1 DEF IoResults, IoKinds
  <2>3. io_results' \in Seq(IoResults)
    <3> HIDE DEF result, error
    <3>1. /\ Append(io_results, result) \in Seq(IoResults)
          /\ Append(Append(io_results, result), error) \in Seq(IoResults)
      BY <2>2 DEF IoIInv, IoTypeOK
    <3> QED BY Zenon, <1>6, <3>1 DEF aio_finish, result, error
  <2> QED BY SMTT(30), <1>6, <2>1, <2>3 DEF aio_finish, EventRef, io_threads,
       io_sessions, IoIInv, IoTypeOK
<1>7. CASE EventError
  BY <1>7 DEF EventError, IoPut, io_service, io_queues, io_threads,
       io_sessions, IoKinds, IoResults, IoIInv, IoTypeOK
<1>8. CASE EventDeleted
  BY <1>8 DEF EventDeleted, IoPut, io_service, io_queues, io_threads,
       io_sessions, IoKinds, IoResults, IoIInv, IoTypeOK
<1>9. CASE PollerStop
  <2>1. io_results' \in Seq(IoResults)
    <3> DEFINE stopped == [kind |-> "stopped", on |-> IoNone]
               deleted == [kind |-> "deleted", on |-> IoNone]
    <3>1. stopped \in IoResults /\ deleted \in IoResults
      BY DEF IoResults, IoKinds
    <3>2. \/ io_results' = Append(io_results, stopped)
          \/ io_results' = Append(io_results, deleted)
          \/ io_results' = io_results
      BY <1>9 DEF PollerStop, IoPut
    <3>3. /\ Append(io_results, stopped) \in Seq(IoResults)
          /\ Append(io_results, deleted) \in Seq(IoResults)
      BY <3>1, Appended DEF IoIInv, IoTypeOK
    <3> QED BY Zenon, <3>2, <3>3 DEF IoIInv, IoTypeOK
  <2> QED BY <1>9, <2>1 DEF PollerStop, IoPut, io_service, io_queues,
       io_threads, io_sessions, IoIInv, IoTypeOK
<1>10. ASSUME NEW t \in IoActors, IoGet(t)
      PROVE  IoTypeOK'
  <2>1. act' \in [IoActors -> IoKinds \cup {"idle", "handle", "decref", "drain"}]
    BY <1>10, HeadResult DEF IoGet, IoGoto, IoIInv, IoTypeOK
  <2> QED BY <1>10, <2>1, HeadResult DEF IoGet, IoGoto, io_service, io_queues,
       io_poller, io_sessions, IoIInv, IoTypeOK
<1>11. ASSUME NEW t \in IoActors, HandleSuccess(t)
      PROVE  IoTypeOK'
  BY <1>11 DEF HandleSuccess, Locked, IoGoto, io_queues, io_poller,
       io_sessions, IoKinds, IoResults, IoIInv, IoTypeOK
<1>12. ASSUME NEW t \in IoActors, HandleSession(t)
      PROVE  IoTypeOK'
  BY <1>12 DEF HandleSession, EndOf, IoGoto, io_service, io_queues, io_poller,
       IoIInv, IoTypeOK, WithSession
<1>13. ASSUME NEW t \in IoActors, handle_stop(t)
      PROVE  IoTypeOK'
  BY Zenon, <1>13 DEF handle_stop, io_unbind, IoGoto, io_service, io_queues,
       io_sessions, IoKinds, IoResults, IoIInv, IoTypeOK
<1>14. ASSUME NEW t \in IoActors, shutdown_io_service(t)
      PROVE  IoTypeOK'
  BY <1>14 DEF shutdown_io_service, IoGoto, io_queues, io_poller, io_sessions,
       IoKinds, IoResults, IoIInv, IoTypeOK
<1>15. ASSUME NEW t \in IoActors, decref(t)
      PROVE  IoTypeOK'
  BY <1>15 DEF decref, IoGoto, AfterDecref, io_queues, io_poller, io_sessions,
       IoKinds, IoResults, IoIInv, IoTypeOK
<1>16. ASSUME NEW t \in IoActors, DrainOne(t)
      PROVE  IoTypeOK'
  BY <1>16 DEF DrainOne, EndOf, io_poller, io_threads, IoKinds, IoResults,
       IoIInv, IoTypeOK
<1>17. ASSUME NEW t \in IoActors, handle_unbound(t)
      PROVE  IoTypeOK'
  BY <1>17 DEF handle_unbound, IoGoto, io_queues, io_poller, io_sessions,
       IoKinds, IoResults, IoIInv, IoTypeOK
<1>18. CASE OwnerUnbinds
  BY <1>18 DEF OwnerUnbinds, io_unbind, io_service, io_queues, io_sessions,
       IoGoto, IoKinds, IoResults, IoIInv, IoTypeOK
<1>19. CASE ServiceDeinit
  BY <1>19 DEF ServiceDeinit, io_queues, io_poller, io_threads, io_sessions,
       IoKinds, IoResults, IoIInv, IoTypeOK
<1>20. CASE IoFinished
  BY <1>20 DEF IoFinished, io_vars, io_service, io_queues, io_poller,
       io_threads, io_sessions, IoKinds, IoResults, IoIInv, IoTypeOK
<1> QED BY <1>1, <1>2, <1>3, <1>4, <1>5, <1>6, <1>7, <1>8, <1>9, <1>10, <1>11,
     <1>12, <1>13, <1>14, <1>15, <1>16, <1>17, <1>18, <1>19, <1>20 DEF IoNext,
     IoRequest, IoPoller, IoHandler

(* What a result that is put into the queue (IoPut), and one that is taken from
   it (IoGet), leave of the others.                                        *)
Same == \A i \in 1..Len(io_results) : io_results'[i] = io_results[i]

ResultPut(kind) ==
  /\ Len(io_results') = Len(io_results) + 1 /\ Len(io_results) \in Nat
  /\ Same
  /\ io_results'[Len(io_results) + 1].kind = kind
  /\ io_results'[Len(io_results) + 1].on = IoNone

LEMMA PutEffect ==
  ASSUME IoIInv, NEW kind \in IoKinds, IoPut(kind, IoNone)
  PROVE  ResultPut(kind)
<1> DEFINE r == [kind |-> kind, on |-> IoNone]
<1>1. r \in IoResults /\ r.kind = kind /\ r.on = IoNone
  BY DEF IoResults
<1>2. io_results' = Append(io_results, r) /\ io_results \in Seq(IoResults)
  BY DEF IoPut, IoIInv, IoTypeOK
<1> HIDE DEF r
<1> QED BY <1>1, <1>2, Appended DEF Same, ResultPut

LEMMA StopEffect ==
  ASSUME IoIInv, PollerStop
  PROVE  /\ node = "none" => UNCHANGED io_results
         /\ node # "none" => ResultPut(IF node = "watched" THEN "stopped" ELSE "deleted")
<1>1. CASE node = "watched"
  <2>1. IoPut("stopped", IoNone) /\ "stopped" \in IoKinds
    BY <1>1 DEF PollerStop, IoKinds
  <2> QED BY <1>1, <2>1, PutEffect
<1>2. CASE node = "deleted"
  <2>1. IoPut("deleted", IoNone) /\ "deleted" \in IoKinds
    BY <1>2 DEF PollerStop, IoKinds
  <2> QED BY <1>2, <2>1, PutEffect
<1>3. CASE node = "none"
  BY <1>3 DEF PollerStop
<1> QED BY <1>1, <1>2, <1>3 DEF IoIInv, IoTypeOK

ResultTaken(t) ==
  /\ Len(io_results) \in Nat \ {0} /\ Len(io_results') = Len(io_results) - 1
  /\ \A i \in 1..Len(io_results) - 1 : io_results'[i] = io_results[i + 1]
  /\ io_results[1].kind \in IoKinds
  /\ io_results[1].on \in IoSessions \cup {IoNone}
  /\ act[t] = "idle"
  /\ act' = [act EXCEPT ![t] = io_results[1].kind]
  /\ on_ses' = [on_ses EXCEPT ![t] = io_results[1].on]

LEMMA GetEffect ==
  ASSUME IoIInv, NEW t \in IoActors, IoGet(t)
  PROVE  ResultTaken(t)
<1>1. io_results \in Seq(IoResults) /\ io_results # <<>>
  BY DEF IoGet, IoIInv, IoTypeOK
<1>2. /\ io_results' = Tail(io_results) /\ act[t] = "idle"
      /\ act' = [act EXCEPT ![t] = Head(io_results).kind]
      /\ on_ses' = [on_ses EXCEPT ![t] = Head(io_results).on]
  BY DEF IoGet, IoGoto
<1>3. Head(io_results) = io_results[1]
  BY <1>1
<1> QED BY Zenon, <1>1, <1>2, <1>3, Shortened, HeadResult DEF ResultTaken

(* aio_finish takes the oldest completion and puts its result into the queue,
   behind it that of the descriptor when it gives that up.                 *)
CompletionTaken ==
  /\ Len(ring) \in Nat \ {0} /\ Len(ring') = Len(ring) - 1
  /\ \A i \in 1..Len(ring) - 1 : ring'[i] = ring[i + 1]
  /\ ring[1] \in IoSessions
  /\ Len(io_results) \in Nat /\ Same
  /\ io_results'[Len(io_results) + 1].kind = "success"
  /\ io_results'[Len(io_results) + 1].on = ring[1]
  /\ \/ /\ Len(io_results') = Len(io_results) + 1
        /\ UNCHANGED node
     \/ /\ Len(io_results') = Len(io_results) + 2
        /\ io_results'[Len(io_results) + 2].kind = "error"
        /\ io_results'[Len(io_results) + 2].on = IoNone
        /\ node = "watched" /\ node' = "none"

LEMMA FinishEffect ==
  ASSUME IoIInv, aio_finish
  PROVE  CompletionTaken
<1>1. /\ Len(ring) \in Nat \ {0} /\ Len(ring') = Len(ring) - 1
      /\ \A i \in 1..Len(ring) - 1 : ring'[i] = ring[i + 1]
      /\ ring[1] \in IoSessions /\ ring[1] = Head(ring)
  BY Shortened DEF aio_finish, IoIInv, IoTypeOK
<1> DEFINE result == [kind |-> "success", on |-> Head(ring)]
           error == [kind |-> "error", on |-> IoNone]
           q == Append(io_results, result)
<1>2. /\ result \in IoResults /\ result.kind = "success" /\ result.on = ring[1]
      /\ error \in IoResults /\ error.kind = "error" /\ error.on = IoNone
  BY <1>1 DEF IoResults, IoKinds
<1>3. \/ io_results' = q /\ UNCHANGED node
      \/ io_results' = Append(q, error) /\ node = "watched" /\ node' = "none"
  BY Zenon DEF aio_finish, IoIInv, IoTypeOK
<1> HIDE DEF result, error
<1>4. /\ q \in Seq(IoResults) /\ Len(q) = Len(io_results) + 1 /\ Len(io_results) \in Nat
      /\ \A i \in 1..Len(io_results) : q[i] = io_results[i]
      /\ q[Len(io_results) + 1] = result
  BY <1>2, Appended DEF IoIInv, IoTypeOK
<1> HIDE DEF q
<1>5. /\ Len(Append(q, error)) = Len(q) + 1
      /\ \A i \in 1..Len(q) : Append(q, error)[i] = q[i]
      /\ Append(q, error)[Len(q) + 1] = error
  BY <1>2, <1>4, Appended
<1>6. CASE io_results' = q /\ UNCHANGED node
  BY <1>1, <1>2, <1>4, <1>6 DEF Same, CompletionTaken
<1>7. CASE io_results' = Append(q, error) /\ node = "watched" /\ node' = "none"
  <2>1. /\ Len(io_results') = Len(io_results) + 2
        /\ io_results'[Len(io_results) + 2] = error
        /\ io_results'[Len(io_results) + 1] = result
        /\ Same
    BY <1>4, <1>5, <1>7 DEF Same
  <2> QED BY <1>1, <1>2, <1>4, <1>7, <2>1 DEF CompletionTaken
<1> QED BY <1>3, <1>6, <1>7

(* What a step changes of the places in which an operation is. *)
LEMMA PutMoves ==
  ASSUME IoIInv, NEW kind \in IoKinds, IoPut(kind, IoNone), NEW s \in IoSessions
  PROVE  Waiting(s)' <=> Waiting(s)
  BY PutEffect, IoAssumption DEF Waiting, Same, ResultPut

LEMMA StopMoves ==
  ASSUME IoIInv, PollerStop, NEW s \in IoSessions
  PROVE  Waiting(s)' <=> Waiting(s)
  BY StopEffect, IoAssumption DEF Waiting, Same, ResultPut

LEMMA FinishMoves ==
  ASSUME IoIInv, aio_finish, NEW s \in IoSessions
  PROVE  /\ InRing(s)' <=> InRing(s) /\ s # ring[1]
         /\ Waiting(s)' <=> Waiting(s) \/ s = ring[1]
         /\ InRing(ring[1]) /\ ring[1] \in IoSessions
<1>0. CompletionTaken
  BY FinishEffect
<1>1. InRing(s)' <=> InRing(s) /\ s # ring[1]
  <2>1. ASSUME InRing(s), s # ring[1]
        PROVE  InRing(s)'
    <3>1. PICK i \in 1..Len(ring) : ring[i] = s
      BY <2>1 DEF InRing
    <3>2. i - 1 \in 1..Len(ring) - 1 /\ ring'[i - 1] = ring[(i - 1) + 1]
      BY <2>1, <3>1, <1>0 DEF CompletionTaken
    <3> QED BY <3>1, <3>2, <1>0 DEF InRing, CompletionTaken
  <2>2. ASSUME InRing(s)'
        PROVE  InRing(s) /\ s # ring[1]
    <3>1. PICK i \in 1..Len(ring') : ring'[i] = s
      BY <2>2 DEF InRing
    <3>2. i + 1 \in 1..Len(ring) /\ ring[i + 1] = s /\ i + 1 # 1 /\ 1 \in 1..Len(ring)
      BY <3>1, <1>0 DEF CompletionTaken
    <3> QED BY <3>2 DEF InRing, Twice, IoIInv
  <2> QED BY <2>1, <2>2
<1>2. Waiting(s)' <=> Waiting(s) \/ s = ring[1]
  BY SMTT(30), <1>0, IoAssumption DEF Waiting, Same, CompletionTaken
<1> QED BY <1>1, <1>2, <1>0 DEF InRing, CompletionTaken

LEMMA GetMoves ==
  ASSUME IoIInv, NEW t \in IoActors, IoGet(t), NEW s \in IoSessions
  PROVE  /\ Waiting(s)' <=> Waiting(s) /\ s # io_results[1].on
         /\ Handed(s)' <=> Handed(s) \/ s = io_results[1].on
         /\ InHand(s, "handle")' <=> InHand(s, "handle")
         /\ s = io_results[1].on => Waiting(s)
<1>0. ResultTaken(t)
  BY GetEffect
<1>1. Waiting(s)' <=> Waiting(s) /\ s # io_results[1].on
  <2>1. ASSUME Waiting(s), s # io_results[1].on
        PROVE  Waiting(s)'
    <3>1. PICK i \in 1..Len(io_results) : io_results[i].on = s
      BY <2>1 DEF Waiting
    <3>2. i - 1 \in 1..Len(io_results) - 1 /\ io_results'[i - 1] = io_results[(i - 1) + 1]
      BY <2>1, <3>1, <1>0 DEF ResultTaken
    <3> QED BY <3>1, <3>2, <1>0 DEF Waiting, ResultTaken
  <2>2. ASSUME Waiting(s)'
        PROVE  Waiting(s) /\ s # io_results[1].on
    <3>1. PICK i \in 1..Len(io_results') : io_results'[i].on = s
      BY <2>2 DEF Waiting
    <3>2. /\ i + 1 \in 1..Len(io_results) /\ io_results[i + 1].on = s
          /\ i + 1 # 1 /\ 1 \in 1..Len(io_results)
      BY <3>1, <1>0 DEF ResultTaken
    <3>3. io_results[i + 1].kind = "success"
      BY <3>2 DEF WithSession, IoIInv
    <3> QED BY <3>2, <3>3 DEF Waiting, Twice, IoIInv
  <2> QED BY <2>1, <2>2
<1>2. s = io_results[1].on => io_results[1].kind = "success"
  BY <1>0 DEF WithSession, IoIInv, ResultTaken
<1>3. io_results[1].kind = "success" => io_results[1].on \in IoSessions
  BY <1>0 DEF WithSession, IoIInv, ResultTaken
<1>4. Handed(s)' <=> Handed(s) \/ s = io_results[1].on
  <2>1. Handed(s)' => Handed(s) \/ s = io_results[1].on
    BY <1>0 DEF Handed, IoIInv, IoTypeOK, ResultTaken
  <2>2. Handed(s) => Handed(s)'
    BY <1>0 DEF Handed, IoIInv, IoTypeOK, ResultTaken
  <2>3. s = io_results[1].on => Handed(s)'
    BY <1>2, <1>0 DEF Handed, IoIInv, IoTypeOK, ResultTaken
  <2> QED BY <2>1, <2>2, <2>3
<1>5. InHand(s, "handle")' <=> InHand(s, "handle")
  BY <1>0 DEF InHand, IoKinds, IoIInv, IoTypeOK, ResultTaken
<1>6. s = io_results[1].on => Waiting(s)
  BY <1>0 DEF Waiting, ResultTaken
<1> QED BY <1>1, <1>4, <1>5, <1>6

LEMMA DoneMoves ==
  ASSUME IoIInv, NEW s \in IoSessions, KernelDone(s), NEW r \in IoSessions
  PROVE  InRing(r)' <=> InRing(r) \/ r = s
<1>1. /\ Len(ring') = Len(ring) + 1 /\ Len(ring) \in Nat
      /\ \A i \in 1..Len(ring) : ring'[i] = ring[i]
      /\ ring'[Len(ring) + 1] = s
  BY Appended DEF KernelDone, IoIInv, IoTypeOK
<1> QED BY <1>1 DEF InRing

LEMMA DrainMoves ==
  ASSUME IoIInv, NEW t \in IoActors, DrainOne(t), NEW s \in IoSessions
  PROVE  /\ InRing(s)' <=> InRing(s) /\ s # Head(ring)
         /\ InRing(Head(ring)) /\ Head(ring) \in IoSessions
<1>1. /\ Len(ring) \in Nat \ {0} /\ Len(ring') = Len(ring) - 1
      /\ \A i \in 1..Len(ring) - 1 : ring'[i] = ring[i + 1]
      /\ ring[1] \in IoSessions /\ ring[1] = Head(ring)
  BY Shortened DEF DrainOne, IoIInv, IoTypeOK
<1>2. ASSUME InRing(s), s # ring[1]
      PROVE  InRing(s)'
  <2>1. PICK i \in 1..Len(ring) : ring[i] = s
    BY <1>2 DEF InRing
  <2>2. i - 1 \in 1..Len(ring) - 1 /\ ring'[i - 1] = ring[(i - 1) + 1]
    BY <1>1, <1>2, <2>1
  <2> QED BY <1>1, <2>1, <2>2 DEF InRing
<1>3. ASSUME InRing(s)'
      PROVE  InRing(s) /\ s # ring[1]
  <2>1. PICK i \in 1..Len(ring') : ring'[i] = s
    BY <1>3 DEF InRing
  <2>2. i + 1 \in 1..Len(ring) /\ ring[i + 1] = s /\ i + 1 # 1 /\ 1 \in 1..Len(ring)
    BY <1>1, <2>1
  <2> QED BY <2>2 DEF InRing, Twice, IoIInv
<1>4. InRing(Head(ring))
  BY <1>1 DEF InRing
<1> QED BY <1>1, <1>2, <1>3, <1>4


LEMMA FinishEntries ==
  ASSUME CompletionTaken, NEW i \in 1..Len(io_results')
  PROVE  \/ i \in 1..Len(io_results) /\ io_results'[i] = io_results[i]
         \/ /\ i = Len(io_results) + 1
            /\ io_results'[i].kind = "success" /\ io_results'[i].on = ring[1]
         \/ /\ i = Len(io_results) + 2
            /\ io_results'[i].kind = "error" /\ io_results'[i].on = IoNone
<1>1. CASE Len(io_results') = Len(io_results) + 1
  BY <1>1 DEF CompletionTaken, Same
<1>2. CASE Len(io_results') = Len(io_results) + 2
  <2>1. i \in 1..Len(io_results) \/ i = Len(io_results) + 1 \/ i = Len(io_results) + 2
    BY <1>2 DEF CompletionTaken
  <2> QED BY <1>2, <2>1 DEF CompletionTaken, Same
<1> QED BY <1>1, <1>2 DEF CompletionTaken


(* What each part of the invariant is about: a step that leaves those variables
   alone keeps it.                                                         *)
LEMMA WithSessionKept ==
  ASSUME WithSession, UNCHANGED <<io_results, act, on_ses>>
  PROVE  WithSession'
BY DEF WithSession


LEMMA TwiceKept ==
  ASSUME Twice, UNCHANGED <<ring, io_results, act, on_ses>>
  PROVE  Twice'
BY DEF Twice


LEMMA OnePlaceKept ==
  ASSUME OnePlace, UNCHANGED <<kernel, ring, io_results, act, on_ses>>
  PROVE  OnePlace'
BY DEF OnePlace, InRing, Waiting, Handed


LEMMA BaseKept ==
  ASSUME Base, UNCHANGED <<event_fd, unbinding, io_mutex, node, poller_stopped, io_results, act>>
  PROVE  Base'
BY DEF Base, Once, Deleting, DeletedResult


LEMMA CountedKept ==
  ASSUME Counted, UNCHANGED <<node, counter, cnt, ring>>
  PROVE  Counted'
BY DEF Counted


LEMMA PhasesKept ==
  ASSUME Phases, UNCHANGED <<io_list, io_mutex, kernel, ring, io_results, act, on_ses, io_phase, io_handled>>
  PROVE  Phases'
BY DEF Phases, PhaseOf, InRing, Waiting, Handed, InHand


LEMMA RefsKept ==
  ASSUME Refs, UNCHANGED <<io_ref, event_fd, act, io_results>>
  PROVE  Refs'
BY DEF Refs, Successes, Holders, HasBase


LEMMA LastOneKept ==
  ASSUME LastOne, UNCHANGED <<io_ref, event_fd, act, flag, io_list>>
  PROVE  LastOne'
BY DEF LastOne


(* Who begins to unbind finds nobody else at it, and leaves the node deleted or
   goes on to close the descriptor (Communicator.cc:1990-2016).            *)
LEMMA UnbindBase ==
  ASSUME IoTypeOK, Base, NEW t \in IoActors, act[t] # "deleted", io_unbind(t),
         UNCHANGED <<event_fd, io_mutex, poller_stopped, io_results>>
  PROVE  Base'
<1>1. /\ ~unbinding /\ unbinding' = TRUE
      /\ node' = IF node = "watched" THEN "deleted" ELSE node
      /\ act' = [act EXCEPT ![t] = IF node = "watched" THEN "idle" ELSE "deleted"]
  BY DEF io_unbind, IoGoto
<1>2. event_fd = 1 /\ ~Deleting
  BY <1>1 DEF Base, IoTypeOK
<1>3. /\ \A i \in 1..Len(io_results) : ~DeletedResult(i) /\ ~DeletedResult(i)'
      /\ \A u \in IoActors : act[u] # "deleted"
      /\ node # "deleted"
  BY <1>2 DEF Deleting, DeletedResult
<1>4. \A u \in IoActors : act'[u] = "deleted" <=> u = t /\ node # "watched"
  BY <1>1, <1>3 DEF IoTypeOK
<1>5. Once' /\ Deleting'
  BY <1>1, <1>3, <1>4 DEF Once, Deleting
<1> QED BY <1>1, <1>2, <1>3, <1>5 DEF Base

LEMMA OnceKept ==
  ASSUME Once, UNCHANGED <<node, io_results>>,
         \A u \in IoActors : act'[u] = "deleted" <=> act[u] = "deleted"
  PROVE  Once' /\ (Deleting' <=> Deleting)
<1>1. \A i \in 1..Len(io_results) : DeletedResult(i)' <=> DeletedResult(i)
  BY DEF DeletedResult
<1>2. Once'
  BY <1>1 DEF Once
<1>3. Deleting' <=> Deleting
  BY <1>1 DEF Deleting
<1> QED BY <1>2, <1>3

LEMMA AppActs ==
  IoApp \in IoActors
BY DEF IoActors

(* The results and the threads that are about a session name one. *)
LEMMA WithSessionStep ==
  ASSUME IoIInv, IoNext
  PROVE  WithSession'
<1>0. /\ IoTypeOK /\ WithSession /\ Twice /\ OnePlace /\ Phases
      /\ Base /\ Refs /\ Counted /\ LastOne
  BY DEF IoIInv
<1>1. ASSUME NEW s \in IoSessions, RequestRefused(s)
      PROVE  WithSession'
  BY <1>1, <1>0, WithSessionKept DEF RequestRefused, io_threads
<1>2. ASSUME NEW s \in IoSessions, Submit(s)
      PROVE  WithSession'
  BY <1>2, <1>0, WithSessionKept DEF Submit, io_threads
<1>3. ASSUME NEW s \in IoSessions, Link(s)
      PROVE  WithSession'
  BY <1>3, <1>0, WithSessionKept DEF Link, io_threads
<1>4. ASSUME NEW s \in IoSessions, KernelDone(s)
      PROVE  WithSession'
  BY <1>4, <1>0, WithSessionKept DEF KernelDone, io_threads
<1>5. CASE HandleEvent
  BY <1>5, <1>0, WithSessionKept DEF HandleEvent, io_threads
<1>6. CASE aio_finish
  <2>1. CompletionTaken
    BY <1>6, FinishEffect
  <2>2. ring[1] \in IoSessions
    BY <2>1 DEF CompletionTaken
  <2>3. \A i \in 1..Len(io_results') :
          io_results'[i].kind = "success" <=> io_results'[i].on \in IoSessions
    BY <1>0, <2>1, <2>2, FinishEntries, IoAssumption DEF WithSession
  <2> QED BY <1>6, <1>0, <2>3 DEF aio_finish, io_threads, WithSession
<1>7. CASE EventError
  <2>1. ResultPut("error")
    BY <1>7, PutEffect DEF EventError, IoKinds
  <2> QED BY <1>7, <1>0, <2>1, IoAssumption DEF EventError, io_threads,
       ResultPut, Same, WithSession
<1>8. CASE EventDeleted
  <2>1. ResultPut("deleted")
    BY <1>8, PutEffect DEF EventDeleted, IoKinds
  <2> QED BY <1>8, <1>0, <2>1, IoAssumption DEF EventDeleted, io_threads,
       ResultPut, Same, WithSession
<1>9. CASE PollerStop
  <2>1. /\ node = "none" => UNCHANGED io_results
        /\ node # "none" => ResultPut(IF node = "watched" THEN "stopped" ELSE "deleted")
    BY <1>9, StopEffect
  <2> QED BY <1>9, <1>0, <2>1, IoAssumption DEF PollerStop, io_threads,
       ResultPut, Same, WithSession
<1>10. ASSUME NEW t \in IoActors, IoGet(t)
      PROVE  WithSession'
  <2>1. ResultTaken(t)
    BY <1>10, GetEffect
  <2>2. io_results[1].kind = "success" <=> io_results[1].on \in IoSessions
    BY <1>0, <2>1 DEF ResultTaken, WithSession
  <2>3. \A i \in 1..Len(io_results') :
          io_results'[i].kind = "success" <=> io_results'[i].on \in IoSessions
    BY <1>0, <2>1 DEF ResultTaken, WithSession
  <2> QED BY <1>0, <2>1, <2>2, <2>3 DEF ResultTaken, IoKinds, WithSession,
       IoTypeOK
<1>11. ASSUME NEW t \in IoActors, HandleSuccess(t)
      PROVE  WithSession'
  <2>1. \A u \in IoActors : act'[u] \in {"success", "handle"} => act[u] \in {"success", "handle"}
    BY <1>11, <1>0 DEF HandleSuccess, IoGoto, IoTypeOK
  <2> QED BY <1>11, <1>0, <2>1 DEF HandleSuccess, WithSession
<1>12. ASSUME NEW t \in IoActors, HandleSession(t)
      PROVE  WithSession'
  <2>1. \A u \in IoActors : act'[u] \in {"success", "handle"} => act[u] \in {"success", "handle"}
    BY <1>12, <1>0 DEF HandleSession, IoGoto, IoTypeOK
  <2> QED BY <1>12, <1>0, <2>1 DEF HandleSession, WithSession
<1>13. ASSUME NEW t \in IoActors, handle_stop(t)
      PROVE  WithSession'
  <2>1. \A u \in IoActors : act'[u] \in {"success", "handle"} => act[u] \in {"success", "handle"}
    BY <1>13, <1>0 DEF handle_stop, io_unbind, IoGoto, IoTypeOK
  <2> QED BY <1>13, <1>0, <2>1 DEF handle_stop, WithSession
<1>14. ASSUME NEW t \in IoActors, shutdown_io_service(t)
      PROVE  WithSession'
  <2>1. \A u \in IoActors : act'[u] \in {"success", "handle"} => act[u] \in {"success", "handle"}
    BY <1>14, <1>0 DEF shutdown_io_service, IoGoto, IoTypeOK
  <2> QED BY <1>14, <1>0, <2>1 DEF shutdown_io_service, WithSession
<1>15. ASSUME NEW t \in IoActors, decref(t)
      PROVE  WithSession'
  <2>1. \A u \in IoActors : act'[u] \in {"success", "handle"} => act[u] \in {"success", "handle"}
    BY <1>15, <1>0 DEF decref, AfterDecref, IoGoto, IoTypeOK
  <2> QED BY <1>15, <1>0, <2>1 DEF decref, WithSession
<1>16. ASSUME NEW t \in IoActors, DrainOne(t)
      PROVE  WithSession'
  BY <1>16, <1>0, WithSessionKept DEF DrainOne, io_threads
<1>17. ASSUME NEW t \in IoActors, handle_unbound(t)
      PROVE  WithSession'
  <2>1. \A u \in IoActors : act'[u] \in {"success", "handle"} => act[u] \in {"success", "handle"}
    BY <1>17, <1>0 DEF handle_unbound, IoGoto, IoTypeOK
  <2> QED BY <1>17, <1>0, <2>1 DEF handle_unbound, WithSession
<1>18. CASE OwnerUnbinds
  <2>1. \A u \in IoActors : act'[u] \in {"success", "handle"} => act[u] \in {"success", "handle"}
    BY <1>18, <1>0 DEF OwnerUnbinds, io_unbind, IoGoto, IoTypeOK
  <2> QED BY <1>18, <1>0, <2>1 DEF OwnerUnbinds, WithSession
<1>19. CASE ServiceDeinit
  BY <1>19, <1>0, WithSessionKept DEF ServiceDeinit, io_threads
<1>20. CASE IoFinished
  BY SMTT(30), <1>20, <1>0, WithSessionKept DEF IoFinished, io_vars, io_threads
<1> QED BY SMTT(30), <1>1, <1>2, <1>3, <1>4, <1>5, <1>6, <1>7, <1>8, <1>9, <1>10, <1>11,
     <1>12, <1>13, <1>14, <1>15, <1>16, <1>17, <1>18, <1>19, <1>20 DEF IoNext,
     IoRequest, IoPoller, IoHandler

(* Who deletes the node is one thread, and the only one to close the descriptor
   (Communicator.cc:1990-2016). *)
LEMMA BaseStep ==
  ASSUME IoIInv, IoNext
  PROVE  Base'
<1>0. /\ IoTypeOK /\ WithSession /\ Twice /\ OnePlace /\ Phases
      /\ Base /\ Refs /\ Counted /\ LastOne
  BY DEF IoIInv
<1>1. ASSUME NEW s \in IoSessions, RequestRefused(s)
      PROVE  Base'
  BY <1>1, <1>0, BaseKept DEF RequestRefused, io_service, io_poller,
       io_threads
<1>2. ASSUME NEW s \in IoSessions, Submit(s)
      PROVE  Base'
  BY <1>2, <1>0, IoAssumption DEF Submit, io_poller, io_threads, Base, Once,
       Deleting, DeletedResult, IoTypeOK
<1>3. ASSUME NEW s \in IoSessions, Link(s)
      PROVE  Base'
  BY <1>3, <1>0, IoAssumption DEF Link, io_queues, io_poller, io_threads,
       Base, Once, Deleting, DeletedResult, IoTypeOK
<1>4. ASSUME NEW s \in IoSessions, KernelDone(s)
      PROVE  Base'
  BY <1>4, <1>0, BaseKept DEF KernelDone, io_service, io_poller, io_threads
<1>5. CASE HandleEvent
  BY <1>5, <1>0, BaseKept DEF HandleEvent, io_service, io_threads
<1>6. CASE aio_finish
  <2>1. CompletionTaken
    BY <1>6, FinishEffect
  <2>2. \A i \in 1..Len(io_results') :
          DeletedResult(i)' <=> i \in 1..Len(io_results) /\ DeletedResult(i)
    BY <2>1 DEF CompletionTaken, Same, DeletedResult
  <2>3. Len(io_results) \in Nat /\ Len(io_results') \in Nat /\ Len(io_results) <= Len(io_results')
    BY <2>1 DEF CompletionTaken
  <2>4. node' = "deleted" <=> node = "deleted"
    BY <2>1 DEF CompletionTaken
  <2>5. UNCHANGED act
    BY <1>6 DEF aio_finish, io_threads
  <2>6. Once'
    BY <1>0, <2>2, <2>3, <2>4, <2>5 DEF Base, Once
  <2>7. Deleting' <=> Deleting
    BY <2>2, <2>3, <2>4, <2>5 DEF Deleting
  <2>8. node' = "none" /\ node = "watched" =>
          \E i \in 1..Len(io_results') : io_results'[i].kind \in {"error", "stopped"}
    BY <2>1 DEF CompletionTaken
  <2>9. \A i \in 1..Len(io_results) : i \in 1..Len(io_results') /\ io_results'[i].kind = io_results[i].kind
    BY <2>1, <2>3 DEF CompletionTaken, Same
  <2>10. node' = node \/ (node = "watched" /\ node' = "none")
    BY <2>1 DEF CompletionTaken
  <2> QED BY Zenon, <1>6, <1>0, <2>6, <2>7, <2>8, <2>9, <2>10 DEF aio_finish,
       io_threads, Base
<1>7. CASE EventError
  BY SMTT(30), <1>7, <1>0, IoAssumption DEF EventError, IoPut, io_service, io_queues,
       io_threads, io_sessions, Base, Once, Deleting, DeletedResult, IoTypeOK
<1>8. CASE EventDeleted
  BY <1>8, <1>0, IoAssumption DEF EventDeleted, IoPut, io_service, io_queues,
       io_threads, io_sessions, Base, Once, Deleting, DeletedResult, IoTypeOK
<1>9. CASE PollerStop
  <2>1. /\ node = "none" => UNCHANGED io_results
        /\ node # "none" => ResultPut(IF node = "watched" THEN "stopped" ELSE "deleted")
    BY <1>9, StopEffect
  <2>2. CASE node = "none"
    BY <1>9, <1>0, <2>1, <2>2 DEF PollerStop, io_service, io_threads, Base,
         Once, Deleting, DeletedResult
  <2>3. CASE node = "watched"
    <3>1. ResultPut("stopped")
      BY <2>1, <2>3
    <3>2. \A i \in 1..Len(io_results') :
            DeletedResult(i)' <=> i \in 1..Len(io_results) /\ DeletedResult(i)
      BY <3>1 DEF ResultPut, Same, DeletedResult
    <3>3. Len(io_results) \in Nat /\ Len(io_results') = Len(io_results) + 1
      BY <3>1 DEF ResultPut
    <3>4. UNCHANGED <<act, event_fd, unbinding, io_mutex>> /\ node' = "none"
      BY <1>9 DEF PollerStop, io_service, io_threads
    <3>5. Once'
      BY <1>0, <2>3, <3>2, <3>3, <3>4 DEF Base, Once
    <3>6. Deleting' <=> Deleting
      BY <2>3, <3>2, <3>3, <3>4 DEF Deleting
    <3>7. \E i \in 1..Len(io_results') : io_results'[i].kind \in {"error", "stopped"}
      BY <3>1 DEF ResultPut
    <3> QED BY <1>0, <3>4, <3>5, <3>6, <3>7 DEF Base
  <2>4. CASE node = "deleted"
    <3>1. ResultPut("deleted")
      BY <2>1, <2>4
    <3>2. \A i \in 1..Len(io_results') :
            DeletedResult(i)' <=> i = Len(io_results) + 1 \/ (i \in 1..Len(io_results) /\ DeletedResult(i))
      BY <3>1 DEF ResultPut, Same, DeletedResult
    <3>3. Len(io_results) \in Nat /\ Len(io_results') = Len(io_results) + 1
      BY <3>1 DEF ResultPut
    <3>4. UNCHANGED <<act, event_fd, unbinding, io_mutex>> /\ node' = "none"
      BY <1>9 DEF PollerStop, io_service, io_threads
    <3>5. Once'
      BY <1>0, <2>4, <3>2, <3>3, <3>4 DEF Base, Once
    <3>6. Deleting /\ Deleting'
      BY <2>4, <3>2, <3>3, <3>4 DEF Deleting
    <3> QED BY <1>0, <3>4, <3>5, <3>6 DEF Base
  <2> QED BY <1>0, <2>2, <2>3, <2>4 DEF IoTypeOK
<1>10. ASSUME NEW t \in IoActors, IoGet(t)
      PROVE  Base'
  <2>1. ResultTaken(t)
    BY <1>10, GetEffect
  <2>2. /\ Len(io_results) \in Nat \ {0} /\ Len(io_results') = Len(io_results) - 1
        /\ \A i \in 1..Len(io_results') :
             i + 1 \in 1..Len(io_results) /\ io_results'[i] = io_results[i + 1]
    BY <2>1 DEF ResultTaken
  <2>3. \A u \in IoActors : act'[u] = IF u = t THEN io_results[1].kind ELSE act[u]
    BY <1>0, <2>1 DEF ResultTaken, IoTypeOK
  <2>4. act[t] = "idle" /\ 1 \in 1..Len(io_results)
    BY <2>1 DEF ResultTaken
  <2>5. \A i \in 1..Len(io_results') : DeletedResult(i)' <=> DeletedResult(i + 1)
    BY <2>2 DEF DeletedResult
  <2>6. act'[t] = "deleted" <=> DeletedResult(1)
    BY <2>3 DEF DeletedResult
  <2>7. \A i \in 1..Len(io_results) : i = 1 \/ (i - 1 \in 1..Len(io_results') /\ (i - 1) + 1 = i)
    BY <2>2
  <2>8. UNCHANGED <<node, unbinding, event_fd, io_mutex, poller_stopped>>
    BY <1>10 DEF IoGet, io_service, io_poller
  <2>9. Once'
    <3>1. \A i, j \in 1..Len(io_results') : DeletedResult(i)' /\ DeletedResult(j)' => i = j
      <4> TAKE i, j \in 1..Len(io_results')
      <4>1. i + 1 \in 1..Len(io_results) /\ j + 1 \in 1..Len(io_results)
        BY <2>2
      <4>2. DeletedResult(i + 1) /\ DeletedResult(j + 1) => i + 1 = j + 1
        BY <1>0, <4>1 DEF Base, Once
      <4> QED BY <2>2, <2>5, <4>2
    <3>2. \A u, v \in IoActors : act'[u] = "deleted" /\ act'[v] = "deleted" => u = v
      BY <1>0, <2>3, <2>4, <2>6 DEF Base, Once
    <3>3. \A i \in 1..Len(io_results'), u \in IoActors : ~(DeletedResult(i)' /\ act'[u] = "deleted")
      <4> TAKE i \in 1..Len(io_results'), u \in IoActors
      <4>1. i + 1 \in 1..Len(io_results) /\ i + 1 # 1
        BY <2>2
      <4>2. DeletedResult(i + 1) => ~DeletedResult(1) /\ act[u] # "deleted"
        BY <1>0, <2>4, <4>1 DEF Base, Once
      <4> QED BY <2>3, <2>5, <2>6, <4>2
    <3>4. node' = "deleted" => /\ \A i \in 1..Len(io_results') : ~DeletedResult(i)'
                               /\ \A u \in IoActors : act'[u] # "deleted"
      BY SMTT(30), <1>0, <2>2, <2>3, <2>4, <2>5, <2>6, <2>8 DEF Base, Once
    <3> QED BY <3>1, <3>2, <3>3, <3>4 DEF Once
  <2>10. Deleting' => Deleting
    BY SMTT(30), <2>2, <2>3, <2>4, <2>5, <2>6, <2>8 DEF Deleting
  <2>11. Deleting => Deleting'
    <3>1. ASSUME NEW i \in 1..Len(io_results), DeletedResult(i)
          PROVE  Deleting'
      <4>1. CASE i = 1
        BY <2>6, <3>1, <4>1 DEF Deleting
      <4>2. CASE i # 1
        <5>1. i - 1 \in 1..Len(io_results') /\ DeletedResult(i - 1)'
          BY <2>5, <2>7, <3>1, <4>2
        <5> QED BY <5>1 DEF Deleting
      <4> QED BY <4>1, <4>2
    <3> QED BY <2>3, <2>4, <2>8, <3>1 DEF Deleting
  <2>12. ASSUME NEW i \in 1..Len(io_results), io_results[i].kind \in {"error", "stopped"}
        PROVE  \/ \E j \in 1..Len(io_results') : io_results'[j].kind \in {"error", "stopped"}
               \/ \E u \in IoActors : act'[u] \in {"error", "stopped"}
    <3>1. CASE i = 1
      BY <2>3, <2>12, <3>1
    <3>2. CASE i # 1
      <4>1. i - 1 \in 1..Len(io_results') /\ io_results'[i - 1] = io_results[i]
        BY <2>2, <2>7, <3>2
      <4> QED BY <2>12, <4>1
    <3> QED BY <3>1, <3>2
  <2>13. \A u \in IoActors : act[u] \in {"error", "stopped"} => act'[u] \in {"error", "stopped"}
    BY <2>3, <2>4
  <2> QED BY <1>0, <2>8, <2>9, <2>10, <2>11, <2>12, <2>13 DEF Base
<1>11. ASSUME NEW t \in IoActors, HandleSuccess(t)
      PROVE  Base'
  <2>1. UNCHANGED <<event_fd, unbinding, io_mutex, node, poller_stopped, io_results>>
    BY <1>11 DEF HandleSuccess, io_service, io_poller
  <2>2. \A u \in IoActors : act'[u] = "deleted" <=> act[u] = "deleted"
    BY <1>11, <1>0 DEF HandleSuccess, IoGoto, IoTypeOK
  <2>3. \A u \in IoActors : act'[u] \in {"error", "stopped"} <=> act[u] \in {"error", "stopped"}
    BY <1>11, <1>0 DEF HandleSuccess, IoGoto, IoTypeOK
  <2>4. Once
    BY <1>0 DEF Base
  <2>5. Once' /\ (Deleting' <=> Deleting)
    BY SMTT(30), <2>1, <2>2, <2>4, OnceKept
  <2> QED BY <1>0, <2>1, <2>3, <2>5 DEF Base
<1>12. ASSUME NEW t \in IoActors, HandleSession(t)
      PROVE  Base'
  <2>1. UNCHANGED <<event_fd, unbinding, io_mutex, node, poller_stopped, io_results>>
    BY <1>12 DEF HandleSession, io_service, io_poller
  <2>2. \A u \in IoActors : act'[u] = "deleted" <=> act[u] = "deleted"
    BY <1>12, <1>0 DEF HandleSession, IoGoto, io_service, IoTypeOK
  <2>3. \A u \in IoActors : act'[u] \in {"error", "stopped"} <=> act[u] \in {"error", "stopped"}
    BY <1>12, <1>0 DEF HandleSession, IoGoto, io_service, IoTypeOK
  <2>4. Once
    BY <1>0 DEF Base
  <2>5. Once' /\ (Deleting' <=> Deleting)
    BY <2>1, <2>2, <2>4, OnceKept
  <2> QED BY <1>0, <2>1, <2>3, <2>5 DEF Base
<1>13. ASSUME NEW t \in IoActors, handle_stop(t)
      PROVE  Base'
  <2>1. /\ act[t] # "deleted"
        /\ UNCHANGED <<event_fd, io_mutex, poller_stopped, io_results>>
    BY <1>13 DEF handle_stop, io_service
  <2>2. CASE io_unbind(t)
    BY <1>0, <2>1, <2>2, UnbindBase
  <2>3. CASE unbinding /\ act' = [act EXCEPT ![t] = "idle"] /\ UNCHANGED <<unbinding, node>>
    <3>1. \A u \in IoActors : act'[u] = "deleted" <=> act[u] = "deleted"
      BY <1>0, <2>1, <2>3 DEF IoTypeOK
    <3>2. Once' /\ (Deleting' <=> Deleting)
      BY <1>0, <2>1, <2>3, <3>1, OnceKept DEF Base
    <3> QED BY <1>0, <2>1, <2>3, <3>2 DEF Base
  <2> QED BY <1>13, <2>2, <2>3 DEF handle_stop, IoGoto
<1>14. ASSUME NEW t \in IoActors, shutdown_io_service(t)
      PROVE  Base'
  <2>1. /\ act[t] = "deleted" /\ act' = [act EXCEPT ![t] = "decref"]
        /\ event_fd' = 0 /\ io_mutex = IoNone
        /\ UNCHANGED <<io_mutex, io_results, unbinding, node, poller_stopped>>
    BY <1>14 DEF shutdown_io_service, IoGoto, io_poller
  <2>2. unbinding /\ node # "deleted" /\ \A i \in 1..Len(io_results) : ~DeletedResult(i)
    BY <1>0, <2>1 DEF Base, Once, Deleting
  <2>3. \A u \in IoActors : act'[u] # "deleted"
    BY <1>0, <2>1 DEF Base, Once, IoTypeOK
  <2>4. Once' /\ ~Deleting'
    BY <2>1, <2>2, <2>3 DEF Once, Deleting, DeletedResult
  <2> QED BY <1>0, <2>1, <2>2, <2>4 DEF Base
<1>15. ASSUME NEW t \in IoActors, decref(t)
      PROVE  Base'
  <2>1. UNCHANGED <<event_fd, unbinding, io_mutex, node, poller_stopped, io_results>>
    BY <1>15 DEF decref, io_service, io_poller
  <2>2. \A u \in IoActors : act'[u] = "deleted" <=> act[u] = "deleted"
    BY <1>15, <1>0 DEF decref, IoGoto, AfterDecref, IoTypeOK
  <2>3. \A u \in IoActors : act'[u] \in {"error", "stopped"} <=> act[u] \in {"error", "stopped"}
    BY <1>15, <1>0 DEF decref, IoGoto, AfterDecref, IoTypeOK
  <2>4. Once
    BY <1>0 DEF Base
  <2>5. Once' /\ (Deleting' <=> Deleting)
    BY <2>1, <2>2, <2>4, OnceKept
  <2> QED BY <1>0, <2>1, <2>3, <2>5 DEF Base
<1>16. ASSUME NEW t \in IoActors, DrainOne(t)
      PROVE  Base'
  BY <1>16, <1>0, BaseKept DEF DrainOne, io_poller, io_threads
<1>17. ASSUME NEW t \in IoActors, handle_unbound(t)
      PROVE  Base'
  <2>1. UNCHANGED <<event_fd, unbinding, io_mutex, node, poller_stopped, io_results>>
    BY <1>17 DEF handle_unbound, io_service, io_poller
  <2>2. \A u \in IoActors : act'[u] = "deleted" <=> act[u] = "deleted"
    BY <1>17, <1>0 DEF handle_unbound, IoGoto, IoTypeOK
  <2>3. \A u \in IoActors : act'[u] \in {"error", "stopped"} <=> act[u] \in {"error", "stopped"}
    BY <1>17, <1>0 DEF handle_unbound, IoGoto, IoTypeOK
  <2>4. Once
    BY <1>0 DEF Base
  <2>5. Once' /\ (Deleting' <=> Deleting)
    BY <2>1, <2>2, <2>4, OnceKept
  <2> QED BY <1>0, <2>1, <2>3, <2>5 DEF Base
<1>18. CASE OwnerUnbinds
  <2>1. act[IoApp] # "deleted" /\ io_unbind(IoApp)
    BY <1>18 DEF OwnerUnbinds
  <2>2. UNCHANGED <<event_fd, io_mutex, poller_stopped, io_results>>
    BY <1>18 DEF OwnerUnbinds, io_service
  <2> QED BY <1>0, <2>1, <2>2, UnbindBase, AppActs
<1>19. CASE ServiceDeinit
  BY <1>19, <1>0, BaseKept DEF ServiceDeinit, io_poller, io_threads
<1>20. CASE IoFinished
  BY SMTT(30), <1>20, <1>0, BaseKept DEF IoFinished, io_vars, io_service, io_poller,
       io_threads
<1> QED BY <1>1, <1>2, <1>3, <1>4, <1>5, <1>6, <1>7, <1>8, <1>9, <1>10, <1>11,
     <1>12, <1>13, <1>14, <1>15, <1>16, <1>17, <1>18, <1>19, <1>20 DEF IoNext,
     IoRequest, IoPoller, IoHandler

(* No operation is in the ring, in the queue or with the threads twice. *)
LEMMA TwiceStep ==
  ASSUME IoIInv, IoNext
  PROVE  Twice'
<1>0. /\ IoTypeOK /\ WithSession /\ Twice /\ OnePlace /\ Phases
      /\ Base /\ Refs /\ Counted /\ LastOne
  BY DEF IoIInv
<1>1. ASSUME NEW s \in IoSessions, RequestRefused(s)
      PROVE  Twice'
  BY <1>1, <1>0, TwiceKept DEF RequestRefused, io_queues, io_threads
<1>2. ASSUME NEW s \in IoSessions, Submit(s)
      PROVE  Twice'
  BY <1>2, <1>0, TwiceKept DEF Submit, io_threads
<1>3. ASSUME NEW s \in IoSessions, Link(s)
      PROVE  Twice'
  BY <1>3, <1>0, TwiceKept DEF Link, io_queues, io_threads
<1>4. ASSUME NEW s \in IoSessions, KernelDone(s)
      PROVE  Twice'
  <2>1. \A i, j \in 1..Len(ring') : ring'[i] = ring'[j] => i = j
    <3>1. /\ Len(ring') = Len(ring) + 1 /\ Len(ring) \in Nat
          /\ \A i \in 1..Len(ring) : ring'[i] = ring[i]
          /\ ring'[Len(ring) + 1] = s
      BY <1>4, <1>0, Appended DEF KernelDone, IoTypeOK
    <3>2. \A i \in 1..Len(ring) : ring[i] # s
      BY <1>4, <1>0 DEF KernelDone, OnePlace, InRing
    <3> QED BY <1>0, <3>1, <3>2 DEF Twice
  <2> QED BY <1>4, <1>0, <2>1 DEF KernelDone, io_threads, Twice
<1>5. CASE HandleEvent
  BY <1>5, <1>0, TwiceKept DEF HandleEvent, io_threads
<1>6. CASE aio_finish
  <2>1. CompletionTaken
    BY <1>6, FinishEffect
  <2>2. \A i, j \in 1..Len(ring') : ring'[i] = ring'[j] => i = j
    <3> TAKE i, j \in 1..Len(ring')
    <3>1. /\ ring'[i] = ring[i + 1] /\ ring'[j] = ring[j + 1]
          /\ i + 1 \in 1..Len(ring) /\ j + 1 \in 1..Len(ring)
      BY SMTT(30), <2>1 DEF CompletionTaken
    <3>2. ring[i + 1] = ring[j + 1] => i + 1 = j + 1
      BY <1>0, <3>1 DEF Twice
    <3> QED BY <2>1, <3>1, <3>2 DEF CompletionTaken
  <2>3. \A i \in 1..Len(io_results) : io_results[i].on # ring[1]
    <3>1. InRing(ring[1]) /\ ring[1] \in IoSessions
      BY <2>1 DEF CompletionTaken, InRing
    <3> QED BY <1>0, <3>1 DEF OnePlace, Waiting
  <2>4. \A i, j \in 1..Len(io_results') :
          io_results'[i].kind = "success" /\ io_results'[i].on = io_results'[j].on => i = j
    <3> TAKE i, j \in 1..Len(io_results')
    <3>1. ring[1] \in IoSessions
      BY <2>1 DEF CompletionTaken
    <3>2. CASE i \in 1..Len(io_results) /\ io_results'[i] = io_results[i]
      BY SMTT(30), <1>0, <2>1, <2>3, <3>2, FinishEntries, IoAssumption DEF Twice,
           WithSession
    <3>3. CASE i = Len(io_results) + 1 /\ io_results'[i].on = ring[1]
      BY SMTT(30), <1>0, <2>1, <2>3, <3>1, <3>3, FinishEntries, IoAssumption
    <3> QED BY <2>1, <3>2, <3>3, FinishEntries
  <2> QED BY <1>6, <1>0, <2>2, <2>4 DEF aio_finish, io_threads, Twice
<1>7. CASE EventError
  BY SMTT(30), <1>7, <1>0, IoAssumption DEF EventError, IoPut, io_service, io_queues,
       io_threads, io_sessions, Twice, WithSession, IoTypeOK
<1>8. CASE EventDeleted
  BY <1>8, <1>0, IoAssumption DEF EventDeleted, IoPut, io_service, io_queues,
       io_threads, io_sessions, Twice, WithSession, IoTypeOK
<1>9. CASE PollerStop
  <2>1. /\ node = "none" => UNCHANGED io_results
        /\ node # "none" => ResultPut(IF node = "watched" THEN "stopped" ELSE "deleted")
    BY <1>9, StopEffect
  <2> QED BY SMTT(30), <1>9, <1>0, <2>1, IoAssumption DEF PollerStop, io_queues,
       io_threads, ResultPut, Same, Twice, WithSession
<1>10. ASSUME NEW t \in IoActors, IoGet(t)
      PROVE  Twice'
  <2>1. ResultTaken(t)
    BY <1>10, GetEffect
  <2>2. io_results[1].kind = "success" =>
          \A u \in IoActors : act[u] \in {"success", "handle"} => on_ses[u] # io_results[1].on
    BY SMTT(30), <1>0, <2>1 DEF ResultTaken, OnePlace, Handed, Waiting, WithSession
  <2>3. \A i, j \in 1..Len(io_results') :
          io_results'[i].kind = "success" /\ io_results'[i].on = io_results'[j].on => i = j
    <3> TAKE i, j \in 1..Len(io_results')
    <3>1. /\ io_results'[i] = io_results[i + 1] /\ io_results'[j] = io_results[j + 1]
          /\ i + 1 \in 1..Len(io_results) /\ j + 1 \in 1..Len(io_results)
      BY <2>1 DEF ResultTaken
    <3>2. io_results[i + 1].kind = "success" /\ io_results[i + 1].on = io_results[j + 1].on
            => i + 1 = j + 1
      BY <1>0, <3>1 DEF Twice
    <3>3. i + 1 = j + 1 => i = j
      BY SMTT(30), <2>1 DEF ResultTaken
    <3> QED BY <3>1, <3>2, <3>3
  <2>4. /\ \A u \in IoActors : u # t => act'[u] = act[u] /\ on_ses'[u] = on_ses[u]
        /\ act'[t] \in {"success", "handle"} => io_results[1].kind = "success"
        /\ on_ses'[t] = io_results[1].on
    BY SMTT(30), <1>0, <2>1 DEF ResultTaken, IoKinds, IoTypeOK
  <2>5. \A u, v \in IoActors :
          /\ act'[u] \in {"success", "handle"} /\ act'[v] \in {"success", "handle"}
          /\ on_ses'[u] = on_ses'[v]
          => u = v
    BY SMTT(30), <1>0, <2>2, <2>4 DEF Twice
  <2> QED BY ZenonT(60), <1>10, <1>0, <2>3, <2>5 DEF IoGet, io_queues, Twice
<1>11. ASSUME NEW t \in IoActors, HandleSuccess(t)
      PROVE  Twice'
  <2>1. \A u \in IoActors : act'[u] \in {"success", "handle"} => act[u] \in {"success", "handle"}
    BY <1>11, <1>0 DEF HandleSuccess, IoGoto, IoTypeOK
  <2> QED BY SMTT(30), <1>11, <1>0, <2>1 DEF HandleSuccess, io_queues, Twice
<1>12. ASSUME NEW t \in IoActors, HandleSession(t)
      PROVE  Twice'
  <2>1. \A u \in IoActors : act'[u] \in {"success", "handle"} => act[u] \in {"success", "handle"}
    BY <1>12, <1>0 DEF HandleSession, IoGoto, IoTypeOK
  <2> QED BY SMTT(30), <1>12, <1>0, <2>1 DEF HandleSession, io_queues, Twice
<1>13. ASSUME NEW t \in IoActors, handle_stop(t)
      PROVE  Twice'
  <2>1. \A u \in IoActors : act'[u] \in {"success", "handle"} => act[u] \in {"success", "handle"}
    BY <1>13, <1>0 DEF handle_stop, io_unbind, IoGoto, IoTypeOK
  <2> QED BY SMTT(30), <1>13, <1>0, <2>1 DEF handle_stop, io_queues, Twice
<1>14. ASSUME NEW t \in IoActors, shutdown_io_service(t)
      PROVE  Twice'
  <2>1. \A u \in IoActors : act'[u] \in {"success", "handle"} => act[u] \in {"success", "handle"}
    BY <1>14, <1>0 DEF shutdown_io_service, IoGoto, IoTypeOK
  <2> QED BY SMTT(30), <1>14, <1>0, <2>1 DEF shutdown_io_service, io_queues, Twice
<1>15. ASSUME NEW t \in IoActors, decref(t)
      PROVE  Twice'
  <2>1. \A u \in IoActors : act'[u] \in {"success", "handle"} => act[u] \in {"success", "handle"}
    BY <1>15, <1>0 DEF decref, AfterDecref, IoGoto, IoTypeOK
  <2> QED BY SMTT(30), <1>15, <1>0, <2>1 DEF decref, io_queues, Twice
<1>16. ASSUME NEW t \in IoActors, DrainOne(t)
      PROVE  Twice'
  BY SMTT(30), <1>16, <1>0, IoAssumption DEF DrainOne, EndOf, io_poller, io_threads,
       Twice, WithSession, IoTypeOK
<1>17. ASSUME NEW t \in IoActors, handle_unbound(t)
      PROVE  Twice'
  <2>1. \A u \in IoActors : act'[u] \in {"success", "handle"} => act[u] \in {"success", "handle"}
    BY <1>17, <1>0 DEF handle_unbound, IoGoto, IoTypeOK
  <2> QED BY SMTT(30), <1>17, <1>0, <2>1 DEF handle_unbound, io_queues, Twice
<1>18. CASE OwnerUnbinds
  <2>1. \A u \in IoActors : act'[u] \in {"success", "handle"} => act[u] \in {"success", "handle"}
    BY <1>18, <1>0 DEF OwnerUnbinds, io_unbind, IoGoto, IoTypeOK
  <2> QED BY <1>18, <1>0, <2>1 DEF OwnerUnbinds, io_queues, Twice
<1>19. CASE ServiceDeinit
  BY <1>19, <1>0, TwiceKept DEF ServiceDeinit, io_queues, io_threads
<1>20. CASE IoFinished
  BY SMTT(30), <1>20, <1>0, TwiceKept DEF IoFinished, io_vars, io_queues, io_threads
<1> QED BY <1>1, <1>2, <1>3, <1>4, <1>5, <1>6, <1>7, <1>8, <1>9, <1>10, <1>11,
     <1>12, <1>13, <1>14, <1>15, <1>16, <1>17, <1>18, <1>19, <1>20 DEF IoNext,
     IoRequest, IoPoller, IoHandler

(* An operation goes from the kernel to the ring, to the queue, to a thread. *)
LEMMA OnePlaceStep ==
  ASSUME IoIInv, IoNext
  PROVE  OnePlace'
<1>0. /\ IoTypeOK /\ WithSession /\ Twice /\ OnePlace /\ Phases
      /\ Base /\ Refs /\ Counted /\ LastOne
  BY DEF IoIInv
<1>1. ASSUME NEW s \in IoSessions, RequestRefused(s)
      PROVE  OnePlace'
  BY <1>1, <1>0, OnePlaceKept DEF RequestRefused, io_queues, io_threads
<1>2. ASSUME NEW s \in IoSessions, Submit(s)
      PROVE  OnePlace'
  <2>1. ~InRing(s) /\ ~Waiting(s) /\ ~Handed(s)
    BY <1>2, <1>0 DEF Submit, Phases, PhaseOf
  <2>2. \A r \in IoSessions :
          (InRing(r)' <=> InRing(r)) /\ (Waiting(r)' <=> Waiting(r)) /\ (Handed(r)' <=> Handed(r))
    BY <1>2 DEF Submit, io_threads, InRing, Waiting, Handed
  <2> QED BY SMTT(30), <1>2, <1>0, <2>1, <2>2 DEF Submit, OnePlace
<1>3. ASSUME NEW s \in IoSessions, Link(s)
      PROVE  OnePlace'
  BY <1>3, <1>0, OnePlaceKept DEF Link, io_queues, io_threads
<1>4. ASSUME NEW s \in IoSessions, KernelDone(s)
      PROVE  OnePlace'
  <2>1. \A r \in IoSessions : (Waiting(r)' <=> Waiting(r)) /\ (Handed(r)' <=> Handed(r))
    BY <1>4 DEF KernelDone, io_threads, Waiting, Handed
  <2> QED BY SMTT(30), <1>4, <1>0, <2>1, DoneMoves DEF KernelDone, OnePlace
<1>5. CASE HandleEvent
  BY SMTT(30), <1>5, <1>0, OnePlaceKept DEF HandleEvent, io_threads
<1>6. CASE aio_finish
  <2>1. \A r \in IoSessions : Handed(r)' <=> Handed(r)
    BY <1>6 DEF aio_finish, io_threads, Handed
  <2> QED BY SMTT(30), <1>6, <1>0, <2>1, FinishMoves DEF aio_finish, OnePlace
<1>7. CASE EventError
  <2>1. ResultPut("error")
    BY <1>7, PutEffect DEF EventError, IoKinds
  <2>2. \A r \in IoSessions :
          (Waiting(r)' <=> Waiting(r)) /\ (Handed(r)' <=> Handed(r)) /\ (InRing(r)' <=> InRing(r))
    BY <1>7, <2>1, PutMoves DEF EventError, io_threads, io_queues, IoKinds,
         Handed, InRing
  <2>3. UNCHANGED kernel
    BY SMTT(30), <1>7 DEF EventError, io_queues
  <2> QED BY <1>0, <2>2, <2>3 DEF OnePlace
<1>8. CASE EventDeleted
  <2>1. ResultPut("deleted")
    BY <1>8, PutEffect DEF EventDeleted, IoKinds
  <2>2. \A r \in IoSessions :
          (Waiting(r)' <=> Waiting(r)) /\ (Handed(r)' <=> Handed(r)) /\ (InRing(r)' <=> InRing(r))
    BY <1>8, <2>1, PutMoves DEF EventDeleted, io_threads, io_queues, IoKinds,
         Handed, InRing
  <2>3. UNCHANGED kernel
    BY <1>8 DEF EventDeleted, io_queues
  <2> QED BY <1>0, <2>2, <2>3 DEF OnePlace
<1>9. CASE PollerStop
  <2>1. \A r \in IoSessions : (Handed(r)' <=> Handed(r)) /\ (InRing(r)' <=> InRing(r))
    BY <1>9 DEF PollerStop, io_threads, io_queues, Handed, InRing
  <2> QED BY <1>9, <1>0, <2>1, StopMoves DEF PollerStop, io_queues, OnePlace
<1>10. ASSUME NEW t \in IoActors, IoGet(t)
      PROVE  OnePlace'
  <2>1. \A r \in IoSessions : InRing(r)' <=> InRing(r)
    BY <1>10 DEF IoGet, io_queues, InRing
  <2>2. UNCHANGED kernel
    BY <1>10 DEF IoGet, io_queues
  <2> QED BY <1>10, <1>0, <2>1, <2>2, GetMoves DEF OnePlace
<1>11. ASSUME NEW t \in IoActors, HandleSuccess(t)
      PROVE  OnePlace'
  <2>1. \A r \in IoSessions :
          (InRing(r)' <=> InRing(r)) /\ (Waiting(r)' <=> Waiting(r)) /\ (Handed(r)' => Handed(r))
    BY <1>11, <1>0 DEF HandleSuccess, IoGoto, io_queues, InRing, Waiting,
         Handed, IoTypeOK
  <2>2. UNCHANGED kernel
    BY SMTT(30), <1>11 DEF HandleSuccess, io_queues
  <2> QED BY SMTT(30), <1>0, <2>1, <2>2 DEF OnePlace
<1>12. ASSUME NEW t \in IoActors, HandleSession(t)
      PROVE  OnePlace'
  <2>1. \A r \in IoSessions :
          (InRing(r)' <=> InRing(r)) /\ (Waiting(r)' <=> Waiting(r)) /\ (Handed(r)' => Handed(r))
    BY <1>12, <1>0 DEF HandleSession, IoGoto, io_queues, InRing, Waiting,
         Handed, IoTypeOK
  <2>2. UNCHANGED kernel
    BY SMTT(30), <1>12 DEF HandleSession, io_queues
  <2> QED BY <1>0, <2>1, <2>2 DEF OnePlace
<1>13. ASSUME NEW t \in IoActors, handle_stop(t)
      PROVE  OnePlace'
  <2>1. \A r \in IoSessions :
          (InRing(r)' <=> InRing(r)) /\ (Waiting(r)' <=> Waiting(r)) /\ (Handed(r)' => Handed(r))
    BY <1>13, <1>0 DEF handle_stop, io_unbind, IoGoto, io_queues, InRing,
         Waiting, Handed, IoTypeOK
  <2>2. UNCHANGED kernel
    BY SMTT(30), <1>13 DEF handle_stop, io_queues
  <2> QED BY <1>0, <2>1, <2>2 DEF OnePlace
<1>14. ASSUME NEW t \in IoActors, shutdown_io_service(t)
      PROVE  OnePlace'
  <2>1. \A r \in IoSessions :
          (InRing(r)' <=> InRing(r)) /\ (Waiting(r)' <=> Waiting(r)) /\ (Handed(r)' => Handed(r))
    BY <1>14, <1>0 DEF shutdown_io_service, IoGoto, io_queues, InRing,
         Waiting, Handed, IoTypeOK
  <2>2. UNCHANGED kernel
    BY SMTT(30), <1>14 DEF shutdown_io_service, io_queues
  <2> QED BY <1>0, <2>1, <2>2 DEF OnePlace
<1>15. ASSUME NEW t \in IoActors, decref(t)
      PROVE  OnePlace'
  <2>1. \A r \in IoSessions :
          (InRing(r)' <=> InRing(r)) /\ (Waiting(r)' <=> Waiting(r)) /\ (Handed(r)' => Handed(r))
    BY <1>15, <1>0 DEF decref, AfterDecref, IoGoto, io_queues, InRing,
         Waiting, Handed, IoTypeOK
  <2>2. UNCHANGED kernel
    BY <1>15 DEF decref, io_queues
  <2> QED BY <1>0, <2>1, <2>2 DEF OnePlace
<1>16. ASSUME NEW t \in IoActors, DrainOne(t)
      PROVE  OnePlace'
  <2>1. \A r \in IoSessions : (Waiting(r)' <=> Waiting(r)) /\ (Handed(r)' <=> Handed(r))
    BY <1>16 DEF DrainOne, io_threads, Waiting, Handed
  <2>2. \A r \in IoSessions : InRing(r)' => InRing(r)
    BY SMTT(30), <1>16, DrainMoves
  <2> QED BY <1>16, <1>0, <2>1, <2>2 DEF DrainOne, OnePlace
<1>17. ASSUME NEW t \in IoActors, handle_unbound(t)
      PROVE  OnePlace'
  <2>1. \A r \in IoSessions :
          (InRing(r)' <=> InRing(r)) /\ (Waiting(r)' <=> Waiting(r)) /\ (Handed(r)' => Handed(r))
    BY <1>17, <1>0 DEF handle_unbound, IoGoto, io_queues, InRing, Waiting,
         Handed, IoTypeOK
  <2>2. UNCHANGED kernel
    BY <1>17 DEF handle_unbound, io_queues
  <2> QED BY <1>0, <2>1, <2>2 DEF OnePlace
<1>18. CASE OwnerUnbinds
  <2>1. \A r \in IoSessions :
          (InRing(r)' <=> InRing(r)) /\ (Waiting(r)' <=> Waiting(r)) /\ (Handed(r)' => Handed(r))
    BY <1>18, <1>0 DEF OwnerUnbinds, io_unbind, IoGoto, io_queues, InRing,
         Waiting, Handed, IoTypeOK
  <2>2. UNCHANGED kernel
    BY <1>18 DEF OwnerUnbinds, io_queues
  <2> QED BY SMTT(30), <1>0, <2>1, <2>2 DEF OnePlace
<1>19. CASE ServiceDeinit
  BY <1>19, <1>0, OnePlaceKept DEF ServiceDeinit, io_queues, io_threads
<1>20. CASE IoFinished
  BY <1>20, <1>0, OnePlaceKept DEF IoFinished, io_vars, io_queues, io_threads
<1> QED BY <1>1, <1>2, <1>3, <1>4, <1>5, <1>6, <1>7, <1>8, <1>9, <1>10, <1>11,
     <1>12, <1>13, <1>14, <1>15, <1>16, <1>17, <1>18, <1>19, <1>20 DEF IoNext,
     IoRequest, IoPoller, IoHandler
=============================================================================
