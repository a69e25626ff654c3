-------------------------- MODULE OverlaySyncProofs --------------------------
(***************************************************************************)
(* The safety properties of OverlaySync, for any overlays and any number   *)
(* of events waiting on the watch.                                         *)
(***************************************************************************)
EXTENDS OverlaySync, SequenceTheorems, TLAPS

-----------------------------------------------------------------------------
(* Invariants *)

\* What each step of a write has put on disk, and that a handler writes only
\* what it was just shown: a process that is down writes nothing.
WriteOK ==
    /\ write = Nil => temp = Nil
    /\ write # Nil =>
           /\ proc \in {"fetching", "watching"}
           /\ write.overlay = seen
           /\ write.step = "rename" => temp = write.overlay
           /\ write.step = "record" => temp = Nil /\ file = write.overlay

IInv == OverlayTypeOK /\ WriteOK /\ ServesLastGood /\ ReadyIsCurrent

-----------------------------------------------------------------------------
(* Types *)

LEMMA StatusTypes ==
    ASSUME OverlayTypeOK
    PROVE  /\ MarkDegraded \in Statuses
           /\ ClearDegraded \in Statuses
           /\ New \in Statuses
           /\ Restored \in Statuses
           /\ \A o \in Valid : RecordWritten(o) \in Statuses
           /\ \A o : Processed(o) \in Statuses
BY DEF OverlayTypeOK, Statuses, MarkDegraded, ClearDegraded, New, Restored, RecordWritten, Processed

LEMMA TypeInit == Init => OverlayTypeOK
<1> SUFFICES ASSUME Init PROVE OverlayTypeOK
    OBVIOUS
<1>1. events \in Seq(Sources) /\ Len(events) <= MaxEvents
    BY EventsAssumption DEF Init
<1>2. status \in Statuses
    BY DEF Init, New, Statuses
<1> QED
    BY <1>1, <1>2 DEF Init, OverlayTypeOK, Sources

LEMMA ProcessType ==
    ASSUME OverlayTypeOK, NEW o \in Sources, Process(o)
    PROVE  seen' \in Sources /\ status' \in Statuses /\ write' \in Writes \cup {Nil}
BY StatusTypes DEF OverlayTypeOK, Process, Writes

LEMMA TypeStep == OverlayTypeOK /\ [Next]_vars => OverlayTypeOK'
<1> SUFFICES ASSUME OverlayTypeOK, [Next]_vars PROVE OverlayTypeOK'
    OBVIOUS
<1>1. ASSUME NEW o \in Sources, ChangeSource(o) PROVE OverlayTypeOK'
    <2>1. events' \in Seq(Sources) /\ Len(events') <= MaxEvents
        BY <1>1, EventsAssumption DEF ChangeSource, OverlayTypeOK
    <2> QED
        BY <1>1, <2>1 DEF ChangeSource, OverlayTypeOK
<1>2. CASE Connect
    <2>1. events' \in Seq(Sources) /\ Len(events') <= MaxEvents
        BY <1>2, EventsAssumption DEF Connect, OverlayTypeOK
    <2> QED
        BY <1>2, <2>1 DEF Connect, OverlayTypeOK
<1>3. CASE StreamError
    <2>1. events' \in Seq(Sources) /\ Len(events') <= MaxEvents
        BY <1>3, EventsAssumption DEF StreamError
    <2> QED
        BY <1>3, <2>1, StatusTypes DEF StreamError, OverlayTypeOK
<1>4. CASE Start
    BY <1>4, StatusTypes DEF Start, OverlayTypeOK
<1>5. CASE Fetch
    <2>1. seen' \in Sources /\ status' \in Statuses /\ write' \in Writes \cup {Nil}
        BY <1>5, ProcessType DEF Fetch, OverlayTypeOK
    <2> QED
        BY <1>5, <2>1 DEF Fetch, Fetched, IsUnchanged, OverlayTypeOK
<1>6. CASE FetchFails
    BY <1>6, StatusTypes DEF FetchFails, Fetched, OverlayTypeOK
<1>7. CASE Deliver
    <2>1. Head(events) \in Sources /\ Tail(events) \in Seq(Sources) /\ Len(Tail(events)) <= MaxEvents
        BY <1>7, EventsAssumption DEF Deliver, OverlayTypeOK
    <2>2. seen' \in Sources /\ status' \in Statuses /\ write' \in Writes \cup {Nil}
        BY <1>7, <2>1, ProcessType, StatusTypes DEF Deliver, OverlayTypeOK
    <2> QED
        BY <1>7, <2>1, <2>2 DEF Deliver, OverlayTypeOK
<1>8. CASE WriteTemp
    BY <1>8 DEF WriteTemp, OverlayTypeOK, Writes
<1>9. CASE Rename
    <2>1. file' \in Valid \cup Invalid \cup {Nil, Torn}
        BY <1>9 DEF Rename, OverlayTypeOK
    <2> QED
        BY <1>9, <2>1 DEF Rename, OverlayTypeOK, Writes
<1>10. CASE Record
    <2>1. write.overlay \in Valid
        BY <1>10 DEF Record, OverlayTypeOK, Writes
    <2> QED
        BY <1>10, <2>1, StatusTypes DEF Record, Fetched, OverlayTypeOK
<1>11. CASE WriteFails
    BY <1>11, StatusTypes DEF WriteFails, Fetched, OverlayTypeOK
<1>12. CASE Crash
    <2>1. events' \in Seq(Sources) /\ Len(events') <= MaxEvents
        BY <1>12, EventsAssumption DEF Crash
    <2> QED
        BY <1>12, <2>1 DEF Crash, OverlayTypeOK
<1>13. CASE UNCHANGED vars
    BY <1>13 DEF vars, OverlayTypeOK
<1> QED
    BY <1>1, <1>2, <1>3, <1>4, <1>5, <1>6, <1>7, <1>8, <1>9, <1>10, <1>11, <1>12, <1>13 DEF Next, Sidecar

\* The state keeps its shape.
THEOREM TypeCorrect == Spec => []OverlayTypeOK
<1>1. OverlayTypeOK /\ [Next]_vars => OverlayTypeOK'
    BY TypeStep
<1> QED
    BY TypeInit, <1>1, PTL DEF Spec

-----------------------------------------------------------------------------
(* What the file holds *)

LEMMA InvInit == Init => IInv
<1> SUFFICES ASSUME Init PROVE IInv
    OBVIOUS
<1>1. OverlayTypeOK
    BY TypeInit
<1> QED
    BY <1>1 DEF Init, IInv, WriteOK, ServesLastGood, ReadyIsCurrent

\* A handler that begins a write was shown the overlay, and changes nothing
\* else; one that does not leaves Ready only when the overlay is the file's.
LEMMA ProcessEffect ==
    ASSUME IInv, proc \in {"fetching", "watching"}, write = Nil, NEW o \in Sources, Process(o)
    PROVE  /\ seen' = o
           /\ write' # Nil => /\ o \in Valid
                              /\ write' = [overlay |-> o, step |-> "temp"]
                              /\ status' = status
           /\ write' = Nil => /\ status'.written = status.written
                              /\ status'.state = "Cold" <=> status.state = "Cold"
                              /\ status'.state = "Ready" => o = status.written \/ status.state = "Cold"
<1>1. status \in Statuses
    BY DEF IInv, OverlayTypeOK
<1>2. CASE o \in Valid /\ ~IsUnchanged(o)
    <2>1. write' = [overlay |-> o, step |-> "temp"] /\ status' = status /\ seen' = o
        BY <1>2 DEF Process
    <2>2. write' \in Writes
        BY <1>2, <2>1 DEF Writes
    <2> QED
        BY <1>2, <2>1, <2>2, OverlayAssumption
<1>3. CASE ~(o \in Valid /\ ~IsUnchanged(o))
    <2>1. status' = Processed(o) /\ write' = Nil /\ seen' = o
        BY <1>3 DEF Process
    <2> QED
        BY <1>1, <2>1 DEF Statuses, Processed, IsUnchanged, MarkDegraded, ClearDegraded
<1> QED
    BY <1>2, <1>3

LEMMA MarkEffect ==
    ASSUME OverlayTypeOK
    PROVE  /\ MarkDegraded.written = status.written
           /\ MarkDegraded.state # "Ready"
           /\ MarkDegraded.state = "Cold" <=> status.state = "Cold"
BY DEF OverlayTypeOK, Statuses, MarkDegraded

LEMMA InvStep == IInv /\ [Next]_vars => IInv'
<1> SUFFICES ASSUME IInv, [Next]_vars PROVE IInv'
    OBVIOUS
<1>t. OverlayTypeOK /\ OverlayTypeOK'
    BY TypeStep DEF IInv
<1> USE DEF IInv, WriteOK, ServesLastGood, ReadyIsCurrent
<1>1. ASSUME NEW o \in Sources, ChangeSource(o) PROVE IInv'
    BY <1>1, <1>t DEF ChangeSource
<1>2. CASE Connect
    BY <1>2, <1>t DEF Connect
<1>3. CASE StreamError
    BY <1>3, <1>t, MarkEffect DEF StreamError
<1>4. CASE Start
    BY <1>4, <1>t DEF Start, Restored, RecordWritten, New
<1>5. CASE Fetch
    <2>1. source \in Sources
        BY <1>t DEF OverlayTypeOK
    <2> QED
        BY <1>5, <1>t, <2>1, ProcessEffect DEF Fetch, Fetched
<1>6. CASE FetchFails
    BY <1>6, <1>t, MarkEffect DEF FetchFails, Fetched
<1>7. CASE Deliver
    <2>1. CASE Head(events) = Nil
        BY <1>7, <1>t, <2>1, MarkEffect DEF Deliver
    <2>2. CASE Head(events) # Nil
        <3>1. Head(events) \in Sources
            BY <1>7, <1>t DEF Deliver, OverlayTypeOK
        <3> QED
            BY <1>7, <1>t, <2>2, <3>1, ProcessEffect DEF Deliver
    <2> QED
        BY <2>1, <2>2
<1>8. CASE WriteTemp
    <2>1. write \in Writes /\ write.overlay \in Valid
        BY <1>8, <1>t DEF WriteTemp, OverlayTypeOK, Writes
    <2>2. CASE temp = Nil /\ write' = write
        BY <1>8, <1>t, <2>1, <2>2, OverlayAssumption DEF WriteTemp
    <2>3. CASE temp = Torn /\ temp' = write.overlay /\ write' = [write EXCEPT !.step = "rename"]
        <3>1. write' \in Writes /\ write'.overlay = write.overlay /\ write'.step = "rename"
            BY <2>1, <2>3 DEF Writes
        <3> QED
            BY <1>8, <1>t, <2>1, <2>3, <3>1, OverlayAssumption DEF WriteTemp
    <2> QED
        BY <1>8, <2>2, <2>3 DEF WriteTemp
<1>9. CASE Rename
    BY <1>9, <1>t, OverlayAssumption DEF Rename, OverlayTypeOK, Writes
<1>10. CASE Record
    BY <1>10, <1>t DEF Record, Fetched, RecordWritten, OverlayTypeOK, Writes
<1>11. CASE WriteFails
    BY <1>11, <1>t, MarkEffect DEF WriteFails, Fetched
<1>12. CASE Crash
    BY <1>12, <1>t DEF Crash
<1>13. CASE UNCHANGED vars
    BY <1>13, <1>t DEF vars
<1> QED
    BY <1>1, <1>2, <1>3, <1>4, <1>5, <1>6, <1>7, <1>8, <1>9, <1>10, <1>11, <1>12, <1>13 DEF Next, Sidecar

\* A ready sidecar serves a whole, valid overlay, the one its status names,
\* whatever failed or crashed at whichever step (atomic_write,
\* restore_last_known_good).
THEOREM LastGood == Spec => []ServesLastGood
<1>1. IInv /\ [Next]_vars => IInv'
    BY InvStep
<1>2. IInv => ServesLastGood
    BY DEF IInv
<1> QED
    BY InvInit, <1>1, <1>2, PTL DEF Spec

\* A sidecar that is ready and not degraded serves what the API last showed it
\* (mark_degraded, clear_degraded).
THEOREM Currency == Spec => []ReadyIsCurrent
<1>1. IInv /\ [Next]_vars => IInv'
    BY InvStep
<1>2. IInv => ReadyIsCurrent
    BY DEF IInv
<1> QED
    BY InvInit, <1>1, <1>2, PTL DEF Spec

=============================================================================
