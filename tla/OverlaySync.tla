---------------------------- MODULE OverlaySync ----------------------------
(***************************************************************************)
(* The overlay sync sidecar (crates/overlay-sync/src): it copies the       *)
(* routing overlay from a ConfigMap to a file the gateway reads, keeping   *)
(* the last good one, and reports whether the file is current.             *)
(*                                                                         *)
(* The operator changes the ConfigMap at any time; the API server reports  *)
(* it in order on a watch that may break, or to a GET that may fail; a     *)
(* write may fail, and the process may end, between any two of its steps.  *)
(* An overlay is its content revision: envelopes are content-addressed.    *)
(***************************************************************************)
EXTENDS Naturals, Sequences

CONSTANTS
    Valid,    \* overlays that pass validate_envelope
    Invalid,  \* envelopes it rejects, one without the data key among them
    MaxEvents,\* bound on the events waiting on the watch
    Nil       \* Option::None, no ConfigMap, no file

\* A write under way.
Writes == [overlay : Valid, step : {"temp", "rename", "record"}]

ASSUME OverlayAssumption == Nil \notin Valid \cup Invalid \cup Writes /\ Valid \cap Invalid = {}
ASSUME EventsAssumption == MaxEvents \in Nat \ {0}

Torn == "torn"  \* what a write that stopped half way leaves

VARIABLES
    source,  \* the ConfigMap, Nil when deleted
    events,  \* watch events not handled yet, a Nil for a delete
    proc,    \* "down", "fetching", "disconnected" or "watching"
    once,    \* the init container's run (--once) is not over
    status,  \* SharedStatus
    write,   \* the write under way: its overlay and its step
    temp,    \* the temporary file of the write under way
    file,    \* the file at output_path
    seen     \* history: what the API last showed this process

vars == <<source, events, proc, once, status, write, temp, file, seen>>

Sources == Valid \cup Invalid \cup {Nil}
Statuses == [state : {"Cold", "Ready", "ReadyDegraded"}, written : Valid \cup {Nil}, degraded : BOOLEAN]

OverlayTypeOK ==
    /\ source \in Sources
    /\ events \in Seq(Sources) /\ Len(events) <= MaxEvents
    /\ proc \in {"down", "fetching", "disconnected", "watching"}
    /\ once \in BOOLEAN
    /\ status \in Statuses
    /\ write \in Writes \cup {Nil}
    /\ temp \in Valid \cup {Nil, Torn}
    /\ file \in Valid \cup Invalid \cup {Nil, Torn}
    /\ seen \in Sources \cup {"nothing"}

\* SharedStatus::new
New == [state |-> "Cold", written |-> Nil, degraded |-> FALSE]

\* The volume is empty, or holds a file this configuration rejects.
Init ==
    /\ source \in Sources
    /\ events = <<>>
    /\ proc = "down"
    /\ once = TRUE
    /\ status = New
    /\ write = Nil /\ temp = Nil
    /\ file \in Invalid \cup {Nil}
    /\ seen = "nothing"

-----------------------------------------------------------------------------
(* Status *)

RecordWritten(o) == [state |-> "Ready", written |-> o, degraded |-> FALSE]
MarkDegraded == [status EXCEPT !.state = IF @ = "Cold" THEN @ ELSE "ReadyDegraded", !.degraded = TRUE]
ClearDegraded == [status EXCEPT !.state = IF @ = "ReadyDegraded" THEN "Ready" ELSE @, !.degraded = FALSE]

-----------------------------------------------------------------------------
(* The ConfigMap and its watch *)

\* The operator writes or deletes the ConfigMap; an open watch reports it.
ChangeSource(o) ==
    /\ o # source
    /\ source' = o
    /\ IF proc = "watching"
       THEN Len(events) < MaxEvents /\ events' = Append(events, o)
       ELSE UNCHANGED events
    /\ UNCHANGED <<proc, once, status, write, temp, file, seen>>

\* run_single_watch: a new watch lists first.
Connect ==
    /\ proc = "disconnected"
    /\ proc' = "watching"
    /\ events' = IF source = Nil THEN <<>> ELSE <<source>>
    /\ UNCHANGED <<source, once, status, write, temp, file, seen>>

\* record_stream_outcome: an error ends the watch, which is opened anew.
StreamError ==
    /\ proc = "watching" /\ write = Nil
    /\ proc' = "disconnected"
    /\ events' = <<>>
    /\ status' = MarkDegraded
    /\ UNCHANGED <<source, once, write, temp, file, seen>>

-----------------------------------------------------------------------------
(* Process *)

\* restore_last_known_good over a new status.
Restored == IF file \in Valid THEN RecordWritten(file) ELSE New

Start ==
    /\ proc = "down"
    /\ proc' = "fetching"
    /\ status' = Restored
    /\ seen' = "nothing"
    /\ UNCHANGED <<source, events, once, write, temp, file>>

\* Mutant: a revision that was observed counts as one that was written.
UnchangedIfSeen(o) == o \in {status.written, seen}

\* validate_envelope's last check.
IsUnchanged(o) == o = status.written

\* Mutant: any object that was processed clears the report of a failure.
ProcessedClears(o) == ClearDegraded

\* The status once handle_event or initial_fetch processed an object without a
\* write: a rejection degrades it, an unchanged one clears it on the watch.
Processed(o) ==
    IF ~IsUnchanged(o) THEN MarkDegraded
    ELSE IF proc = "watching" THEN ClearDegraded ELSE status

\* process_configmap up to the write.
Process(o) ==
    /\ seen' = o
    /\ IF o \in Valid /\ ~IsUnchanged(o)
       THEN write' = [overlay |-> o, step |-> "temp"] /\ UNCHANGED status
       ELSE status' = Processed(o) /\ UNCHANGED write

\* Where a fetch leaves the process: the init container ends once it has an
\* overlay, else tries again; the sidecar goes on to watch.
Fetched(good) ==
    /\ proc' = IF ~once THEN "disconnected" ELSE IF good THEN "down" ELSE "fetching"
    /\ once' = (once /\ ~good)

\* initial_fetch: the GET answers with the ConfigMap.
Fetch ==
    /\ proc = "fetching" /\ write = Nil
    /\ source # Nil
    /\ Process(source)
    /\ IF write' # Nil THEN UNCHANGED <<proc, once>> ELSE Fetched(IsUnchanged(source))
    /\ UNCHANGED <<source, events, temp, file>>

\* The GET fails, times out, or finds no ConfigMap.
FetchFails ==
    /\ proc = "fetching" /\ write = Nil
    /\ status' = MarkDegraded
    /\ Fetched(FALSE)
    /\ UNCHANGED <<source, events, write, temp, file, seen>>

\* handle_event
Deliver ==
    /\ proc = "watching" /\ write = Nil /\ events # <<>>
    /\ IF Head(events) = Nil
       THEN status' = MarkDegraded /\ seen' = Nil /\ UNCHANGED write
       ELSE Process(Head(events))
    /\ events' = Tail(events)
    /\ UNCHANGED <<source, proc, once, temp, file>>

-----------------------------------------------------------------------------
(* atomic_write and what follows it *)

\* Mutant: the overlay is written in place.
WriteInPlace ==
    /\ write # Nil /\ write.step = "temp"
    /\ file' = Torn
    /\ write' = [write EXCEPT !.step = "rename"]
    /\ temp' = write.overlay
    /\ UNCHANGED <<source, events, proc, once, status, seen>>

\* write_and_sync: the temporary file is whole once it is synced.
WriteTemp ==
    /\ write # Nil /\ write.step = "temp"
    /\ \/ temp = Nil /\ temp' = Torn /\ UNCHANGED write
       \/ temp = Torn /\ temp' = write.overlay /\ write' = [write EXCEPT !.step = "rename"]
    /\ UNCHANGED <<source, events, proc, once, status, file, seen>>

\* fs::rename
Rename ==
    /\ write # Nil /\ write.step = "rename"
    /\ file' = temp
    /\ temp' = Nil
    /\ write' = [write EXCEPT !.step = "record"]
    /\ UNCHANGED <<source, events, proc, once, status, seen>>

\* record_write_success, and the end of the handler that wrote.
Record ==
    /\ write # Nil /\ write.step = "record"
    /\ status' = RecordWritten(write.overlay)
    /\ write' = Nil
    /\ IF proc = "fetching" THEN Fetched(TRUE) ELSE UNCHANGED <<proc, once>>
    /\ UNCHANGED <<source, events, temp, file, seen>>

\* The temporary write or the rename fails; the temporary file is removed.
WriteFails ==
    /\ write # Nil /\ write.step \in {"temp", "rename"}
    /\ temp' = Nil
    /\ write' = Nil
    /\ status' = MarkDegraded
    /\ IF proc = "fetching" THEN Fetched(FALSE) ELSE UNCHANGED <<proc, once>>
    /\ UNCHANGED <<source, events, file, seen>>

\* The process ends; a temporary file it leaves is never read again.
Crash ==
    /\ proc # "down"
    /\ proc' = "down"
    /\ events' = <<>> /\ write' = Nil /\ temp' = Nil
    /\ UNCHANGED <<source, once, status, file, seen>>

-----------------------------------------------------------------------------
Sidecar == Start \/ Fetch \/ FetchFails \/ Connect \/ Deliver \/ WriteTemp \/ Rename \/ Record

Next == Sidecar \/ StreamError \/ WriteFails \/ Crash \/ \E o \in Sources : ChangeSource(o)

\* The process is restarted and goes on; a GET is answered now and then.
Spec == Init /\ [][Next]_vars /\ WF_vars(Sidecar) /\ SF_vars(Fetch)

-----------------------------------------------------------------------------
(* Properties *)

\* A sidecar that is ready serves a whole, valid overlay, and it is the one
\* its status names, through failed writes, crashes at any step of a write
\* and files of an earlier life (atomic_write, restore_last_known_good).
ServesLastGood ==
    proc # "down" /\ status.state # "Cold" /\ (write = Nil \/ write.step # "record")
        => file \in Valid /\ file = status.written

\* A sidecar that is ready and not degraded serves what it was last shown: a
\* rejected overlay, a failed write or a deleted source is always reported
\* until the file is current again (mark_degraded, clear_degraded).
ReadyIsCurrent ==
    proc # "down" /\ write = Nil /\ status.state = "Ready" /\ seen # "nothing" => file = seen

\* Once the source settles on a valid overlay and the process stays up, the
\* file follows it for good or the sidecar says that it does not.
SettlesOrSaysSo ==
    \A o \in Valid :
        <>[](source = o) /\ <>[][~Crash]_vars => <>[](file = o \/ status.state # "Ready")

=============================================================================
