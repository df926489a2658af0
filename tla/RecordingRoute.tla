--------------------------- MODULE RecordingRoute ---------------------------
(***************************************************************************)
(* GET /api/sessions/:id/audio of src/backend/src/index.ts, one request of *)
(* an <audio> element that seeks: stat(), the range, and the stream that   *)
(* is piped into the response.  The WAV is renamed into place and so is    *)
(* whole; the store may prune it at any moment.  A byte is a number.       *)
(***************************************************************************)
EXTENDS Integers, FiniteSetsExt

CONSTANTS
    Sizes,      \* of a recording
    Numbers     \* in a Range header

VARIABLE s

Absent == -1
NoRange == <<"none">>
Ranges == {NoRange} \cup {<<"bytes", a, b>> : a, b \in Numbers \cup {Absent}}

Init ==
    \E size \in Sizes, range \in Ranges, exists \in BOOLEAN :
        s = [range |-> range, size |-> size, exists |-> exists, found |-> Absent,
             status |-> 0, start |-> 0, end |-> Absent, next |-> 0,
             sent |-> FALSE,            \* the headers are out
             stream |-> "none",         \* none, opening, open, failed, closed
             response |-> "owed",       \* owed, ended, broken
             closing |-> FALSE,         \* its 'close' event is on its way
         listens |-> FALSE]         \* sendFile() was there to hear it

Prune ==
    /\ s.exists
    /\ s' = [s EXCEPT !.exists = FALSE]

\* An error status and no stream; whom nobody waits for, nothing reaches.
Answered(x, status) ==
    [x EXCEPT !.status = status, !.sent = TRUE,
              !.response = IF @ = "owed" THEN "ended" ELSE @]

\* The handler does not look whether somebody still waits.
Stat ==
    /\ s.status = 0 /\ s.found = Absent
    /\ s' = IF s.exists THEN [s EXCEPT !.found = s.size] ELSE Answered(s, 404)

\* The first and the last byte; `bytes=-n` are the last n.
Bounds(range, size) ==
    IF range[2] = Absent
    THEN [start |-> Max({0, size - range[3]}), end |-> size - 1]
    ELSE [start |-> range[2],
          end |-> IF range[3] = Absent THEN size - 1 ELSE Min({range[3], size - 1})]

Streaming(x, status, start, end) ==
    [x EXCEPT !.status = status, !.start = start, !.end = end, !.next = start,
              !.stream = "opening",
              !.listens = x.response = "owed" \/ x.closing]

Respond ==
    /\ s.found # Absent /\ s.status = 0
    /\ LET b == Bounds(s.range, s.found)
       IN  s' = IF s.range = NoRange THEN Streaming(s, 200, 0, s.found - 1)
                ELSE IF s.range[2] = Absent /\ s.range[3] \in {Absent, 0}
                     THEN Answered(s, 416)
                ELSE IF b.start <= b.end /\ b.end < s.found
                     THEN Streaming(s, 206, b.start, b.end)
                ELSE Answered(s, 416)

-----------------------------------------------------------------------------
(* sendFile()                                                                *)

\* 'error': an honest status while that can still be said, or a broken connection.
Failed(x) ==
    LET y == [x EXCEPT !.stream = "failed"]
    IN  IF x.response # "owed" THEN y
        ELSE IF x.sent THEN [y EXCEPT !.response = "broken", !.closing = TRUE]
        ELSE Answered(y, 500)

Opens ==
    /\ s.stream = "opening"
    /\ s' = IF s.exists THEN [s EXCEPT !.stream = "open"] ELSE Failed(s)

\* The bytes of the range are read one by one, and then the stream closes itself.
Reads ==
    /\ s.stream = "open" /\ s.response = "owed"
    /\ s' = IF s.next <= s.end THEN [s EXCEPT !.next = @ + 1, !.sent = TRUE]
            ELSE [s EXCEPT !.stream = "closed", !.sent = TRUE, !.response = "ended"]

ReadFails ==
    /\ s.stream = "open" /\ s.response = "owed"
    /\ s' = Failed(s)

\* The listener seeks: the element gives the request up.
Leave ==
    /\ s.response = "owed"
    /\ s' = [s EXCEPT !.response = "broken", !.closing = TRUE]

\* 'close' of the response destroys the stream, also one that has yet to open.
Close ==
    /\ s.closing /\ s.stream # "none"
    /\ s' = [s EXCEPT !.closing = FALSE,
                      !.stream = IF @ \in {"opening", "open"} THEN "closed" ELSE @]

\* It came while stat() was awaited, before sendFile() listened.
Missed ==
    /\ s.closing /\ s.stream = "none"
    /\ s' = [s EXCEPT !.closing = FALSE]

Events == Stat \/ Respond \/ Opens \/ Reads \/ Close \/ Missed
Next == Prune \/ Events \/ ReadFails \/ Leave

-----------------------------------------------------------------------------
(* Properties                                                                *)

\* What RFC 9110 says the header asks for.
Asked ==
    LET all == 0..(s.size - 1)
        a == s.range[2]
        b == s.range[3]
    IN  IF s.range = NoRange THEN all
        ELSE IF a = Absent THEN {i \in all : b # Absent /\ i >= s.size - b}
        ELSE {i \in all : i >= a /\ (b = Absent \/ i <= b)}

\* A complete answer has carried the bytes that were asked for, each of them once
\* and no other, and 416 is said only where there are none; a recording that went
\* away is an error status or a broken connection, and never a short answer.
RangeIsServed ==
    /\ s.status \in {200, 206} /\ s.response = "ended" =>
           s.start..s.end = Asked /\ s.next = s.end + 1
    /\ s.status = 206 => Asked # {}
    /\ s.status = 416 => Asked = {}
    /\ s.status \in {404, 500} => ~s.exists \/ s.stream = "failed" \/ s.found = Absent

\* A listener who seeks away leaves no descriptor open, however far the answer was:
\* but for one who leaves while stat() is awaited, before anything listens.
NoDescriptorLeft ==
    s.response # "owed" /\ ~s.closing /\ s.listens =>
        s.stream \in {"none", "failed", "closed"}

\* The answer, and the end of the stream behind it.
Owes ==
    \/ s.response = "owed"
    \/ s.stream \in {"opening", "open"} /\ s.listens
=============================================================================
