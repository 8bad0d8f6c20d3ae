--------------------------- MODULE GovernedRequest ---------------------------
(***************************************************************************)
(* What a request over governed rows promises its reader, however it is    *)
(* carried out while the rows change.  An answer, and the chunks an        *)
(* attempt at one rested on, are of objects that were stored while the     *)
(* request was under way and that the reader may see as they then were.    *)
(* A list of rows is of one moment, and of chunks the reader was entitled  *)
(* to at some moment of the request, not necessarily that one.             *)
(***************************************************************************)
CONSTANTS
    Chunks,
    RowPool,            \* rows a change may leave behind
    Gone,               \* not a row: the chunk is not stored
    SessionPool,
    Entitled(_, _)      \* whether a session may see an object

VARIABLES
    rows,       \* rows[c]: the stored row of c, or Gone
    session,    \* the reader
    status,     \* "idle", "asked", "listing", or how the last request ended
    seeable,    \* objects stored at some moment since the request arrived,
                \* and the reader's to see
    given       \* objects the reader is handed

request == <<rows, session, status, seeable, given>>

Object(c) == [id |-> c, cls |-> rows[c].cls, level |-> rows[c].level]

Current == {Object(c) : c \in {d \in Chunks : rows[d] # Gone}}

Visible(s) == {o \in Current : Entitled(o, s)}

Init ==
    /\ rows \in [Chunks -> RowPool]
    /\ session \in SessionPool
    /\ status = "idle" /\ seeable = Visible(session) /\ given = {}

Change(c) ==
    /\ \E row \in RowPool \cup {Gone} : rows' = [rows EXCEPT ![c] = row]
    /\ UNCHANGED <<session, status, given>>
    /\ seeable' = seeable \cup Visible(session)'

Ask ==
    /\ status \notin {"asked", "listing"}
    /\ session' \in SessionPool
    /\ status' \in {"asked", "listing"}
    /\ seeable' = Visible(session') /\ given' = {}
    /\ UNCHANGED rows

(* The request ends: what is given was stored meanwhile, and is the        *)
(* reader's to see.                                                        *)
Give ==
    /\ status = "asked"
    /\ given' \in SUBSET seeable
    /\ UNCHANGED <<rows, session, seeable>>

Answer  == Give /\ given' # {} /\ status' = "answered"
Abstain == Give /\ status' = "abstained"

List ==
    /\ status = "listing" /\ status' = "listed"
    /\ given' \in SUBSET {o \in Current : \E p \in seeable : p.id = o.id}
    /\ UNCHANGED <<rows, session, seeable>>

Fail ==
    /\ status \in {"asked", "listing"} /\ status' = "failed"
    /\ UNCHANGED <<rows, session, seeable, given>>

Next == Ask \/ Answer \/ Abstain \/ List \/ Fail \/ \E c \in Chunks : Change(c)

Spec == Init /\ [][Next]_request
=============================================================================
