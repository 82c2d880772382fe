------------------------------ MODULE Download ------------------------------
(***************************************************************************)
(* GET and HEAD of a chunk: parseByteRange (http_public/byterange.go),       *)
(* serveChunk and streamRange (download.go), and the trafficRecorder         *)
(* (middleware.go) that counts what became of them.  The chunk may be        *)
(* removed while it is served, the disk may fail, and a client may stop      *)
(* reading or hang up at any moment.                                         *)
(*                                                                          *)
(* The module has one chunk, of Size bytes.  A body is the set of positions  *)
(* that were sent.  Left out: the other headers, and /v1/stats itself.       *)
(***************************************************************************)
EXTENDS Traffic, FiniteSets

CONSTANTS
    Size,           \* the chunk's size in its sidecar; Ingest refuses 0
    downloadSlice,  \* bytes read and written at a time
    HeadersOf,      \* HeadersOf[r]: the Range headers that request r may carry
    Ignored,        \* a header that is absent, of another unit, or of several ranges
    Garbled,        \* one that is not digits and a dash
    None,           \* no digits on this side of the dash
    Huge            \* digits that do not fit an int64

\* What is on either side of a Range header's dash.
Bounds == [first : 0..Size \cup {None, Huge}, last : 0..Size \cup {None, Huge}]

Headers == {Ignored, Garbled} \cup Bounds

\* What trafficRecorder may find to count in an answer.
Recorded == {<<"downloads", "clients">>, <<"notFound", "clients">>, <<"clients">>}

ASSUME DownloadAssumption ==
    /\ Size \in Nat \ {0}
    /\ downloadSlice \in Nat \ {0}
    /\ Batches = Recorded
    /\ Ignored # Garbled
    /\ HeadersOf \in [Calls -> SUBSET Headers]

Reqs == Calls

Positions == 0..(Size - 1)

VARIABLES
    stored,         \* whether the chunk's blob is in the store
    pc,
    client,         \* whether the client reads, stalls, or has hung up
    method,
    header,         \* header[r]: its Range header
    matches,        \* whether its If-None-Match is the chunk's ETag
    status,         \* status[r]: c.Writer.Status()
    offset,         \* offset[r]: the position the next slice starts at
    remaining,      \* remaining[r]: bytes of the span still owed
    slice,          \* slice[r]: how many bytes of it were read last
    body            \* body[r]: the positions that left for the client

requestVars == <<method, header, matches>>
streamVars == <<offset, remaining, slice, body>>
reqVars == <<pc, client, requestVars, status, streamVars>>
downloadVars == <<trafficVars, stored, reqVars>>

-----------------------------------------------------------------------------
Verdict == {"whole", "satisfiable", "unsatisfiable"}

Whole == [verdict |-> "whole", from |-> 0, to |-> Size - 1]
Unsatisfiable == [verdict |-> "unsatisfiable", from |-> 0, to |-> 0]
Satisfiable(from, to) == [verdict |-> "satisfiable", from |-> from, to |-> to]

\* A bug to catch: a suffix starts one byte early.
SuffixOffByOne(length) ==
    IF length \in {0, Huge} THEN Unsatisfiable
    ELSE Satisfiable(IF length >= Size THEN 0 ELSE Size - length - 1, Size - 1)

(* "bytes=-500": a length that is not a positive int64 is refused.  *)
Suffix(length) ==
    IF length \in {0, Huge} THEN Unsatisfiable
    ELSE Satisfiable(IF length >= Size THEN 0 ELSE Size - length, Size - 1)

\* A bug to catch: a last position one past the end is not cut off.
ClampTooFar(last) == IF last \in {None, Huge} \/ last > Size THEN Size - 1 ELSE last

\* A last position past the end, or too large to hold, is the end.
Clamp(last) == IF last \in {None, Huge} \/ last >= Size THEN Size - 1 ELSE last

parseByteRange(h) ==
    CASE h = Ignored -> Whole
      [] h = Garbled -> Unsatisfiable
      [] OTHER ->
            IF h.first = None
            THEN IF h.last = None THEN Unsatisfiable ELSE Suffix(h.last)
            ELSE IF h.first = Huge \/ h.first >= Size \/ Clamp(h.last) < h.first
                 THEN Unsatisfiable
                 ELSE Satisfiable(h.first, Clamp(h.last))

-----------------------------------------------------------------------------
Stage == {"idle", "lookup", "headers", "open", "slice", "write", "answered", "done"}

DownloadInit ==
    /\ Init
    /\ stored = TRUE
    /\ pc = [r \in Reqs |-> "idle"]
    /\ client = [r \in Reqs |-> "reads"]
    /\ method = [r \in Reqs |-> "GET"]
    /\ header = [r \in Reqs |-> Ignored]
    /\ matches = [r \in Reqs |-> FALSE]
    /\ status = [r \in Reqs |-> 200]
    /\ offset = [r \in Reqs |-> 0]
    /\ remaining = [r \in Reqs |-> 0]
    /\ slice = [r \in Reqs |-> 0]
    /\ body = [r \in Reqs |-> {}]

At(r, here, next) ==
    /\ pc[r] = here
    /\ pc' = [pc EXCEPT ![r] = next]

(* A GET or a HEAD of the chunk's URL arrives, with its headers.             *)
Arrive(r) ==
    /\ At(r, "idle", "lookup")
    /\ \E m \in {"GET", "HEAD"} : method' = [method EXCEPT ![r] = m]
    /\ \E h \in HeadersOf[r] : header' = [header EXCEPT ![r] = h]
    /\ \E b \in BOOLEAN : matches' = [matches EXCEPT ![r] = b]
    /\ UNCHANGED <<trafficVars, stored, client, status, streamVars>>

(* Store.Meta: its last look is at the blob.                                 *)
Lookup(r) ==
    /\ IF stored THEN At(r, "lookup", "headers") /\ UNCHANGED status
                 ELSE At(r, "lookup", "answered") /\ status' = [status EXCEPT ![r] = 404]
    /\ UNCHANGED <<trafficVars, stored, client, requestVars, streamVars>>

Code(verdict, m) ==
    CASE verdict = "unsatisfiable" -> 416
      [] verdict = "satisfiable" -> 206
      [] verdict = "whole" -> IF m THEN 304 ELSE 200

(* serveChunk: the answer's status, by the Range header and whether           *)
(* If-None-Match is the chunk's ETag, and the span to stream, if any.        *)
Serve(r) ==
    LET range == parseByteRange(header[r])
        code == Code(range.verdict, matches[r])
        streams == code \in {200, 206} /\ method[r] # "HEAD" IN
    /\ At(r, "headers", IF streams THEN "open" ELSE "answered")
    /\ status' = [status EXCEPT ![r] = code]
    /\ IF streams
       THEN /\ offset' = [offset EXCEPT ![r] = range.from]
            /\ remaining' = [remaining EXCEPT ![r] = range.to - range.from + 1]
       ELSE UNCHANGED <<offset, remaining>>
    /\ UNCHANGED <<trafficVars, stored, client, requestVars, slice, body>>

(* OpenBlob.  A blob that has gone is a panic; once it is open, its removal   *)
(* no longer matters.                                                       *)
Open(r) ==
    /\ At(r, "open", IF stored THEN "slice" ELSE "answered")
    /\ UNCHANGED <<trafficVars, stored, client, requestVars, status, streamVars>>

Wanted(r) == IF remaining[r] < downloadSlice THEN remaining[r] ELSE downloadSlice

(* The loop ends: nothing is owed, or the client is seen to be gone.         *)
Finish(r) ==
    /\ remaining[r] = 0 \/ client[r] = "gone"
    /\ At(r, "slice", "answered")
    /\ UNCHANGED <<trafficVars, stored, client, requestVars, status, streamVars>>

(* ReadAt gives the bytes wanted, or fewer and an error, which is a panic     *)
(* once they have been written.                                             *)
ReadSlice(r) ==
    /\ remaining[r] > 0
    /\ \E n \in 0..Wanted(r) :
          /\ At(r, "slice", IF n = 0 THEN "answered" ELSE "write")
          /\ slice' = [slice EXCEPT ![r] = n]
    /\ UNCHANGED <<trafficVars, stored, client, requestVars, status, offset, remaining,
                   body>>

\* The client is sent n more bytes.
Send(r, n) == body' = [body EXCEPT ![r] = @ \cup offset[r]..(offset[r] + n - 1)]

(* The write of a slice goes through.                                        *)
WriteSlice(r) ==
    /\ client[r] = "reads"
    /\ At(r, "write", IF slice[r] < Wanted(r) THEN "answered" ELSE "slice")
    /\ Send(r, slice[r])
    /\ offset' = [offset EXCEPT ![r] = @ + slice[r]]
    /\ remaining' = [remaining EXCEPT ![r] = @ - slice[r]]
    /\ UNCHANGED <<trafficVars, stored, client, requestVars, status, slice>>

\* A bug to catch: no deadline is set, and a stalled client is waited for.
WriteFailsWhenGone(r) ==
    /\ client[r] = "gone"
    /\ At(r, "write", "answered")
    /\ \E n \in 0..(slice[r] - 1) : Send(r, n)
    /\ UNCHANGED <<trafficVars, stored, client, requestVars, status, offset, remaining,
                   slice>>

(* The client hung up, or took no byte until sliceWriteTimeout: the write     *)
(* fails, part of it sent.                                                   *)
WriteFails(r) ==
    /\ client[r] # "reads"
    /\ At(r, "write", "answered")
    /\ \E n \in 0..(slice[r] - 1) : Send(r, n)
    /\ UNCHANGED <<trafficVars, stored, client, requestVars, status, offset, remaining,
                   slice>>

-----------------------------------------------------------------------------
\* A bug to catch: a range that was answered in part is not a download.
WholeDownloads(r) ==
    CASE method[r] = "GET" /\ status[r] = 200 -> <<"downloads", "clients">>
      [] status[r] = 404 -> <<"notFound", "clients">>
      [] OTHER -> <<"clients">>

(* What trafficRecorder counts an answer as: a download by its status alone,  *)
(* then a refusal by its cause, then its caller.                             *)
Counted(r) ==
    CASE method[r] = "GET" /\ status[r] \in {200, 206} -> <<"downloads", "clients">>
      [] status[r] = 404 -> <<"notFound", "clients">>
      [] OTHER -> <<"clients">>

(* The recorder's deferred function, which runs after a panic as well.  The   *)
(* request is over, and what it was goes but for what the figures depend on. *)
Answered(r) ==
    /\ At(r, "answered", "done")
    /\ Call(r, Counted(r))
    /\ header' = [header EXCEPT ![r] = Ignored]
    /\ matches' = [matches EXCEPT ![r] = FALSE]
    /\ client' = [client EXCEPT ![r] = "gone"]
    /\ offset' = [offset EXCEPT ![r] = 0]
    /\ remaining' = [remaining EXCEPT ![r] = 0]
    /\ slice' = [slice EXCEPT ![r] = 0]
    /\ UNCHANGED <<stored, method, status, body>>

Counts(r) ==
    /\ pc[r] = "done"
    /\ Count(r)
    /\ UNCHANGED <<stored, reqVars>>

-----------------------------------------------------------------------------
(* What others do. *)

\* A DELETE or a sweep removes the blob.
Remove ==
    /\ stored
    /\ stored' = FALSE
    /\ UNCHANGED <<trafficVars, reqVars>>

\* A client stalls, goes on, or hangs up for good.
ClientTurns(r) ==
    /\ pc[r] \in {"slice", "write"}
    /\ client[r] # "gone"
    /\ \E c \in {"reads", "stalls", "gone"} \ {client[r]} : client' = [client EXCEPT ![r] = c]
    /\ UNCHANGED <<trafficVars, stored, pc, requestVars, status, streamVars>>

-----------------------------------------------------------------------------
\* What the server does for a request, waiting for nobody but its client.
ServeStep(r) ==
    \/ Lookup(r) \/ Serve(r) \/ Open(r) \/ Finish(r) \/ ReadSlice(r)
    \/ WriteSlice(r) \/ WriteFails(r) \/ Answered(r) \/ Counts(r)

DownloadNext ==
    \/ \E r \in Reqs : Arrive(r) \/ ServeStep(r) \/ ClientTurns(r)
    \/ Remove

DownloadSpec == DownloadInit /\ [][DownloadNext]_downloadVars

(* A handler's goroutine is scheduled, and the deadline of a write passes.    *)
FairDownload == DownloadSpec /\ \A r \in Reqs : WF_downloadVars(ServeStep(r))

-----------------------------------------------------------------------------
(* Properties. *)

TypeOK ==
    /\ TrafficTypeOK
    /\ stored \in BOOLEAN
    /\ pc \in [Reqs -> Stage]
    /\ client \in [Reqs -> {"reads", "stalls", "gone"}]
    /\ method \in [Reqs -> {"GET", "HEAD"}]
    /\ header \in [Reqs -> Headers]
    /\ matches \in [Reqs -> BOOLEAN]
    /\ status \in [Reqs -> {200, 206, 304, 404, 416}]
    /\ offset \in [Reqs -> 0..Size]
    /\ remaining \in [Reqs -> 0..Size]
    /\ slice \in [Reqs -> 0..downloadSlice]
    /\ body \in [Reqs -> SUBSET Positions]

(* The positions that RFC 9110 section 14 reads in a header.  Only a suffix   *)
(* length beyond an int64 is set aside: the code refuses it.                *)
Asked(h) ==
    CASE h = Ignored -> Positions
      [] h = Garbled -> {}
      [] OTHER ->
            IF h.first = None
            THEN {p \in Positions : h.last \notin {None, Huge} /\ p >= Size - h.last}
            ELSE {p \in Positions : /\ h.first # Huge /\ h.first <= p
                                    /\ h.last \in {None, Huge} \/ p <= h.last}

(* What a client has been sent is always the beginning of what it asked for,  *)
(* and a handler that ends on its own has sent all of it, however the disk,   *)
(* the removal of the chunk and the client behaved; a range that asks for     *)
(* nothing is a 416.                                                         *)
BodyIsAsked ==
    \A r \in {q \in Reqs : pc[q] # "done"} :
        /\ \A p \in body[r] : {q \in Asked(header[r]) : q <= p} \subseteq body[r]
        /\ body[r] \subseteq Asked(header[r])
        /\ pc[r] = "slice" /\ remaining[r] = 0 => body[r] = Asked(header[r])
        /\ status[r] = 416 => Asked(header[r]) = {}
        /\ status[r] = 206 => Asked(header[r]) # {}

(* No byte leaves uncounted: once the recorder is done with a request that    *)
(* was sent anything, be it cut off by a panic or a client, the request is a  *)
(* download, and everybody who called is a client.                           *)
NothingUncounted ==
    \A r \in Reqs : pc[r] = "done" /\ pending[r] = <<>> =>
        /\ body[r] # {} => r \in total["downloads"]
        /\ r \in total["clients"]

(* Every request is answered and counted in the end, though its client may    *)
(* stop reading in the middle of it: "rolling a deadline per slice" is what   *)
(* sees to that.                                                             *)
EveryDownloadEnds ==
    <>[]\A r \in Reqs : pc[r] = "idle" \/ (pc[r] = "done" /\ pending[r] = <<>>)
=============================================================================
