---------------------------- MODULE RequestDedup ----------------------------
(***************************************************************************)
(* Request deduplication: the cache of RequestDeduplicationService and the *)
(* life of the requests that BackendRequestManager.process_backend_request *)
(* sends through it.  The same content may be sent again at any time, by a *)
(* parallel duplicate, by a retry after an error or after the client left; *)
(* a request is admitted, swallowed (an empty stream, or a 429 without     *)
(* streaming) or answered with the error of the attempt before it.         *)
(*                                                                         *)
(* Times are relative: an entry carries the seconds since its timestamp    *)
(* and the seconds left until expires_at.  No method of the service        *)
(* suspends while it holds the lock, so each is one step, and so is        *)
(* check_and_register with the get_request_outcome that follows it.        *)
(***************************************************************************)
EXTENDS Integers, FiniteSets

CONSTANTS
    Requests,          \* places for requests; a place is used again and again
    Contents,          \* the (session, content hash) pairs: the cache keys
    Window,            \* window_seconds
    StreamWindow,      \* streaming_window_seconds, or NoWindow
    NoWindow,
    InFlightWindow,    \* streaming_in_flight_window_seconds
    CleanupInterval,   \* _CLEANUP_INTERVAL_SECONDS
    MaxCache,          \* max_cache_size
    Codes,             \* the HTTP status codes that attempts end with
    NoEntry, NoCode, Nobody, Lost

ASSUME DedupAssumption ==
    /\ {Window, InFlightWindow, CleanupInterval, MaxCache} \subseteq Nat
    /\ Window > 0
    /\ StreamWindow \in Nat \cup {NoWindow}
    /\ NoWindow \notin Nat
    /\ Codes \subseteq 200 .. 599
    /\ NoCode \notin Int

Statuses == {"in_flight", "success", "retriable_error", "client_disconnect"}

\* TrackedRequest: what the cache keeps.
Entry == [status : Statuses, code : Codes \cup {200, NoCode}, streaming : BOOLEAN,
          age : Nat, left : Int]

\* A missing entry is not a tracked request (dict.get returns None).
ASSUME EntryAssumption == NoEntry \notin Entry

VARIABLES
    cache,      \* _cache: key -> tracked request, or NoEntry
    swept,      \* seconds since _last_cleanup_time
    req,        \* what each place is doing
    excused,    \* history: contents with an attempt that may have company
    owner,      \* history: who registered the entry, while that attempt runs
    failure     \* history, while no attempt runs: what the last one told the client
                \* of a failure: "none", or an error that the manager recognised as
                \* one ("seen") or took for a part of the answer ("unseen")

vars == <<cache, swept, req, excused, owner, failure>>

Retriable == {408, 429, 500, 502, 503, 504}

Larger(a, b) == IF a >= b THEN a ELSE b

CompletedTtl(streaming) ==
    IF streaming /\ StreamWindow # NoWindow THEN Larger(Window, StreamWindow) ELSE Window

\* Mutant: the in-flight window added to the window instead of the larger of the two.
InFlightTtlSummed(streaming) == IF streaming THEN Window + InFlightWindow ELSE Window

InFlightTtl(streaming) ==
    IF streaming THEN Larger(Window, InFlightWindow) ELSE Window

MaxTtl == Larger(Larger(Window, InFlightWindow), CompletedTtl(TRUE))

-----------------------------------------------------------------------------
(* The cache. *)

Tracked(c) == cache[c] # NoEntry

\* "current_time >= tracked.expires_at"
Expired(e) == e.left <= 0

Registered(streaming) ==
    [status |-> "in_flight", code |-> NoCode, streaming |-> streaming,
     age |-> 0, left |-> InFlightTtl(streaming)]

\* The status a code or a disconnect is filed under.  Errors that a retry cannot
\* cure count as a success, and so does no code at all.
Filed(code, disconnected) ==
    IF disconnected THEN "client_disconnect"
    ELSE IF code \in Retriable THEN "retriable_error" ELSE "success"

Completed(e, code, disconnected) ==
    [status |-> Filed(code, disconnected), code |-> code, streaming |-> e.streaming,
     age |-> 0, left |-> CompletedTtl(e.streaming)]

\* mark_request_complete finds the entry by its key alone, whoever registered it.
Mark(c, code, disconnected) ==
    cache' = IF Tracked(c)
             THEN [cache EXCEPT ![c] = Completed(@, code, disconnected)]
             ELSE cache

\* _maybe_cleanup_locked: what a check drops before it looks.  Entries of the
\* same age go in the order of the dict, which is any order here.
Due(tracked) ==
    \/ swept > CleanupInterval
    \/ 10 * Cardinality(tracked) > 11 * MaxCache

Cleanups ==
    LET tracked == {c \in Contents : Tracked(c)}
        stale   == {c \in tracked : cache[c].left < 0}
        rest    == tracked \ stale
        excess  == Cardinality(rest) - MaxCache
    IN  IF ~Due(tracked) THEN {{}}
        ELSE IF excess <= 0 THEN {stale}
        ELSE {stale \cup old : old \in
                {s \in SUBSET rest :
                    /\ Cardinality(s) = excess
                    /\ \A c \in s, d \in rest \ s : cache[c].age >= cache[d].age}}

\* What check_and_register and the manager make of a request.
Verdict(e) ==
    IF e = NoEntry THEN "admit"
    ELSE IF Expired(e) \/ e.status = "retriable_error" THEN "admit"
    ELSE IF e.status = "success" /\ e.code # NoCode /\ e.code >= 400 THEN "replay"
    ELSE "swallow"

-----------------------------------------------------------------------------
(* Requests. *)

Idle == [pc |-> "idle"]

\* The attempts of a content between admission and their last step.
Running(c) == {r \in Requests : req[r].pc # "idle" /\ req[r].content = c}

Init ==
    /\ cache = [c \in Contents |-> NoEntry]
    /\ swept = 0
    /\ req = [r \in Requests |-> Idle]
    /\ excused = {}
    /\ owner = [c \in Contents |-> Nobody]
    /\ failure = [c \in Contents |-> "none"]

\* Mutant: a blocked duplicate starts the window of the entry again.
ArriveRenews(r, c, streaming) ==
    /\ req[r].pc = "idle"
    /\ LET verdict == Verdict(cache[c])
       IN  /\ cache' = IF verdict = "admit"
                       THEN [cache EXCEPT ![c] = Registered(streaming)]
                       ELSE [cache EXCEPT ![c].left = @ + cache[c].age, ![c].age = 0]
           /\ req' = IF verdict = "admit"
                     THEN [req EXCEPT ![r] = [pc |-> "calling", content |-> c,
                                              streaming |-> streaming, for |-> 0]]
                     ELSE req
           /\ owner' = IF verdict = "admit" THEN [owner EXCEPT ![c] = r] ELSE owner
    /\ UNCHANGED <<swept, excused, failure>>

\* A request arrives.  Without a verdict against it, it is registered and goes
\* to the backend; a blocked one leaves the entry as it is.
Arrive(r, c, streaming) ==
    /\ req[r].pc = "idle"
    /\ \E gone \in Cleanups :
        LET kept    == [d \in Contents |-> IF d \in gone THEN NoEntry ELSE cache[d]]
            verdict == Verdict(kept[c])
        IN  /\ cache' = IF verdict = "admit"
                        THEN [kept EXCEPT ![c] = Registered(streaming)] ELSE kept
            /\ req' = IF verdict = "admit"
                      THEN [req EXCEPT ![r] = [pc |-> "calling", content |-> c,
                                               streaming |-> streaming, for |-> 0]]
                      ELSE req
            /\ owner' = IF verdict = "admit" THEN [owner EXCEPT ![c] = r] ELSE owner
            /\ excused' = excused \cup
                   {d \in gone : cache[d].left >= 0 /\ Running(d) # {}}
            /\ swept' = IF Due({d \in Contents : Tracked(d)}) THEN 0 ELSE swept
            /\ failure' = IF verdict = "admit" THEN [failure EXCEPT ![c] = "none"] ELSE failure

\* The attempt of r ends: its place is free, and the history is kept.
Ends(r, told) ==
    LET c == req[r].content IN
    /\ req' = [req EXCEPT ![r] = Idle]
    /\ excused' = IF Running(c) = {r} THEN excused \ {c} ELSE excused
    /\ owner' = IF owner[c] = r THEN [owner EXCEPT ![c] = Nobody] ELSE owner
    /\ failure' = [failure EXCEPT ![c] = IF Running(c) = {r} THEN told ELSE "none"]
    /\ UNCHANGED swept

\* The backend call or the processing of its answer raises.
Fails(r, code) ==
    /\ req[r].pc = "calling"
    /\ code >= 400
    /\ Mark(req[r].content, code, FALSE)
    /\ Ends(r, "seen")

\* Mutant: the CancelledError passes by and the entry stays in flight.
CancelledUnfiled(r) ==
    /\ req[r].pc = "calling"
    /\ UNCHANGED cache
    /\ Ends(r, "none")

\* The task of the request is cancelled before there is an answer.
Cancelled(r) ==
    /\ req[r].pc = "calling"
    /\ Mark(req[r].content, NoCode, TRUE)
    /\ Ends(r, "none")

\* A complete answer without streaming is filed as 200, whatever the status of its
\* envelope.  The request processor raises an envelope with an error status.
Answers(r, code) ==
    /\ req[r].pc = "calling"
    /\ ~req[r].streaming
    /\ code = 200 \/ code >= 400
    /\ Mark(req[r].content, 200, FALSE)
    /\ Ends(r, IF code >= 400 THEN "unseen" ELSE "none")

\* The first chunk of a stream is a terminal error: the envelope has its status,
\* which is filed at once; the request processor raises and nobody reads on.
OpensWithError(r, code) ==
    /\ req[r].pc = "calling"
    /\ req[r].streaming
    /\ code >= 400
    /\ Mark(req[r].content, code, FALSE)
    /\ Ends(r, "seen")

\* Mutant: a stream counts as complete as soon as it is handed over.
OpensCompleted(r) ==
    /\ req[r].pc = "calling"
    /\ req[r].streaming
    /\ req' = [req EXCEPT ![r].pc = "ready"]
    /\ Mark(req[r].content, 200, FALSE)
    /\ UNCHANGED <<swept, excused, owner, failure>>

\* A stream is handed to the transport, wrapped but not started.
Opens(r) ==
    /\ req[r].pc = "calling"
    /\ req[r].streaming
    /\ req' = [req EXCEPT ![r].pc = "ready"]
    /\ UNCHANGED <<cache, swept, excused, owner, failure>>

\* The transport asks for the first item.
Starts(r) ==
    /\ req[r].pc = "ready"
    /\ req' = [req EXCEPT ![r] = [pc |-> "flowing", content |-> @.content,
                                  streaming |-> TRUE, for |-> @.for,
                                  done |-> FALSE, finish |-> FALSE,
                                  error |-> NoCode, hidden |-> FALSE]]
    /\ UNCHANGED <<cache, swept, excused, owner, failure>>

\* The client is gone before the first item: closing a generator that never
\* started runs none of it, its finally included.
Dropped(r) ==
    LET c == req[r].content IN
    /\ req[r].pc = "ready"
    /\ req' = [req EXCEPT ![r] = Idle]
    /\ excused' = IF Running(c) = {r} THEN excused \ {c} ELSE excused
    /\ owner' = IF owner[c] = r THEN [owner EXCEPT ![c] = Lost] ELSE owner
    /\ failure' = [failure EXCEPT ![c] = "none"]
    /\ UNCHANGED <<cache, swept>>

\* The stream may have more items.
Flows(r) == req[r].pc = "flowing" /\ ~req[r].hidden

\* Only the first chunk of bytes with a finish_reason counts as the terminal one
\* (_try_extract_terminal_status).
Finishes(r, code) ==
    /\ Flows(r)
    /\ ~req[r].finish
    /\ code = 200 \/ code >= 400
    /\ req' = [req EXCEPT ![r].finish = TRUE,
                          ![r].error = IF code >= 400 THEN code ELSE NoCode]
    /\ UNCHANGED <<cache, swept, excused, owner, failure>>

\* The [DONE] sentinel; after a terminal chunk it changes nothing.
SendsDone(r) ==
    /\ Flows(r)
    /\ ~req[r].done /\ ~req[r].finish
    /\ req' = [req EXCEPT ![r].done = TRUE]
    /\ UNCHANGED <<cache, swept, excused, owner, failure>>

\* The streaming handler turns an exception of the backend's stream into its own
\* terminal error chunk, the last item.  Its content is a dict, not bytes, so the
\* wrapper does not recognise it; after an error that it did it changes nothing.
EmitsError(r) ==
    /\ Flows(r)
    /\ req[r].error = NoCode
    /\ req' = [req EXCEPT ![r].hidden = TRUE]
    /\ UNCHANGED <<cache, swept, excused, owner, failure>>

\* What the items of a stream have told the client of a failure.
Told(q) ==
    IF q.error # NoCode THEN "seen" ELSE IF q.hidden THEN "unseen" ELSE "none"

\* Mutant: a client that leaves after a terminal chunk is a success, error or not.
FinalizeForgiving(r, code, left) ==
    LET q     == req[r]
        whole == left /\ (q.done \/ q.finish)
    IN  Mark(q.content, IF whole THEN 200 ELSE IF q.error # NoCode THEN q.error ELSE code,
             left /\ ~whole)

\* The finally block of the wrapped stream: a client that leaves after the end of
\* the answer has not disconnected, and a terminal error chunk decides the code.
Finalize(r, code, left) ==
    LET q       == req[r]
        whole   == left /\ (q.done \/ q.finish)
        settled == IF q.error # NoCode THEN q.error
                   ELSE IF whole THEN 200 ELSE code
    IN  Mark(q.content, settled, left /\ ~whole)

\* The stream is exhausted, which counts as 200 but for a recognised error.
Exhausts(r) ==
    /\ req[r].pc = "flowing"
    /\ Finalize(r, 200, FALSE)
    /\ Ends(r, Told(req[r]))

\* The stream raises: a BackendError has a status, anything else counts as 500.
Breaks(r, code) ==
    /\ Flows(r)
    /\ code >= 400
    /\ Finalize(r, code, FALSE)
    /\ Ends(r, "seen")

\* The client leaves in the middle: GeneratorExit or CancelledError.
Leaves(r) ==
    /\ req[r].pc = "flowing"
    /\ Finalize(r, NoCode, TRUE)
    /\ Ends(r, Told(req[r]))

\* The loop of cleanup(), which drops what has expired.
Purge ==
    /\ \E c \in Contents : Tracked(c) /\ cache[c].left < 0
    /\ cache' = [c \in Contents |->
                    IF Tracked(c) /\ cache[c].left < 0 THEN NoEntry ELSE cache[c]]
    /\ UNCHANGED <<swept, req, excused, owner, failure>>

\* The attempt has run for the whole of its in-flight window.
Overdue(r) == req[r].for >= InFlightTtl(req[r].streaming)

\* A second passes.  The time left stops one second past expiry, when the age no
\* longer counts either: such an entry is dropped before the oldest are.
Tick ==
    /\ cache' = [c \in Contents |->
                    IF Tracked(c)
                    THEN [cache[c] EXCEPT !.age = IF Expired(cache[c]) THEN @ ELSE @ + 1,
                                          !.left = IF @ < 0 THEN @ ELSE @ - 1]
                    ELSE NoEntry]
    /\ swept' = IF swept > CleanupInterval THEN swept ELSE swept + 1
    /\ req' = [r \in Requests |->
                  IF req[r].pc = "idle" \/ Overdue(r) THEN req[r]
                  ELSE [req[r] EXCEPT !.for = @ + 1]]
    /\ excused' = excused \cup {c \in Contents : \E r \in Running(c) : Overdue(r)'}
    /\ UNCHANGED <<owner, failure>>

Next ==
    \/ Tick
    \/ Purge
    \/ \E r \in Requests :
        \/ \E c \in Contents, s \in BOOLEAN : Arrive(r, c, s)
        \/ \E k \in Codes : \/ Fails(r, k)
                            \/ OpensWithError(r, k)
                            \/ Answers(r, k)
                            \/ Finishes(r, k)
                            \/ Breaks(r, k)
        \/ Cancelled(r) \/ Opens(r) \/ Starts(r) \/ Dropped(r)
        \/ SendsDone(r) \/ EmitsError(r) \/ Exhausts(r) \/ Leaves(r)

Spec == Init /\ [][Next]_vars

\* Time passes; nothing is assumed of clients, backends or transports.
FairSpec == Spec /\ WF_vars(Tick)

-----------------------------------------------------------------------------
\* Every variable has its type, and no entry outlives the longest of the windows of
\* the service, whichever status it is filed under and however often it is filed.
TypeOK ==
    /\ \A c \in Contents :
        \/ cache[c] = NoEntry
        \/ /\ cache[c].status \in Statuses
           /\ cache[c].code \in Codes \cup {200, NoCode}
           /\ cache[c].age \in 0 .. MaxTtl
           /\ cache[c].left \in -1 .. MaxTtl
    /\ swept \in 0 .. CleanupInterval + 1
    /\ \A r \in Requests : req[r].pc \in {"idle", "calling", "ready", "flowing"}
    /\ excused \subseteq Contents
    /\ owner \in [Contents -> Requests \cup {Nobody, Lost}]
    /\ failure \in [Contents -> {"none", "seen", "unseen"}]

\* "Blocks parallel duplicate requests (same request in-flight)": one content is at
\* the backend twice only if an attempt outlived its in-flight window, or its entry
\* was evicted from a full cache; a late completion by such an attempt may free
\* the entry of the next one, but never starts the trouble.
OneAtATime ==
    \A c \in Contents : Cardinality(Running(c)) > 1 => c \in excused

\* An entry that says in-flight belongs to an attempt that is still running: every
\* way an attempt can end files the entry, except a stream that is dropped
\* before its first item.
InFlightMeansRunning ==
    \A c \in Contents :
        Tracked(c) /\ cache[c].status = "in_flight" =>
            owner[c] \in Running(c) \cup {Lost}

\* A failure that the manager recognises, whichever way it comes (the call raises,
\* the stream opens with an error, breaks, or ends in an error chunk of bytes) and
\* whatever chunks and departures follow it, is not forgotten: the next attempt is
\* admitted or gets the error, never an empty answer.
RecognisedFailureNotSilenced ==
    \A c \in Contents :
        failure[c] = "seen" /\ Running(c) = {} => Verdict(cache[c]) # "swallow"

\* "A cached upstream failure must not be converted into an empty successful
\* stream": the same of every failure that the client was told of.
FailureNotSilenced ==
    \A c \in Contents :
        failure[c] # "none" /\ Running(c) = {} => Verdict(cache[c]) # "swallow"

Blocks(c) == Verdict(cache[c]) # "admit"

Admitted(c) ==
    \E r \in Requests :
        req[r].pc = "idle" /\ req'[r].pc = "calling" /\ req'[r].content = c

\* No content is blocked for ever: duplicates that keep coming, and attempts that
\* never end, do not extend the windows.
BlockingEnds ==
    \A c \in Contents : []<>(~Blocks(c)) \/ []<><<Admitted(c)>>_vars
=============================================================================
