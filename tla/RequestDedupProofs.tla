------------------------- MODULE RequestDedupProofs -------------------------
(***************************************************************************)
(* What RequestDedup promises, for any number of requests and contents,    *)
(* any windows and any size of the cache.                                  *)
(*                                                                         *)
(* OneAtATime is not inductive: an attempt has no company because the      *)
(* entry of its content is in flight, is its own and has exactly the time  *)
(* left that the attempt has not used (SoloInv).  What the cleanups, the   *)
(* clock and the ends of other attempts do to that entry is the argument.  *)
(***************************************************************************)
EXTENDS RequestDedup, FiniteSetTheorems, TLAPS

\* What a place holds: a request at the backend, a stream handed over and not
\* started, a stream that flows.

Calls == [pc : {"calling"}, content : Contents, streaming : BOOLEAN, for : Nat]

Wrapped == [pc : {"ready"}, content : Contents, streaming : BOOLEAN, for : Nat]

Streams == [pc : {"flowing"}, content : Contents, streaming : BOOLEAN, for : Nat,
            done : BOOLEAN, finish : BOOLEAN, error : Codes \cup {NoCode},
            hidden : BOOLEAN]

Places == {Idle} \cup Calls \cup Wrapped \cup Streams

(* Only streams are handed over, and an error chunk that was recognised is an *)
(* error and a finish.                                                        *)
PlaceInv ==
    /\ req \in [Requests -> Places]
    /\ \A r \in Requests :
         /\ req[r].pc = "ready" => req[r].streaming = TRUE
         /\ req[r].pc = "flowing" /\ req[r].error # NoCode =>
              req[r].finish = TRUE /\ req[r].error >= 400

(* Age and time left add up to no more than the longest window of the         *)
(* service: blocked duplicates and late completions do not extend it.         *)
EntryInv ==
    /\ cache \in [Contents -> Entry \cup {NoEntry}]
    /\ \A c \in Contents :
         Tracked(c) => /\ cache[c].left \in -1 .. MaxTtl
                       /\ cache[c].age + cache[c].left <= MaxTtl
                       /\ cache[c].age <= MaxTtl

\* What the client can have been told of a failure.
Tellings == {"none", "seen", "unseen"}

\* The types of the sweep's clock and of the history.
HistoryInv ==
    /\ swept \in 0 .. CleanupInterval + 1
    /\ excused \subseteq Contents
    /\ owner \in [Contents -> Requests \cup {Nobody, Lost}]
    /\ failure \in [Contents -> Tellings]

(* While nothing excuses company, the entry of a running attempt is in        *)
(* flight, is the one that this attempt registered, and expires when the      *)
(* attempt has used up its in-flight window and not a second before.          *)
SoloInv ==
    \A r \in Requests :
        req[r].pc # "idle" /\ req[r].content \notin excused =>
            LET e == cache[req[r].content] IN
            /\ owner[req[r].content] = r
            /\ e \in Entry /\ e.status = "in_flight"
            /\ e.streaming = req[r].streaming
            /\ e.left = InFlightTtl(req[r].streaming) - req[r].for
            /\ e.left > 0

\* The inductive invariant of the module.
IInv ==
    /\ PlaceInv /\ EntryInv /\ HistoryInv /\ SoloInv
    /\ InFlightMeansRunning /\ RecognisedFailureNotSilenced

-----------------------------------------------------------------------------
(* What the operators return. *)

(* Every window of _completed_ttl_seconds and _in_flight_ttl_seconds is at    *)
(* least a second, and at most the longest of them.                           *)
LEMMA Ttls ==
  /\ Window \in Nat /\ Window > 0 /\ MaxTtl \in Nat
  /\ \A s \in BOOLEAN : /\ CompletedTtl(s) \in 1 .. MaxTtl
                        /\ InFlightTtl(s) \in 1 .. MaxTtl
  BY DedupAssumption DEF CompletedTtl, InFlightTtl, MaxTtl, Larger

(* What check_and_register stores is a fresh in-flight entry.                 *)
LEMMA RegisteredEntry ==
  ASSUME NEW s \in BOOLEAN
  PROVE  /\ Registered(s) \in Entry
         /\ Registered(s) # NoEntry
         /\ Registered(s).status = "in_flight"
         /\ Registered(s).streaming = s
         /\ Registered(s).age = 0
         /\ Registered(s).left = InFlightTtl(s)
  BY Ttls, EntryAssumption DEF Registered, Entry, Statuses

(* What mark_request_complete makes of an entry is never in flight, and its   *)
(* window starts anew.                                                        *)
LEMMA CompletedEntry ==
  ASSUME NEW e \in Entry, NEW code \in Codes \cup {200, NoCode}, NEW d \in BOOLEAN
  PROVE  /\ Completed(e, code, d) \in Entry
         /\ Completed(e, code, d) # NoEntry
         /\ Completed(e, code, d).status # "in_flight"
         /\ Completed(e, code, d).status = Filed(code, d)
         /\ Completed(e, code, d).code = code
         /\ Completed(e, code, d).age = 0
         /\ Completed(e, code, d).left \in 1 .. MaxTtl
  <1>1. e.streaming \in BOOLEAN
    BY DEF Entry
  <1>2. CompletedTtl(e.streaming) \in 1 .. MaxTtl
    BY <1>1, Ttls
  <1>3. Filed(code, d) \in Statuses \ {"in_flight"}
    BY DEF Filed, Statuses
  <1>4. Completed(e, code, d) \in Entry
    BY <1>1, <1>2, <1>3, Ttls DEF Completed, Entry
  <1> QED
    BY <1>2, <1>3, <1>4, EntryAssumption DEF Completed

(* _maybe_cleanup_locked drops nothing but tracked entries.                   *)
LEMMA DroppedTracked ==
  ASSUME NEW gone \in Cleanups
  PROVE  gone \subseteq {c \in Contents : Tracked(c)}
  BY DEF Cleanups

(* An entry filed under an error status is never answered by an empty stream: *)
(* the next request is admitted or gets the error.                            *)
LEMMA FailureAnswer ==
  ASSUME NEW e, NEW code \in Codes, code >= 400
  PROVE  Verdict(Completed(e, code, FALSE)) # "swallow"
  BY DedupAssumption DEF Verdict, Completed, Filed

(* An attempt that owns the entry of its content is the only one.             *)
LEMMA Solo == ASSUME SoloInv PROVE OneAtATime
  <1> SUFFICES ASSUME NEW c \in Contents, Cardinality(Running(c)) > 1 PROVE c \in excused
    BY DEF OneAtATime
  <1> SUFFICES ASSUME c \notin excused PROVE FALSE
    OBVIOUS
  <1>1. Running(c) \subseteq {owner[c]}
    BY DEF Running, SoloInv
  <1>2. IsFiniteSet({owner[c]}) /\ Cardinality({owner[c]}) = 1
    BY FS_Singleton
  <1>3. Cardinality(Running(c)) <= 1 /\ Cardinality(Running(c)) \in Nat
    BY <1>1, <1>2, FS_Subset, FS_CardinalityType
  <1> QED
    BY <1>3

-----------------------------------------------------------------------------
(* Steps of a request that goes on. *)

\* The request of place r takes a step that is neither its first nor its last.
Goes(r) ==
    /\ req[r].pc # "idle" /\ req'[r].pc # "idle"
    /\ req'[r].content = req[r].content
    /\ req'[r].streaming = req[r].streaming
    /\ req'[r].for = req[r].for
    /\ \A u \in Requests \ {r} : req'[u] = req[u]
    /\ UNCHANGED <<cache, swept, excused, owner, failure>>

(* A place is idle or holds a request in one of three phases.                 *)
LEMMA Shapes ==
  ASSUME PlaceInv, NEW r \in Requests
  PROVE  /\ req[r].pc \in {"idle", "calling", "ready", "flowing"}
         /\ req[r].pc = "calling" => req[r] \in Calls
         /\ req[r].pc = "ready" => req[r] \in Wrapped
         /\ req[r].pc = "flowing" => req[r] \in Streams
         /\ req[r].pc # "idle" => /\ req[r].content \in Contents
                                  /\ req[r].streaming \in BOOLEAN
                                  /\ req[r].for \in Nat
  <1>1. req[r] \in Places
    BY DEF PlaceInv
  <1>2. CASE req[r] = Idle
    BY <1>2 DEF Idle
  <1>3. CASE req[r] \in Calls
    BY <1>3 DEF Calls
  <1>4. CASE req[r] \in Wrapped
    BY <1>4 DEF Wrapped
  <1>5. CASE req[r] \in Streams
    BY <1>5 DEF Streams
  <1> QED
    BY <1>1, <1>2, <1>3, <1>4, <1>5 DEF Places

(* Putting a well-formed request into a place.                                *)
LEMMA PlacePut ==
  ASSUME PlaceInv, NEW r \in Requests, NEW p \in Places, req' = [req EXCEPT ![r] = p],
         p.pc = "ready" => p.streaming = TRUE,
         p.pc = "flowing" /\ p.error # NoCode => p.finish = TRUE /\ p.error >= 400
  PROVE  PlaceInv' /\ req'[r] = p /\ \A u \in Requests \ {r} : req'[u] = req[u]
  BY DEF PlaceInv

(* A stream that is handed over has not ended.                                *)
LEMMA OpensGoes == ASSUME PlaceInv, NEW r \in Requests, Opens(r) PROVE PlaceInv' /\ Goes(r)
  <1> DEFINE p == [req[r] EXCEPT !.pc = "ready"]
  <1>1. req[r] \in Calls /\ req[r].streaming = TRUE
    BY Shapes DEF Opens, Calls
  <1>2. p \in Wrapped
    BY <1>1 DEF Calls, Wrapped
  <1>3. /\ p.pc = "ready" /\ p.content = req[r].content
        /\ p.streaming = req[r].streaming /\ p.for = req[r].for
    BY <1>1 DEF Calls
  <1>4. req' = [req EXCEPT ![r] = p]
    BY DEF Opens
  <1> HIDE DEF p
  <1>5. PlaceInv' /\ req'[r] = p /\ \A u \in Requests \ {r} : req'[u] = req[u]
    BY <1>1, <1>2, <1>3, <1>4, PlacePut DEF Places
  <1> QED
    BY <1>3, <1>5 DEF Opens, Goes

(* Nor has one that is asked for its first item,                              *)
LEMMA StartsGoes == ASSUME PlaceInv, NEW r \in Requests, Starts(r) PROVE PlaceInv' /\ Goes(r)
  <1> DEFINE p == [pc |-> "flowing", content |-> req[r].content, streaming |-> TRUE,
                   for |-> req[r].for, done |-> FALSE, finish |-> FALSE, error |-> NoCode,
                   hidden |-> FALSE]
  <1>1. req[r] \in Wrapped /\ req[r].streaming = TRUE
    BY Shapes DEF Starts, PlaceInv
  <1>2. p \in Streams
    BY <1>1 DEF Wrapped, Streams
  <1>3. /\ p.pc = "flowing" /\ p.content = req[r].content /\ p.error = NoCode
        /\ p.streaming = req[r].streaming /\ p.for = req[r].for
    BY <1>1 DEF Wrapped
  <1>4. req' = [req EXCEPT ![r] = p]
    BY DEF Starts
  <1> HIDE DEF p
  <1>5. PlaceInv' /\ req'[r] = p /\ \A u \in Requests \ {r} : req'[u] = req[u]
    BY <1>2, <1>3, <1>4, PlacePut DEF Places
  <1> QED
    BY <1>3, <1>5 DEF Starts, Goes

(* one that sends a chunk with a finish_reason,                               *)
LEMMA FinishesGoes ==
  ASSUME PlaceInv, NEW r \in Requests, NEW k \in Codes, Finishes(r, k)
  PROVE  PlaceInv' /\ Goes(r)
  <1> DEFINE p == [req[r] EXCEPT !.finish = TRUE, !.error = IF k >= 400 THEN k ELSE NoCode]
  <1>1. req[r] \in Streams
    BY Shapes DEF Finishes, Flows
  <1>2. p \in Streams
    BY <1>1 DEF Streams
  <1>3. /\ p.pc = "flowing" /\ p.content = req[r].content
        /\ p.streaming = req[r].streaming /\ p.for = req[r].for
        /\ p.finish = TRUE /\ (p.error # NoCode => p.error >= 400)
    BY <1>1 DEF Streams
  <1>4. req' = [req EXCEPT ![r] = p]
    BY DEF Finishes
  <1> HIDE DEF p
  <1>5. PlaceInv' /\ req'[r] = p /\ \A u \in Requests \ {r} : req'[u] = req[u]
    BY <1>2, <1>3, <1>4, PlacePut DEF Places
  <1> QED
    BY <1>3, <1>5 DEF Finishes, Flows, Goes

(* one that sends the [DONE] sentinel,                                        *)
LEMMA SendsDoneGoes ==
  ASSUME PlaceInv, NEW r \in Requests, SendsDone(r) PROVE PlaceInv' /\ Goes(r)
  <1> DEFINE p == [req[r] EXCEPT !.done = TRUE]
  <1>1. req[r] \in Streams
    BY Shapes DEF SendsDone, Flows
  <1>2. p \in Streams
    BY <1>1 DEF Streams
  <1>3. /\ p.pc = "flowing" /\ p.content = req[r].content
        /\ p.streaming = req[r].streaming /\ p.for = req[r].for
        /\ p.finish = req[r].finish /\ p.error = req[r].error
    BY <1>1 DEF Streams
  <1>4. req' = [req EXCEPT ![r] = p]
    BY DEF SendsDone
  <1> HIDE DEF p
  <1>5. PlaceInv' /\ req'[r] = p /\ \A u \in Requests \ {r} : req'[u] = req[u]
    <2>1. p.error # NoCode => p.finish = TRUE /\ p.error >= 400
      BY <1>3 DEF PlaceInv, SendsDone, Flows
    <2> QED
      BY <1>2, <1>3, <1>4, <2>1, PlacePut DEF Places
  <1> QED
    BY <1>3, <1>5 DEF SendsDone, Flows, Goes

(* or one that sends the handler's own error chunk.                           *)
LEMMA EmitsErrorGoes ==
  ASSUME PlaceInv, NEW r \in Requests, EmitsError(r) PROVE PlaceInv' /\ Goes(r)
  <1> DEFINE p == [req[r] EXCEPT !.hidden = TRUE]
  <1>1. req[r] \in Streams
    BY Shapes DEF EmitsError, Flows
  <1>2. p \in Streams
    BY <1>1 DEF Streams
  <1>3. /\ p.pc = "flowing" /\ p.content = req[r].content
        /\ p.streaming = req[r].streaming /\ p.for = req[r].for
        /\ p.finish = req[r].finish /\ p.error = req[r].error
    BY <1>1 DEF Streams
  <1>4. req' = [req EXCEPT ![r] = p]
    BY DEF EmitsError
  <1> HIDE DEF p
  <1>5. PlaceInv' /\ req'[r] = p /\ \A u \in Requests \ {r} : req'[u] = req[u]
    <2>1. p.error # NoCode => p.finish = TRUE /\ p.error >= 400
      BY <1>3 DEF PlaceInv, EmitsError, Flows
    <2> QED
      BY <1>2, <1>3, <1>4, <2>1, PlacePut DEF Places
  <1> QED
    BY <1>3, <1>5 DEF EmitsError, Flows, Goes

(* Such a step leaves the cache and its meaning alone.                        *)
LEMMA GoesStep ==
  ASSUME IInv, NEW r \in Requests, PlaceInv', Goes(r) PROVE IInv'
  <1> USE DEF IInv
  <1>1. EntryInv' /\ HistoryInv'
    BY DEF EntryInv, HistoryInv, Tracked, Goes
  <1>2. \A c \in Contents : Running(c)' = Running(c)
    BY DEF Running, Goes
  <1>3. SoloInv'
    BY DEF SoloInv, Goes
  <1>4. InFlightMeansRunning'
    BY <1>2 DEF InFlightMeansRunning, Tracked, Goes
  <1>5. RecognisedFailureNotSilenced'
    BY <1>2 DEF RecognisedFailureNotSilenced, Goes
  <1> QED
    BY <1>1, <1>3, <1>4, <1>5

-----------------------------------------------------------------------------
(* The ends of an attempt. *)

(* mark_request_complete files the entry of one content, if there is one.     *)
LEMMA MarkKeeps ==
  ASSUME EntryInv, NEW c \in Contents, NEW code \in Codes \cup {200, NoCode}, NEW d \in BOOLEAN,
         Mark(c, code, d)
  PROVE  /\ EntryInv'
         /\ \A x \in Contents \ {c} : cache'[x] = cache[x]
         /\ \/ cache'[c] = NoEntry
            \/ cache[c] \in Entry /\ cache'[c] = Completed(cache[c], code, d)
  <1>1. CASE Tracked(c)
    <2>1. cache[c] \in Entry
      BY <1>1 DEF EntryInv, Tracked
    <2>2. cache' = [cache EXCEPT ![c] = Completed(cache[c], code, d)]
      BY <1>1 DEF Mark
    <2> DEFINE e == Completed(cache[c], code, d)
    <2>3. e \in Entry /\ e.age = 0 /\ e.left \in 1 .. MaxTtl
      BY <2>1, CompletedEntry
    <2> HIDE DEF e
    <2> QED
      BY <2>1, <2>2, <2>3, Ttls DEF EntryInv, Tracked, e
  <1>2. CASE ~Tracked(c)
    BY <1>2 DEF EntryInv, Tracked, Mark
  <1> QED
    BY <1>1, <1>2

\* The attempt of place r ends and files its entry; a failure that was recognised is
\* filed under its status, never as a disconnect.
Ending(r, code, d, told) ==
    /\ told = "seen" => code \in Codes /\ code >= 400 /\ d = FALSE
    /\ req[r].pc # "idle"
    /\ Mark(req[r].content, code, d)
    /\ Ends(r, told)

(* An end frees the place and files the entry.  If another attempt of the     *)
(* content still runs, the content stays excused.                             *)
LEMMA EndingStep ==
  ASSUME IInv, NEW r \in Requests, NEW code \in Codes \cup {200, NoCode}, NEW d \in BOOLEAN,
         NEW told \in Tellings, Ending(r, code, d, told)
  PROVE  IInv'
  <1> USE DEF IInv
  <1> DEFINE c == req[r].content
  <1>0. c \in Contents
    BY Shapes DEF Ending
  <1>1. /\ EntryInv'
        /\ \A x \in Contents \ {c} : cache'[x] = cache[x]
        /\ \/ cache'[c] = NoEntry
           \/ cache[c] \in Entry /\ cache'[c] = Completed(cache[c], code, d)
    BY <1>0, MarkKeeps DEF Ending
  <1>2. /\ req' \in [Requests -> Places]
        /\ req'[r].pc = "idle"
        /\ \A u \in Requests \ {r} : req'[u] = req[u]
    BY DEF Ending, Ends, PlaceInv, Places, Idle
  <1>3. /\ \A x \in Contents : Running(x)' = Running(x) \ {r}
        /\ \A x \in Contents \ {c} : r \notin Running(x)
    BY <1>2 DEF Running
  <1>4. PlaceInv'
    BY <1>2 DEF PlaceInv
  <1>5. HistoryInv'
    BY <1>0 DEF Ending, Ends, HistoryInv, Tellings
  <1>6. /\ \A x \in Contents \ {c} : owner'[x] = owner[x] /\ failure'[x] = failure[x]
        /\ failure'[c] \in {told, "none"}
        /\ \A x \in Contents \ {c} : x \in excused' <=> x \in excused
        /\ Running(c) # {r} => excused' = excused
    BY <1>0 DEF Ending, Ends, HistoryInv
  <1>7. SoloInv'
    <2>1. SUFFICES ASSUME NEW u \in Requests,
                          req'[u].pc # "idle", req'[u].content \notin excused'
                   PROVE  LET x == req'[u].content IN
                          /\ u # r /\ x \in Contents \ {c} /\ x \notin excused
      BY <1>1, <1>2, <1>6 DEF SoloInv
    <2>2. u # r /\ req'[u] = req[u] /\ req[u].content \in Contents
      BY <1>2, <2>1, Shapes
    <2>3. req[u].content # c
      <3>1. SUFFICES ASSUME req[u].content = c PROVE FALSE
        OBVIOUS
      <3>2. u \in Running(c)
        BY <2>1, <2>2, <3>1 DEF Running
      <3>3. c \in excused
        BY <2>1, <2>2, <3>1 DEF SoloInv, Ending
      <3> QED
        BY <1>6, <2>1, <2>2, <3>1, <3>2, <3>3
    <2> QED
      BY <1>6, <2>1, <2>2, <2>3
  <1>8. InFlightMeansRunning'
    BY <1>0, <1>1, <1>3, <1>6, CompletedEntry DEF InFlightMeansRunning, Tracked
  <1>9. RecognisedFailureNotSilenced'
    <2>1. SUFFICES ASSUME NEW x \in Contents, failure'[x] = "seen", Running(x)' = {}
                   PROVE  Verdict(cache'[x]) # "swallow"
      BY DEF RecognisedFailureNotSilenced
    <2>2. CASE x = c
      <3>1. told = "seen"
        BY <1>6, <2>1, <2>2
      <3>2. code \in Codes /\ code >= 400 /\ d = FALSE
        BY <3>1 DEF Ending
      <3>3. Verdict(NoEntry) # "swallow"
        BY DEF Verdict
      <3> QED
        BY <1>1, <2>2, <3>2, <3>3, FailureAnswer
    <2>3. CASE x # c
      BY <1>1, <1>3, <1>6, <2>1, <2>3 DEF RecognisedFailureNotSilenced
    <2> QED
      BY <2>2, <2>3
  <1> QED
    BY <1>1, <1>4, <1>5, <1>7, <1>8, <1>9

(* Every way to end but one is of that form, the departures of the client in  *)
(* the middle of a stream included.                                           *)
LEMMA Endings ==
  ASSUME IInv, NEW r \in Requests,
         \/ \E k \in Codes : Fails(r, k) \/ OpensWithError(r, k) \/ Answers(r, k) \/ Breaks(r, k)
         \/ Cancelled(r) \/ Exhausts(r) \/ Leaves(r)
  PROVE  \E code \in Codes \cup {200, NoCode}, d \in BOOLEAN, told \in Tellings :
             Ending(r, code, d, told)
  <1> USE DEF Tellings
  <1>1. ASSUME NEW k \in Codes, Fails(r, k) \/ OpensWithError(r, k)
        PROVE  Ending(r, k, FALSE, "seen")
    BY <1>1 DEF Fails, OpensWithError, Ending
  <1>2. CASE Cancelled(r)
    BY <1>2 DEF Cancelled, Ending
  <1>3. ASSUME NEW k \in Codes, Answers(r, k)
        PROVE  \E told \in Tellings : Ending(r, 200, FALSE, told)
    BY <1>3 DEF Answers, Ending
  <1> DEFINE erred == req[r].error # NoCode
             told  == Told(req[r])
  <1>4. req[r].pc = "flowing" =>
           /\ req[r].error \in Codes \cup {NoCode}
           /\ req[r].finish \in BOOLEAN /\ req[r].done \in BOOLEAN
           /\ erred => req[r].finish = TRUE /\ req[r].error >= 400 /\ req[r].error \in Codes
    BY Shapes DEF IInv, PlaceInv, Streams
  <1>5. told \in Tellings /\ (told = "seen" <=> erred)
    BY DEF Told
  <1>6. ASSUME Exhausts(r)
        PROVE  \E code \in Codes \cup {200} : Ending(r, code, FALSE, told)
    <2>1. CASE erred
      BY <1>4, <1>6, <2>1 DEF Exhausts, Finalize, Ending
    <2>2. CASE ~erred
      BY <1>5, <1>6, <2>2 DEF Exhausts, Finalize, Ending
    <2> QED
      BY <2>1, <2>2
  <1>7. ASSUME NEW k \in Codes, Breaks(r, k)
        PROVE  \E code \in Codes : Ending(r, code, FALSE, "seen")
    <2>1. CASE erred
      BY <1>4, <1>7, <2>1 DEF Breaks, Flows, Finalize, Ending
    <2>2. CASE ~erred
      BY <1>7, <2>2 DEF Breaks, Flows, Finalize, Ending
    <2> QED
      BY <2>1, <2>2
  <1>8. ASSUME Leaves(r)
        PROVE  \E code \in Codes \cup {200, NoCode}, d \in BOOLEAN : Ending(r, code, d, told)
    <2>1. CASE erred
      BY <1>4, <1>8, <2>1 DEF Leaves, Finalize, Ending
    <2>2. CASE ~erred /\ (req[r].done \/ req[r].finish)
      BY <1>5, <1>8, <2>2 DEF Leaves, Finalize, Ending
    <2>3. CASE ~erred /\ ~(req[r].done \/ req[r].finish)
      BY <1>5, <1>8, <2>3 DEF Leaves, Finalize, Ending
    <2> QED
      BY <2>1, <2>2, <2>3
  <1> HIDE DEF told
  <1>9. CASE \E k \in Codes : Fails(r, k) \/ OpensWithError(r, k) \/ Breaks(r, k)
    BY <1>1, <1>7, <1>9
  <1>10. CASE \E k \in Codes : Answers(r, k)
    BY <1>3, <1>10
  <1>11. CASE Exhausts(r)
    BY <1>5, <1>6, <1>11
  <1>12. CASE Leaves(r)
    BY <1>5, <1>8, <1>12
  <1> QED
    BY <1>2, <1>9, <1>10, <1>11, <1>12

(* A stream dropped before its first item leaves its entry in flight, which   *)
(* the history records as lost.                                               *)
LEMMA DroppedStep == ASSUME IInv, NEW r \in Requests, Dropped(r) PROVE IInv'
  <1> USE DEF IInv
  <1> DEFINE c == req[r].content
  <1>0. c \in Contents /\ req[r].pc = "ready" /\ cache' = cache /\ swept' = swept
    BY Shapes DEF Dropped
  <1>1. EntryInv'
    BY <1>0 DEF EntryInv, Tracked
  <1>2. /\ req' \in [Requests -> Places]
        /\ req'[r].pc = "idle"
        /\ \A u \in Requests \ {r} : req'[u] = req[u]
    BY DEF Dropped, PlaceInv, Places, Idle
  <1>3. /\ \A x \in Contents : Running(x)' = Running(x) \ {r}
        /\ \A x \in Contents \ {c} : r \notin Running(x)
    BY <1>2 DEF Running
  <1>4. PlaceInv'
    BY <1>2 DEF PlaceInv
  <1>5. HistoryInv'
    BY <1>0 DEF Dropped, HistoryInv, Tellings
  <1>6. /\ \A x \in Contents \ {c} : owner'[x] = owner[x] /\ failure'[x] = failure[x]
        /\ owner'[c] = IF owner[c] = r THEN Lost ELSE owner[c]
        /\ failure'[c] = "none"
        /\ \A x \in Contents \ {c} : x \in excused' <=> x \in excused
        /\ Running(c) # {r} => excused' = excused
    BY <1>0 DEF Dropped, HistoryInv, Tellings
  <1>7. SoloInv'
    <2>1. SUFFICES ASSUME NEW u \in Requests,
                          req'[u].pc # "idle", req'[u].content \notin excused'
                   PROVE  LET x == req'[u].content IN
                          /\ u # r /\ x \in Contents \ {c} /\ x \notin excused
      BY <1>0, <1>2, <1>6 DEF SoloInv
    <2>2. u # r /\ req'[u] = req[u] /\ req[u].content \in Contents
      BY <1>2, <2>1, Shapes
    <2>3. req[u].content # c
      <3>1. SUFFICES ASSUME req[u].content = c PROVE FALSE
        OBVIOUS
      <3>2. u \in Running(c)
        BY <2>1, <2>2, <3>1 DEF Running
      <3>3. c \in excused
        BY <1>0, <2>1, <2>2, <3>1 DEF SoloInv
      <3> QED
        BY <1>6, <2>1, <2>2, <3>1, <3>2, <3>3
    <2> QED
      BY <1>6, <2>1, <2>2, <2>3
  <1>8. InFlightMeansRunning'
    BY <1>0, <1>3, <1>6 DEF InFlightMeansRunning, Tracked
  <1>9. RecognisedFailureNotSilenced'
    BY <1>0, <1>3, <1>6 DEF RecognisedFailureNotSilenced
  <1> QED
    BY <1>1, <1>4, <1>5, <1>7, <1>8, <1>9

-----------------------------------------------------------------------------
(* The clock, the cleanup loop and arrivals. *)

(* cleanup() drops expired entries, and an attempt without an excuse has none.*)
LEMMA PurgeStep == ASSUME IInv, Purge PROVE IInv'
  <1> USE DEF IInv
  <1>1. /\ UNCHANGED <<swept, req, excused, owner, failure>>
        /\ cache' \in [Contents -> Entry \cup {NoEntry}]
        /\ \A c \in Contents : \/ cache'[c] = cache[c]
                               \/ cache'[c] = NoEntry /\ cache[c].left < 0
    BY DEF Purge, EntryInv
  <1>2. PlaceInv' /\ HistoryInv' /\ EntryInv'
    BY <1>1 DEF PlaceInv, HistoryInv, EntryInv, Tracked
  <1>3. SoloInv'
    <2>1. \A r \in Requests : req[r].pc # "idle" => req[r].content \in Contents
      BY Shapes
    <2> QED
      BY <1>1, <2>1 DEF SoloInv, EntryInv, Entry
  <1>4. \A c \in Contents : Running(c)' = Running(c)
    BY <1>1 DEF Running
  <1>5. InFlightMeansRunning'
    BY <1>1, <1>4 DEF InFlightMeansRunning, Tracked
  <1>6. RecognisedFailureNotSilenced'
    BY <1>1, <1>4 DEF RecognisedFailureNotSilenced, Verdict
  <1> QED
    BY <1>2, <1>3, <1>5, <1>6

(* A second in the life of an entry,                                          *)
LEMMA Ages ==
  ASSUME NEW e \in Entry
  PROVE  LET a == [e EXCEPT !.age = IF Expired(e) THEN @ ELSE @ + 1,
                            !.left = IF @ < 0 THEN @ ELSE @ - 1]
         IN  /\ a \in Entry
             /\ a.status = e.status /\ a.code = e.code /\ a.streaming = e.streaming
             /\ a.age = IF e.left <= 0 THEN e.age ELSE e.age + 1
             /\ a.left = IF e.left < 0 THEN e.left ELSE e.left - 1
  <1> DEFINE older == IF Expired(e) THEN e.age ELSE e.age + 1
             nearer == IF e.left < 0 THEN e.left ELSE e.left - 1
             a == [e EXCEPT !.age = older, !.left = nearer]
  <1>1. older \in Nat /\ nearer \in Int
    BY DEF Entry
  <1>2. older = IF e.left <= 0 THEN e.age ELSE e.age + 1
    BY DEF Expired
  <1> HIDE DEF older, nearer
  <1>3. /\ a \in Entry
        /\ a.status = e.status /\ a.code = e.code /\ a.streaming = e.streaming
        /\ a.age = older /\ a.left = nearer
    BY <1>1 DEF Entry
  <1> QED
    BY <1>2, <1>3 DEF older, nearer

(* and of a request.                                                          *)
LEMMA Waits ==
  ASSUME NEW p \in Places, p.pc # "idle"
  PROVE  LET q == [p EXCEPT !.for = @ + 1]
         IN  /\ q \in Places
             /\ q.pc = p.pc /\ q.content = p.content /\ q.streaming = p.streaming
             /\ q.for = p.for + 1
             /\ q.pc = "flowing" => q.finish = p.finish /\ q.error = p.error
  <1> DEFINE q == [p EXCEPT !.for = @ + 1]
  <1>1. CASE p \in Calls
    <2>1. /\ q \in Calls /\ q.pc = p.pc /\ q.content = p.content /\ q.streaming = p.streaming
          /\ q.for = p.for + 1 /\ q.pc = "calling"
      BY <1>1 DEF Calls
    <2> QED
      BY <2>1 DEF Places
  <1>2. CASE p \in Wrapped
    <2>1. /\ q \in Wrapped /\ q.pc = p.pc /\ q.content = p.content /\ q.streaming = p.streaming
          /\ q.for = p.for + 1 /\ q.pc = "ready"
      BY <1>2 DEF Wrapped
    <2> QED
      BY <2>1 DEF Places
  <1>3. CASE p \in Streams
    <2>1. /\ q \in Streams /\ q.pc = p.pc /\ q.content = p.content /\ q.streaming = p.streaming
          /\ q.for = p.for + 1 /\ q.finish = p.finish /\ q.error = p.error
      BY <1>3 DEF Streams
    <2> QED
      BY <2>1 DEF Places
  <1> QED
    BY <1>1, <1>2, <1>3 DEF Places, Idle

(* Entry and attempt age together: the entry expires in the second in which   *)
(* the attempt is overdue, and that excuses the content.                      *)
LEMMA TickStep == ASSUME IInv, Tick PROVE IInv'
  <1> USE DEF IInv
  <1>1. /\ UNCHANGED <<owner, failure>>
        /\ swept' = IF swept > CleanupInterval THEN swept ELSE swept + 1
        /\ excused' = excused \cup {c \in Contents : \E r \in Running(c) : Overdue(r)'}
    BY DEF Tick
  <1>2. ASSUME NEW c \in Contents
        PROVE  /\ cache'[c] \in Entry \cup {NoEntry}
               /\ cache[c] = NoEntry => cache'[c] = NoEntry
               /\ cache[c] \in Entry =>
                    /\ cache'[c] \in Entry
                    /\ cache'[c].status = cache[c].status
                    /\ cache'[c].code = cache[c].code
                    /\ cache'[c].streaming = cache[c].streaming
                    /\ cache'[c].age = IF cache[c].left <= 0 THEN cache[c].age
                                       ELSE cache[c].age + 1
                    /\ cache'[c].left = IF cache[c].left < 0 THEN cache[c].left
                                        ELSE cache[c].left - 1
    <2>1. cache[c] \in Entry \cup {NoEntry}
      BY DEF EntryInv
    <2>2. CASE cache[c] = NoEntry
      BY <2>2, EntryAssumption DEF Tick, Tracked
    <2>3. CASE cache[c] \in Entry
      BY <2>3, Ages, EntryAssumption DEF Tick, Tracked
    <2> QED
      BY <2>1, <2>2, <2>3
  <1>3. ASSUME NEW r \in Requests
        PROVE  /\ req'[r] \in Places
               /\ req'[r].pc = req[r].pc
               /\ req[r].pc # "idle" =>
                    /\ req'[r].content = req[r].content
                    /\ req'[r].streaming = req[r].streaming
                    /\ req'[r].for = IF Overdue(r) THEN req[r].for ELSE req[r].for + 1
               /\ req[r].pc = "flowing" =>
                    req'[r].finish = req[r].finish /\ req'[r].error = req[r].error
    <2>1. CASE req[r].pc = "idle" \/ Overdue(r)
      BY <2>1 DEF Tick, PlaceInv
    <2>2. CASE req[r].pc # "idle" /\ ~Overdue(r)
      <3>1. req'[r] = [req[r] EXCEPT !.for = @ + 1] /\ req[r] \in Places
        BY <2>2 DEF Tick, PlaceInv
      <3> QED
        BY <2>2, <3>1, Waits
    <2> QED
      BY <2>1, <2>2
  <1>4. PlaceInv'
    <2>1. req' \in [Requests -> Places]
      BY <1>3 DEF Tick
    <2> QED
      BY <1>3, <2>1 DEF PlaceInv
  <1>5. EntryInv'
    <2>1. cache' \in [Contents -> Entry \cup {NoEntry}]
      BY <1>2 DEF Tick
    <2>2. ASSUME NEW c \in Contents, cache'[c] # NoEntry
          PROVE  /\ cache'[c].left \in -1 .. MaxTtl
                 /\ cache'[c].age + cache'[c].left <= MaxTtl
                 /\ cache'[c].age <= MaxTtl
      <3>1. cache[c] \in Entry /\ cache[c] # NoEntry
        BY <1>2, <2>2, EntryAssumption DEF EntryInv
      <3>2. /\ cache[c].left \in -1 .. MaxTtl /\ cache[c].age \in Nat
            /\ cache[c].age + cache[c].left <= MaxTtl /\ cache[c].age <= MaxTtl
        BY <3>1 DEF EntryInv, Tracked, Entry
      <3> QED
        BY <1>2, <3>1, <3>2, Ttls
    <2> QED
      BY <2>1, <2>2 DEF EntryInv, Tracked
  <1>6. HistoryInv'
    BY <1>1, DedupAssumption DEF HistoryInv
  <1>7. \A c \in Contents : Running(c)' = Running(c)
    BY <1>3 DEF Running
  <1>8. SoloInv'
    <2>1. SUFFICES ASSUME NEW r \in Requests, req'[r].pc # "idle",
                          req'[r].content \notin excused'
                   PROVE  LET e == cache'[req'[r].content] IN
                          /\ owner'[req'[r].content] = r
                          /\ e \in Entry /\ e.status = "in_flight"
                          /\ e.streaming = req'[r].streaming
                          /\ e.left = InFlightTtl(req'[r].streaming) - req'[r].for
                          /\ e.left > 0
      BY DEF SoloInv
    <2> DEFINE c == req[r].content
               ttl == InFlightTtl(req[r].streaming)
    <2>2. /\ req[r].pc # "idle" /\ c \in Contents /\ req'[r].content = c /\ req[r].for \in Nat
          /\ req[r].streaming \in BOOLEAN /\ req'[r].streaming = req[r].streaming
      BY <1>3, <2>1, Shapes
    <2>3. c \notin excused /\ r \in Running(c)
      BY <1>1, <2>1, <2>2 DEF Running
    <2>4. ttl \in Nat
      BY <2>2, Ttls
    <2>5. /\ owner[c] = r /\ cache[c] \in Entry /\ cache[c].status = "in_flight"
          /\ cache[c].streaming = req[r].streaming
          /\ cache[c].left = ttl - req[r].for /\ cache[c].left > 0
      BY <2>2, <2>3 DEF SoloInv
    <2>6. ~Overdue(r)
      BY <2>2, <2>4, <2>5 DEF Overdue
    <2>7. ~(req'[r].for >= ttl)
      BY <1>1, <2>1, <2>2, <2>3 DEF Overdue
    <2>8. req'[r].for = req[r].for + 1
      BY <1>3, <2>2, <2>6
    <2> HIDE DEF c, ttl
    <2>9. cache'[c].left = ttl - req'[r].for /\ cache'[c].left > 0
      BY <1>2, <2>2, <2>4, <2>5, <2>7, <2>8
    <2> QED
      BY <1>1, <1>2, <2>2, <2>5, <2>9 DEF ttl
  <1>9. InFlightMeansRunning'
    BY <1>1, <1>2, <1>7 DEF InFlightMeansRunning, Tracked, EntryInv
  <1>10. RecognisedFailureNotSilenced'
    <2>1. SUFFICES ASSUME NEW c \in Contents, failure[c] = "seen", Running(c) = {}
                   PROVE  Verdict(cache'[c]) # "swallow"
      BY <1>1, <1>7 DEF RecognisedFailureNotSilenced
    <2>2. Verdict(cache[c]) # "swallow"
      BY <2>1 DEF RecognisedFailureNotSilenced
    <2>3. CASE cache[c] = NoEntry
      BY <1>2, <2>3 DEF Verdict
    <2>4. CASE cache[c] \in Entry
      BY <1>2, <2>2, <2>4, EntryAssumption DEF Verdict, Expired, Entry
    <2> QED
      BY <2>3, <2>4 DEF EntryInv
  <1> QED
    BY <1>4, <1>5, <1>6, <1>8, <1>9, <1>10

(* check_and_register admits an attempt of a content without an excuse only   *)
(* if none is running: its entry is neither expired nor evicted.              *)
LEMMA ArriveStep ==
  ASSUME IInv, NEW r \in Requests, NEW c \in Contents, NEW s \in BOOLEAN, Arrive(r, c, s)
  PROVE  IInv'
  <1> USE DEF IInv
  <1>1. PICK gone \in Cleanups :
          LET kept    == [d \in Contents |-> IF d \in gone THEN NoEntry ELSE cache[d]]
              verdict == Verdict(kept[c])
          IN  /\ cache' = IF verdict = "admit"
                          THEN [kept EXCEPT ![c] = Registered(s)] ELSE kept
              /\ req' = IF verdict = "admit"
                        THEN [req EXCEPT ![r] = [pc |-> "calling", content |-> c,
                                                 streaming |-> s, for |-> 0]]
                        ELSE req
              /\ owner' = IF verdict = "admit" THEN [owner EXCEPT ![c] = r] ELSE owner
              /\ excused' = excused \cup
                     {d \in gone : cache[d].left >= 0 /\ Running(d) # {}}
              /\ swept' = IF Due({d \in Contents : Tracked(d)}) THEN 0 ELSE swept
              /\ failure' = IF verdict = "admit" THEN [failure EXCEPT ![c] = "none"]
                            ELSE failure
    BY DEF Arrive
  <1> DEFINE kept  == [d \in Contents |-> IF d \in gone THEN NoEntry ELSE cache[d]]
             admit == Verdict(kept[c]) = "admit"
             p     == [pc |-> "calling", content |-> c, streaming |-> s, for |-> 0]
  <1>2. gone \subseteq {d \in Contents : Tracked(d)}
    BY DroppedTracked
  <1>3. /\ kept \in [Contents -> Entry \cup {NoEntry}]
        /\ \A d \in Contents : IF d \in gone THEN kept[d] = NoEntry ELSE kept[d] = cache[d]
    BY DEF EntryInv
  <1>4. req[r].pc = "idle"
    BY DEF Arrive
  <1>5. /\ excused' = excused \cup {d \in gone : cache[d].left >= 0 /\ Running(d) # {}}
        /\ swept' \in {0, swept}
    BY <1>1
  <1>6. CASE ~admit
    <2>1. cache' = kept /\ req' = req /\ owner' = owner /\ failure' = failure
      BY <1>1, <1>6
    <2> HIDE DEF kept, admit, p
    <2>2. PlaceInv' /\ EntryInv' /\ HistoryInv'
      BY <1>2, <1>3, <1>5, <2>1, DedupAssumption DEF PlaceInv, EntryInv, HistoryInv, Tracked
    <2>3. SoloInv'
      <3>1. \A u \in Requests :
              req[u].pc # "idle" => req[u].content \in Contents /\ u \in Running(req[u].content)
        BY Shapes DEF Running
      <3>2. \A u \in Requests :
              req[u].pc # "idle" /\ req[u].content \notin excused' =>
                  req[u].content \notin gone
        BY <1>5, <3>1 DEF SoloInv, Entry
      <3> QED
        BY <1>3, <1>5, <2>1, <3>1, <3>2 DEF SoloInv
    <2>4. \A d \in Contents : Running(d)' = Running(d)
      BY <2>1 DEF Running
    <2>5. InFlightMeansRunning'
      BY <1>3, <2>1, <2>4 DEF InFlightMeansRunning, Tracked
    <2>6. RecognisedFailureNotSilenced'
      BY <1>3, <1>5, <2>1, <2>4 DEF RecognisedFailureNotSilenced, Verdict
    <2> QED
      BY <2>2, <2>3, <2>5, <2>6
  <1>7. CASE admit
    <2>1. /\ cache' = [kept EXCEPT ![c] = Registered(s)]
          /\ req' = [req EXCEPT ![r] = p]
          /\ owner' = [owner EXCEPT ![c] = r]
          /\ failure' = [failure EXCEPT ![c] = "none"]
      BY <1>1, <1>7
    <2>2. p \in Calls /\ p.pc = "calling" /\ p.content = c /\ p.streaming = s /\ p.for = 0
      BY DEF Calls
    <2> HIDE DEF kept, p
    <2>3. /\ PlaceInv' /\ req'[r] = p
          /\ \A u \in Requests \ {r} : req'[u] = req[u]
      BY <2>1, <2>2, PlacePut DEF Places
    <2>4. HistoryInv'
      BY <1>2, <1>5, <2>1, DedupAssumption DEF HistoryInv, Tellings
    <2>5. /\ cache' \in [Contents -> Entry \cup {NoEntry}]
          /\ cache'[c] = Registered(s)
          /\ \A d \in Contents \ {c} : cache'[d] = kept[d]
      BY <1>3, <2>1, RegisteredEntry
    <2>6. EntryInv'
      BY <1>3, <2>5, RegisteredEntry, Ttls DEF EntryInv, Tracked
    <2>7. SoloInv'
      <3>1. SUFFICES ASSUME NEW u \in Requests, req'[u].pc # "idle",
                            req'[u].content \notin excused'
                     PROVE  LET e == cache'[req'[u].content] IN
                            /\ owner'[req'[u].content] = u
                            /\ e \in Entry /\ e.status = "in_flight"
                            /\ e.streaming = req'[u].streaming
                            /\ e.left = InFlightTtl(req'[u].streaming) - req'[u].for
                            /\ e.left > 0
        BY DEF SoloInv
      <3>2. CASE u = r
        BY <2>1, <2>2, <2>3, <2>5, <3>2, RegisteredEntry, Ttls DEF HistoryInv
      <3>3. CASE u # r
        <4> DEFINE d == req[u].content
        <4>1. req'[u] = req[u] /\ req[u].pc # "idle" /\ d \in Contents /\ d \notin excused
          BY <1>5, <2>3, <3>1, <3>3, Shapes
        <4>2. /\ owner[d] = u /\ cache[d] \in Entry /\ cache[d].status = "in_flight"
              /\ cache[d].streaming = req[u].streaming
              /\ cache[d].left = InFlightTtl(req[u].streaming) - req[u].for
              /\ cache[d].left > 0
          BY <4>1 DEF SoloInv
        <4>3. d \notin gone
          <5>1. u \in Running(d)
            BY <4>1 DEF Running
          <5>2. cache[d].left >= 0
            BY <4>2 DEF Entry
          <5> QED
            BY <1>5, <3>1, <4>1, <5>1, <5>2
        <4>4. d # c
          BY <1>3, <1>7, <4>1, <4>2, <4>3, EntryAssumption DEF Verdict, Expired, Entry
        <4> HIDE DEF d
        <4>5. cache'[d] = cache[d] /\ owner'[d] = owner[d]
          BY <1>3, <2>1, <2>5, <4>1, <4>3, <4>4 DEF HistoryInv
        <4> QED
          BY <4>1, <4>2, <4>5 DEF d
      <3> QED
        BY <3>2, <3>3
    <2>8. \A d \in Contents : Running(d) \subseteq Running(d)' /\ r \in Running(c)'
      BY <1>4, <2>2, <2>3 DEF Running
    <2>9. InFlightMeansRunning'
      BY <1>3, <2>1, <2>5, <2>8 DEF InFlightMeansRunning, Tracked, HistoryInv
    <2>10. RecognisedFailureNotSilenced'
      BY <1>3, <2>1, <2>5, <2>8 DEF RecognisedFailureNotSilenced, Verdict, HistoryInv
    <2> QED
      BY <2>3, <2>4, <2>6, <2>7, <2>9, <2>10
  <1> QED
    BY <1>6, <1>7

-----------------------------------------------------------------------------
(* The service starts with an empty cache and no request.                     *)
LEMMA InvInit == Init => IInv
  <1> SUFFICES ASSUME Init PROVE IInv
    OBVIOUS
  <1>1. PlaceInv /\ SoloInv
    BY DEF Init, PlaceInv, SoloInv, Places, Idle
  <1>2. EntryInv /\ HistoryInv
    BY DedupAssumption DEF Init, EntryInv, HistoryInv, Tellings, Tracked
  <1>3. InFlightMeansRunning /\ RecognisedFailureNotSilenced
    BY DEF Init, InFlightMeansRunning, RecognisedFailureNotSilenced, Tracked
  <1> QED
    BY <1>1, <1>2, <1>3 DEF IInv

(* Every step keeps the invariant.                                            *)
LEMMA InvStep == ASSUME IInv, [Next]_vars PROVE IInv'
  <1>1. CASE Tick
    BY <1>1, TickStep
  <1>2. CASE Purge
    BY <1>2, PurgeStep
  <1>3. ASSUME NEW r \in Requests, NEW c \in Contents, NEW s \in BOOLEAN, Arrive(r, c, s)
        PROVE  IInv'
    BY <1>3, ArriveStep
  <1>4. ASSUME NEW r \in Requests,
               \/ \E k \in Codes : \/ Fails(r, k) \/ OpensWithError(r, k)
                                   \/ Answers(r, k) \/ Breaks(r, k)
               \/ Cancelled(r) \/ Exhausts(r) \/ Leaves(r)
        PROVE  IInv'
    BY <1>4, Endings, EndingStep
  <1>5. ASSUME NEW r \in Requests,
               \/ \E k \in Codes : Finishes(r, k)
               \/ Opens(r) \/ Starts(r) \/ SendsDone(r) \/ EmitsError(r)
        PROVE  IInv'
    <2>1. PlaceInv
      BY DEF IInv
    <2>2. PlaceInv' /\ Goes(r)
      BY <1>5, <2>1, OpensGoes, StartsGoes, FinishesGoes, SendsDoneGoes, EmitsErrorGoes
    <2> QED
      BY <2>2, GoesStep
  <1>6. ASSUME NEW r \in Requests, Dropped(r) PROVE IInv'
    BY <1>6, DroppedStep
  <1>7. CASE UNCHANGED vars
    BY <1>7 DEF vars, IInv, PlaceInv, EntryInv, HistoryInv, SoloInv, InFlightMeansRunning,
                RecognisedFailureNotSilenced, Tracked, Running
  <1> QED
    BY <1>1, <1>2, <1>3, <1>4, <1>5, <1>6, <1>7 DEF Next

(* The inductive invariant holds of every behaviour of the deduplication.     *)
THEOREM Invariance == Spec => []IInv
  BY InvInit, InvStep, PTL DEF Spec

(* The types and the bound on the life of an entry follow from it.            *)
LEMMA InvTypes == ASSUME IInv PROVE TypeOK
  <1>1. \A c \in Contents :
          \/ cache[c] = NoEntry
          \/ /\ cache[c].status \in Statuses
             /\ cache[c].code \in Codes \cup {200, NoCode}
             /\ cache[c].age \in 0 .. MaxTtl
             /\ cache[c].left \in -1 .. MaxTtl
    BY Ttls DEF IInv, EntryInv, Tracked, Entry
  <1>2. \A r \in Requests : req[r].pc \in {"idle", "calling", "ready", "flowing"}
    BY Shapes DEF IInv
  <1> QED
    BY <1>1, <1>2 DEF IInv, HistoryInv, Tellings, TypeOK

(* Every variable has its type, and no entry of the cache outlives the        *)
(* longest window.                                                            *)
THEOREM TypeCorrectness == Spec => []TypeOK
  BY Invariance, InvTypes, PTL

(* One content is at the backend twice only if an attempt outlived its        *)
(* in-flight window or its entry was evicted from a full cache.               *)
THEOREM OneAttemptAtATime == Spec => []OneAtATime
  <1>1. IInv => OneAtATime
    BY Solo DEF IInv
  <1> QED
    BY Invariance, <1>1, PTL

(* An entry that says in-flight belongs to an attempt that is still running,  *)
(* or to a stream that was dropped before its first item.                     *)
THEOREM InFlightIsTrue == Spec => []InFlightMeansRunning
  <1>1. IInv => InFlightMeansRunning
    BY DEF IInv
  <1> QED
    BY Invariance, <1>1, PTL

(* After an attempt whose failure the manager recognised, however the         *)
(* failure came, the next one is admitted or gets the error, never an empty   *)
(* answer.  An error envelope filed as 200 and the streaming handler's own    *)
(* error chunk are not recognised; of those it is false.                      *)
THEOREM RecognisedFailuresStayAudible == Spec => []RecognisedFailureNotSilenced
  <1>1. IInv => RecognisedFailureNotSilenced
    BY DEF IInv
  <1> QED
    BY Invariance, <1>1, PTL
=============================================================================
