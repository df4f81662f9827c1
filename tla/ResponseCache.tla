--------------------------- MODULE ResponseCache ---------------------------
(***************************************************************************)
(* The response cache of cache/middleware.py and the streaming recorder of *)
(* cache/streaming.py. A streamed answer is copied, chunk by chunk, into   *)
(* an accumulator registered under the cache key of the request and stored *)
(* when the provider sends [DONE]. Requests interleave at every await.     *)
(***************************************************************************)
EXTENDS Integers, Sequences, FiniteSets

CONSTANTS
    Callers,        \* request coroutines
    CacheKeys,      \* scoped cache keys: API key and payload
    StreamLength,   \* bound on the chunks of an answer
    MaxFragments    \* fragments an accumulator takes before it is disabled

VARIABLES
    entries,        \* the cache backend: chunks of the stored answer
    accumulators,   \* _active_streams
    call,           \* the coroutines
    overlapped      \* history: keys two streams of which were recorded at once

cacheVars == <<entries, accumulators, call, overlapped>>

Nothing == <<"nothing">>
NoAccumulator == [parts |-> Nothing, disabled |-> TRUE]

\* What the request says: use the cache, only refresh it, or only read it.
Controls == {"default", "no-cache", "no-store", "bypass"}

IdleCall == [stage |-> "idle", key |-> Nothing, store |-> FALSE,
             streams |-> FALSE, length |-> 0, sent |-> 0, answer |-> <<>>]

\* A whole answer of n chunks to one call.
Whole(r, n) == [i \in 1..n |-> <<r, i, n>>]

CacheTypeOK ==
    /\ DOMAIN entries = CacheKeys /\ DOMAIN accumulators = CacheKeys
    /\ \A r \in Callers :
          /\ call[r].stage \in {"idle", "lookup", "calling", "opening", "streaming", "storing"}
          /\ call[r].length \in 0..StreamLength /\ call[r].sent \in 0..call[r].length
    /\ overlapped \subseteq CacheKeys

CacheInit ==
    /\ entries = [k \in CacheKeys |-> Nothing]
    /\ accumulators = [k \in CacheKeys |-> NoAccumulator]
    /\ call = [r \in Callers |-> IdleCall]
    /\ overlapped = {}

-----------------------------------------------------------------------------
(* The middleware *)

\* The body is read, the caller authenticated, limits and budget checked.
Dispatch(r, k, control, streams, n) ==
    /\ call[r].stage = "idle"
    /\ call' = [call EXCEPT ![r] =
          [IdleCall EXCEPT !.key = k,
             !.store = control \notin {"no-store", "bypass"},
             !.stage = IF control \in {"no-cache", "bypass"}
                          THEN IF streams THEN "opening" ELSE "calling"
                          ELSE "lookup",
             !.streams = streams, !.length = n]]
    /\ UNCHANGED <<entries, accumulators, overlapped>>

\* A hit is answered (and charged, see Gateway) at once.
Hit(r) ==
    /\ call[r].stage = "lookup" /\ entries[call[r].key] # Nothing
    /\ call' = [call EXCEPT ![r] = IdleCall]
    /\ UNCHANGED <<entries, accumulators, overlapped>>

Miss(r) ==
    /\ call[r].stage = "lookup" /\ entries[call[r].key] = Nothing
    /\ call' = [call EXCEPT ![r].stage = IF call[r].streams THEN "opening" ELSE "calling"]
    /\ UNCHANGED <<entries, accumulators, overlapped>>

\* The handler returned: a 200 without an error is stored, others are not.
Returns(r, ok) ==
    /\ call[r].stage = "calling"
    /\ call' = [call EXCEPT ![r] = IF ok /\ call[r].store
                                      THEN [call[r] EXCEPT !.stage = "storing",
                                                              !.answer = Whole(r, call[r].length)]
                                      ELSE IdleCall]
    /\ UNCHANGED <<entries, accumulators, overlapped>>

\* backend.set; a failing write is logged and the answer still returned.
Store(r, ok) ==
    /\ call[r].stage = "storing"
    /\ entries' = IF ok THEN [entries EXCEPT ![call[r].key] = call[r].answer] ELSE entries
    /\ call' = [call EXCEPT ![r] = IdleCall]
    /\ UNCHANGED <<accumulators, overlapped>>

\* The entry's time is over, or the backend evicts it.
EntryExpires(k) ==
    /\ entries[k] # Nothing
    /\ entries' = [entries EXCEPT ![k] = Nothing]
    /\ UNCHANGED <<accumulators, call, overlapped>>

-----------------------------------------------------------------------------
(* The streaming recorder *)

Recording(k) == {r \in Callers : call[r].stage = "streaming" /\ call[r].key = k /\ call[r].store}

\* start_stream registers a fresh one, whoever was using the key.
StartingAccumulator(k) == [parts |-> <<>>, disabled |-> FALSE]

\* The stream opened: the provider answered with a first line.
StreamOpens(r) ==
    LET k == call[r].key IN
    /\ call[r].stage = "opening"
    /\ call' = [call EXCEPT ![r].stage = "streaming"]
    /\ accumulators' = IF call[r].store
                          THEN [accumulators EXCEPT ![k] = StartingAccumulator(k)]
                          ELSE accumulators
    /\ overlapped' = IF call[r].store /\ Recording(k) # {} THEN overlapped \cup {k} ELSE overlapped
    /\ UNCHANGED entries

OpenFails(r) ==
    /\ call[r].stage = "opening"
    /\ call' = [call EXCEPT ![r] = IdleCall]
    /\ UNCHANGED <<entries, accumulators, overlapped>>

\* Faulty variant: what was collected is kept when the limit is reached.
AddedUpToLimit(a, part) ==
    IF Len(a.parts) = MaxFragments THEN a ELSE [a EXCEPT !.parts = Append(@, part)]

\* add_chunk: a fragment too many (or one that is not JSON) disables it.
Added(a, part) ==
    IF a.disabled THEN a
    ELSE IF Len(a.parts) = MaxFragments THEN [parts |-> <<>>, disabled |-> TRUE]
    ELSE [a EXCEPT !.parts = Append(a.parts, part)]

\* A line goes to the caller and into whatever accumulator has the key.
StreamChunk(r, valid) ==
    LET k == call[r].key
        i == call[r].sent + 1 IN
    /\ call[r].stage = "streaming" /\ call[r].sent < call[r].length
    /\ call' = [call EXCEPT ![r].sent = i]
    /\ accumulators' =
          IF ~call[r].store \/ accumulators[k] = NoAccumulator THEN accumulators
          ELSE [accumulators EXCEPT ![k] =
                  IF valid THEN Added(accumulators[k], <<r, i, call[r].length>>)
                  ELSE [parts |-> <<>>, disabled |-> TRUE]]
    /\ UNCHANGED <<entries, overlapped>>

\* finalize_and_store: the accumulator is popped, its answer written later.
StreamDone(r) ==
    LET k == call[r].key
        a == accumulators[k] IN
    /\ call[r].stage = "streaming" /\ call[r].sent = call[r].length
    /\ accumulators' = IF call[r].store
                          THEN [accumulators EXCEPT ![k] = NoAccumulator] ELSE accumulators
    /\ call' = [call EXCEPT ![r] =
          IF call[r].store /\ ~a.disabled /\ a.parts # <<>>
             THEN [call[r] EXCEPT !.stage = "storing", !.answer = a.parts] ELSE IdleCall]
    /\ UNCHANGED <<entries, overlapped>>

\* The provider fails in mid-stream: the key's accumulator is discarded.
StreamFails(r) ==
    LET k == call[r].key IN
    /\ call[r].stage = "streaming"
    /\ accumulators' = IF call[r].store
                          THEN [accumulators EXCEPT ![k] = NoAccumulator] ELSE accumulators
    /\ call' = [call EXCEPT ![r] = IdleCall]
    /\ UNCHANGED <<entries, overlapped>>

\* The caller goes away: a cancellation is no Exception, so the accumulator
\* stays registered.
StreamAbandoned(r) ==
    /\ call[r].stage = "streaming"
    /\ call' = [call EXCEPT ![r] = IdleCall]
    /\ UNCHANGED <<entries, accumulators, overlapped>>

CacheNext ==
    \/ \E r \in Callers, k \in CacheKeys, control \in Controls, streams \in BOOLEAN :
          \E n \in 1..StreamLength : Dispatch(r, k, control, streams, n)
    \/ \E r \in Callers : Hit(r) \/ Miss(r) \/ StreamOpens(r) \/ OpenFails(r)
                          \/ StreamDone(r) \/ StreamFails(r) \/ StreamAbandoned(r)
    \/ \E r \in Callers, ok \in BOOLEAN : Returns(r, ok) \/ Store(r, ok) \/ StreamChunk(r, ok)
    \/ \E k \in CacheKeys : EntryExpires(k)

CacheSpec == CacheInit /\ [][CacheNext]_cacheVars

-----------------------------------------------------------------------------
(* Properties *)

\* What the cache replays is the whole answer of one call, never a part of it
\* or a mixture, whatever fails, is abandoned or overflows the recorder
\* (streaming.py:186), unless two recorded streams of the key ran at once.
CachedAnswersAreWhole ==
    \A k \in CacheKeys :
        (entries[k] # Nothing /\ k \notin overlapped)
            => \E r \in Callers, n \in 1..StreamLength : entries[k] = Whole(r, n)
=============================================================================
