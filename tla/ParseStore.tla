----------------------------- MODULE ParseStore -----------------------------
(***************************************************************************)
(* BSParseCache: payloads by script path, kept between runs in one store.  *)
(* Several caches, of builds with different format versions, share it.     *)
(* flush() replaces the store in one step or leaves it (StoreFile shows    *)
(* how); between a flush and a load anything may happen to the file.       *)
(*                                                                         *)
(* Digests and checksums are taken to tell different bytes apart.          *)
(***************************************************************************)
EXTENDS Integers

CONSTANTS
    N,              \* script paths: 1 .. N, in the order of their names
    Sources,        \* contents of a script
    Caches,
    Formats,        \* values of CACHE_FORMAT_VERSION
    VersionOf,      \* cache -> the format of its build
    Absent,         \* no entry, no record, no reason, no file
    MaxEvents       \* bound of the model: payloads put, scripts made or removed,
                    \* and damages to the store

ASSUME ParseStoreAssumption ==
    /\ N \in Nat
    /\ MaxEvents \in Nat
    /\ VersionOf \in [Caches -> Formats]

ScriptPaths == 1 .. N

VARIABLES
    entries,        \* cache -> path -> entry
    rejected,       \* cache -> path -> why its stored entry was refused
    store_corrupt,  \* cache -> the store could not be trusted
    loading,        \* cache -> the load it is in: the image, the next record
    answer,         \* what the last step returned, if it was a lookup
    stored,         \* the file, and what it was written from while sound
    exists,         \* script paths that are there
    known,          \* history: cache -> paths it has had since it was cleared
    events          \* how many of those there were

psvars == <<entries, rejected, store_corrupt, loading, answer, stored, exists, known, events>>

-----------------------------------------------------------------------------
(* BSMissReason; those that are kept for a path. *)
Refusals == {"VERSION_MISMATCH", "DIGEST_MISMATCH", "EVICTED"}
Reasons == Refusals \cup {"COLD", "CORRUPT"}

(* Mutant: the digest covers the length of the source alone. *)
DigestOfLength(version, source) == <<version, CHOOSE t \in Sources : TRUE>>

(* compute_source_digest covers the version and the source, no path. *)
Digest(version, source) == <<version, source>>

(* External: what a parser of some version makes of a script. *)
Payload(path, source, version) == <<path, source, version>>

CacheEntries == [digest : Formats \X Sources, payload : ScriptPaths \X Sources \X Formats]
StoredRecords == [version : Formats, key : ScriptPaths, entry : CacheEntries, intact : BOOLEAN]

Origins == [version : Formats, entries : [ScriptPaths -> CacheEntries \cup {Absent}]]

(* The bytes of a store: a header, and a record in each place that is not  *)
(* empty.  A writer puts the record of a path in the place of that path.   *)
(* The last field is history.                                              *)
StoreImages ==
    [magic : BOOLEAN, records : [ScriptPaths -> StoredRecords \cup {Absent}],
     trailing : BOOLEAN, from : Origins \cup {Absent}]

ASSUME AbsentAssumption ==
    Absent \notin CacheEntries \cup StoredRecords \cup Origins \cup StoreImages \cup Reasons

Loads == [image : StoreImages, next : 1 .. N + 1]
NotLoading == [image |-> Absent, next |-> 0]
NoAnswer == [cache |-> Absent, path |-> 0, source |-> Absent, hit |-> FALSE, reason |-> Absent,
             payload |-> Absent]

Nothing == [p \in ScriptPaths |-> Absent]
NotInLoad(c) == loading[c] = NotLoading

PSInit ==
    /\ entries = [c \in Caches |-> Nothing]
    /\ rejected = [c \in Caches |-> Nothing]
    /\ store_corrupt = [c \in Caches |-> FALSE]
    /\ loading = [c \in Caches |-> NotLoading]
    /\ answer = NoAnswer
    /\ stored = Absent
    /\ exists = ScriptPaths
    /\ known = [c \in Caches |-> {}]
    /\ events = 0

-----------------------------------------------------------------------------
(* clear, and what a load that fails leaves. *)
Cleared(c, corrupt) ==
    /\ entries' = [entries EXCEPT ![c] = Nothing]
    /\ rejected' = [rejected EXCEPT ![c] = Nothing]
    /\ store_corrupt' = [store_corrupt EXCEPT ![c] = corrupt]
    /\ known' = [known EXCEPT ![c] = {}]

Clear(c) ==
    /\ NotInLoad(c)
    /\ Cleared(c, FALSE)
    /\ answer' = NoAnswer
    /\ UNCHANGED <<loading, stored, exists, events>>

(* load: the file is read whole.  No file is a cold cache; one that cannot *)
(* be read, or has no header, is not.                                      *)
LoadStore(c) ==
    /\ NotInLoad(c)
    /\ \/ /\ stored = Absent
          /\ Cleared(c, FALSE)
          /\ UNCHANGED loading
       \/ /\ stored # Absent          \* it cannot be opened, or is no store
          /\ Cleared(c, TRUE)
          /\ UNCHANGED loading
       \/ /\ stored # Absent /\ stored.magic
          /\ Cleared(c, FALSE)
          /\ loading' = [loading EXCEPT ![c] = [image |-> stored, next |-> 1]]
    /\ UNCHANGED <<stored, exists, events>>
    /\ answer' = NoAnswer

(* Mutant: a record that cannot be read ends the load, and what was read   *)
(* before it is kept.                                                      *)
LoadPrefix(c) ==
    /\ loading' = [loading EXCEPT ![c] = NotLoading]
    /\ store_corrupt' = [store_corrupt EXCEPT ![c] = TRUE]
    /\ UNCHANGED <<entries, rejected, known>>

(* Damage anywhere discards the store as a whole.                          *)
DiscardStore(c) ==
    /\ loading' = [loading EXCEPT ![c] = NotLoading]
    /\ Cleared(c, TRUE)

SameVersion(c, r) == r.version = VersionOf[c]

(* The next record: damaged, a second one for its key, one of another      *)
(* version, or an entry.                                                   *)
LoadRecord(c) ==
    LET i == loading[c].next
        r == loading[c].image.records[i]
    IN /\ ~NotInLoad(c) /\ i <= N
       /\ \/ /\ r = Absent
             /\ UNCHANGED <<entries, rejected, store_corrupt, known>>
             /\ loading' = [loading EXCEPT ![c].next = i + 1]
          \/ /\ r # Absent
             /\ r.intact => entries[c][r.key] # Absent \/ rejected[c][r.key] # Absent
             /\ DiscardStore(c)
          \/ /\ r # Absent /\ r.intact
             /\ entries[c][r.key] = Absent /\ rejected[c][r.key] = Absent
             /\ entries' = [entries EXCEPT ![c][r.key] =
                    IF SameVersion(c, r) THEN r.entry ELSE Absent]
             /\ rejected' = [rejected EXCEPT ![c][r.key] =
                    IF SameVersion(c, r) THEN Absent ELSE "VERSION_MISMATCH"]
             /\ known' = [known EXCEPT ![c] = @ \cup {r.key}]
             /\ loading' = [loading EXCEPT ![c].next = i + 1]
             /\ UNCHANGED store_corrupt
       /\ UNCHANGED <<stored, exists, events>>
       /\ answer' = NoAnswer

LoadEnd(c) ==
    /\ ~NotInLoad(c) /\ loading[c].next > N
    /\ IF loading[c].image.trailing THEN DiscardStore(c)
       ELSE /\ loading' = [loading EXCEPT ![c] = NotLoading]
            /\ UNCHANGED <<entries, rejected, store_corrupt, known>>
    /\ UNCHANGED <<stored, exists, events>>
    /\ answer' = NoAnswer

-----------------------------------------------------------------------------
Answer(c, p, s, hit, reason, payload) ==
    answer' = [cache |-> c, path |-> p, source |-> s, hit |-> hit, reason |-> reason,
               payload |-> payload]

(* Mutant: a stale entry goes without leaving its reason. *)
Forget(c, p, reason) ==
    /\ entries' = [entries EXCEPT ![c][p] = Absent]
    /\ UNCHANGED rejected

Reject(c, p, reason) ==
    /\ entries' = [entries EXCEPT ![c][p] = Absent]
    /\ rejected' = [rejected EXCEPT ![c][p] = reason]

(* lookup: a tombstone first, then the entry, then the whole store. *)
Lookup(c, p, s) ==
    LET e == entries[c][p] IN
    /\ NotInLoad(c)
    /\ \/ /\ rejected[c][p] # Absent
          /\ Answer(c, p, s, FALSE, rejected[c][p], Absent)
          /\ UNCHANGED <<entries, rejected>>
       \/ /\ rejected[c][p] = Absent /\ e # Absent /\ p \notin exists
          /\ Answer(c, p, s, FALSE, "EVICTED", Absent)
          /\ Reject(c, p, "EVICTED")
       \/ /\ rejected[c][p] = Absent /\ e # Absent /\ p \in exists
          /\ e.digest # Digest(VersionOf[c], s)
          /\ Answer(c, p, s, FALSE, "DIGEST_MISMATCH", Absent)
          /\ Reject(c, p, "DIGEST_MISMATCH")
       \/ /\ rejected[c][p] = Absent /\ e # Absent /\ p \in exists
          /\ e.digest = Digest(VersionOf[c], s)
          /\ Answer(c, p, s, TRUE, "COLD", e.payload)
          /\ UNCHANGED <<entries, rejected>>
       \/ /\ rejected[c][p] = Absent /\ e = Absent
          /\ Answer(c, p, s, FALSE, IF store_corrupt[c] THEN "CORRUPT" ELSE "COLD", Absent)
          /\ UNCHANGED <<entries, rejected>>
    /\ UNCHANGED <<store_corrupt, loading, stored, exists, known, events>>

(* Mutant: the tombstone stays. *)
SupersedeEntry(c, p, entry) ==
    /\ entries' = [entries EXCEPT ![c][p] = entry]
    /\ UNCHANGED rejected

Supersede(c, p, entry) ==
    /\ entries' = [entries EXCEPT ![c][p] = entry]
    /\ rejected' = [rejected EXCEPT ![c][p] = Absent]

Put(c, p, s) ==
    /\ NotInLoad(c)
    /\ events < MaxEvents
    /\ events' = events + 1
    /\ Supersede(c, p, [digest |-> Digest(VersionOf[c], s),
                        payload |-> Payload(p, s, VersionOf[c])])
    /\ known' = [known EXCEPT ![c] = @ \cup {p}]
    /\ answer' = NoAnswer
    /\ UNCHANGED <<store_corrupt, loading, stored, exists>>

Encode(c) ==
    [p \in ScriptPaths |-> IF entries[c][p] = Absent THEN Absent
        ELSE [version |-> VersionOf[c], key |-> p, entry |-> entries[c][p], intact |-> TRUE]]

(* flush: the tombstones stay behind.  A flush that fails changes nothing. *)
Flush(c) ==
    /\ NotInLoad(c)
    /\ stored' = [magic |-> TRUE, records |-> Encode(c), trailing |-> FALSE,
                  from |-> [version |-> VersionOf[c], entries |-> entries[c]]]
    /\ answer' = NoAnswer
    /\ UNCHANGED <<entries, rejected, store_corrupt, loading, exists, known, events>>

EvictEntriesWithMissingFiles(c) ==
    LET gone(p) == entries[c][p] # Absent /\ p \notin exists IN
    /\ NotInLoad(c)
    /\ entries' = [entries EXCEPT ![c] = [p \in ScriptPaths |-> IF gone(p) THEN Absent ELSE @[p]]]
    /\ rejected' = [rejected EXCEPT ![c] = [p \in ScriptPaths |-> IF gone(p) THEN "EVICTED" ELSE @[p]]]
    /\ answer' = NoAnswer
    /\ UNCHANGED <<store_corrupt, loading, stored, exists, known, events>>

-----------------------------------------------------------------------------
(* External: scripts come and go, and so does the store, which may also    *)
(* lose its header, end early or have a bit flipped (a record that is not  *)
(* intact, the last one there is if the file is cut), get bytes behind its *)
(* end, or have been written by something that claims a key twice.         *)
Script(p) ==
    /\ events < MaxEvents
    /\ events' = events + 1
    /\ exists' = IF p \in exists THEN exists \ {p} ELSE exists \cup {p}
    /\ answer' = NoAnswer
    /\ UNCHANGED <<entries, rejected, store_corrupt, loading, stored, known>>

Damage ==
    /\ stored # Absent
    /\ events < MaxEvents
    /\ events' = events + 1
    /\ \/ stored' = Absent
       \/ stored' = [stored EXCEPT !.magic = FALSE, !.from = Absent]
       \/ stored' = [stored EXCEPT !.trailing = TRUE, !.from = Absent]
       \/ \E p \in ScriptPaths : stored.records[p] # Absent
            /\ stored' = [stored EXCEPT !.records[p].intact = FALSE, !.from = Absent]
       \/ \E p \in ScriptPaths : \E q \in ScriptPaths \ {p} : stored.records[p] # Absent
            /\ stored' = [stored EXCEPT !.records[q] = stored.records[p], !.from = Absent]
    /\ answer' = NoAnswer
    /\ UNCHANGED <<entries, rejected, store_corrupt, loading, exists, known>>

PSNext ==
    \/ \E c \in Caches :
        \/ Clear(c) \/ LoadStore(c) \/ LoadRecord(c) \/ LoadEnd(c) \/ Flush(c)
        \/ EvictEntriesWithMissingFiles(c)
        \/ \E p \in ScriptPaths, s \in Sources : Lookup(c, p, s) \/ Put(c, p, s)
    \/ \E p \in ScriptPaths : Script(p)
    \/ Damage

PSSpec == PSInit /\ [][PSNext]_psvars

-----------------------------------------------------------------------------
(* Properties *)

(* The values of the state. *)
PSTypeOK ==
    /\ entries \in [Caches -> [ScriptPaths -> CacheEntries \cup {Absent}]]
    /\ rejected \in [Caches -> [ScriptPaths -> Refusals \cup {Absent}]]
    /\ store_corrupt \in [Caches -> BOOLEAN]
    /\ loading \in [Caches -> {NotLoading} \cup Loads]
    /\ stored \in StoreImages \cup {Absent}
    /\ exists \in SUBSET ScriptPaths
    /\ known \in [Caches -> SUBSET ScriptPaths]
    /\ events \in 0 .. MaxEvents
    /\ \A c \in Caches, p \in ScriptPaths : entries[c][p] = Absent \/ rejected[c][p] = Absent

(* A hit is what a parser of this version made of this very path and       *)
(* source, whichever build wrote the store it came from and whatever       *)
(* happened to that store.                                                 *)
HitsAreForTheirSource ==
    answer.hit => answer.payload = Payload(answer.path, answer.source, VersionOf[answer.cache])

(* "Malformed is never absent": a miss is cold only where the cache has    *)
(* had nothing since it was cleared and trusts its store.                  *)
ColdIsAbsent ==
    [][answer'.reason = "COLD" /\ ~answer'.hit
         => answer'.path \notin known[answer'.cache] /\ ~store_corrupt[answer'.cache]]_psvars

(* A load gives exactly the entries that were flushed, or their tombstones *)
(* where the format has changed since; a store that was damaged in any way *)
(* gives none of them and is called corrupt.                               *)
LoadIsAllOrNothing ==
    [][\A c \in Caches : ~NotInLoad(c) /\ NotInLoad(c)' =>
        LET from == loading[c].image.from IN
        IF from = Absent THEN entries'[c] = Nothing /\ store_corrupt'[c]
        ELSE /\ ~store_corrupt'[c]
             /\ entries'[c] = IF from.version = VersionOf[c] THEN from.entries ELSE Nothing
             /\ rejected'[c] = [p \in ScriptPaths |->
                    IF from.entries[p] # Absent /\ from.version # VersionOf[c]
                    THEN "VERSION_MISMATCH" ELSE Absent]]_psvars

=============================================================================
