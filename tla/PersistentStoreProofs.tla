----------------------- MODULE PersistentStoreProofs ------------------------
(***************************************************************************)
(* Theorems about the persistent stores: what a cache keeps in one         *)
(* (ParseStore), and how its file is replaced (StoreFile).                 *)
(*                                                                         *)
(* ParseStore, for any paths, sources, caches and versions: the invariant  *)
(* IInv follows a record from the put that made it through stores and      *)
(* loads, and says how far a load has come: everything in front of the     *)
(* next record has been read whole, each key once.                         *)
(*                                                                         *)
(* StoreFile, for any writers, readers, processes, images and bounds: the  *)
(* invariant SFInv says that the flushes of one process have names of      *)
(* their own, that an inode under a temporary name is not the store's nor  *)
(* anybody's who loads it, and that whatever two flushes have opened under *)
(* one name is known to be shared.                                         *)
(***************************************************************************)
EXTENDS ParseStore, StoreFile, TLAPS

-----------------------------------------------------------------------------
(* ParseStore: the invariant *)

(* An entry somebody of this version put for this path. *)
IsPut(p, version, entry) ==
    \E s \in Sources : entry = [digest |-> Digest(version, s),
                                payload |-> Payload(p, s, version)]

FileIsPut(f) ==
    \A p \in ScriptPaths : LET r == f.records[p] IN r # Absent => IsPut(r.key, r.version, r.entry)

EntriesArePut ==
    /\ \A c \in Caches, p \in ScriptPaths :
          entries[c][p] # Absent => IsPut(p, VersionOf[c], entries[c][p])
    /\ stored # Absent => FileIsPut(stored)
    /\ \A c \in Caches : ~NotInLoad(c) => FileIsPut(loading[c].image)

(* What a cache has had it still has, or knows why not. *)
Has(c, p) == entries[c][p] # Absent \/ rejected[c][p] # Absent
KnownIsKept == \A c \in Caches, p \in ScriptPaths : p \in known[c] <=> Has(c, p)

(* A file is what was flushed, or shows that it is not. *)
Written(f) ==
    /\ f.magic /\ ~f.trailing
    /\ f.records = [p \in ScriptPaths |-> IF f.from.entries[p] = Absent THEN Absent
          ELSE [version |-> f.from.version, key |-> p, entry |-> f.from.entries[p],
                intact |-> TRUE]]
Malformed(f) ==
    \/ ~f.magic \/ f.trailing
    \/ \E p \in ScriptPaths : f.records[p] # Absent /\ ~f.records[p].intact
    \/ \E p, q \in ScriptPaths : /\ p # q /\ f.records[p] # Absent /\ f.records[q] # Absent
                                 /\ f.records[p].key = f.records[q].key
FileIsClear(f) == IF f.from = Absent THEN Malformed(f) ELSE Written(f)

FilesAreClear ==
    /\ stored # Absent => FileIsClear(stored)
    /\ \A c \in Caches : ~NotInLoad(c) => loading[c].image.magic /\ FileIsClear(loading[c].image)

(* The records in front of the next one have been read. *)
ReadSoFar(c) ==
    LET f == loading[c].image
        read == {p \in ScriptPaths : p < loading[c].next /\ f.records[p] # Absent}
    IN /\ ~store_corrupt[c]
       /\ \A p \in read : f.records[p].intact /\ Has(c, f.records[p].key)
       /\ \A p, q \in read : p # q => f.records[p].key # f.records[q].key
       /\ f.from # Absent => \A p \in ScriptPaths :
            /\ entries[c][p] = IF p \in read /\ f.from.version = VersionOf[c]
                               THEN f.from.entries[p] ELSE Absent
            /\ rejected[c][p] = IF p \in read /\ f.from.version # VersionOf[c]
                                THEN "VERSION_MISMATCH" ELSE Absent
LoadsReadAll == \A c \in Caches : ~NotInLoad(c) => ReadSoFar(c)

IInv ==
    PSTypeOK /\ EntriesArePut /\ KnownIsKept /\ FilesAreClear /\ LoadsReadAll
    /\ HitsAreForTheirSource

-----------------------------------------------------------------------------
(* ParseStore: steps *)

(* The disjuncts of Next, each for one cache. *)
Step(c) ==
    \/ Clear(c) \/ LoadStore(c) \/ LoadRecord(c) \/ LoadEnd(c) \/ Flush(c)
    \/ EvictEntriesWithMissingFiles(c)
    \/ \E p \in ScriptPaths, s \in Sources : Lookup(c, p, s) \/ Put(c, p, s)

LEMMA InitIsIInv == ASSUME PSInit PROVE IInv
<1> USE DEF PSInit
<1>1. PSTypeOK
  BY ParseStoreAssumption DEF PSTypeOK, Nothing, NotInLoad
<1>2. EntriesArePut /\ KnownIsKept /\ FilesAreClear /\ LoadsReadAll
  BY DEF EntriesArePut, KnownIsKept, Has, FilesAreClear, LoadsReadAll, NotInLoad, Nothing
<1>3. HitsAreForTheirSource
  BY DEF HitsAreForTheirSource, NoAnswer
<1> QED  BY <1>1, <1>2, <1>3 DEF IInv

(* Clearing, and a discarded load, leave nothing. *)
LEMMA ClearedIsTyped ==
    ASSUME PSTypeOK, NEW c \in Caches, NEW corrupt \in BOOLEAN, Cleared(c, corrupt)
    PROVE  /\ entries' \in [Caches -> [ScriptPaths -> CacheEntries \cup {Absent}]]
           /\ rejected' \in [Caches -> [ScriptPaths -> Refusals \cup {Absent}]]
           /\ store_corrupt' \in [Caches -> BOOLEAN]
           /\ known' \in [Caches -> SUBSET ScriptPaths]
           /\ \A d \in Caches, p \in ScriptPaths : entries'[d][p] = Absent \/ rejected'[d][p] = Absent
BY DEF PSTypeOK, Cleared, Nothing

LEMMA LoadsGoOn ==
    ASSUME NEW l \in Loads, NEW j \in 1 .. N + 1
    PROVE  [l EXCEPT !.next = j] \in Loads
BY DEF Loads

LEMMA TypeStep == ASSUME PSTypeOK, [PSNext]_psvars PROVE PSTypeOK'
<1> USE ParseStoreAssumption DEF PSTypeOK
<1>1. ASSUME NEW c \in Caches, Clear(c) PROVE PSTypeOK'
  BY <1>1, ClearedIsTyped DEF Clear
<1>2. ASSUME NEW c \in Caches, LoadStore(c) PROVE PSTypeOK'
  <2>1. \E corrupt \in BOOLEAN : Cleared(c, corrupt)
    BY <1>2 DEF LoadStore
  <2>2. stored \in StoreImages => [image |-> stored, next |-> 1] \in Loads
    BY DEF Loads
  <2>3. loading' \in [Caches -> {NotLoading} \cup Loads]
    BY <1>2, <2>2 DEF LoadStore
  <2> QED  BY <1>2, <2>1, <2>3, ClearedIsTyped DEF LoadStore
<1>3. ASSUME NEW c \in Caches, LoadRecord(c) PROVE PSTypeOK'
  <2> DEFINE i == loading[c].next
             r == loading[c].image.records[i]
  <2>1. loading[c] \in Loads
    BY <1>3 DEF LoadRecord, NotInLoad
  <2>3. i \in 1 .. N + 1 /\ loading[c].image \in StoreImages
    BY <2>1 DEF Loads
  <2>4. i \in ScriptPaths /\ i + 1 \in 1 .. N + 1
    <3>1. i <= N
      BY <1>3 DEF LoadRecord
    <3> HIDE DEF i
    <3> QED  BY <2>3, <3>1 DEF ScriptPaths
  <2>5. [loading[c] EXCEPT !.next = i + 1] \in Loads
    BY <2>1, <2>4, LoadsGoOn
  <2>6. [loading EXCEPT ![c].next = i + 1] \in [Caches -> {NotLoading} \cup Loads]
    <3>1. [loading EXCEPT ![c].next = i + 1]
              = [loading EXCEPT ![c] = [loading[c] EXCEPT !.next = i + 1]]
      OBVIOUS
    <3> QED  BY <2>5, <3>1
  <2>2. CASE r = Absent \/ DiscardStore(c)
    <3>1. loading' \in [Caches -> {NotLoading} \cup Loads]
      BY <1>3, <2>6, <2>2 DEF LoadRecord, DiscardStore
    <3>2. CASE UNCHANGED <<entries, rejected, store_corrupt, known>>
      BY <1>3, <3>1, <3>2 DEF LoadRecord
    <3>3. CASE DiscardStore(c)
      BY <1>3, <3>1, <3>3, ClearedIsTyped DEF LoadRecord, DiscardStore
    <3> QED  BY <1>3, <2>2, <3>2, <3>3 DEF LoadRecord
  <2>7. CASE r # Absent /\ ~DiscardStore(c)
    <3>1. r \in StoredRecords
      BY <2>3, <2>4, <2>7 DEF StoreImages
    <3>2. r.key \in ScriptPaths /\ r.entry \in CacheEntries
      BY <3>1 DEF StoredRecords
    <3>3. loading' \in [Caches -> {NotLoading} \cup Loads]
      BY <1>3, <2>6, <2>7 DEF LoadRecord
    <3>4. /\ entries' = [entries EXCEPT ![c][r.key] =
                            IF SameVersion(c, r) THEN r.entry ELSE Absent]
          /\ rejected' = [rejected EXCEPT ![c][r.key] =
                            IF SameVersion(c, r) THEN Absent ELSE "VERSION_MISMATCH"]
          /\ known' = [known EXCEPT ![c] = @ \cup {r.key}]
          /\ UNCHANGED <<store_corrupt, stored, exists, events>>
      BY <1>3, <2>7 DEF LoadRecord
    <3> QED  BY <3>2, <3>3, <3>4 DEF Refusals
  <2> QED  BY <2>2, <2>7
<1>4. ASSUME NEW c \in Caches, LoadEnd(c) PROVE PSTypeOK'
  BY <1>4, ClearedIsTyped DEF LoadEnd, DiscardStore
<1>5. ASSUME NEW c \in Caches, Flush(c) PROVE PSTypeOK'
  BY <1>5 DEF Flush, Encode, StoreImages, StoredRecords, Origins
<1>6. ASSUME NEW c \in Caches, EvictEntriesWithMissingFiles(c) PROVE PSTypeOK'
  BY <1>6 DEF EvictEntriesWithMissingFiles, Refusals
<1>7. ASSUME NEW c \in Caches, NEW p \in ScriptPaths, NEW s \in Sources, Lookup(c, p, s)
      PROVE PSTypeOK'
  <2>1. CASE UNCHANGED <<entries, rejected>>
    BY <1>7, <2>1 DEF Lookup
  <2>2. CASE \E reason \in Refusals : Reject(c, p, reason)
    BY <1>7, <2>2 DEF Lookup, Reject
  <2> QED  BY <1>7, <2>1, <2>2 DEF Lookup, Refusals
<1>8. ASSUME NEW c \in Caches, NEW p \in ScriptPaths, NEW s \in Sources, Put(c, p, s)
      PROVE PSTypeOK'
  BY <1>8 DEF Put, Supersede, CacheEntries, Digest, Payload
<1>9. ASSUME NEW p \in ScriptPaths, Script(p) PROVE PSTypeOK'
  BY <1>9 DEF Script
<1>10. CASE Damage
  <2>1. \A r \in StoredRecords : [r EXCEPT !.intact = FALSE] \in StoredRecords
    BY DEF StoredRecords
  <2>2. stored \in StoreImages
    BY <1>10 DEF Damage
  <2>3. /\ [stored EXCEPT !.magic = FALSE, !.from = Absent] \in StoreImages
        /\ [stored EXCEPT !.trailing = TRUE, !.from = Absent] \in StoreImages
    BY <2>2 DEF StoreImages
  <2>4. ASSUME NEW r \in [ScriptPaths -> StoredRecords \cup {Absent}]
        PROVE  [stored EXCEPT !.records = r, !.from = Absent] \in StoreImages
    BY <2>2 DEF StoreImages
  <2>5. stored.records \in [ScriptPaths -> StoredRecords \cup {Absent}]
    BY <2>2 DEF StoreImages
  <2>6. ASSUME NEW p \in ScriptPaths, stored.records[p] # Absent
        PROVE  [stored EXCEPT !.records[p].intact = FALSE, !.from = Absent] \in StoreImages
    <3>1. [stored.records[p] EXCEPT !.intact = FALSE] \in StoredRecords
      BY <2>1, <2>5, <2>6
    <3>2. [stored.records EXCEPT ![p] = [stored.records[p] EXCEPT !.intact = FALSE]]
              \in [ScriptPaths -> StoredRecords \cup {Absent}]
      BY <2>5, <3>1
    <3> QED  BY <2>4, <3>2
  <2>7. ASSUME NEW p \in ScriptPaths, NEW q \in ScriptPaths
        PROVE  [stored EXCEPT !.records[q] = stored.records[p], !.from = Absent] \in StoreImages
    <3>1. [stored.records EXCEPT ![q] = stored.records[p]] \in [ScriptPaths -> StoredRecords \cup {Absent}]
      BY <2>5
    <3> QED  BY <2>4, <3>1
  <2>8. stored' \in StoreImages \cup {Absent}
    <3>1. CASE \E p \in ScriptPaths : stored.records[p] # Absent
                /\ stored' = [stored EXCEPT !.records[p].intact = FALSE, !.from = Absent]
      BY <3>1, <2>6
    <3>2. CASE \E p \in ScriptPaths : \E q \in ScriptPaths \ {p} : stored.records[p] # Absent
                /\ stored' = [stored EXCEPT !.records[q] = stored.records[p], !.from = Absent]
      <4>1. PICK p \in ScriptPaths, q \in ScriptPaths :
                stored' = [stored EXCEPT !.records[q] = stored.records[p], !.from = Absent]
        BY <3>2
      <4> QED  BY <4>1, <2>7, Zenon
    <3> QED  BY <1>10, <2>3, <3>1, <3>2, Zenon DEF Damage
  <2>9. /\ events < MaxEvents /\ events' = events + 1
        /\ UNCHANGED <<entries, rejected, store_corrupt, loading, exists, known>>
    BY <1>10 DEF Damage
  <2> QED  BY <2>8, <2>9
<1>11. CASE UNCHANGED psvars
  BY <1>11 DEF psvars, NotInLoad
<1> QED  BY <1>1, <1>2, <1>3, <1>4, <1>5, <1>6, <1>7, <1>8, <1>9, <1>10, <1>11 DEF PSNext

-----------------------------------------------------------------------------
(* The next record of a load *)

NextRecord(c) == loading[c].image.records[loading[c].next]

GoesOn(c) ==
    /\ loading' = [loading EXCEPT ![c].next = @ + 1]
    /\ UNCHANGED <<store_corrupt, stored>>

Skips(c) ==
    /\ NextRecord(c) = Absent
    /\ UNCHANGED <<entries, rejected, known>>
    /\ GoesOn(c)

Reads(c) ==
    LET r == NextRecord(c) IN
    /\ r # Absent /\ r.intact /\ ~Has(c, r.key)
    /\ entries' = [entries EXCEPT ![c][r.key] = IF SameVersion(c, r) THEN r.entry ELSE Absent]
    /\ rejected' = [rejected EXCEPT ![c][r.key] =
                        IF SameVersion(c, r) THEN Absent ELSE "VERSION_MISMATCH"]
    /\ known' = [known EXCEPT ![c] = @ \cup {r.key}]
    /\ GoesOn(c)

Refuses(c) ==
    /\ NextRecord(c) # Absent
    /\ NextRecord(c).intact => Has(c, NextRecord(c).key)
    /\ DiscardStore(c)
    /\ UNCHANGED stored

LEMMA LoadRecordIs ==
    ASSUME PSTypeOK, NEW c \in Caches, LoadRecord(c)
    PROVE  /\ ~NotInLoad(c) /\ loading[c] \in Loads /\ loading[c].next \in ScriptPaths
           /\ loading[c].image \in StoreImages
           /\ NextRecord(c) \in StoredRecords \cup {Absent}
           /\ answer' = NoAnswer /\ UNCHANGED stored
           /\ Skips(c) \/ Reads(c) \/ Refuses(c)
<1>1. ~NotInLoad(c) /\ loading[c].next <= N
  BY DEF LoadRecord
<1>2. loading[c] \in Loads
  BY <1>1 DEF PSTypeOK, NotInLoad
<1>3. loading[c].next \in ScriptPaths /\ loading[c].image \in StoreImages
  BY <1>1, <1>2, ParseStoreAssumption DEF Loads, ScriptPaths
<1>4. NextRecord(c) \in StoredRecords \cup {Absent}
  BY <1>3 DEF NextRecord, StoreImages
<1>5. Skips(c) \/ Reads(c) \/ Refuses(c)
  BY DEF LoadRecord, Skips, Reads, Refuses, GoesOn, NextRecord, Has
<1> QED  BY <1>1, <1>2, <1>3, <1>4, <1>5 DEF LoadRecord

-----------------------------------------------------------------------------
(* Entries are put *)

LEMMA NothingIsPut ==
    ASSUME EntriesArePut, NEW c \in Caches, PSTypeOK, NEW corrupt, Cleared(c, corrupt)
    PROVE  \A d \in Caches, p \in ScriptPaths :
              entries'[d][p] # Absent => IsPut(p, VersionOf[d], entries'[d][p])
BY DEF EntriesArePut, Cleared, Nothing, PSTypeOK

LEMMA EntriesStep ==
    ASSUME PSTypeOK, EntriesArePut, [PSNext]_psvars
    PROVE  EntriesArePut'
<1> DEFINE EntriesOK == \A d \in Caches, p \in ScriptPaths :
                entries[d][p] # Absent => IsPut(p, VersionOf[d], entries[d][p])
           FileOK == stored # Absent => FileIsPut(stored)
           LoadsOK == \A d \in Caches : ~NotInLoad(d) => FileIsPut(loading[d].image)
<1>a. EntriesOK /\ FileOK /\ LoadsOK
  BY DEF EntriesArePut
<1>b. SUFFICES EntriesOK' /\ FileOK' /\ LoadsOK'
  BY DEF EntriesArePut
<1> HIDE DEF EntriesOK, FileOK, LoadsOK
<1>1. ASSUME NEW c \in Caches, Clear(c) PROVE EntriesOK' /\ FileOK' /\ LoadsOK'
  BY <1>1, <1>a, NothingIsPut DEF Clear, EntriesOK, FileOK, LoadsOK, NotInLoad
<1>2. ASSUME NEW c \in Caches, LoadStore(c) PROVE EntriesOK' /\ FileOK' /\ LoadsOK'
  <2>1. \E corrupt \in BOOLEAN : Cleared(c, corrupt)
    BY <1>2 DEF LoadStore
  <2>2. EntriesOK' /\ FileOK'
    BY <1>2, <1>a, <2>1, NothingIsPut DEF LoadStore, EntriesOK, FileOK
  <2>3. \/ loading' = loading
        \/ stored # Absent /\ loading' = [loading EXCEPT ![c] = [image |-> stored, next |-> 1]]
    BY <1>2 DEF LoadStore
  <2>4. CASE loading' = loading
    BY <2>2, <2>4, <1>a DEF LoadsOK, NotInLoad
  <2>5. CASE stored # Absent /\ loading' = [loading EXCEPT ![c] = [image |-> stored, next |-> 1]]
    <3>1. FileIsPut(stored)
      BY <2>5, <1>a DEF FileOK
    <3>2. ASSUME NEW d \in Caches, ~NotInLoad(d)' PROVE FileIsPut(loading'[d].image)
      BY <2>5, <3>1, <3>2, <1>a DEF LoadsOK, NotInLoad, PSTypeOK
    <3> QED  BY <3>2, <2>2 DEF LoadsOK, FileIsPut
  <2> QED  BY <2>2, <2>3, <2>4, <2>5
<1>3. ASSUME NEW c \in Caches, LoadRecord(c) PROVE EntriesOK' /\ FileOK' /\ LoadsOK'
  <2>1. FileOK'
    BY <1>3, <1>a, LoadRecordIs DEF FileOK
  <2>2. CASE Refuses(c)
    BY <2>1, <2>2, <1>a, NothingIsPut DEF Refuses, DiscardStore, EntriesOK, LoadsOK, NotInLoad, PSTypeOK
  <2>3. LoadsOK' \/ Refuses(c)
    <3>1. CASE GoesOn(c)
      BY <3>1, <1>3, <1>a, LoadRecordIs DEF GoesOn, LoadsOK, NotInLoad, PSTypeOK
    <3> QED  BY <1>3, <3>1, LoadRecordIs DEF Skips, Reads
  <2>4. CASE Skips(c)
    BY <2>4, <2>1, <2>3, <1>a, <2>2 DEF Skips, EntriesOK
  <2>5. CASE Reads(c)
    <3>1. NextRecord(c) \in StoredRecords /\ NextRecord(c).key \in ScriptPaths
      BY <1>3, <2>5, LoadRecordIs DEF Reads, StoredRecords
    <3>2. IsPut(NextRecord(c).key, NextRecord(c).version, NextRecord(c).entry)
      BY <1>3, <1>a, <2>5, LoadRecordIs DEF Reads, LoadsOK, FileIsPut, NextRecord
    <3>3. EntriesOK'
      BY <1>a, <2>5, <3>1, <3>2 DEF Reads, EntriesOK, SameVersion, PSTypeOK
    <3> QED  BY <3>3, <2>1, <2>3, <2>2
  <2> QED  BY <1>3, <2>2, <2>4, <2>5, LoadRecordIs
<1>4. ASSUME NEW c \in Caches, LoadEnd(c) PROVE EntriesOK' /\ FileOK' /\ LoadsOK'
  <2>1. LoadsOK' /\ FileOK'
    BY <1>4, <1>a DEF LoadEnd, DiscardStore, LoadsOK, FileOK, NotInLoad, PSTypeOK
  <2> QED  BY <1>4, <1>a, <2>1, NothingIsPut DEF LoadEnd, DiscardStore, EntriesOK
<1>5. ASSUME NEW c \in Caches, Flush(c) PROVE EntriesOK' /\ FileOK' /\ LoadsOK'
  <2>1. EntriesOK' /\ LoadsOK'
    BY <1>5, <1>a DEF Flush, EntriesOK, LoadsOK, NotInLoad
  <2>2. FileIsPut(stored')
    BY <1>5, <1>a DEF Flush, Encode, FileIsPut, EntriesOK
  <2> QED  BY <2>1, <2>2 DEF FileOK
<1>6. ASSUME NEW c \in Caches, EvictEntriesWithMissingFiles(c)
      PROVE EntriesOK' /\ FileOK' /\ LoadsOK'
  BY <1>6, <1>a DEF EvictEntriesWithMissingFiles, EntriesOK, FileOK, LoadsOK, NotInLoad, PSTypeOK
<1>7. ASSUME NEW c \in Caches, NEW p \in ScriptPaths, NEW s \in Sources, Lookup(c, p, s)
      PROVE EntriesOK' /\ FileOK' /\ LoadsOK'
  <2>1. FileOK' /\ LoadsOK'
    BY <1>7, <1>a DEF Lookup, FileOK, LoadsOK, NotInLoad
  <2>2. entries' = entries \/ entries' = [entries EXCEPT ![c][p] = Absent]
    BY <1>7 DEF Lookup, Reject
  <2>3. CASE entries' = entries
    BY <1>a, <2>1, <2>3 DEF EntriesOK
  <2>4. CASE entries' = [entries EXCEPT ![c][p] = Absent]
    BY <1>a, <2>1, <2>4 DEF EntriesOK, PSTypeOK
  <2> QED  BY <2>2, <2>3, <2>4
<1>8. ASSUME NEW c \in Caches, NEW p \in ScriptPaths, NEW s \in Sources, Put(c, p, s)
      PROVE EntriesOK' /\ FileOK' /\ LoadsOK'
  <2>1. FileOK' /\ LoadsOK'
    BY <1>8, <1>a DEF Put, Supersede, FileOK, LoadsOK, NotInLoad
  <2>2. entries' = [entries EXCEPT ![c][p] =
            [digest |-> Digest(VersionOf[c], s), payload |-> Payload(p, s, VersionOf[c])]]
    BY <1>8 DEF Put, Supersede
  <2>3. IsPut(p, VersionOf[c], entries'[c][p])
    BY <2>2 DEF PSTypeOK, IsPut
  <2>4. ASSUME NEW d \in Caches, NEW q \in ScriptPaths, <<d, q>> # <<c, p>>
        PROVE  entries'[d][q] = entries[d][q]
    BY <2>2, <2>4 DEF PSTypeOK
  <2>5. EntriesOK'
    BY <1>a, <2>3, <2>4 DEF EntriesOK
  <2> QED  BY <2>1, <2>5
<1>9. ASSUME NEW p \in ScriptPaths, Script(p) PROVE EntriesOK' /\ FileOK' /\ LoadsOK'
  BY <1>9, <1>a DEF Script, EntriesOK, FileOK, LoadsOK, NotInLoad
<1>10. CASE Damage
  <2>1. EntriesOK' /\ LoadsOK'
    BY <1>10, <1>a DEF Damage, EntriesOK, LoadsOK, NotInLoad
  <2>2. stored \in StoreImages /\ FileIsPut(stored)
    BY <1>10, <1>a DEF Damage, FileOK, PSTypeOK
  <2>3. ASSUME stored' # Absent PROVE FileIsPut(stored')
    <3>1. \A p \in ScriptPaths : \E q \in ScriptPaths :
              stored'.records[p] # Absent
                => /\ stored.records[q] # Absent
                   /\ stored'.records[p].key = stored.records[q].key
                   /\ stored'.records[p].version = stored.records[q].version
                   /\ stored'.records[p].entry = stored.records[q].entry
      <4>1. CASE stored'.records = stored.records
        BY <4>1
      <4>2. CASE \E p \in ScriptPaths : stored.records[p] # Absent
                  /\ stored' = [stored EXCEPT !.records[p].intact = FALSE, !.from = Absent]
        BY <4>2, <2>2 DEF StoreImages, StoredRecords
      <4>3. CASE \E p \in ScriptPaths : \E q \in ScriptPaths \ {p} : stored.records[p] # Absent
                  /\ stored' = [stored EXCEPT !.records[q] = stored.records[p], !.from = Absent]
        <5>1. PICK p \in ScriptPaths, q \in ScriptPaths : stored.records[p] # Absent
                  /\ stored' = [stored EXCEPT !.records[q] = stored.records[p], !.from = Absent]
          BY <4>3
        <5> QED  BY <5>1, <2>2 DEF StoreImages
      <4>4. CASE \/ stored' = [stored EXCEPT !.magic = FALSE, !.from = Absent]
                 \/ stored' = [stored EXCEPT !.trailing = TRUE, !.from = Absent]
        BY <4>1, <4>4, <2>2 DEF StoreImages
      <4> QED  BY <1>10, <2>3, <4>2, <4>3, <4>4, Zenon DEF Damage
    <3> QED  BY <2>2, <3>1 DEF FileIsPut
  <2> QED  BY <2>1, <2>3 DEF FileOK
<1>11. CASE UNCHANGED psvars
  BY <1>11, <1>a DEF psvars, EntriesOK, FileOK, LoadsOK, NotInLoad
<1> QED
  BY <1>1, <1>2, <1>3, <1>4, <1>5, <1>6, <1>7, <1>8, <1>9, <1>10, <1>11 DEF PSNext

-----------------------------------------------------------------------------
(* What is known is kept *)

LEMMA KnownStep ==
    ASSUME PSTypeOK, KnownIsKept, [PSNext]_psvars
    PROVE  KnownIsKept'
<1> USE DEF KnownIsKept, Has
<1>0. ASSUME NEW c \in Caches, NEW corrupt, Cleared(c, corrupt) PROVE KnownIsKept'
  BY <1>0 DEF Cleared, Nothing, PSTypeOK
<1>1. ASSUME NEW c \in Caches, Clear(c) PROVE KnownIsKept'
  BY <1>0, <1>1 DEF Clear
<1>2. ASSUME NEW c \in Caches, LoadStore(c) PROVE KnownIsKept'
  BY <1>0, <1>2 DEF LoadStore
<1>3. ASSUME NEW c \in Caches, LoadRecord(c) PROVE KnownIsKept'
  <2>1. CASE Skips(c)
    BY <2>1 DEF Skips
  <2>2. CASE Refuses(c)
    BY <1>0, <2>2 DEF Refuses, DiscardStore
  <2>3. CASE Reads(c)
    <3>1. /\ NextRecord(c) \in StoredRecords /\ NextRecord(c).key \in ScriptPaths
          /\ NextRecord(c).entry # Absent
      BY <1>3, <2>3, LoadRecordIs, AbsentAssumption DEF Reads, StoredRecords
    <3>2. "VERSION_MISMATCH" # Absent
      BY AbsentAssumption DEF Reasons, Refusals
    <3> QED  BY <2>3, <3>1, <3>2 DEF Reads, PSTypeOK
  <2> QED  BY <1>3, <2>1, <2>2, <2>3, LoadRecordIs
<1>4. ASSUME NEW c \in Caches, LoadEnd(c) PROVE KnownIsKept'
  BY <1>0, <1>4 DEF LoadEnd, DiscardStore
<1>5. ASSUME NEW c \in Caches, Flush(c) PROVE KnownIsKept'
  BY <1>5 DEF Flush
<1>6. ASSUME NEW c \in Caches, EvictEntriesWithMissingFiles(c) PROVE KnownIsKept'
  <2>1. "EVICTED" # Absent
    BY AbsentAssumption DEF Reasons, Refusals
  <2> QED  BY <1>6, <2>1 DEF EvictEntriesWithMissingFiles, PSTypeOK
<1>7. ASSUME NEW c \in Caches, NEW p \in ScriptPaths, NEW s \in Sources, Lookup(c, p, s)
      PROVE KnownIsKept'
  <2>1. CASE UNCHANGED <<entries, rejected, known>>
    BY <2>1
  <2>2. CASE ~UNCHANGED <<entries, rejected, known>>
    <3>1. /\ entries[c][p] # Absent /\ UNCHANGED known
          /\ \E reason \in Refusals : Reject(c, p, reason)
      BY <1>7, <2>2 DEF Lookup, Refusals
    <3> QED  BY <3>1, AbsentAssumption DEF Reject, PSTypeOK, Reasons
  <2> QED  BY <2>1, <2>2
<1>8. ASSUME NEW c \in Caches, NEW p \in ScriptPaths, NEW s \in Sources, Put(c, p, s)
      PROVE KnownIsKept'
  <2>1. [digest |-> Digest(VersionOf[c], s), payload |-> Payload(p, s, VersionOf[c])] # Absent
    BY AbsentAssumption, ParseStoreAssumption DEF CacheEntries, Digest, Payload
  <2> QED  BY <1>8, <2>1 DEF Put, Supersede, PSTypeOK
<1>9. ASSUME NEW p \in ScriptPaths, Script(p) PROVE KnownIsKept'
  BY <1>9 DEF Script
<1>10. CASE Damage
  BY <1>10 DEF Damage
<1>11. CASE UNCHANGED psvars
  BY <1>11 DEF psvars
<1> QED
  BY <1>1, <1>2, <1>3, <1>4, <1>5, <1>6, <1>7, <1>8, <1>9, <1>10, <1>11 DEF PSNext

-----------------------------------------------------------------------------
(* Hits *)

LEMMA HitStep ==
    ASSUME PSTypeOK, EntriesArePut, HitsAreForTheirSource, [PSNext]_psvars
    PROVE  HitsAreForTheirSource'
<1> USE DEF HitsAreForTheirSource
<1>1. ASSUME NEW c \in Caches, NEW p \in ScriptPaths, NEW s \in Sources, Lookup(c, p, s)
      PROVE HitsAreForTheirSource'
  <2>1. SUFFICES ASSUME answer'.hit
                 PROVE  answer'.payload = Payload(answer'.path, answer'.source,
                                                  VersionOf[answer'.cache])
    OBVIOUS
  <2>2. /\ answer' = [cache |-> c, path |-> p, source |-> s, hit |-> TRUE,
                      reason |-> "COLD", payload |-> entries[c][p].payload]
        /\ entries[c][p] # Absent
        /\ entries[c][p].digest = Digest(VersionOf[c], s)
    BY <1>1, <2>1 DEF Lookup, Answer
  <2>3. IsPut(p, VersionOf[c], entries[c][p])
    BY <2>2 DEF EntriesArePut
  <2> QED  BY <2>2, <2>3 DEF IsPut, Digest
<1>2. CASE answer' = NoAnswer
  BY <1>2 DEF NoAnswer
<1>3. CASE UNCHANGED psvars
  BY <1>3 DEF psvars
<1>4. \/ answer' = NoAnswer \/ UNCHANGED psvars
      \/ \E c \in Caches, p \in ScriptPaths, s \in Sources : Lookup(c, p, s)
  BY DEF PSNext, Clear, LoadStore, LoadRecord, LoadEnd, Flush, EvictEntriesWithMissingFiles,
         Put, Script, Damage
<1> QED  BY <1>1, <1>2, <1>3, <1>4

-----------------------------------------------------------------------------
(* Files *)

(* Damage shows, whatever the file was before. *)
LEMMA DamageShows ==
    ASSUME NEW f \in StoreImages, FileIsClear(f)
    PROVE  /\ Malformed([f EXCEPT !.magic = FALSE, !.from = Absent])
           /\ Malformed([f EXCEPT !.trailing = TRUE, !.from = Absent])
           /\ \A p \in ScriptPaths : f.records[p] # Absent =>
                 Malformed([f EXCEPT !.records[p].intact = FALSE, !.from = Absent])
           /\ \A p, q \in ScriptPaths : f.records[p] # Absent /\ p # q =>
                 Malformed([f EXCEPT !.records[q] = f.records[p], !.from = Absent])
<1>1. Malformed([f EXCEPT !.magic = FALSE, !.from = Absent])
  BY DEF Malformed, StoreImages
<1>2. Malformed([f EXCEPT !.trailing = TRUE, !.from = Absent])
  BY DEF Malformed, StoreImages
<1>3. ASSUME NEW p \in ScriptPaths, f.records[p] # Absent
      PROVE Malformed([f EXCEPT !.records[p].intact = FALSE, !.from = Absent])
  <2> DEFINE h == [f EXCEPT !.records[p].intact = FALSE, !.from = Absent]
  <2>1. h.records[p] = [f.records[p] EXCEPT !.intact = FALSE] /\ f.records[p] \in StoredRecords
    BY <1>3 DEF StoreImages
  <2>2. h.records[p] \in StoredRecords /\ ~h.records[p].intact
    BY <2>1 DEF StoredRecords
  <2>3. h.records[p] # Absent
    BY <2>2, AbsentAssumption
  <2> QED  BY <2>2, <2>3 DEF Malformed
<1>4. ASSUME NEW p \in ScriptPaths, NEW q \in ScriptPaths, f.records[p] # Absent, p # q
      PROVE Malformed([f EXCEPT !.records[q] = f.records[p], !.from = Absent])
  <2> DEFINE h == [f EXCEPT !.records[q] = f.records[p], !.from = Absent]
  <2>1. h.records[p] = f.records[p] /\ h.records[q] = f.records[p]
    BY <1>4 DEF StoreImages
  <2> QED  BY <2>1, <1>4 DEF Malformed
<1> QED  BY <1>1, <1>2, <1>3, <1>4

LEMMA FilesStep ==
    ASSUME PSTypeOK, FilesAreClear, [PSNext]_psvars
    PROVE  FilesAreClear'
<1> DEFINE FileOK == stored # Absent => FileIsClear(stored)
           LoadsOK == \A d \in Caches : ~NotInLoad(d) =>
                          loading[d].image.magic /\ FileIsClear(loading[d].image)
<1>a. FileOK /\ LoadsOK
  BY DEF FilesAreClear
<1>b. SUFFICES FileOK' /\ LoadsOK'
  BY DEF FilesAreClear
<1> HIDE DEF FileOK, LoadsOK
<1>0. CASE UNCHANGED <<stored, loading>>
  BY <1>0, <1>a DEF FileOK, LoadsOK, NotInLoad, FileIsClear, Malformed, Written
<1>1. ASSUME NEW c \in Caches, LoadStore(c) PROVE FileOK' /\ LoadsOK'
  <2>1. CASE UNCHANGED loading
    BY <1>0, <1>1, <2>1 DEF LoadStore
  <2>2. CASE /\ stored # Absent /\ stored.magic /\ UNCHANGED stored
             /\ loading' = [loading EXCEPT ![c] = [image |-> stored, next |-> 1]]
    <3>1. FileOK' /\ FileIsClear(stored)
      BY <2>2, <1>a DEF FileOK
    <3>2. LoadsOK'
      BY <2>2, <3>1, <1>a DEF LoadsOK, NotInLoad, PSTypeOK
    <3> QED  BY <3>1, <3>2
  <2> QED  BY <1>1, <2>1, <2>2 DEF LoadStore
<1>2. ASSUME NEW c \in Caches, LoadRecord(c) \/ LoadEnd(c) PROVE FileOK' /\ LoadsOK'
  <2>1. /\ UNCHANGED stored
        /\ \/ loading' = [loading EXCEPT ![c] = NotLoading]
           \/ loading' = [loading EXCEPT ![c].next = @ + 1]
    BY <1>2, LoadRecordIs DEF LoadEnd, DiscardStore, Skips, Reads, Refuses, GoesOn
  <2>2. FileOK'
    BY <2>1, <1>a DEF FileOK
  <2>3. ASSUME NEW d \in Caches, ~NotInLoad(d)'
        PROVE  loading'[d].image.magic /\ FileIsClear(loading'[d].image)
    <3>1. ~NotInLoad(d)
      <4>1. CASE d = c
        BY <1>2, <4>1, LoadRecordIs DEF LoadEnd
      <4>2. CASE d # c
        BY <2>1, <2>3, <4>2 DEF NotInLoad, PSTypeOK
      <4> QED  BY <4>1, <4>2
    <3>2. loading'[d].image = loading[d].image
      <4>1. loading'[d] # NotLoading /\ loading[d] \in Loads
        BY <2>3, <3>1 DEF NotInLoad, PSTypeOK
      <4>2. CASE d = c
        <5>1. loading'[d] = [loading[d] EXCEPT !.next = @ + 1]
          BY <2>1, <4>1, <4>2 DEF PSTypeOK
        <5> QED  BY <4>1, <5>1 DEF Loads
      <4>3. CASE d # c
        BY <2>1, <4>3 DEF PSTypeOK
      <4> QED  BY <4>2, <4>3
    <3>3. loading[d].image.magic /\ FileIsClear(loading[d].image)
      BY <3>1, <1>a DEF LoadsOK
    <3> QED  BY <3>2, <3>3, Zenon
  <2> QED  BY <2>2, <2>3 DEF LoadsOK
<1>3. ASSUME NEW c \in Caches, Flush(c) PROVE FileOK' /\ LoadsOK'
  <2>1. LoadsOK'
    BY <1>3, <1>a DEF Flush, LoadsOK, NotInLoad
  <2>2. stored'.from \in Origins
    BY <1>3, ParseStoreAssumption DEF Flush, Origins, PSTypeOK
  <2>3. stored'.from # Absent
    BY <2>2, AbsentAssumption
  <2>4. Written(stored')
    BY <1>3 DEF Flush, Encode, Written
  <2> QED  BY <2>1, <2>3, <2>4 DEF FileOK, FileIsClear
<1>4. CASE Damage
  <2>1. LoadsOK'
    BY <1>4, <1>a DEF Damage, LoadsOK, NotInLoad
  <2>2. stored \in StoreImages /\ FileIsClear(stored)
    BY <1>4, <1>a DEF Damage, FileOK, PSTypeOK
  <2>3. CASE stored' = Absent
    BY <2>1, <2>3 DEF FileOK
  <2>4. CASE stored' # Absent
    <3>1. Malformed(stored')
      <4>1. CASE \E p \in ScriptPaths : \E q \in ScriptPaths \ {p} : stored.records[p] # Absent
                  /\ stored' = [stored EXCEPT !.records[q] = stored.records[p], !.from = Absent]
        <5>1. PICK p \in ScriptPaths, q \in ScriptPaths : p # q /\ stored.records[p] # Absent
                  /\ stored' = [stored EXCEPT !.records[q] = stored.records[p], !.from = Absent]
          BY <4>1
        <5> QED  BY <5>1, <2>2, DamageShows, Zenon
      <4>2. CASE \E p \in ScriptPaths : stored.records[p] # Absent
                  /\ stored' = [stored EXCEPT !.records[p].intact = FALSE, !.from = Absent]
        BY <4>2, <2>2, DamageShows
      <4>3. CASE \/ stored' = [stored EXCEPT !.magic = FALSE, !.from = Absent]
                 \/ stored' = [stored EXCEPT !.trailing = TRUE, !.from = Absent]
        BY <4>3, <2>2, DamageShows
      <4> QED  BY <1>4, <2>4, <4>1, <4>2, <4>3, Zenon DEF Damage
    <3>2. stored'.from = Absent
      <4>1. \A h : stored' = [h EXCEPT !.from = Absent] /\ "from" \in DOMAIN h
                    => stored'.from = Absent
        OBVIOUS
      <4> QED  BY <1>4, <2>2, <2>4 DEF Damage, StoreImages
    <3> QED  BY <2>1, <3>1, <3>2 DEF FileOK, FileIsClear
  <2> QED  BY <2>3, <2>4
<1>5. \/ UNCHANGED <<stored, loading>> \/ Damage
      \/ \E c \in Caches : LoadStore(c) \/ LoadRecord(c) \/ LoadEnd(c) \/ Flush(c)
  <2>1. ASSUME NEW c \in Caches, Clear(c) \/ EvictEntriesWithMissingFiles(c)
        PROVE  UNCHANGED <<stored, loading>>
    BY <2>1 DEF Clear, EvictEntriesWithMissingFiles
  <2>2. ASSUME NEW c \in Caches, NEW p \in ScriptPaths, NEW s \in Sources,
               Lookup(c, p, s) \/ Put(c, p, s)
        PROVE  UNCHANGED <<stored, loading>>
    BY <2>2 DEF Lookup, Put
  <2>3. ASSUME NEW p \in ScriptPaths, Script(p) PROVE UNCHANGED <<stored, loading>>
    BY <2>3 DEF Script
  <2> QED  BY <2>1, <2>2, <2>3 DEF PSNext, psvars
<1> QED  BY <1>0, <1>1, <1>2, <1>3, <1>4, <1>5

-----------------------------------------------------------------------------
(* Loads *)

ReadPlaces(c) == {p \in ScriptPaths : p < loading[c].next /\ loading[c].image.records[p] # Absent}

LEMMA OtherLoadsStay ==
    ASSUME PSTypeOK, NEW d \in Caches, ReadSoFar(d), loading'[d] = loading[d],
           entries'[d] = entries[d], rejected'[d] = rejected[d],
           store_corrupt'[d] = store_corrupt[d]
    PROVE  ReadSoFar(d)'
BY DEF ReadSoFar, Has

LEMMA LoadBegins ==
    ASSUME PSTypeOK, NEW c \in Caches, LoadStore(c), ~NotInLoad(c)'
    PROVE  ReadSoFar(c)'
<1>0. loading' # loading
  BY DEF LoadStore, NotInLoad
<1>1. /\ loading'[c].next = 1 /\ Cleared(c, FALSE)
  <2>1. /\ loading' = [loading EXCEPT ![c] = [image |-> stored, next |-> 1]]
        /\ Cleared(c, FALSE)
    BY <1>0 DEF LoadStore
  <2> QED  BY <2>1 DEF PSTypeOK
<1>2. \A p \in ScriptPaths : ~(p < 1)
  BY ParseStoreAssumption DEF ScriptPaths
<1>3. /\ ~store_corrupt'[c]
      /\ \A p \in ScriptPaths : entries'[c][p] = Absent /\ rejected'[c][p] = Absent
  BY <1>1 DEF Cleared, Nothing, PSTypeOK
<1> QED  BY <1>1, <1>2, <1>3 DEF ReadSoFar

LEMMA LoadGoesOn ==
    ASSUME PSTypeOK, FilesAreClear, NEW c \in Caches, LoadRecord(c), ReadSoFar(c),
           Skips(c) \/ Reads(c)
    PROVE  ReadSoFar(c)'
<1> DEFINE f == loading[c].image
           i == loading[c].next
           r == NextRecord(c)
<1>1. /\ ~NotInLoad(c) /\ i \in ScriptPaths /\ f \in StoreImages /\ FileIsClear(f)
      /\ r = f.records[i]
  BY LoadRecordIs DEF FilesAreClear, NextRecord
<1>2. loading'[c].image = f /\ loading'[c].next = i + 1
  <2>1. loading'[c] = [loading[c] EXCEPT !.next = i + 1]
    BY DEF Skips, Reads, GoesOn, PSTypeOK
  <2> QED  BY <2>1, LoadRecordIs DEF Loads
<1>3. \A p \in ScriptPaths : p < i + 1 <=> p < i \/ p = i
  BY <1>1, ParseStoreAssumption DEF ScriptPaths
<1>4. ~store_corrupt'[c]
  BY DEF Skips, Reads, GoesOn, ReadSoFar
<1> DEFINE read == {p \in ScriptPaths : p < i /\ f.records[p] # Absent}
           now == {p \in ScriptPaths : p < i + 1 /\ f.records[p] # Absent}
           HasNow(p) == entries'[c][p] # Absent \/ rejected'[c][p] # Absent
<1>5. /\ \A p \in read : f.records[p].intact /\ Has(c, f.records[p].key)
      /\ \A p, q \in read : p # q => f.records[p].key # f.records[q].key
      /\ f.from # Absent => \A p \in ScriptPaths :
           /\ entries[c][p] = IF p \in read /\ f.from.version = VersionOf[c]
                              THEN f.from.entries[p] ELSE Absent
           /\ rejected[c][p] = IF p \in read /\ f.from.version # VersionOf[c]
                               THEN "VERSION_MISMATCH" ELSE Absent
  BY DEF ReadSoFar
<1>6. SUFFICES
      /\ \A p \in now : f.records[p].intact /\ HasNow(f.records[p].key)
      /\ \A p, q \in now : p # q => f.records[p].key # f.records[q].key
      /\ f.from # Absent => \A p \in ScriptPaths :
           /\ entries'[c][p] = IF p \in now /\ f.from.version = VersionOf[c]
                               THEN f.from.entries[p] ELSE Absent
           /\ rejected'[c][p] = IF p \in now /\ f.from.version # VersionOf[c]
                                THEN "VERSION_MISMATCH" ELSE Absent
  <2>1. /\ loading'[c].image = f /\ loading'[c].next = i + 1 /\ ~ store_corrupt'[c]
        /\ \A k : Has(c, k)' <=> HasNow(k)
    BY <1>2, <1>4 DEF Has
  <2> HIDE DEF f, i, HasNow
  <2> QED  BY <2>1 DEF ReadSoFar
<1>7. CASE Skips(c)
  <2>1. now = read
    BY <1>1, <1>3, <1>7 DEF Skips
  <2> HIDE DEF now, read, f
  <2> QED  BY <1>5, <1>7, <2>1 DEF Skips, Has
<1>8. CASE Reads(c)
  <2>1. now = read \cup {i}
    BY <1>1, <1>3, <1>8 DEF Reads
  <2>2. i \notin read /\ read \subseteq ScriptPaths
    BY <1>1, ParseStoreAssumption DEF ScriptPaths
  <2>3. r \in StoredRecords /\ r.key \in ScriptPaths /\ r.entry # Absent /\ r.intact
    BY <1>1, <1>8, LoadRecordIs, AbsentAssumption DEF Reads, StoredRecords
  <2>4. "VERSION_MISMATCH" # Absent
    BY AbsentAssumption DEF Reasons, Refusals
  <2>5. /\ ~Has(c, r.key)
        /\ \A p \in ScriptPaths : entries'[c][p] =
              IF p = r.key THEN IF SameVersion(c, r) THEN r.entry ELSE Absent
              ELSE entries[c][p]
        /\ \A p \in ScriptPaths : rejected'[c][p] =
              IF p = r.key THEN IF SameVersion(c, r) THEN Absent ELSE "VERSION_MISMATCH"
              ELSE rejected[c][p]
    BY <1>8, <2>3 DEF Reads, PSTypeOK
  <2>6. \A p \in read : f.records[p].key \in ScriptPaths
    BY <1>1, <2>2 DEF StoreImages, StoredRecords
  <2>7. f.from # Absent => r.key = i /\ r.version = f.from.version /\ r.entry = f.from.entries[i]
    BY <1>1, <2>3, AbsentAssumption DEF FileIsClear, Written
  <2> HIDE DEF now, read, f, r, i
  <2>8. \A p \in now : f.records[p].intact /\ HasNow(f.records[p].key)
    BY <1>1, <1>5, <2>1, <2>3, <2>4, <2>5, <2>6 DEF Has
  <2>9. \A p, q \in now : p # q => f.records[p].key # f.records[q].key
    BY <1>1, <1>5, <2>1, <2>5
  <2>10. ASSUME f.from # Absent, NEW p \in ScriptPaths
         PROVE  /\ entries'[c][p] = IF p \in now /\ f.from.version = VersionOf[c]
                                    THEN f.from.entries[p] ELSE Absent
                /\ rejected'[c][p] = IF p \in now /\ f.from.version # VersionOf[c]
                                     THEN "VERSION_MISMATCH" ELSE Absent
    BY <1>5, <2>1, <2>2, <2>5, <2>7, <2>10 DEF SameVersion
  <2> QED  BY <2>8, <2>9, <2>10
<1> QED  BY <1>7, <1>8

LEMMA LoadsStep ==
    ASSUME PSTypeOK, FilesAreClear, LoadsReadAll, [PSNext]_psvars
    PROVE  LoadsReadAll'
<1> SUFFICES ASSUME NEW d \in Caches, ~NotInLoad(d)' PROVE ReadSoFar(d)'
  BY DEF LoadsReadAll
<1> DEFINE Same(c) == /\ entries'[c] = entries[c] /\ rejected'[c] = rejected[c]
                      /\ store_corrupt'[c] = store_corrupt[c] /\ loading'[c] = loading[c]
<1>0. ASSUME Same(d) PROVE ReadSoFar(d)'
  BY <1>0, OtherLoadsStay DEF LoadsReadAll, NotInLoad
<1>1. ASSUME NEW c \in Caches, LoadStore(c) PROVE ReadSoFar(d)'
  <2>1. c # d => Same(d)
    BY <1>1 DEF LoadStore, Cleared, PSTypeOK
  <2> QED  BY <1>0, <1>1, <2>1, LoadBegins
<1>2. ASSUME NEW c \in Caches, LoadRecord(c) PROVE ReadSoFar(d)'
  <2>1. CASE c # d
    <3>1. Same(d)
      BY <1>2, <2>1, LoadRecordIs
         DEF Skips, Reads, Refuses, DiscardStore, Cleared, GoesOn, PSTypeOK
    <3> QED  BY <1>0, <3>1
  <2>2. CASE c = d
    <3>1. ~Refuses(d)
      BY DEF Refuses, DiscardStore, NotInLoad, PSTypeOK
    <3>2. ReadSoFar(d)
      BY <1>2, <2>2, LoadRecordIs DEF LoadsReadAll
    <3> QED  BY <1>2, <2>2, <3>1, <3>2, LoadRecordIs, LoadGoesOn
  <2> QED  BY <2>1, <2>2
<1>3. ASSUME NEW c \in Caches, LoadEnd(c) PROVE ReadSoFar(d)'
  <2>1. c # d
    BY <1>3 DEF LoadEnd, DiscardStore, NotInLoad, PSTypeOK
  <2>2. Same(d)
    BY <1>3, <2>1 DEF LoadEnd, DiscardStore, Cleared, PSTypeOK
  <2> QED  BY <1>0, <2>2
<1>4. ASSUME NEW c \in Caches, NotInLoad(c), loading' = loading,
             \A x \in Caches \ {c} : /\ entries'[x] = entries[x] /\ rejected'[x] = rejected[x]
                                     /\ store_corrupt'[x] = store_corrupt[x]
      PROVE ReadSoFar(d)'
  BY <1>0, <1>4 DEF NotInLoad
<1>5. ASSUME NEW c \in Caches, Clear(c) PROVE ReadSoFar(d)'
  BY <1>4, <1>5 DEF Clear, Cleared, PSTypeOK
<1>6. ASSUME NEW c \in Caches, Flush(c) PROVE ReadSoFar(d)'
  BY <1>4, <1>6 DEF Flush
<1>7. ASSUME NEW c \in Caches, EvictEntriesWithMissingFiles(c) PROVE ReadSoFar(d)'
  BY <1>4, <1>7 DEF EvictEntriesWithMissingFiles, PSTypeOK
<1>8. ASSUME NEW c \in Caches, NEW p \in ScriptPaths, NEW s \in Sources,
             Lookup(c, p, s) \/ Put(c, p, s)
      PROVE ReadSoFar(d)'
  BY <1>4, <1>8 DEF Lookup, Reject, Put, Supersede, PSTypeOK
<1>9. CASE Damage \/ (\E p \in ScriptPaths : Script(p)) \/ UNCHANGED psvars
  BY <1>0, <1>9 DEF Damage, Script, psvars
<1> QED  BY <1>1, <1>2, <1>3, <1>5, <1>6, <1>7, <1>8, <1>9 DEF PSNext

-----------------------------------------------------------------------------
(* Theorems *)

LEMMA IInvStep == ASSUME IInv, [PSNext]_psvars PROVE IInv'
BY TypeStep, EntriesStep, KnownStep, FilesStep, LoadsStep, HitStep DEF IInv

THEOREM Invariance == PSSpec => []IInv
BY InitIsIInv, IInvStep, PTL DEF PSSpec

(* The values of the state, and that no path has both an entry and a       *)
(* tombstone.                                                              *)
THEOREM TypeCorrect == PSSpec => []PSTypeOK
<1>1. IInv => PSTypeOK
  BY DEF IInv
<1> QED  BY Invariance, <1>1, PTL

(* A payload is served for the path and source it was made of only, across *)
(* any number of builds, flushes, loads and damages.                       *)
THEOREM HitsCorrect == PSSpec => []HitsAreForTheirSource
<1>1. IInv => HitsAreForTheirSource
  BY DEF IInv
<1> QED  BY Invariance, <1>1, PTL

(* A refused, evicted or stale entry is never taken for one that was never *)
(* there.                                                                  *)
THEOREM ColdCorrect == PSSpec => ColdIsAbsent
<1>1. ASSUME IInv, [PSNext]_psvars
      PROVE  [answer'.reason = "COLD" /\ ~answer'.hit
                 => answer'.path \notin known[answer'.cache]
                    /\ ~store_corrupt[answer'.cache]]_psvars
  <2>1. CASE UNCHANGED psvars
    BY <2>1
  <2>2. CASE answer' = NoAnswer
    BY <2>2, AbsentAssumption DEF NoAnswer, Reasons, Refusals
  <2>3. ASSUME NEW c \in Caches, NEW p \in ScriptPaths, NEW s \in Sources, Lookup(c, p, s),
               answer'.reason = "COLD", ~answer'.hit
        PROVE  answer'.path \notin known[answer'.cache] /\ ~store_corrupt[answer'.cache]
    <3>1. rejected[c][p] # "COLD"
      BY <1>1, AbsentAssumption DEF IInv, PSTypeOK, Reasons, Refusals
    <3> QED  BY <1>1, <2>3, <3>1 DEF IInv, KnownIsKept, Has, Lookup, Answer
  <2>4. \/ answer' = NoAnswer \/ UNCHANGED psvars
        \/ \E c \in Caches, p \in ScriptPaths, s \in Sources : Lookup(c, p, s)
    BY <1>1 DEF PSNext, Clear, LoadStore, LoadRecord, LoadEnd, Flush,
                EvictEntriesWithMissingFiles, Put, Script, Damage
  <2> QED  BY <2>1, <2>2, <2>3, <2>4
<1> QED  BY Invariance, <1>1, PTL DEF PSSpec, ColdIsAbsent

(* A load gives what one flush wrote, all of it, or nothing.               *)
THEOREM LoadsCorrect == PSSpec => LoadIsAllOrNothing
<1> DEFINE Ends(c) == ~NotInLoad(c) /\ NotInLoad(c)'
           AllOrNothing(c) ==
               LET from == loading[c].image.from IN
               IF from = Absent THEN entries'[c] = Nothing /\ store_corrupt'[c]
               ELSE /\ ~store_corrupt'[c]
                    /\ entries'[c] = IF from.version = VersionOf[c] THEN from.entries
                                     ELSE Nothing
                    /\ rejected'[c] = [p \in ScriptPaths |->
                           IF from.entries[p] # Absent /\ from.version # VersionOf[c]
                           THEN "VERSION_MISMATCH" ELSE Absent]
<1>1. ASSUME IInv, [PSNext]_psvars, NEW c \in Caches, Ends(c)
      PROVE  AllOrNothing(c)
  <2> DEFINE f == loading[c].image
  <2>1. /\ f.magic /\ FileIsClear(f) /\ ReadSoFar(c)
        /\ loading[c] \in Loads /\ f \in StoreImages
    <3>1. ~NotInLoad(c) /\ loading[c] \in {NotLoading} \cup Loads
      BY <1>1 DEF IInv, PSTypeOK
    <3>2. loading[c] \in Loads
      BY <3>1 DEF NotInLoad
    <3> QED  BY <1>1, <3>1, <3>2 DEF IInv, FilesAreClear, LoadsReadAll, Loads
  <2>2. CASE LoadEnd(c)
    <3>1. \A p \in ScriptPaths : p < loading[c].next
      BY <2>1, <2>2, ParseStoreAssumption DEF LoadEnd, Loads, ScriptPaths
    <3>2. CASE f.from = Absent
      <4>1. f.trailing
        BY <2>1, <3>1, <3>2 DEF FileIsClear, Malformed, ReadSoFar
      <4>2. DiscardStore(c)
        BY <2>2, <4>1 DEF LoadEnd
      <4>3. entries'[c] = Nothing /\ store_corrupt'[c]
        BY <1>1, <4>2 DEF DiscardStore, Cleared, IInv, PSTypeOK
      <4> QED  BY <3>2, <4>3
    <3>3. CASE f.from # Absent
      <4>1. ~f.trailing /\ f.from \in Origins
        BY <2>1, <3>3 DEF FileIsClear, Written, StoreImages
      <4>2. UNCHANGED <<entries, rejected, store_corrupt>> /\ ~store_corrupt[c]
        BY <2>1, <2>2, <4>1 DEF LoadEnd, ReadSoFar
      <4>3. \A p \in ScriptPaths : f.records[p] # Absent <=> f.from.entries[p] # Absent
        <5> SUFFICES ASSUME NEW p \in ScriptPaths
                     PROVE  f.records[p] # Absent <=> f.from.entries[p] # Absent
          OBVIOUS
        <5>1. f.records[p] = IF f.from.entries[p] = Absent THEN Absent
                             ELSE [version |-> f.from.version, key |-> p,
                                   entry |-> f.from.entries[p], intact |-> TRUE]
          BY <2>1, <3>3 DEF FileIsClear, Written
        <5>2. ASSUME f.from.entries[p] # Absent
              PROVE  [version |-> f.from.version, key |-> p,
                      entry |-> f.from.entries[p], intact |-> TRUE] \in StoredRecords
          BY <4>1, <5>2 DEF Origins, StoredRecords
        <5> QED  BY <5>1, <5>2, AbsentAssumption
      <4>4. \A p \in ScriptPaths :
              /\ entries[c][p] = IF f.from.version = VersionOf[c] THEN f.from.entries[p]
                                 ELSE Absent
              /\ rejected[c][p] = IF f.from.entries[p] # Absent /\ f.from.version # VersionOf[c]
                                  THEN "VERSION_MISMATCH" ELSE Absent
        BY <2>1, <3>1, <3>3, <4>3 DEF ReadSoFar
      <4>5. /\ entries[c] \in [ScriptPaths -> CacheEntries \cup {Absent}]
            /\ rejected[c] \in [ScriptPaths -> Refusals \cup {Absent}]
            /\ f.from.entries \in [ScriptPaths -> CacheEntries \cup {Absent}]
        BY <1>1, <4>1 DEF IInv, PSTypeOK, Origins
      <4>6. entries[c] = IF f.from.version = VersionOf[c] THEN f.from.entries ELSE Nothing
        BY <4>4, <4>5 DEF Nothing
      <4>7. rejected[c] = [p \in ScriptPaths |->
                IF f.from.entries[p] # Absent /\ f.from.version # VersionOf[c]
                THEN "VERSION_MISMATCH" ELSE Absent]
        BY <4>4, <4>5
      <4> QED  BY <3>3, <4>2, <4>6, <4>7
    <3> QED  BY <3>2, <3>3
  <2>3. CASE LoadRecord(c)
    <3>1. Refuses(c)
      <4>1. ~(Skips(c) \/ Reads(c))
        <5>1. (Skips(c) \/ Reads(c)) => loading'[c] = [loading[c] EXCEPT !.next = @ + 1]
          BY <1>1 DEF Skips, Reads, GoesOn, IInv, PSTypeOK
        <5>2. ([loading[c] EXCEPT !.next = @ + 1]).image \in StoreImages
          BY <2>1 DEF Loads
        <5> QED  BY <1>1, <5>1, <5>2, AbsentAssumption DEF NotInLoad, NotLoading
      <4> QED  BY <1>1, <2>3, <4>1, LoadRecordIs DEF IInv
    <3>2. NextRecord(c) # Absent /\ (NextRecord(c).intact => Has(c, NextRecord(c).key))
      BY <3>1 DEF Refuses
    <3>3. f.from = Absent
      <4> SUFFICES ASSUME f.from # Absent PROVE FALSE
        OBVIOUS
      <4> DEFINE i == loading[c].next
      <4>1. i \in ScriptPaths /\ Written(f) /\ f.records[i] # Absent /\ ~(i < i)
        <5>1. PSTypeOK
          BY <1>1 DEF IInv
        <5>2. i \in ScriptPaths
          BY <2>3, <5>1, LoadRecordIs
        <5>3. Written(f) /\ f.records[i] # Absent
          BY <2>1, <3>2 DEF FileIsClear, NextRecord
        <5>4. ~(i < i)
          BY <5>2, ParseStoreAssumption DEF ScriptPaths
        <5> QED  BY <5>2, <5>3, <5>4
      <4>2. f.records[i].intact /\ f.records[i].key = i
        <5>1. f.records[i] = IF f.from.entries[i] = Absent THEN Absent
                             ELSE [version |-> f.from.version, key |-> i,
                                   entry |-> f.from.entries[i], intact |-> TRUE]
          BY <4>1 DEF Written
        <5> HIDE DEF f, i
        <5> QED  BY <4>1, <5>1
      <4>3. ~Has(c, i)
        BY <2>1, <4>1 DEF ReadSoFar, Has
      <4> QED  BY <3>2, <4>2, <4>3 DEF NextRecord
    <3> QED  BY <1>1, <3>1, <3>3 DEF Refuses, DiscardStore, Cleared, IInv, PSTypeOK
  <2>4. LoadRecord(c) \/ LoadEnd(c)
    <3>1. loading'[c] # loading[c]
      BY <1>1 DEF NotInLoad
    <3>2. ASSUME NEW d \in Caches, d # c, LoadStore(d) \/ LoadRecord(d) \/ LoadEnd(d)
          PROVE  loading'[c] = loading[c]
      BY <1>1, <3>2, LoadRecordIs
         DEF IInv, PSTypeOK, LoadStore, LoadEnd, DiscardStore, Skips, Reads, Refuses, GoesOn
    <3>3. ~LoadStore(c)
      BY <1>1 DEF LoadStore
    <3>4. ASSUME NEW d \in Caches,
                 \/ Clear(d) \/ Flush(d) \/ EvictEntriesWithMissingFiles(d)
                 \/ \E p \in ScriptPaths, s \in Sources : Lookup(d, p, s) \/ Put(d, p, s)
          PROVE  loading' = loading
      BY <3>4 DEF Clear, Flush, EvictEntriesWithMissingFiles, Lookup, Put
    <3>5. (Damage \/ \E p \in ScriptPaths : Script(p)) => loading' = loading
      BY DEF Damage, Script
    <3> QED  BY <1>1, <3>1, <3>2, <3>3, <3>4, <3>5 DEF PSNext, psvars
  <2> QED  BY <2>2, <2>3, <2>4
<1>2. IInv /\ [PSNext]_psvars => [\A c \in Caches : Ends(c) => AllOrNothing(c)]_psvars
  BY <1>1
<1> QED  BY Invariance, <1>2, PTL DEF PSSpec, LoadIsAllOrNothing

-----------------------------------------------------------------------------
(* StoreFile: the invariant *)

Active(w) == writer[w].step # "idle"

(* A flush under way has an image to write, and a number its process gave  *)
(* to no other. *)
NumbersAreOwn ==
    /\ \A p \in Processes : flush_counter[p] <= flushes
    /\ \A w \in Writers : Active(w) =>
          writer[w].image \in Images /\ writer[w].number < flush_counter[ProcessOf[w]]
    /\ \A w, x \in Writers :
          Active(w) /\ Active(x) /\ w # x /\ ProcessOf[w] = ProcessOf[x]
              => writer[w].number # writer[x].number

(* An inode in use is under a temporary name, or it is the store's and of  *)
(* those who opened it under that name. *)
InodesAreOwn ==
    /\ \A n \in Names : temps[n] # 0 => content[temps[n]].image # NoFile
    /\ store_file # 0 => content[store_file].image # NoFile
    /\ \A r \in Readers : reader[r] # 0 => content[reader[r]].image # NoFile
    /\ \A n \in Names, r \in Readers : temps[n] # 0 => temps[n] # reader[r]
    /\ \A i \in shared : content[i].image # NoFile

(* Two flushes that have opened the same name share its inode. *)
SharedIsKnown ==
    \A w, x \in Writers :
        w # x /\ HasOpened(w) /\ HasOpened(x) /\ TempPath(w) = TempPath(x)
            => temps[TempPath(w)] \in shared \cup {0}

(* What a flush has open is under its name, and what it promotes is whole, *)
(* unless it is shared. *)
WritersOwn ==
    \A w \in Writers :
        LET i == temps[TempPath(w)] IN
        /\ writer[w].step = "write" => writer[w].inode = i \/ writer[w].inode \in shared
        /\ writer[w].step = "promote" => i \in shared \cup {0} \/ content[i].whole

SFInv ==
    /\ SFTypeOK /\ NumbersAreOwn /\ InodesAreOwn /\ SharedIsKnown /\ WritersOwn
    /\ StoreIsWhole /\ NoLitter

-----------------------------------------------------------------------------
(* StoreFile: what its steps have in common *)

(* The temporary name of a flush is a name of the directory, and holds     *)
(* nothing or an inode. *)
LEMMA TempPathType ==
    ASSUME SFTypeOK, NumbersAreOwn, NEW w \in Writers, Active(w)
    PROVE  /\ TempPath(w) \in Names /\ writer[w].image \in Images
           /\ TempPath(w)[1] = writer[w].image
           /\ temps[TempPath(w)] \in 0 .. MaxFlushes
<1>1. writer[w].image \in Images /\ writer[w].number \in 0 .. MaxFlushes
  BY StoreAssumption DEF SFTypeOK, NumbersAreOwn, Flushing
<1>2. TempPath(w) \in Names
  BY <1>1 DEF TempPath, Names
<1>. QED
  BY <1>1, <1>2 DEF TempPath, SFTypeOK

(* A flush that is not under way has the type of one and holds no inode. *)
LEMMA IdleIsTyped == NotFlushing \in Flushing /\ NotFlushing.step = "idle" /\ NotFlushing.inode = 0
BY StoreAssumption DEF NotFlushing, Flushing

(* Two flushes of one process have different names. *)
LEMMA SameNameOtherProcess ==
    ASSUME NumbersAreOwn, NEW w \in Writers, NEW x \in Writers, w # x, Active(w), Active(x),
           TempPath(w) = TempPath(x)
    PROVE  ProcessOf[w] # ProcessOf[x]
BY DEF NumbersAreOwn, TempPath

(* Names stay apart as long as flushes go on as they are or end. *)
LEMMA NumbersKept ==
    ASSUME NumbersAreOwn, ProcessOf \in [Writers -> Processes], flushes' = flushes,
           \A p \in Processes : flush_counter'[p] <= flushes,
           \A x \in Writers :
              \/ writer'[x].step = "idle"
              \/ /\ Active(x)
                 /\ writer'[x].image = writer[x].image
                 /\ writer'[x].number = writer[x].number
                 /\ flush_counter'[ProcessOf[x]] = flush_counter[ProcessOf[x]]
    PROVE  NumbersAreOwn'
BY DEF NumbersAreOwn, Active

(* After it has opened its file, or could not, a flush only loses its      *)
(* name, to the store or altogether, and what it wrote only becomes whole. *)
LEMMA FlushGoesOn ==
    ASSUME SFInv, NEW w \in Writers, Active(w), NEW wr \in Flushing,
           writer' = [writer EXCEPT ![w] = wr],
           \/ wr.step = "idle"
           \/ HasOpened(w) /\ wr.image = writer[w].image /\ wr.number = writer[w].number,
           wr.step \notin {"open", "write"}, wr.inode = 0,
           UNCHANGED <<flush_counter, reader, flushes, crashes, strays, shared>>,
           content' \in [Inodes -> [image : Images \cup {NoFile}, whole : BOOLEAN]],
           \A k \in Inodes : /\ content'[k].image = content[k].image
                             /\ content[k].whole => content'[k].whole,
           \/ temps' = temps /\ store_file' = store_file
           \/ /\ HasOpened(w)
              /\ temps' = [temps EXCEPT ![TempPath(w)] = 0]
              /\ \/ store_file' = store_file
                 \/ /\ temps[TempPath(w)] # 0
                    /\ store_file' = temps[TempPath(w)]
                    /\ content[store_file'].whole \/ store_file' \in shared,
           wr.step = "promote" => temps' = temps /\ content'[temps[TempPath(w)]].whole,
           wr.step = "idle" /\ HasOpened(w) => temps' = [temps EXCEPT ![TempPath(w)] = 0]
    PROVE  SFInv'
<1>. USE DEF SFInv
<1>. DEFINE n == TempPath(w)
<1>1. n \in Names
  BY TempPathType
<1>2. /\ writer'[w] = wr
      /\ \A x \in Writers : x # w => writer'[x] = writer[x] /\ TempPath(x)' = TempPath(x)
      /\ wr.step # "idle" => TempPath(w)' = n
  BY DEF SFTypeOK, TempPath
<1>3. \A m \in Names : /\ temps'[m] \in {temps[m], 0}
                       /\ m # n => temps'[m] = temps[m]
                       /\ temps[m] \in 0 .. MaxFlushes
                       /\ temps[m] # 0 => temps[m] \in Inodes
  BY <1>1, StoreAssumption DEF SFTypeOK, Inodes
<1>4. /\ store_file' \in 0 .. MaxFlushes
      /\ store_file' # 0 => store_file' \in Inodes
      /\ \A r \in Readers : reader[r] # 0 => reader[r] \in Inodes
      /\ shared \subseteq Inodes
  BY <1>1, <1>3, StoreAssumption DEF SFTypeOK, Inodes
<1>5. SFTypeOK'
  <2>1. writer' \in [Writers -> Flushing]
    BY DEF SFTypeOK
  <2>2. temps' \in [Names -> 0 .. MaxFlushes]
    BY StoreAssumption DEF SFTypeOK
  <2>3. \A k, m \in Names : temps'[k] # 0 /\ temps'[k] = temps'[m] => k = m
    BY <1>3 DEF SFTypeOK
  <2>4. \A m \in Names : temps'[m] # 0 => temps'[m] # store_file'
    <3>1. CASE store_file' = store_file
      BY <1>3, <3>1 DEF SFTypeOK
    <3>2. CASE store_file' = temps[n] /\ temps' = [temps EXCEPT ![n] = 0]
      BY <1>1, <1>3, <3>2 DEF SFTypeOK
    <3>. QED
      BY <3>1, <3>2
  <2>5. \A m \in Names : temps'[m] # 0 => content'[temps'[m]].image = m[1]
    BY <1>3 DEF SFTypeOK
  <2>6. \A x \in Writers : (writer'[x].step = "write") <=> (writer'[x].inode # 0)
    BY <1>2 DEF SFTypeOK
  <2>. QED
    BY <1>4, <2>1, <2>2, <2>3, <2>4, <2>5, <2>6 DEF SFTypeOK
<1>6. NumbersAreOwn'
  <2>1. \A x \in Writers : \/ writer'[x].step = "idle"
                           \/ /\ Active(x)
                              /\ writer'[x].image = writer[x].image
                              /\ writer'[x].number = writer[x].number
    BY <1>2 DEF Active
  <2>. QED
    BY <2>1, NumbersKept, StoreAssumption DEF NumbersAreOwn
<1>7. InodesAreOwn'
  <2>1. \A m \in Names : temps'[m] # 0 => content'[temps'[m]].image # NoFile
    BY <1>3 DEF InodesAreOwn
  <2>2. store_file' # 0 => content'[store_file'].image # NoFile
    BY <1>1, <1>3, <1>4 DEF InodesAreOwn
  <2>3. \A r \in Readers : reader[r] # 0 => content'[reader[r]].image # NoFile
    BY <1>4 DEF InodesAreOwn
  <2>4. \A m \in Names, r \in Readers : temps'[m] # 0 => temps'[m] # reader[r]
    BY <1>3 DEF InodesAreOwn
  <2>5. \A i \in shared : content'[i].image # NoFile
    BY <1>4 DEF InodesAreOwn
  <2>. QED
    BY <2>1, <2>2, <2>3, <2>4, <2>5 DEF InodesAreOwn
<1>8. StoreIsWhole'
  BY <1>1, <1>3, <1>4 DEF StoreIsWhole, Whole
<1>9. \A x \in Writers : HasOpened(x)' => HasOpened(x) /\ TempPath(x)' = TempPath(x)
  BY <1>2 DEF HasOpened
<1>10. \A x \in Writers : HasOpened(x) => TempPath(x) \in Names
  BY TempPathType DEF HasOpened, Active
<1>11. SharedIsKnown'
  BY <1>3, <1>9, <1>10 DEF SharedIsKnown
<1>12. WritersOwn'
  <2>1. ASSUME NEW x \in Writers, x # w, HasOpened(x)
        PROVE  \/ temps'[TempPath(x)] = temps[TempPath(x)]
               \/ temps'[TempPath(x)] = 0 /\ temps[TempPath(x)] \in shared \cup {0}
    BY <1>3, <1>10, <2>1 DEF SharedIsKnown
  <2>2. ASSUME NEW x \in Writers, x # w, writer[x].step = "write"
        PROVE  writer'[x].inode = temps'[TempPath(x)'] \/ writer'[x].inode \in shared
    <3>1. writer[x].inode # 0 /\ HasOpened(x)
      BY <2>2 DEF SFTypeOK, HasOpened
    <3>2. writer[x].inode = temps[TempPath(x)] \/ writer[x].inode \in shared
      BY <2>2 DEF WritersOwn
    <3>. QED
      BY <1>2, <2>1, <2>2, <3>1, <3>2
  <2>3. ASSUME NEW x \in Writers, x # w, writer[x].step = "promote"
        PROVE  \/ temps'[TempPath(x)'] \in shared \cup {0}
               \/ content'[temps'[TempPath(x)']].whole
    <3>1. HasOpened(x)
      BY <2>3 DEF HasOpened
    <3>2. temps[TempPath(x)] \in shared \cup {0} \/ content[temps[TempPath(x)]].whole
      BY <2>3 DEF WritersOwn
    <3>. QED
      BY <1>2, <1>3, <1>10, <2>1, <2>3, <3>1, <3>2
  <2>4. wr.step = "promote" => content'[temps'[TempPath(w)']].whole
    BY <1>2
  <2>. QED
    BY <1>2, <2>2, <2>3, <2>4 DEF WritersOwn
<1>13. NoLitter'
  <2>1. ASSUME NEW m \in Names, temps'[m] # 0, m \notin strays
        PROVE  \E x \in Writers : HasOpened(x)' /\ TempPath(x)' = m
    <3>1. PICK x \in Writers : HasOpened(x) /\ TempPath(x) = m
      BY <1>3, <2>1 DEF NoLitter
    <3>2. CASE x = w
      BY <1>2, <2>1, <3>1, <3>2 DEF HasOpened, SFTypeOK
    <3>3. CASE x # w
      BY <1>2, <3>1, <3>3 DEF HasOpened
    <3>. QED
      BY <3>2, <3>3
  <2>. QED
    BY <2>1 DEF NoLitter
<1>. QED
  BY <1>5, <1>6, <1>7, <1>8, <1>11, <1>12, <1>13

-----------------------------------------------------------------------------
(* StoreFile: steps *)

(* A flush that starts has a number its process has not given. *)
LEMMA FlushStep ==
    ASSUME SFInv, NEW w \in Writers, NEW v \in Images, BeginFlush(w, v)
    PROVE  SFInv'
<1>. USE DEF SFInv
<1>. DEFINE p == ProcessOf[w]
            fresh == [step |-> "open", image |-> v, inode |-> 0, number |-> flush_counter[p]]
<1>1. /\ writer[w].step = "idle" /\ flushes < MaxFlushes
      /\ writer' = [writer EXCEPT ![w] = fresh]
      /\ flush_counter' = [flush_counter EXCEPT ![p] = @ + 1]
      /\ flushes' = flushes + 1
      /\ UNCHANGED <<content, temps, store_file, reader, crashes, strays, shared>>
  BY DEF BeginFlush
<1>2. p \in Processes /\ flush_counter[p] \in 0 .. MaxFlushes /\ flush_counter[p] <= flushes
  BY StoreAssumption DEF SFTypeOK, NumbersAreOwn
<1>3. flush_counter[p] + 1 \in 0 .. MaxFlushes /\ flushes + 1 \in 0 .. MaxFlushes
  BY <1>1, <1>2, StoreAssumption DEF SFTypeOK
<1>4. fresh \in Flushing
  BY <1>2, StoreAssumption DEF Flushing
<1>5. /\ writer'[w] = fresh
      /\ \A x \in Writers : x # w => writer'[x] = writer[x]
  BY <1>1 DEF SFTypeOK
<1>6. SFTypeOK'
  <2>1. writer' \in [Writers -> Flushing]
    BY <1>1, <1>4 DEF SFTypeOK
  <2>2. flush_counter' \in [Processes -> 0 .. MaxFlushes]
    BY <1>1, <1>3 DEF SFTypeOK
  <2>3. \A x \in Writers : (writer'[x].step = "write") <=> (writer'[x].inode # 0)
    BY <1>5 DEF SFTypeOK
  <2>. QED
    BY <1>1, <1>3, <2>1, <2>2, <2>3 DEF SFTypeOK
<1>7. NumbersAreOwn'
  <2>1. \A q \in Processes : flush_counter'[q] <= flushes'
    BY <1>1, <1>2, StoreAssumption DEF SFTypeOK, NumbersAreOwn
  <2>2. \A q \in Processes : /\ flush_counter[q] \in Nat
                             /\ flush_counter'[q] = IF q = p THEN flush_counter[q] + 1
                                                    ELSE flush_counter[q]
    BY <1>1, StoreAssumption DEF SFTypeOK
  <2>3. \A x \in Writers : ProcessOf[x] \in Processes /\ writer[x].number \in Nat
    BY StoreAssumption DEF SFTypeOK, Flushing
  <2>4. \A x \in Writers : Active(x)' =>
            /\ writer'[x].image \in Images
            /\ writer'[x].number < flush_counter'[ProcessOf[x]]
    BY <1>1, <1>2, <1>5, <2>2, <2>3 DEF NumbersAreOwn, Active
  <2>5. \A x, y \in Writers :
            Active(x)' /\ Active(y)' /\ x # y /\ ProcessOf[x] = ProcessOf[y]
                => writer'[x].number # writer'[y].number
    BY <1>5, <2>3 DEF NumbersAreOwn, Active
  <2>. QED
    BY <2>1, <2>4, <2>5 DEF NumbersAreOwn
<1>8. InodesAreOwn' /\ StoreIsWhole'
  BY <1>1 DEF InodesAreOwn, StoreIsWhole, Whole
<1>9. /\ ~HasOpened(w) /\ ~HasOpened(w)'
      /\ \A x \in Writers : x # w => TempPath(x)' = TempPath(x) /\ HasOpened(x)' = HasOpened(x)
  BY <1>1, <1>5 DEF TempPath, HasOpened
<1>10. NoLitter'
  BY <1>1, <1>9 DEF NoLitter
<1>11. SharedIsKnown'
  BY <1>1, <1>9 DEF SharedIsKnown
<1>12. WritersOwn'
  BY <1>1, <1>5, <1>9 DEF WritersOwn
<1>. QED
  BY <1>6, <1>7, <1>8, <1>10, <1>11, <1>12

(* Opening takes the inode under the flush's name, or a new one, and knows *)
(* of those who have the name as well. *)
LEMMA OpenStep ==
    ASSUME SFInv, NEW w \in Writers, Open(w)
    PROVE  SFInv'
<1>. USE DEF SFInv
<1>. DEFINE n == TempPath(w)
<1>1. /\ writer[w].step = "open" /\ Active(w) /\ ~HasOpened(w)
      /\ UNCHANGED <<store_file, flush_counter, reader, flushes, crashes, strays>>
  BY DEF Open, Active, HasOpened
<1>2. n \in Names /\ writer[w].image \in Images /\ n[1] = writer[w].image
  BY <1>1, TempPathType
<1>3. CASE writer' = [writer EXCEPT ![w] = NotFlushing] /\ UNCHANGED <<content, temps, shared>>
  BY <1>1, <1>3, IdleIsTyped, FlushGoesOn DEF SFTypeOK
<1>4. CASE \E i \in IF temps[n] # 0 THEN {temps[n]} ELSE Inodes \ Used :
              /\ temps' = [temps EXCEPT ![n] = i]
              /\ content' = [content EXCEPT ![i] = [image |-> writer[w].image, whole |-> FALSE]]
              /\ writer' = [writer EXCEPT ![w].step = "write", ![w].inode = i]
              /\ shared' = IF Sharing(w) THEN shared \cup {i} ELSE shared
  <2>1. PICK i \in IF temps[n] # 0 THEN {temps[n]} ELSE Inodes \ Used :
              /\ temps' = [temps EXCEPT ![n] = i]
              /\ content' = [content EXCEPT ![i] = [image |-> writer[w].image, whole |-> FALSE]]
              /\ writer' = [writer EXCEPT ![w].step = "write", ![w].inode = i]
              /\ shared' = IF Sharing(w) THEN shared \cup {i} ELSE shared
    BY <1>4
  <2>2. i \in Inodes /\ i \in 0 .. MaxFlushes /\ i # 0
    BY <1>2, <2>1, StoreAssumption DEF SFTypeOK, Inodes
  <2>3. /\ i # store_file
        /\ \A r \in Readers : i # reader[r]
        /\ \A m \in Names : m # n => i # temps[m]
    <3>1. CASE temps[n] # 0
      BY <1>2, <2>1, <3>1 DEF SFTypeOK, InodesAreOwn
    <3>2. CASE temps[n] = 0
      <4>1. content[i].image = NoFile
        BY <2>1, <2>2, <3>2 DEF Used
      <4>. QED
        BY <2>2, <4>1 DEF InodesAreOwn
    <3>. QED
      BY <3>1, <3>2
  <2>4. /\ temps'[n] = i
        /\ \A m \in Names : m # n => temps'[m] = temps[m]
        /\ content'[i] = [image |-> writer[w].image, whole |-> FALSE]
        /\ \A k \in Inodes : k # i => content'[k] = content[k]
    BY <1>2, <2>1, <2>2 DEF SFTypeOK
  <2>5. /\ writer'[w] = [writer[w] EXCEPT !.step = "write", !.inode = i]
        /\ \A x \in Writers : x # w => writer'[x] = writer[x]
    BY <2>1 DEF SFTypeOK
  <2>6. /\ writer'[w].step = "write" /\ writer'[w].inode = i
        /\ writer'[w].image = writer[w].image /\ writer'[w].number = writer[w].number
    BY <2>5 DEF SFTypeOK, Flushing
  <2>7. \A x \in Writers : TempPath(x)' = TempPath(x)
    BY <2>5, <2>6 DEF TempPath
  <2>8. \A k : k # i /\ k \in 0 .. MaxFlushes /\ k # 0 => content'[k] = content[k]
    BY <2>4, StoreAssumption DEF Inodes
  <2>9. SFTypeOK'
    <3>1. writer' \in [Writers -> Flushing]
      <4>1. [writer[w] EXCEPT !.step = "write", !.inode = i] \in Flushing
        <5>1. writer[w] \in Flushing /\ i \in 0 .. MaxFlushes
          BY <2>2 DEF SFTypeOK
        <5>. QED
          BY <5>1 DEF Flushing
      <4>2. writer' = [writer EXCEPT ![w] = [writer[w] EXCEPT !.step = "write", !.inode = i]]
        BY <2>1
      <4>. QED
        BY <4>1, <4>2 DEF SFTypeOK
    <3>2. content' \in [Inodes -> [image : Images \cup {NoFile}, whole : BOOLEAN]]
      BY <1>2, <2>1, <2>2 DEF SFTypeOK
    <3>3. temps' \in [Names -> 0 .. MaxFlushes]
      BY <2>1, <2>2 DEF SFTypeOK
    <3>4. \A k, m \in Names : temps'[k] # 0 /\ temps'[k] = temps'[m] => k = m
      BY <2>3, <2>4 DEF SFTypeOK
    <3>5. \A m \in Names : temps'[m] # 0 => temps'[m] # store_file
      BY <2>3, <2>4 DEF SFTypeOK
    <3>6. \A m \in Names : temps'[m] # 0 => content'[temps'[m]].image = m[1]
      <4>1. \A m \in Names : temps[m] \in 0 .. MaxFlushes
        BY DEF SFTypeOK
      <4>. QED
        BY <1>2, <2>3, <2>4, <2>8, <4>1 DEF SFTypeOK
    <3>7. \A x \in Writers : (writer'[x].step = "write") <=> (writer'[x].inode # 0)
      BY <2>2, <2>5, <2>6 DEF SFTypeOK
    <3>8. shared' \in SUBSET Inodes
      BY <2>1, <2>2 DEF SFTypeOK
    <3>. QED
      BY <1>1, <3>1, <3>2, <3>3, <3>4, <3>5, <3>6, <3>7, <3>8 DEF SFTypeOK
  <2>10. NumbersAreOwn'
    <3>1. \A x \in Writers : \/ writer'[x].step = "idle"
                             \/ /\ Active(x)
                                /\ writer'[x].image = writer[x].image
                                /\ writer'[x].number = writer[x].number
      BY <1>1, <2>5, <2>6 DEF Active
    <3>. QED
      BY <1>1, <3>1, NumbersKept, StoreAssumption DEF NumbersAreOwn
  <2>11. InodesAreOwn'
    <3>1. \A m \in Names : temps'[m] # 0 => content'[temps'[m]].image # NoFile
      <4>1. \A m \in Names : temps[m] \in 0 .. MaxFlushes
        BY DEF SFTypeOK
      <4>. QED
        BY <1>2, <2>3, <2>4, <2>8, <4>1, StoreAssumption DEF InodesAreOwn
    <3>2. store_file # 0 => content'[store_file].image # NoFile
      BY <2>3, <2>8 DEF InodesAreOwn, SFTypeOK
    <3>3. \A r \in Readers : reader[r] # 0 => content'[reader[r]].image # NoFile
      BY <2>3, <2>8 DEF InodesAreOwn, SFTypeOK
    <3>4. \A m \in Names, r \in Readers : temps'[m] # 0 => temps'[m] # reader[r]
      BY <2>3, <2>4 DEF InodesAreOwn
    <3>5. \A k \in shared' : content'[k].image # NoFile
      BY <1>2, <2>1, <2>4, StoreAssumption DEF InodesAreOwn, SFTypeOK
    <3>. QED
      BY <1>1, <3>1, <3>2, <3>3, <3>4, <3>5 DEF InodesAreOwn
  <2>12. shared \subseteq shared'
    BY <2>1
  <2>13. StoreIsWhole'
    BY <1>1, <2>3, <2>8, <2>12 DEF StoreIsWhole, Whole, SFTypeOK
  <2>14. ASSUME NEW x \in Writers, x # w, HasOpened(x), TempPath(x) = n
         PROVE  i \in shared'
    <3>1. ProcessOf[x] # ProcessOf[w]
      BY <1>1, <2>14, SameNameOtherProcess DEF HasOpened, Active
    <3>2. Sharing(w)
      BY <2>14, <3>1 DEF Sharing
    <3>. QED
      BY <2>1, <3>2
  <2>15. \A x \in Writers : HasOpened(x) => TempPath(x) \in Names
    BY TempPathType DEF HasOpened, Active
  <2>16. \A x \in Writers : x # w => HasOpened(x)' = HasOpened(x)
    BY <2>5 DEF HasOpened
  <2>17. SharedIsKnown'
    <3>1. ASSUME NEW x \in Writers, NEW y \in Writers, x # y, HasOpened(x)', HasOpened(y)',
                 TempPath(x) = TempPath(y)
          PROVE  temps'[TempPath(x)] \in shared' \cup {0}
      <4>1. CASE TempPath(x) = n
        BY <2>4, <2>14, <2>16, <3>1, <4>1
      <4>2. CASE TempPath(x) # n
        BY <2>4, <2>12, <2>15, <2>16, <3>1, <4>2 DEF SharedIsKnown
      <4>. QED
        BY <4>1, <4>2
    <3>. QED
      BY <2>7, <3>1 DEF SharedIsKnown
  <2>18. WritersOwn'
    <3>1. ASSUME NEW x \in Writers, x # w, writer[x].step = "write"
          PROVE  writer[x].inode = temps'[TempPath(x)] \/ writer[x].inode \in shared'
      <4>1. HasOpened(x) /\ writer[x].inode # 0
        BY <3>1 DEF HasOpened, SFTypeOK
      <4>2. writer[x].inode = temps[TempPath(x)] \/ writer[x].inode \in shared
        BY <3>1 DEF WritersOwn
      <4>3. CASE TempPath(x) = n /\ temps[n] # 0
        BY <2>1, <2>4, <2>12, <4>2, <4>3
      <4>4. CASE TempPath(x) # n \/ temps[n] = 0
        BY <2>4, <2>12, <2>15, <4>1, <4>2, <4>4
      <4>. QED
        BY <4>3, <4>4
    <3>2. ASSUME NEW x \in Writers, x # w, writer[x].step = "promote"
          PROVE  temps'[TempPath(x)] \in shared' \cup {0} \/ content'[temps'[TempPath(x)]].whole
      <4>1. HasOpened(x)
        BY <3>2 DEF HasOpened
      <4>2. temps[TempPath(x)] \in shared \cup {0} \/ content[temps[TempPath(x)]].whole
        BY <3>2 DEF WritersOwn
      <4>3. CASE TempPath(x) = n
        BY <2>4, <2>14, <3>2, <4>1, <4>3
      <4>4. CASE TempPath(x) # n
        <5>1. /\ temps'[TempPath(x)] = temps[TempPath(x)] /\ temps[TempPath(x)] # i
              /\ temps[TempPath(x)] \in 0 .. MaxFlushes
          BY <2>3, <2>4, <2>15, <4>1, <4>4 DEF SFTypeOK
        <5>. QED
          BY <2>8, <2>12, <4>2, <5>1
      <4>. QED
        BY <4>3, <4>4
    <3>3. writer'[w].inode = temps'[TempPath(w)]
      BY <2>4, <2>6
    <3>. QED
      BY <1>1, <2>5, <2>6, <2>7, <3>1, <3>2, <3>3 DEF WritersOwn
  <2>19. NoLitter'
    <3>1. HasOpened(w)' /\ TempPath(w)' = n
      BY <2>6, <2>7 DEF HasOpened
    <3>2. \A m \in Names : temps'[m] # 0 => m = n \/ temps[m] # 0
      BY <2>4
    <3>. QED
      BY <1>1, <2>7, <2>16, <3>1, <3>2 DEF NoLitter
  <2>. QED
    BY <2>9, <2>10, <2>11, <2>13, <2>17, <2>18, <2>19
<1>. QED
  BY <1>3, <1>4 DEF Open

(* Writing the image keeps SFInv, a write cut short by an error included. *)
LEMMA WriteStep ==
    ASSUME SFInv, NEW w \in Writers, Write(w)
    PROVE  SFInv'
<1>. DEFINE i == writer[w].inode
            to(step) == [writer[w] EXCEPT !.step = step, !.inode = 0]
<1>1. /\ writer[w].step = "write" /\ Active(w) /\ HasOpened(w)
      /\ UNCHANGED <<temps, store_file, flush_counter, reader, flushes, crashes, strays, shared>>
  BY DEF Write, Active, HasOpened
<1>2. PICK step \in {"verify", "discard"} :
         writer' = [writer EXCEPT ![w].step = step, ![w].inode = 0]
  BY DEF Write
<1>3. writer' = [writer EXCEPT ![w] = to(step)]
  BY <1>2
<1>4. /\ to(step) \in Flushing /\ to(step).step = step /\ to(step).inode = 0
      /\ to(step).image = writer[w].image /\ to(step).number = writer[w].number
  <2>1. writer[w] \in Flushing /\ 0 \in 0 .. MaxFlushes
    BY StoreAssumption DEF SFInv, SFTypeOK
  <2>. QED
    BY <1>2, <2>1 DEF Flushing
<1>5. i \in Inodes
  BY <1>1, StoreAssumption DEF SFInv, SFTypeOK, Flushing, Inodes
<1>6. content' = content \/ content' = [content EXCEPT ![i].whole = TRUE]
  BY DEF Write
<1>7. /\ content' \in [Inodes -> [image : Images \cup {NoFile}, whole : BOOLEAN]]
      /\ \A k \in Inodes : /\ content'[k].image = content[k].image
                           /\ content[k].whole => content'[k].whole
  <2>1. content \in [Inodes -> [image : Images \cup {NoFile}, whole : BOOLEAN]]
    BY DEF SFInv, SFTypeOK
  <2>2. [content[i] EXCEPT !.whole = TRUE] \in [image : Images \cup {NoFile}, whole : BOOLEAN]
    BY <1>5, <2>1
  <2>3. \/ content' = content
        \/ content' = [content EXCEPT ![i] = [content[i] EXCEPT !.whole = TRUE]]
    BY <1>6
  <2>4. /\ [content[i] EXCEPT !.whole = TRUE].image = content[i].image
        /\ [content[i] EXCEPT !.whole = TRUE].whole
    BY <1>5, <2>1
  <2>. HIDE DEF i
  <2>. QED
    BY <1>5, <2>1, <2>2, <2>3, <2>4
<1>. HIDE DEF to
<1>. QED
  BY <1>1, <1>3, <1>4, <1>7, FlushGoesOn

(* The read-back keeps SFInv: what it lets through is whole. *)
LEMMA VerifyStep ==
    ASSUME SFInv, NEW w \in Writers, Verify(w)
    PROVE  SFInv'
<1>. DEFINE step == IF Readable(TempPath(w), writer[w].image) THEN "promote" ELSE "discard"
            to == [writer[w] EXCEPT !.step = step]
<1>1. /\ writer[w].step = "verify" /\ Active(w) /\ HasOpened(w)
      /\ UNCHANGED <<content, temps, store_file, flush_counter, reader, flushes, crashes, strays, shared>>
  BY DEF Verify, Active, HasOpened
<1>2. writer' = [writer EXCEPT ![w] = to]
  BY DEF Verify
<1>3. step \in {"promote", "discard"}
  OBVIOUS
<1>4. /\ to \in Flushing /\ to.step = step
      /\ to.image = writer[w].image /\ to.number = writer[w].number
      /\ to.inode = writer[w].inode
  <2>. HIDE DEF step
  <2>. QED
    BY <1>3 DEF SFInv, SFTypeOK, Flushing
<1>5. to.inode = 0
  BY <1>1, <1>4 DEF SFInv, SFTypeOK
<1>6. step = "promote" => content[temps[TempPath(w)]].whole
  <2>1. step = "promote" => Readable(TempPath(w), writer[w].image)
    OBVIOUS
  <2>. QED
    BY <2>1 DEF Readable
<1>7. \A k \in Inodes : /\ content'[k].image = content[k].image
                        /\ content[k].whole => content'[k].whole
  BY <1>1
<1>8. content' \in [Inodes -> [image : Images \cup {NoFile}, whole : BOOLEAN]]
  BY <1>1 DEF SFInv, SFTypeOK
<1>. HIDE DEF to, step
<1>. QED
  BY <1>1, <1>2, <1>3, <1>4, <1>5, <1>6, <1>7, <1>8, FlushGoesOn

(* The rename keeps SFInv: the inode it puts under STORE is whole or       *)
(* shared, though it may be another's by now. *)
LEMMA PromoteStep ==
    ASSUME SFInv, NEW w \in Writers, Promote(w)
    PROVE  SFInv'
<1>. DEFINE n == TempPath(w)
            to == [writer[w] EXCEPT !.step = "discard"]
<1>1. /\ writer[w].step = "promote" /\ Active(w) /\ HasOpened(w)
      /\ UNCHANGED <<content, flush_counter, reader, flushes, crashes, strays, shared>>
  BY DEF Promote, Active, HasOpened
<1>2. /\ \A k \in Inodes : /\ content'[k].image = content[k].image
                           /\ content[k].whole => content'[k].whole
      /\ content' \in [Inodes -> [image : Images \cup {NoFile}, whole : BOOLEAN]]
  BY <1>1 DEF SFInv, SFTypeOK
<1>3. temps[n] # 0 => content[temps[n]].whole \/ temps[n] \in shared
  BY <1>1 DEF SFInv, WritersOwn
<1>4. CASE /\ temps[n] # 0
           /\ store_file' = temps[n]
           /\ temps' = [temps EXCEPT ![n] = 0]
           /\ writer' = [writer EXCEPT ![w] = NotFlushing]
  BY <1>1, <1>2, <1>3, <1>4, IdleIsTyped, FlushGoesOn
<1>5. CASE /\ writer' = [writer EXCEPT ![w].step = "discard"]
           /\ UNCHANGED <<temps, store_file>>
  <2>1. writer' = [writer EXCEPT ![w] = to]
    BY <1>5
  <2>2. /\ to \in Flushing /\ to.step = "discard" /\ to.inode = 0
        /\ to.image = writer[w].image /\ to.number = writer[w].number
    BY <1>1, StoreAssumption DEF SFInv, SFTypeOK, Flushing
  <2>. HIDE DEF to
  <2>. QED
    BY <1>1, <1>2, <1>5, <2>1, <2>2, FlushGoesOn
<1>. QED
  BY <1>4, <1>5 DEF Promote

(* Removing the temporary file keeps SFInv. *)
LEMMA DiscardStep ==
    ASSUME SFInv, NEW w \in Writers, DiscardTemp(w)
    PROVE  SFInv'
<1>1. /\ writer[w].step = "discard" /\ Active(w) /\ HasOpened(w)
      /\ temps' = [temps EXCEPT ![TempPath(w)] = 0]
      /\ writer' = [writer EXCEPT ![w] = NotFlushing]
      /\ UNCHANGED <<content, store_file, flush_counter, reader, flushes, crashes, strays, shared>>
  BY DEF DiscardTemp, Active, HasOpened
<1>2. /\ \A k \in Inodes : /\ content'[k].image = content[k].image
                           /\ content[k].whole => content'[k].whole
      /\ content' \in [Inodes -> [image : Images \cup {NoFile}, whole : BOOLEAN]]
  BY <1>1 DEF SFInv, SFTypeOK
<1>. QED
  BY <1>1, <1>2, IdleIsTyped, FlushGoesOn

(* A process that dies leaves its names to nobody. *)
LEMMA CrashStep ==
    ASSUME SFInv, NEW p \in Processes, Crash(p)
    PROVE  SFInv'
<1>. USE DEF SFInv
<1>. DEFINE mine == {w \in Writers : ProcessOf[w] = p}
<1>1. /\ crashes < MaxCrashes /\ crashes' = crashes + 1
      /\ strays' = strays \cup {TempPath(w) : w \in {x \in mine : writer[x].step # "idle"}}
      /\ writer' = [w \in Writers |-> IF w \in mine THEN NotFlushing ELSE writer[w]]
      /\ flush_counter' = [flush_counter EXCEPT ![p] = 0]
      /\ UNCHANGED <<content, temps, store_file, reader, flushes, shared>>
  BY DEF Crash
<1>2. \A w \in Writers : writer'[w] = IF ProcessOf[w] = p THEN NotFlushing ELSE writer[w]
  BY <1>1
<1>3. SFTypeOK'
  <2>1. writer' \in [Writers -> Flushing]
    BY <1>1, IdleIsTyped DEF SFTypeOK
  <2>2. flush_counter' \in [Processes -> 0 .. MaxFlushes]
    BY <1>1, StoreAssumption DEF SFTypeOK
  <2>3. strays' \in SUBSET Names
    <3>1. \A w \in Writers : writer[w].step # "idle" => TempPath(w) \in Names
      BY TempPathType DEF Active
    <3>. QED
      BY <1>1, <3>1 DEF SFTypeOK
  <2>4. crashes' \in 0 .. MaxCrashes
    BY <1>1, StoreAssumption DEF SFTypeOK
  <2>5. \A w \in Writers : (writer'[w].step = "write") <=> (writer'[w].inode # 0)
    BY <1>2, IdleIsTyped DEF SFTypeOK
  <2>. QED
    BY <1>1, <2>1, <2>2, <2>3, <2>4, <2>5 DEF SFTypeOK
<1>4. NumbersAreOwn'
  <2>1. \A q \in Processes : /\ flush_counter'[q] <= flushes
                             /\ q # p => flush_counter'[q] = flush_counter[q]
    BY <1>1 DEF SFTypeOK, NumbersAreOwn
  <2>2. \A w \in Writers :
          \/ writer'[w].step = "idle"
          \/ /\ Active(w)
             /\ writer'[w].image = writer[w].image
             /\ writer'[w].number = writer[w].number
             /\ flush_counter'[ProcessOf[w]] = flush_counter[ProcessOf[w]]
    BY <1>2, <2>1, IdleIsTyped, StoreAssumption DEF Active
  <2>. QED
    BY <1>1, <2>1, <2>2, NumbersKept, StoreAssumption
<1>5. InodesAreOwn' /\ StoreIsWhole'
  BY <1>1 DEF InodesAreOwn, StoreIsWhole, Whole
<1>6. \A w \in Writers : /\ ProcessOf[w] # p => writer'[w] = writer[w] /\ TempPath(w)' = TempPath(w)
                         /\ ProcessOf[w] = p => writer'[w] = NotFlushing
                         /\ HasOpened(w)' <=> ProcessOf[w] # p /\ HasOpened(w)
  BY <1>2, IdleIsTyped DEF TempPath, HasOpened
<1>7. SharedIsKnown'
  BY <1>1, <1>6 DEF SharedIsKnown
<1>8. WritersOwn'
  BY <1>1, <1>6, IdleIsTyped DEF WritersOwn
<1>9. NoLitter'
  <2>1. ASSUME NEW w \in Writers, HasOpened(w), ProcessOf[w] = p
        PROVE  TempPath(w) \in strays'
    BY <1>1, <2>1 DEF HasOpened
  <2>. QED
    BY <1>1, <1>6, <2>1 DEF NoLitter
<1>. QED
  BY <1>3, <1>4, <1>5, <1>7, <1>8, <1>9

(* Whoever loads changes nothing but what it has open. *)
LEMMA ReaderStep ==
    ASSUME SFInv, NEW r \in Readers, OpenStore(r) \/ ReadStore(r)
    PROVE  SFInv'
<1>. USE DEF SFInv
<1>1. /\ reader' = [reader EXCEPT ![r] = store_file] \/ reader' = [reader EXCEPT ![r] = 0]
      /\ UNCHANGED <<content, temps, store_file, flush_counter, writer, flushes, crashes, strays, shared>>
  BY DEF OpenStore, ReadStore
<1>2. \A x \in Readers : reader'[x] \in {reader[x], store_file, 0}
  BY <1>1 DEF SFTypeOK
<1>3. SFTypeOK'
  <2>1. reader' \in [Readers -> 0 .. MaxFlushes]
    BY <1>1, StoreAssumption DEF SFTypeOK
  <2>. QED
    BY <1>1, <2>1 DEF SFTypeOK
<1>4. NumbersAreOwn' /\ SharedIsKnown' /\ WritersOwn' /\ NoLitter'
  BY <1>1 DEF NumbersAreOwn, SharedIsKnown, WritersOwn, NoLitter, Active, HasOpened, TempPath
<1>5. InodesAreOwn'
  BY <1>1, <1>2 DEF InodesAreOwn, SFTypeOK
<1>6. StoreIsWhole'
  BY <1>1, <1>2 DEF StoreIsWhole, Whole
<1>. QED
  BY <1>3, <1>4, <1>5, <1>6

(* Every step of a writer, a reader or a crash keeps SFInv. *)
LEMMA SFInvariance ==
    ASSUME SFInv, [SFNext]_sfvars
    PROVE  SFInv'
<1>1. CASE UNCHANGED sfvars
  BY <1>1 DEF sfvars, SFInv, SFTypeOK, NumbersAreOwn, InodesAreOwn, SharedIsKnown, WritersOwn,
              StoreIsWhole, Whole, NoLitter, Active, HasOpened, TempPath
<1>2. CASE SFNext
  BY <1>2, FlushStep, OpenStep, WriteStep, VerifyStep, PromoteStep, DiscardStep,
     CrashStep, ReaderStep DEF SFNext
<1>. QED
  BY <1>1, <1>2

(* SFInv holds before the first flush. *)
LEMMA Initially == SFInit => SFInv
<1>. SUFFICES ASSUME SFInit PROVE SFInv
  OBVIOUS
<1>1. SFTypeOK
  BY StoreAssumption, IdleIsTyped DEF SFInit, SFTypeOK
<1>2. NumbersAreOwn /\ InodesAreOwn /\ SharedIsKnown /\ WritersOwn
  BY StoreAssumption, IdleIsTyped
  DEF SFInit, NumbersAreOwn, InodesAreOwn, SharedIsKnown, WritersOwn, Active, HasOpened
<1>3. StoreIsWhole /\ NoLitter
  BY DEF SFInit, StoreIsWhole, Whole, NoLitter
<1>. QED
  BY <1>1, <1>2, <1>3 DEF SFInv

-----------------------------------------------------------------------------
(* Theorems *)

(* SFInv holds in every state. *)
LEMMA Invariant == SFSpec => []SFInv
<1>1. SFInv /\ [SFNext]_sfvars => SFInv'
  BY SFInvariance
<1>. QED
  BY <1>1, Initially, PTL DEF SFSpec

(* The state is well typed, and an inode has one name at most. *)
THEOREM SFTypeCorrect == SFSpec => []SFTypeOK
<1>1. SFInv => SFTypeOK
  BY DEF SFInv
<1>. QED
  BY <1>1, Invariant, PTL

(* Whatever dies and whatever fails, the store is whole for whoever opens  *)
(* it and for whoever has it open, or is a file whose name two processes   *)
(* had at once. *)
THEOREM StoreWhole == SFSpec => []StoreIsWhole
<1>1. SFInv => StoreIsWhole
  BY DEF SFInv
<1>. QED
  BY <1>1, Invariant, PTL

(* Only a process that died leaves a temporary file behind. *)
THEOREM LeavesNoLitter == SFSpec => []NoLitter
<1>1. SFInv => NoLitter
  BY DEF SFInv
<1>. QED
  BY <1>1, Invariant, PTL

(* Opening leaves what is under the store's name alone, and shares at most *)
(* the image of the flush. *)
LEMMA OpenShares ==
    ASSUME SFInv, NEW w \in Writers, Open(w)
    PROVE  /\ store_file' = store_file
           /\ store_file # 0 => content'[store_file] = content[store_file]
           /\ LET Common == {content[i].image : i \in shared} IN
              Common' = Common \/ Common' = Common \cup {writer[w].image}
<1>. USE DEF SFInv
<1>. DEFINE n == TempPath(w)
            v == writer[w].image
            Common == {content[i].image : i \in shared}
<1>1. n \in Names /\ v \in Images /\ n[1] = v
  BY TempPathType DEF Open, Active
<1>2. CASE UNCHANGED <<content, temps, shared>>
  BY <1>2 DEF Open
<1>3. CASE \E i \in IF temps[n] # 0 THEN {temps[n]} ELSE Inodes \ Used :
              /\ content' = [content EXCEPT ![i] = [image |-> v, whole |-> FALSE]]
              /\ shared' = IF Sharing(w) THEN shared \cup {i} ELSE shared
  <2>1. PICK i \in IF temps[n] # 0 THEN {temps[n]} ELSE Inodes \ Used :
              /\ content' = [content EXCEPT ![i] = [image |-> v, whole |-> FALSE]]
              /\ shared' = IF Sharing(w) THEN shared \cup {i} ELSE shared
    BY <1>3
  <2>2. i \in Inodes /\ (content[i].image = v \/ content[i].image = NoFile) /\ i # store_file
    <3>1. CASE temps[n] # 0
      BY <1>1, <2>1, <3>1, StoreAssumption DEF SFTypeOK, Inodes
    <3>2. CASE temps[n] = 0
      BY <2>1, <3>2, StoreAssumption DEF Used, InodesAreOwn, Inodes
    <3>. QED
      BY <3>1, <3>2
  <2>3. /\ content'[i].image = v
        /\ \A k \in Inodes : k # i => content'[k] = content[k]
        /\ shared \subseteq Inodes
        /\ store_file # 0 => store_file \in Inodes
    BY <2>1, <2>2, StoreAssumption DEF SFTypeOK, Inodes
  <2>4. \A k \in shared : content'[k].image = content[k].image
    BY <2>2, <2>3 DEF InodesAreOwn
  <2>5. CASE Sharing(w)
    <3>1. shared' = shared \cup {i}
      BY <2>1, <2>5
    <3>2. Common' = Common \cup {v}
      BY <2>3, <2>4, <3>1
    <3>. QED
      BY <2>2, <2>3, <3>2 DEF Open
  <2>6. CASE ~Sharing(w)
    BY <2>1, <2>2, <2>3, <2>4, <2>6 DEF Open
  <2>. QED
    BY <2>5, <2>6
<1>. QED
  BY <1>2, <1>3 DEF Open

(* No other step changes the image of an inode, or takes the store away. *)
LEMMA ImagesStay ==
    ASSUME SFInv, SFInv', [SFNext]_sfvars, ~\E w \in Writers : Open(w)
    PROVE  /\ shared' = shared
           /\ content' \in [Inodes -> [image : Images \cup {NoFile}, whole : BOOLEAN]]
           /\ \A i \in Inodes : content'[i].image = content[i].image
           /\ store_file' = 0 => store_file = 0
<1>1. content' \in [Inodes -> [image : Images \cup {NoFile}, whole : BOOLEAN]]
  BY DEF SFInv, SFTypeOK
<1>2. shared' = shared /\ (store_file' = 0 => store_file = 0)
  BY DEF SFNext, sfvars, BeginFlush, Write, Verify, Promote, DiscardTemp, Crash, OpenStore,
         ReadStore
<1>3. content' = content \/ \E i : content' = [content EXCEPT ![i].whole = TRUE]
  BY DEF SFNext, sfvars, BeginFlush, Write, Verify, Promote, DiscardTemp, Crash, OpenStore,
         ReadStore
<1>4. \A i \in Inodes : content'[i].image = content[i].image
  BY <1>3 DEF SFInv, SFTypeOK
<1>. QED
  BY <1>1, <1>2, <1>4

(* What the store yields is, from step to step, the same or another image, *)
(* whole or of two processes under one name: the steps of a flush are the  *)
(* one step of AtomicStore. *)
THEOREM Refinement == SFSpec => RefinesAtomicStore
<1>. DEFINE File == IF store_file = 0 THEN NoFile ELSE content[store_file]
            Common == {content[i].image : i \in shared}
<1>1. SFInit => Promise!Init
  BY DEF SFInit, Promise!Init
<1>2. ASSUME SFInv, SFInv', [SFNext]_sfvars PROVE [Promise!Next]_<<File, Common>>
  <2>1. CASE \E w \in Writers : Open(w)
    <3>1. PICK w \in Writers : Open(w)
      BY <2>1
    <3>2. /\ store_file' = store_file
          /\ store_file # 0 => content'[store_file] = content[store_file]
          /\ Common' = Common \/ Common' = Common \cup {writer[w].image}
      BY <1>2, <3>1, OpenShares DEF Common
    <3>3. writer[w].image \in Images
      BY <1>2, <3>1, TempPathType DEF SFInv, Open, Active
    <3>4. File' = File
      BY <3>2
    <3>. QED
      BY <3>2, <3>3, <3>4 DEF Promise!Next, Promise!Meet
  <2>2. CASE ~\E w \in Writers : Open(w)
    <3>1. /\ shared' = shared
          /\ content' \in [Inodes -> [image : Images \cup {NoFile}, whole : BOOLEAN]]
          /\ \A i \in Inodes : content'[i].image = content[i].image
          /\ store_file' = 0 => store_file = 0
      BY <1>2, <2>2, ImagesStay
    <3>2. Common' = Common
      BY <1>2, <3>1 DEF SFInv, SFTypeOK
    <3>3. CASE store_file' = 0
      BY <3>1, <3>2, <3>3
    <3>4. CASE store_file' # 0
      <4>1. store_file' \in Inodes
        BY <1>2, <3>4, StoreAssumption DEF SFInv, SFTypeOK, Inodes
      <4>2. content'[store_file'] \in [image : Images \cup {NoFile}, whole : BOOLEAN]
        BY <3>1, <4>1
      <4>3. content'[store_file'].image \in Images
        BY <1>2, <3>4, <4>2 DEF SFInv, InodesAreOwn
      <4>4. content'[store_file'].whole \/ store_file' \in shared'
        BY <1>2, <3>4 DEF SFInv, StoreIsWhole, Whole
      <4>5. content'[store_file'].whole \/ content'[store_file'].image \in Common
        BY <3>1, <4>1, <4>4
      <4>6. PICK v \in Images, whole \in BOOLEAN :
                /\ content'[store_file'] = [image |-> v, whole |-> whole]
                /\ whole \/ v \in Common
        BY <4>2, <4>3, <4>5
      <4>7. File' = [image |-> v, whole |-> whole]
        BY <3>4, <4>6
      <4>. HIDE DEF File, Common
      <4>. QED
        BY <3>2, <4>6, <4>7 DEF Promise!Next, Promise!Publish, File, Common
    <3>. QED
      BY <3>3, <3>4
  <2>. QED
    BY <2>1, <2>2
<1>. QED
  BY <1>1, <1>2, Invariant, PTL DEF SFSpec, RefinesAtomicStore, Promise!Spec

=============================================================================
