----------------------------- MODULE StoreFile ------------------------------
(***************************************************************************)
(* BSDeclarationIndex::flush and BSParseCache::flush: an image is written  *)
(* to a sibling temporary file, read back, and renamed over the store.     *)
(* Threads of one process share the counter in the names of temporary      *)
(* files; several processes (two editors on a project) share the           *)
(* directory.  A process may die between any two steps and start again     *)
(* with its counter at zero.                                               *)
(*                                                                         *)
(* The file system is the POSIX one: a name refers to an inode, opening a  *)
(* name for writing truncates its inode, and renaming moves a name without *)
(* regard to who has the inode open.                                       *)
(*                                                                         *)
(* Initial states, steps and types have an SF in front of their names, for *)
(* the theorems speak of ParseStore beside it.                             *)
(***************************************************************************)
EXTENDS Integers, FiniteSets

CONSTANTS
    Writers,        \* threads that flush
    Readers,        \* threads that load
    Processes,
    ProcessOf,      \* writer -> its process
    Images,         \* encoded stores; equal bytes are equal images
    NoFile,
    MaxFlushes,     \* bound of the model: flushes begun
    MaxCrashes      \* bound of the model: processes that die

ASSUME StoreAssumption ==
    /\ ProcessOf \in [Writers -> Processes]
    /\ NoFile \notin Images
    /\ MaxFlushes \in Nat
    /\ MaxCrashes \in Nat

VARIABLES
    content,        \* inode -> its image and whether all of it is there
    temps,          \* name of a temporary file -> its inode, 0 for none
    store_file,     \* inode under the store's own name, 0 for none
    flush_counter,  \* process -> number of the next temporary file
    writer,         \* writer -> the flush it is in
    reader,         \* reader -> the inode it has open, 0 for none
    flushes,        \* flushes begun
    crashes,        \* processes that have died
    strays,         \* history: names left behind by dead processes
    shared          \* history: inodes opened under a name two processes had

sfvars == <<content, temps, store_file, flush_counter, writer, reader, flushes,
            crashes, strays, shared>>

-----------------------------------------------------------------------------
Inodes == 1 .. MaxFlushes
Names  == Images \X (0 .. MaxFlushes)

Used == {i \in Inodes : content[i] # [image |-> NoFile, whole |-> FALSE]}

Flushing == [step : {"idle", "open", "write", "verify", "promote", "discard"},
             image : Images \cup {NoFile}, number : 0 .. MaxFlushes,
             inode : 0 .. MaxFlushes]

NotFlushing == [step |-> "idle", image |-> NoFile, number |-> 0, inode |-> 0]

(* Mutant: the name is made of the content only. *)
NameByContent(w) == <<writer[w].image, 0>>

(* temp_path: the hash of the image, and a number of this process. *)
TempPath(w) == <<writer[w].image, writer[w].number>>

SFInit ==
    /\ content = [i \in Inodes |-> [image |-> NoFile, whole |-> FALSE]]
    /\ temps = [n \in Names |-> 0]
    /\ store_file = 0
    /\ flush_counter = [p \in Processes |-> 0]
    /\ writer = [w \in Writers |-> NotFlushing]
    /\ reader = [r \in Readers |-> 0]
    /\ flushes = 0
    /\ crashes = 0
    /\ strays = {}
    /\ shared = {}

(* flush is called: the image is fixed and the name is chosen. *)
BeginFlush(w, v) ==
    /\ writer[w].step = "idle"
    /\ flushes < MaxFlushes
    /\ writer' = [writer EXCEPT ![w] = [step |-> "open", image |-> v, inode |-> 0,
                                        number |-> flush_counter[ProcessOf[w]]]]
    /\ flush_counter' = [flush_counter EXCEPT ![ProcessOf[w]] = @ + 1]
    /\ flushes' = flushes + 1
    /\ UNCHANGED <<content, temps, store_file, reader, crashes, strays, shared>>

(* It has opened its temporary file. *)
HasOpened(w) == writer[w].step \notin {"idle", "open"}

(* Another process has opened the same name, for the same bytes under the  *)
(* same number.                                                            *)
Sharing(w) ==
    \E x \in Writers :
        ProcessOf[x] # ProcessOf[w] /\ HasOpened(x) /\ TempPath(x) = TempPath(w)

(* FileAccess::open for writing: a new inode, or the one already there     *)
(* truncated.  Or the file cannot be opened and the flush fails.           *)
Open(w) ==
    LET n == TempPath(w) IN
    /\ writer[w].step = "open"
    /\ \/ /\ writer' = [writer EXCEPT ![w] = NotFlushing]
          /\ UNCHANGED <<content, temps, shared>>
       \/ \E i \in IF temps[n] # 0 THEN {temps[n]} ELSE Inodes \ Used :
          /\ \A k \in Inodes \ Used : temps[n] = 0 => i <= k
          /\ temps' = [temps EXCEPT ![n] = i]
          /\ content' = [content EXCEPT ![i] = [image |-> writer[w].image, whole |-> FALSE]]
          /\ writer' = [writer EXCEPT ![w].step = "write", ![w].inode = i]
          /\ shared' = IF Sharing(w) THEN shared \cup {i} ELSE shared
    /\ UNCHANGED <<store_file, flush_counter, reader, flushes, crashes, strays>>

(* store_buffer, flush and close.  A short write is noticed at once, or    *)
(* not at all.                                                             *)
Write(w) ==
    /\ writer[w].step = "write"
    /\ \/ /\ content' = [content EXCEPT ![writer[w].inode].whole = TRUE]
          /\ writer' = [writer EXCEPT ![w].step = "verify", ![w].inode = 0]
       \/ /\ writer' = [writer EXCEPT ![w].step = "discard", ![w].inode = 0]
          /\ UNCHANGED content
       \/ /\ writer' = [writer EXCEPT ![w].step = "verify", ![w].inode = 0]
          /\ UNCHANGED content
    /\ UNCHANGED <<temps, store_file, flush_counter, reader, flushes, crashes, strays,
                   shared>>

Readable(n, v) == temps[n] # 0 /\ content[temps[n]] = [image |-> v, whole |-> TRUE]

(* Mutant: what was written is not read back. *)
VerifyNothing(w) ==
    /\ writer[w].step = "verify"
    /\ writer' = [writer EXCEPT ![w].step = "promote"]
    /\ UNCHANGED <<content, temps, store_file, flush_counter, reader, flushes, crashes,
                   strays, shared>>

(* Mutant: a file that does not read back is left where it is. *)
VerifyLeaving(w) ==
    /\ writer[w].step = "verify"
    /\ writer' = [writer EXCEPT ![w] =
          IF Readable(TempPath(w), writer[w].image) THEN [@ EXCEPT !.step = "promote"]
          ELSE NotFlushing]
    /\ UNCHANGED <<content, temps, store_file, flush_counter, reader, flushes, crashes,
                   strays, shared>>

(* The file is read back and compared with the image. *)
Verify(w) ==
    /\ writer[w].step = "verify"
    /\ writer' = [writer EXCEPT ![w].step =
          IF Readable(TempPath(w), writer[w].image) THEN "promote" ELSE "discard"]
    /\ UNCHANGED <<content, temps, store_file, flush_counter, reader, flushes, crashes,
                   strays, shared>>

(* Mutant: the store becomes a second name of the temporary file. *)
PromoteByLink(w) ==
    LET n == TempPath(w) IN
    /\ writer[w].step = "promote"
    /\ \/ /\ temps[n] # 0
          /\ store_file' = temps[n]
          /\ writer' = [writer EXCEPT ![w] = NotFlushing]
       \/ /\ writer' = [writer EXCEPT ![w].step = "discard"]
          /\ UNCHANGED store_file
    /\ UNCHANGED <<content, temps, flush_counter, reader, flushes, crashes, strays,
                   shared>>

(* bs_replace_file: one rename.  A name that is gone, or a rename the      *)
(* system refuses, fails the flush.                                        *)
Promote(w) ==
    LET n == TempPath(w) IN
    /\ writer[w].step = "promote"
    /\ \/ /\ temps[n] # 0
          /\ store_file' = temps[n]
          /\ temps' = [temps EXCEPT ![n] = 0]
          /\ writer' = [writer EXCEPT ![w] = NotFlushing]
       \/ /\ writer' = [writer EXCEPT ![w].step = "discard"]
          /\ UNCHANGED <<temps, store_file>>
    /\ UNCHANGED <<content, flush_counter, reader, flushes, crashes, strays, shared>>

(* discard_temp: a flush that failed removes its file and returns. *)
DiscardTemp(w) ==
    /\ writer[w].step = "discard"
    /\ temps' = [temps EXCEPT ![TempPath(w)] = 0]
    /\ writer' = [writer EXCEPT ![w] = NotFlushing]
    /\ UNCHANGED <<content, store_file, flush_counter, reader, flushes, crashes, strays,
                   shared>>

(* A process dies: its flushes stop where they are and its counter starts  *)
(* from zero in the next run.                                              *)
Crash(p) ==
    LET mine == {w \in Writers : ProcessOf[w] = p} IN
    /\ crashes < MaxCrashes
    /\ crashes' = crashes + 1
    /\ strays' = strays \cup {TempPath(w) : w \in {x \in mine : writer[x].step # "idle"}}
    /\ writer' = [w \in Writers |-> IF w \in mine THEN NotFlushing ELSE writer[w]]
    /\ flush_counter' = [flush_counter EXCEPT ![p] = 0]
    /\ UNCHANGED <<content, temps, store_file, reader, flushes, shared>>

(* load() opens the store, and reads it later. *)
OpenStore(r) ==
    /\ reader[r] = 0
    /\ store_file # 0
    /\ reader' = [reader EXCEPT ![r] = store_file]
    /\ UNCHANGED <<content, temps, store_file, flush_counter, writer, flushes, crashes,
                   strays, shared>>

ReadStore(r) ==
    /\ reader[r] # 0
    /\ reader' = [reader EXCEPT ![r] = 0]
    /\ UNCHANGED <<content, temps, store_file, flush_counter, writer, flushes, crashes,
                   strays, shared>>

SFNext ==
    \/ \E w \in Writers, v \in Images : BeginFlush(w, v)
    \/ \E w \in Writers :
          Open(w) \/ Write(w) \/ Verify(w) \/ Promote(w) \/ DiscardTemp(w)
    \/ \E p \in Processes : Crash(p)
    \/ \E r \in Readers : OpenStore(r) \/ ReadStore(r)

SFSpec == SFInit /\ [][SFNext]_sfvars

-----------------------------------------------------------------------------
(* Properties *)

(* The values of the state; an inode has one name at most, a writer with a *)
(* file open has an inode.                                                 *)
SFTypeOK ==
    /\ content \in [Inodes -> [image : Images \cup {NoFile}, whole : BOOLEAN]]
    /\ temps \in [Names -> 0 .. MaxFlushes]
    /\ store_file \in 0 .. MaxFlushes
    /\ flush_counter \in [Processes -> 0 .. MaxFlushes]
    /\ writer \in [Writers -> Flushing]
    /\ reader \in [Readers -> 0 .. MaxFlushes]
    /\ flushes \in 0 .. MaxFlushes
    /\ crashes \in 0 .. MaxCrashes
    /\ strays \in SUBSET Names
    /\ shared \in SUBSET Inodes
    /\ \A m, n \in Names : temps[m] # 0 /\ temps[m] = temps[n] => m = n
    /\ \A n \in Names : temps[n] # 0 => temps[n] # store_file
    /\ \A n \in Names : temps[n] # 0 => content[temps[n]].image = n[1]
    /\ \A w \in Writers : (writer[w].step = "write") <=> (writer[w].inode # 0)

Whole(i) == i # 0 => content[i].whole

(* bs_cache.cpp: "a crash mid-write leaves either the previous store or no *)
(* store -- never a half-written one under the real name", for whoever     *)
(* opens the store and for whoever has it open already, whatever fails or  *)
(* dies, but for a file under a name that two processes had at once, since *)
(* they flushed the same bytes under the same number.                      *)
StoreIsWhole ==
    \A i \in {store_file} \cup {reader[r] : r \in Readers} : Whole(i) \/ i \in shared

(* bs_cache.cpp, of such a file: "two carrying identical content produce   *)
(* identical files, so sharing one is harmless".  The store is whole, or   *)
(* about to be: somebody is writing what is not there.                     *)
SharingIsHarmless ==
    Whole(store_file) \/ \E w \in Writers : writer[w].inode = store_file

(* bs_discard_temp_store: a failed flush leaves no temporary file behind;  *)
(* only one of a process that died stays, until its name is used again.    *)
NoLitter ==
    \A n \in Names :
        temps[n] # 0 =>
            n \in strays \/ \E w \in Writers : HasOpened(w) /\ TempPath(w) = n

(* The flush protocol is one atomic replacement of the store by an image,  *)
(* whole unless two processes flushed it under one name.                   *)
Promise == INSTANCE AtomicStore WITH
    file <- IF store_file = 0 THEN NoFile ELSE content[store_file],
    common <- {content[i].image : i \in shared}

RefinesAtomicStore == Promise!Spec

=============================================================================
