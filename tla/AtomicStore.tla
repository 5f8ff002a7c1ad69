---------------------------- MODULE AtomicStore -----------------------------
(***************************************************************************)
(* What flush() promises to whoever loads a store: the file is absent, or  *)
(* holds one image that somebody flushed, and changes in one step from one *)
(* to another.  The image is whole, unless it is one that two processes    *)
(* have flushed under one name; of those a part may be missing, and be     *)
(* added later.                                                            *)
(***************************************************************************)
CONSTANTS Images, NoFile

VARIABLES
    file,       \* what a load finds
    common      \* the images two processes have flushed under one name

Init == file = NoFile /\ common = {}

(* bs_replace_file *)
Publish ==
    /\ \E v \in Images, whole \in BOOLEAN :
          /\ file' = [image |-> v, whole |-> whole]
          /\ whole \/ v \in common
    /\ UNCHANGED common

(* Two processes meet under one name. *)
Meet ==
    /\ \E v \in Images : common' = common \cup {v}
    /\ UNCHANGED file

Next == Publish \/ Meet

Spec == Init /\ [][Next]_<<file, common>>

=============================================================================
