------------------------------ MODULE JvStore ------------------------------
(***************************************************************************)
(* What JEVEUX promises to the rest of code_aster: a named object keeps    *)
(* the value last written to it until it is destroyed, whatever is         *)
(* unloaded, reloaded, released or closed in between; the objects of the   *)
(* volatile base end with the command or the run that created them.        *)
(*                                                                         *)
(* Jeveux.tla implements this module: nothing of the memory manager        *)
(* (segments, marks, eviction, disk images) is visible here.               *)
(***************************************************************************)
CONSTANTS Objects,      \* the simple objects of the catalogue
          Volatile,     \* those of the volatile base 'V'
          Values,       \* the contents a segment may hold
          Zero,         \* the content of a segment allocated with 'INIT'
          Absent,       \* the object is not in the catalogue
          Empty         \* it is, and has never had a segment of values

VARIABLES store,        \* store[o]: Absent, Empty or the content of o
          editing,      \* the objects some code may be writing to
          open          \* the bases are open

vars == <<store, editing, open>>

Init == /\ store = [o \in Objects |-> Absent]
        /\ editing = {}
        /\ open = TRUE

Create(o) == /\ open
             /\ UNCHANGED <<editing, open>>
             /\ store[o] = Absent
             /\ store' = [store EXCEPT ![o] = Empty]

(* An access in write mode; the first one gives the object its initial      *)
(* content.                                                                 *)
Edit(o) == /\ open
           /\ store[o] # Absent
           /\ editing' \in {editing, editing \cup {o}}
           /\ store' = [store EXCEPT ![o] = IF @ = Empty THEN Zero ELSE @]
           /\ UNCHANGED open

Write(o, v) == /\ open
               /\ o \in editing
               /\ UNCHANGED <<editing, open>>
               /\ store' = [store EXCEPT ![o] = v]

(* The end of some accesses, and the destruction of the objects of S.       *)
Release(S) == /\ open
              /\ editing' \subseteq editing \ S
              /\ store' = [o \in Objects |-> IF o \in S THEN Absent ELSE store[o]]
              /\ UNCHANGED open

Close == /\ open
         /\ store' = [o \in Objects |-> IF o \in Volatile THEN Absent ELSE store[o]]
         /\ editing' = {}
         /\ open' = FALSE

Reopen == ~open /\ open' = TRUE /\ UNCHANGED <<store, editing>>

Next == \/ \E o \in Objects : Create(o) \/ Edit(o)
        \/ \E o \in Objects, v \in Values : Write(o, v)
        \/ \E S \in SUBSET Objects : Release(S)
        \/ Close
        \/ Reopen

Spec == Init /\ [][Next]_vars
=============================================================================
