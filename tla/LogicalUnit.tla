---------------------------- MODULE LogicalUnit ----------------------------
(***************************************************************************)
(* The logical units of the files that Python, the commands and Fortran    *)
(* share: the numbers that Helpers/LogicalUnit.py gives and takes back     *)
(* (free, used), and the table of files of Fortran (common asgfi1/asgfi2:  *)
(* ulopen, uldefi, ulexis), which Python changes through the operator      *)
(* DEFI_FICHIER (ops026) only, and the operators by themselves.            *)
(*                                                                         *)
(* One action is one call from a study or a macro-command.  A call that    *)
(* fails in Fortran raises an exception which the study may catch: the     *)
(* state that it leaves is the state the next call finds.                  *)
(***************************************************************************)
EXTENDS Integers, Sequences, FiniteSetsExt

CONSTANTS Pool,         \* the numbers given, from the last one: 19..99
          Others,       \* numbers a study may choose outside of the pool
          Files,        \* names of files, other than fort.<unit>
          Empty,        \* no name: the file is fort.<unit>
          Unused,       \* used[u] when u is not registered
          None,         \* a handle that holds nothing
          Types,        \* TYPE: A(SCII), B(INARY), L(IBRE)
          Accesses,     \* ACCES: N(EW), A(PPEND), O(LD)
          Handles,      \* objects LogicalUnitFile that callers hold
          mxf,          \* slots of the table, 100
          MaxStuck,     \* bound of the model on the units whose closing fails
          MaxOutside    \* bound of the model on calls that name a unit or a file

VARIABLES free,         \* _free_number, popped from its end
          used,         \* _used_unit: unit -> name given, or Unused
          table,        \* the first nbfile slots of the commons
          held,         \* handle -> its unit, or None
          named,        \* history: units of DEFI_FICHIER(UNITE=...)
          operated,     \* history: units that an operator opened or closed
          stuck,        \* history: units whose closing failed
          outside       \* calls counted for MaxOutside

vars == <<free, used, table, held, named, operated, stuck, outside>>

Outside == outside < MaxOutside /\ outside' = outside + 1

RESERVED_UNIT == {8}
Units == {Pool[i] : i \in DOMAIN Pool} \cup Others \cup RESERVED_UNIT
Names == Files \cup {Empty}

(* The name fort.<unit> is represented by the unit itself.                 *)
Path(u, f) == IF f = Empty THEN u ELSE f

ASSUME UnitAssumption ==
    /\ Types \subseteq {"A", "B", "L"} /\ Accesses \subseteq {"N", "A", "O"}
    /\ Units \subseteq Nat \ {0} /\ Pool \in Seq(19..99) /\ mxf \in Nat \ {0, 1}
    /\ MaxOutside \in Nat /\ MaxStuck \in Nat
    /\ \A i, j \in DOMAIN Pool : Pool[i] = Pool[j] => i = j
    /\ \A i \in DOMAIN Pool : Pool[i] \notin Others \cup RESERVED_UNIT
    /\ Others \cap RESERVED_UNIT = {}
    /\ Unused \notin Names /\ None \notin Units /\ Empty \notin Files

-----------------------------------------------------------------------------
(* The table of Fortran.  An operation gives a set of results, [ok, table]: *)
(* files that exist or not and systems that refuse are not in the state.    *)

Slot(u, n, t, a, s) == [unit |-> u, name |-> n, typ |-> t, acc |-> a, st |-> s]
Blank  == Slot(0, Empty, "?", "?", "F")
Beyond == Slot(-1, Empty, "?", "?", "F")    \* what follows the arrays

Entries(u) == {i \in DOMAIN table : table[i].unit = u}
Whole == Len(table) <= mxf

Done(t) == [ok |-> TRUE, table |-> t]
Stop(t) == [ok |-> FALSE, table |-> t]      \* utmess('F', ...)

(* A blank slot is taken, the first by ulopen and the last by uldefi, or    *)
(* nbfile grows, past the arrays before UTILITAI5_21 or UTILITAI5_8.        *)
FirstBlank == IF Entries(0) = {} THEN 0 ELSE Min(Entries(0))
LastBlank  == IF Entries(0) = {} THEN 0 ELSE Max(Entries(0))

StoreOver(e, i) ==
    IF i # 0 THEN Done([table EXCEPT ![i] = e])
    ELSE IF Len(table) < mxf THEN Done(Append(table, e))
    ELSE Done([table EXCEPT ![mxf] = e])
Store(e, i) ==
    IF i # 0 THEN Done([table EXCEPT ![i] = e])
    ELSE IF Len(table) < mxf THEN Done(Append(table, e))
    ELSE Stop(Append(table, Beyond))

Same(i, u, f, a) == /\ table[i].name = Path(u, f) /\ table[i].typ = "A"
                    /\ table[i].acc = a

ulopen(u, f, a, s) ==
    IF Entries(u) # {}
    THEN {IF Same(Min(Entries(u)), u, f, a) THEN Done(table) ELSE Stop(table)}
    ELSE LET r == Store(Slot(u, Path(u, f), "A", a, s), FirstBlank) IN
         {Stop(table), r} \cup IF s = "R" THEN {Stop(r.table)} ELSE {}

uldefi(u, f, t, a) == {Store(Slot(u, Path(u, f), t, a, "O"), LastBlank)}

Define(u, f, t, a, s) ==
    IF t = "A" THEN ulopen(u, f, a, s) ELSE uldefi(u, f, t, a)

(* ulopen(-u): an unknown unit is ignored.  UTILITAI_77 leaves the slot.    *)
Unlink(u, t) ==
    LET S == {i \in DOMAIN t : t[i].unit = u} IN
    IF S = {} THEN {Done(t)}
    ELSE {Done([t EXCEPT ![Min(S)] = Blank])}
            \cup IF t[Min(S)].st = "O" THEN {Stop(t)} ELSE {}

(* The table after LIBERER.                                                 *)
Stuck(u, r) == IF r.ok THEN UNCHANGED stuck
               ELSE /\ stuck' = stuck \cup {u}
                    /\ Cardinality(stuck') <= MaxStuck

Close(u) == \E r \in Unlink(u, table) :
                /\ table' = r.table
                /\ Stuck(u, r)

-----------------------------------------------------------------------------
(* The numbers of Python.                                                   *)

(* release_from_number, called by post_exec whatever happened in Fortran.   *)
Given(u) ==
    IF used[u] = Unused \/ u \in RESERVED_UNIT THEN free ELSE Append(free, u)
release_from_number(u) == /\ free' = Given(u)
                          /\ used' = [used EXCEPT ![u] = Unused]

(* DEFI_FICHIER(ACTION='LIBERER', UNITE=u).                                 *)
Liberer(u) == Close(u) /\ release_from_number(u)

(* The number that _get_free_number pops, and what it leaves.               *)
Next1 == free[Len(free)]
RestKept == free
Rest  == SubSeq(free, 1, Len(free) - 1)

Standard == IF 15 \in Units
            THEN <<Slot(8, 8, "A", "N", "O"), Slot(15, 15, "A", "A", "O")>>
            ELSE <<Slot(8, 8, "A", "N", "O")>>

Init == /\ free = Pool
        /\ used = [u \in Units |-> Unused]
        /\ table = Standard
        /\ held = [h \in Handles |-> None]
        /\ named = {} /\ operated = {} /\ stuck = {} /\ outside = 0

(* LogicalUnitFile.new_free and open, and DEFI_FICHIER without UNITE: the   *)
(* number stays registered if register raises ValueError or Fortran stops.  *)
NewFreeAnyway(h, f, t, a) ==
    /\ Whole /\ held[h] = None /\ free # <<>>
    /\ used' = [used EXCEPT ![Next1] = f]
    /\ \E r \in Define(Next1, f, t, a, "O") : table' = r.table
    /\ held' = [held EXCEPT ![h] = Next1]
    /\ free' = Rest
    /\ UNCHANGED <<named, operated, stuck, outside>>
NewFree(h, f, t, a) ==
    /\ Whole /\ held[h] = None /\ free # <<>>
    /\ LET u == Next1 IN
       /\ used' = [used EXCEPT ![u] = f]
       /\ \E r \in IF t # "A" /\ a = "A" THEN {Stop(table)}
                  ELSE Define(u, f, t, a, "O") :
             /\ table' = r.table
             /\ held' = IF r.ok THEN [held EXCEPT ![h] = u] ELSE held
    /\ free' = Rest
    /\ UNCHANGED <<named, operated, stuck, outside>>

(* LogicalUnitFile.release by the holder; release_from_number does the same *)
(* when the unit is registered, and nothing when it is not.                 *)
Release(h) ==
    /\ Whole /\ held[h] # None
    /\ \/ Liberer(held[h])
       \/ used[held[h]] = Unused /\ UNCHANGED <<free, used, table, stuck>>
    /\ held' = [held EXCEPT ![h] = None]
    /\ UNCHANGED <<named, operated, outside>>

(* DEFI_FICHIER(ACTION='ASSOCIER' or 'RESERVER', UNITE=u): post_exec        *)
(* registers u and its name even if Fortran stopped.                        *)
Associer(u, f, t, a, s) ==
    /\ Whole /\ Outside
    /\ t # "A" => a # "A"
    /\ s = "R" => t = "A" /\ a = "A"
    /\ \E r \in Define(u, f, t, a, s) : table' = r.table
    /\ used' = [used EXCEPT ![u] = f]
    /\ named' = named \cup {u}
    /\ UNCHANGED <<free, held, operated, stuck>>

(* The same, ACTION='LIBERER', by the unit.                                 *)
LibererUnite(u) ==
    /\ Whole /\ Outside /\ Liberer(u)
    /\ named' = named \cup {u}
    /\ UNCHANGED <<held, operated>>

(* ACTION='LIBERER' by the name (ulnomf): Fortran forgets the unit, then    *)
(* post_exec raises KeyError before Python does.                            *)
LibererFichier(f) ==
    /\ Whole /\ Outside /\ \E i \in DOMAIN table : table[i].name = f
    /\ LET u == table[Min({i \in DOMAIN table : table[i].name = f})].unit IN
       Close(u) /\ operated' = operated \cup {u}
    /\ UNCHANGED <<free, used, held, named>>

(* An operator with a keyword UNITE opens the unit unless ulexis knows it.  *)
(* IMPR_CO (op0017) then closes it, op0020 leaves it open.                  *)
ulexis(u) == IF Entries(u) # {} THEN {Done(table)}
             ELSE UNION {ulopen(u, Empty, a, "O") : a \in {"A", "N"}}

Operator(u, closes) ==
    /\ Whole /\ Outside /\ operated' = operated \cup {u}
    /\ \E r \in ulexis(u) :
          IF r.ok /\ closes
          THEN \E c \in Unlink(u, r.table) :
                   /\ table' = c.table
                   /\ Stuck(u, c)
          ELSE table' = r.table /\ UNCHANGED stuck
    /\ UNCHANGED <<free, used, held, named>>

(* with ReservedUnitUsed(8): __enter__ and __exit__.                        *)
Enter == /\ Whole /\ Outside /\ Liberer(8) /\ UNCHANGED <<held, named, operated>>
Exit  == /\ Whole /\ Outside
         /\ \E r \in ulopen(8, Empty, "A", "O") : table' = r.table
         /\ used' = [used EXCEPT ![8] = Empty]
         /\ UNCHANGED <<free, held, named, operated, stuck>>

Next ==
    \/ \E h \in Handles, f \in Names, t \in Types, a \in Accesses :
          NewFree(h, f, t, a)
    \/ \E h \in Handles : Release(h)
    \/ \E u \in Units, f \in Names, t \in Types, a \in Accesses,
          s \in {"O", "R"} : Associer(u, f, t, a, s)
    \/ \E u \in Units : LibererUnite(u)
    \/ \E f \in Files : LibererFichier(f)
    \/ \E u \in Units, closes \in BOOLEAN : Operator(u, closes)
    \/ Enter
    \/ Exit

Spec == Init /\ [][Next]_vars

-----------------------------------------------------------------------------
(* Properties.                                                              *)

Free == {free[i] : i \in DOMAIN free}

SlotType == [unit : Units \cup {0, -1}, name : Names \cup Units,
             typ : {"A", "B", "L", "?"}, acc : {"N", "A", "O", "?"},
             st : {"O", "R", "F"}]

(* Types.  nbfile is at most one more than the slots, and what it then      *)
(* counts is not a slot.                                                    *)
TypeOK ==
    /\ free \in Seq(Units)
    /\ used \in [Units -> Names \cup {Unused}]
    /\ table \in Seq(SlotType) /\ Len(table) <= mxf + 1
    /\ \A i \in DOMAIN table : table[i].unit = -1 <=> i > mxf
    /\ held \in [Handles -> Units \cup {None}]
    /\ named \subseteq Units /\ operated \subseteq Units
    /\ stuck \subseteq Units /\ outside \in 0..MaxOutside

(* Whatever fails, no number of the pool is lost or given twice: it is free *)
(* or registered, where LIBERER will find it, and two callers hold the same *)
(* unit only if a study chose that number itself.                           *)
NumbersAreKept ==
    /\ \A i \in DOMAIN Pool : Pool[i] \in Free \/ used[Pool[i]] # Unused
    /\ \A g, h \in Handles :
          g # h /\ held[g] = held[h] /\ held[g] # None => held[g] \in named

(* A unit that its holder alone uses is registered in Python and open in    *)
(* Fortran, once, on the file that filename_from_unit gives.                *)
HeldIsOpen ==
    \A h \in Handles : LET u == held[h] IN
        u # None /\ u \notin named \cup operated \cup stuck =>
            /\ used[u] # Unused
            /\ \E i \in Entries(u) : /\ Entries(u) = {i}
                                     /\ table[i].name = Path(u, used[u])

(* The next caller finds the unit as new: nothing is left in Fortran of the *)
(* former use of a free number, unless closing it failed.                   *)
FreeIsClosed ==
    \A u \in Free \ (named \cup operated \cup stuck) :
        Entries(u) = {} /\ used[u] = Unused

(* The numbers of Python and the table of Fortran are about the same units,  *)
(* within the table, whatever fails on either side.                         *)
UnitsAgree == TypeOK /\ HeldIsOpen /\ FreeIsClosed

(* What other callers do leaves alone the file of a holder.                 *)
HandleKeepsItsFile ==
    [][\A h \in Handles :
          held[h] # None /\ held'[h] = held[h] /\ held[h] \notin named' \cup operated'
          => /\ used'[held[h]] = used[held[h]]
             /\ {table'[i] : i \in {j \in DOMAIN table' : table'[j].unit = held[h]}}
                   = {table[i] : i \in Entries(held[h])}]_vars

(* LogicalUnit.py:293, "Return the next free unit", of a module that opens  *)
(* files "without conflict": the number given is not registered.            *)
GivenIsUnused ==
    [][\A h \in Handles : held[h] = None /\ held'[h] # None
          => used[held'[h]] = Unused]_vars
=============================================================================
