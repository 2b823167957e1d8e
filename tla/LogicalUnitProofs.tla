------------------------- MODULE LogicalUnitProofs -------------------------
(***************************************************************************)
(* Proofs about LogicalUnit, for any pool of numbers, any files, any       *)
(* callers and any size of the table: numbers are not lost or shared,      *)
(* Python and Fortran agree on the units, and a holder keeps its file.     *)
(***************************************************************************)
EXTENDS LogicalUnit, FiniteSetTheorems, WellFoundedInduction, SequenceTheorems, TLAPS

-----------------------------------------------------------------------------
(* The inductive invariant, by parts.                                      *)

(* The numbers of Python: one that no study chose is once in the list, not *)
(* registered, or registered.                                              *)
Numbers ==
    /\ \A i \in DOMAIN Pool : Pool[i] \in Free \/ used[Pool[i]] # Unused
    /\ 8 \notin Free
    /\ \A i, j \in DOMAIN free : free[i] = free[j] /\ free[i] \notin named => i = j
    /\ \A u \in Free : u \notin named => used[u] = Unused

(* Their holders.                                                          *)
Holding ==
    /\ \A h \in Handles : held[h] # 8
    /\ \A h \in Handles : held[h] # None /\ held[h] \notin named =>
          held[h] \notin Free /\ used[held[h]] # Unused
    /\ \A g, h \in Handles :
          g # h /\ held[g] = held[h] /\ held[g] # None => held[g] \in named

(* A slot that is no unit's has no name: ulnomf does not find it.          *)
Nameless(t) == \A i \in DOMAIN t : t[i].unit \in {0, -1} => t[i].name = Empty

IInv == /\ TypeOK /\ Numbers /\ Holding /\ HeldIsOpen /\ FreeIsClosed
        /\ Nameless(table)

-----------------------------------------------------------------------------
(* Sets of numbers.                                                        *)

(* A set of slots has a first one and a last one.                          *)
LEMMA Ends ==
    ASSUME NEW n \in Nat, NEW S \in SUBSET (1..n), S # {}
    PROVE  Min(S) \in S /\ Max(S) \in S
<1> DEFINE Below(x) == {y \in S : y < x}
           Above(x) == {y \in S : x < y}
           F == {Below(x) : x \in S}
           G == {Above(x) : x \in S}
<1>1. S \subseteq Int /\ IsFiniteSet(S)
  <2>1. IsFiniteSet(1..n)
      BY FS_Interval
  <2>2. S \subseteq 1..n /\ 1..n \subseteq Int
      OBVIOUS
  <2> QED BY <2>1, <2>2, FS_Subset
<1>2. F \subseteq FiniteSubsetsOf(S) /\ F # {} /\ G \subseteq FiniteSubsetsOf(S) /\ G # {}
  <2>1. \A x \in S : /\ Below(x) \subseteq S /\ IsFiniteSet(Below(x))
                     /\ Above(x) \subseteq S /\ IsFiniteSet(Above(x))
      BY <1>1, FS_Subset
  <2> QED BY <2>1 DEF FiniteSubsetsOf
<1>3. PICK T \in F : \A U \in F : ~(<<U, T>> \in StrictSubsetOrdering(S))
    BY <1>2, FS_StrictSubsetOrderingWellFounded, WFMin, Zenon
<1>4. PICK R \in G : \A U \in G : ~(<<U, R>> \in StrictSubsetOrdering(S))
    BY <1>2, FS_StrictSubsetOrderingWellFounded, WFMin, Zenon
<1>5. PICK x \in S : T = Below(x)
    OBVIOUS
<1>6. PICK z \in S : R = Above(z)
    OBVIOUS
<1>7. ASSUME NEW y \in S PROVE x <= y
  <2>1. SUFFICES ASSUME y < x PROVE FALSE
      BY <1>1
  <2>2. Below(y) \in F
      OBVIOUS
  <2> HIDE DEF F, G
  <2>3. Below(y) \subseteq Below(x) /\ y \in Below(x) /\ y \notin Below(y)
    <3>1. y \in Int /\ ~(y < y) /\ \A w \in S : w < y => w < x
        BY <1>1, <2>1
    <3>2. Below(y) \subseteq Below(x)
        BY <3>1
    <3>3. y \in Below(x)
        BY <2>1
    <3>4. y \notin Below(y)
        BY <3>1
    <3> QED BY <3>2, <3>3, <3>4
  <2>4. <<Below(y), T>> \in StrictSubsetOrdering(S)
      BY <1>5, <2>3 DEF StrictSubsetOrdering
  <2> QED BY <1>3, <2>2, <2>4
<1>8. ASSUME NEW y \in S PROVE z >= y
  <2>1. SUFFICES ASSUME z < y PROVE FALSE
      BY <1>1
  <2>2. Above(y) \in G
      OBVIOUS
  <2> HIDE DEF F, G
  <2>3. Above(y) \subseteq Above(z) /\ y \in Above(z) /\ y \notin Above(y)
    <3>1. y \in Int /\ ~(y < y) /\ \A w \in S : y < w => z < w
        BY <1>1, <2>1
    <3>2. Above(y) \subseteq Above(z)
        BY <3>1
    <3>3. y \in Above(z)
        BY <2>1
    <3>4. y \notin Above(y)
        BY <3>1
    <3> QED BY <3>2, <3>3, <3>4
  <2>4. <<Above(y), R>> \in StrictSubsetOrdering(S)
      BY <1>6, <2>3 DEF StrictSubsetOrdering
  <2> QED BY <1>4, <2>2, <2>4
<1> QED BY <1>7, <1>8 DEF Min, Max

-----------------------------------------------------------------------------
(* The table of files.                                                     *)

(* The slots of a unit in a table.                                         *)
SlotsOf(t, u) == {i \in DOMAIN t : t[i].unit = u}

TableOK(t) == /\ t \in Seq(SlotType) /\ Len(t) <= mxf + 1
              /\ \A i \in DOMAIN t : t[i].unit = -1 <=> i > mxf
              /\ Nameless(t)

(* The slots of the other units stay as they are.                          *)
KeepsOthers(t, s, u) ==
    \A v \in Units \ {u} : /\ SlotsOf(s, v) = SlotsOf(t, v)
                           /\ \A i \in SlotsOf(t, v) : s[i] = t[i]

(* What the assumptions say of units and of the size of the table.         *)
LEMMA Sizes ==
    /\ Units \subseteq Nat \ {0} /\ 8 \in Units /\ mxf \in Nat /\ mxf > 1
    /\ Unused \notin Names /\ None \notin Units /\ Empty \in Names
    /\ Types \subseteq {"A", "B", "L"} /\ Accesses \subseteq {"N", "A", "O"}
BY UnitAssumption DEF Units, RESERVED_UNIT, Names

LEMMA SlotsTyped ==
    /\ Blank \in SlotType /\ Beyond \in SlotType /\ Blank.unit = 0 /\ Beyond.unit = -1
    /\ Blank.name = Empty /\ Beyond.name = Empty
    /\ \A u \in Units, f \in Names, t \in {"A", "B", "L"}, a \in {"N", "A", "O"},
         s \in {"O", "R"} :
         /\ Slot(u, Path(u, f), t, a, s) \in SlotType
         /\ Slot(u, Path(u, f), t, a, s).unit = u
         /\ Slot(u, Path(u, f), t, a, s).name = Path(u, f)
BY Sizes DEF Slot, SlotType, Blank, Beyond, Path

(* A slot that is blank, or of the unit, is given to it or made blank.     *)
LEMMA ChangeSlot ==
    ASSUME NEW t, TableOK(t), NEW u \in Units, NEW i \in DOMAIN t, t[i].unit \in {0, u},
           NEW e \in SlotType, e.unit \in {0, u}, e.unit = 0 => e.name = Empty
    PROVE  /\ TableOK([t EXCEPT ![i] = e]) /\ KeepsOthers(t, [t EXCEPT ![i] = e], u)
           /\ [t EXCEPT ![i] = e][i] = e
           /\ Len([t EXCEPT ![i] = e]) = Len(t)
           /\ SlotsOf([t EXCEPT ![i] = e], u) =
                 IF e.unit = u THEN SlotsOf(t, u) \cup {i} ELSE SlotsOf(t, u) \ {i}
<1> DEFINE s == [t EXCEPT ![i] = e]
<1>1. t \in Seq(SlotType) /\ DOMAIN s = DOMAIN t /\ s[i] = e
      /\ \A j \in DOMAIN t : j # i => s[j] = t[j]
    BY DEF TableOK
<1>2. s \in Seq(SlotType) /\ Len(s) = Len(t)
    BY <1>1, ExceptSeq
<1>3. u # -1 /\ u # 0 /\ 0 # -1
    BY Sizes
<1>4. e.unit # -1 /\ ~(i > mxf)
    BY <1>3 DEF TableOK
<1> HIDE DEF s
<1>5. TableOK(s)
    BY <1>1, <1>2, <1>3, <1>4 DEF TableOK, Nameless
<1>6. ASSUME NEW v \in Units \ {u}
      PROVE  SlotsOf(s, v) = SlotsOf(t, v) /\ \A j \in SlotsOf(t, v) : s[j] = t[j]
  <2>1. v # 0 /\ v # u
      BY Sizes
  <2>2. i \notin SlotsOf(t, v) /\ i \notin SlotsOf(s, v)
      BY <1>1, <2>1 DEF SlotsOf
  <2> QED BY <1>1, <2>2 DEF SlotsOf
<1>7. SlotsOf(s, u) = IF e.unit = u THEN SlotsOf(t, u) \cup {i} ELSE SlotsOf(t, u) \ {i}
    BY <1>1 DEF SlotsOf
<1> QED BY <1>1, <1>2, <1>5, <1>6, <1>7 DEF KeepsOthers, s

(* nbfile grows.                                                           *)
LEMMA AddSlot ==
    ASSUME NEW t, TableOK(t), Len(t) <= mxf, NEW u \in Units,
           NEW e \in SlotType, e.unit \in {-1, u}, e.unit = -1 <=> Len(t) = mxf,
           e.unit = -1 => e.name = Empty
    PROVE  /\ TableOK(Append(t, e)) /\ KeepsOthers(t, Append(t, e), u)
           /\ Len(Append(t, e)) = Len(t) + 1
           /\ e.unit = u => /\ SlotsOf(Append(t, e), u) = SlotsOf(t, u) \cup {Len(t) + 1}
                            /\ Append(t, e)[Len(t) + 1] = e
<1> DEFINE s == Append(t, e)
           n == Len(t) + 1
<1>1. /\ t \in Seq(SlotType) /\ Len(t) \in Nat /\ DOMAIN t = 1..Len(t)
      /\ s \in Seq(SlotType) /\ Len(s) = n /\ DOMAIN s = 1..n
      /\ s[n] = e /\ \A j \in 1..Len(t) : s[j] = t[j]
    BY AppendProperties DEF TableOK
<1>2. mxf \in Nat /\ u # -1 /\ u # 0
    BY Sizes
<1> HIDE DEF s
<1>3. DOMAIN s = DOMAIN t \cup {n} /\ n \notin DOMAIN t
    BY <1>1
<1>4. n > mxf <=> Len(t) = mxf
  <2>1. Len(t) \in Nat
      BY <1>1
  <2>2. mxf \in Nat
      BY <1>2
  <2> QED BY <2>1, <2>2
<1>5. TableOK(s)
  <2>1. \A i \in DOMAIN s : s[i].unit = -1 <=> i > mxf
      BY <1>1, <1>3, <1>4 DEF TableOK
  <2>2. Nameless(s)
      BY <1>1, <1>2, <1>3 DEF TableOK, Nameless
  <2>3. Len(s) <= mxf + 1
    <3>1. Len(t) \in Nat /\ Len(s) = Len(t) + 1
        BY <1>1
    <3>2. mxf \in Nat
        BY <1>2
    <3> QED BY <3>1, <3>2
  <2> QED BY <1>1, <2>1, <2>2, <2>3 DEF TableOK
<1>6. ASSUME NEW v \in Units \ {u}
      PROVE  SlotsOf(s, v) = SlotsOf(t, v) /\ \A j \in SlotsOf(t, v) : s[j] = t[j]
  <2>1. v # -1 /\ v # u
      BY Sizes
  <2> QED BY <1>1, <1>3, <2>1 DEF SlotsOf
<1>7. e.unit = u => SlotsOf(s, u) = SlotsOf(t, u) \cup {n}
    BY <1>1, <1>3 DEF SlotsOf
<1> QED BY <1>1, <1>5, <1>6, <1>7 DEF KeepsOthers, s

LEMMA NoChange ==
    ASSUME NEW t, NEW u PROVE KeepsOthers(t, t, u)
BY DEF KeepsOthers

LEMMA Results == \A t : /\ Done(t).ok = TRUE /\ Done(t).table = t
                         /\ Stop(t).ok = FALSE /\ Stop(t).table = t
BY DEF Done, Stop

(* What an operation on unit u may leave.                                  *)
Fair(t, s, u) == TableOK(s) /\ KeepsOthers(t, s, u)

(* Store: unit e.unit gets the slot i, or the one behind the last.         *)
LEMMA StoreIsFair ==
    ASSUME TableOK(table), Whole, NEW u \in Units, NEW e \in SlotType, e.unit = u,
           NEW i \in {0} \cup Entries(0)
    PROVE  LET r == Store(e, i)
           IN  /\ Fair(table, r.table, u)
               /\ r.ok => \E k : /\ SlotsOf(r.table, u) = Entries(u) \cup {k}
                                 /\ r.table[k] = e
<1>1. Entries(u) = SlotsOf(table, u)
    BY DEF Entries, SlotsOf
<1>2. u # 0 /\ u # -1
    BY Sizes
<1>3. CASE i # 0
  <2>1. i \in DOMAIN table /\ table[i].unit = 0
      BY <1>3 DEF Entries
  <2>2. Store(e, i) = Done([table EXCEPT ![i] = e])
      BY <1>3 DEF Store
  <2>3. /\ TableOK([table EXCEPT ![i] = e]) /\ KeepsOthers(table, [table EXCEPT ![i] = e], u)
        /\ [table EXCEPT ![i] = e][i] = e
        /\ SlotsOf([table EXCEPT ![i] = e], u) = SlotsOf(table, u) \cup {i}
      BY <1>2, <2>1, ChangeSlot
  <2> DEFINE s == [table EXCEPT ![i] = e]
  <2> HIDE DEF s
  <2>4. Store(e, i).table = s
      BY <2>2, Results DEF s
  <2>5. TableOK(s) /\ KeepsOthers(table, s, u) /\ s[i] = e /\ SlotsOf(s, u) = SlotsOf(table, u) \cup {i}
      BY <2>3 DEF s
  <2> QED BY <1>1, <2>4, <2>5 DEF Fair
<1>4. CASE i = 0 /\ Len(table) < mxf
  <2>1. Store(e, i) = Done(Append(table, e))
      BY <1>4 DEF Store
  <2>2. Len(table) <= mxf /\ (e.unit = -1 <=> Len(table) = mxf)
      BY <1>2, <1>4, Sizes DEF Whole
  <2>3. /\ TableOK(Append(table, e)) /\ KeepsOthers(table, Append(table, e), u)
        /\ SlotsOf(Append(table, e), u) = SlotsOf(table, u) \cup {Len(table) + 1}
        /\ Append(table, e)[Len(table) + 1] = e
      BY <1>2, <2>2, AddSlot
  <2> QED BY <1>1, <2>1, <2>3 DEF Done, Fair
<1>5. CASE i = 0 /\ ~(Len(table) < mxf)
  <2>1. Store(e, i) = Stop(Append(table, Beyond))
      BY <1>5 DEF Store
  <2>2. Len(table) = mxf
    <3>1. Len(table) \in Nat
        BY DEF TableOK
    <3>2. mxf \in Nat
        BY Sizes
    <3> QED BY <1>5, <3>1, <3>2 DEF Whole
  <2>3. TableOK(Append(table, Beyond)) /\ KeepsOthers(table, Append(table, Beyond), u)
    <3>1. Beyond \in SlotType /\ Beyond.unit = -1 /\ Beyond.name = Empty
        BY SlotsTyped
    <3> QED BY <2>2, <3>1, AddSlot DEF Whole
  <2> QED BY <2>1, <2>3 DEF Stop, Fair
<1> QED BY <1>3, <1>4, <1>5

(* The slot that is taken is blank.                                        *)
LEMMA BlankSlots ==
    ASSUME TableOK(table)
    PROVE  FirstBlank \in {0} \cup Entries(0) /\ LastBlank \in {0} \cup Entries(0)
<1>1. Len(table) \in Nat /\ Entries(0) \subseteq 1..Len(table)
    BY DEF TableOK, Entries
<1> QED BY <1>1, Ends DEF FirstBlank, LastBlank

(* ulopen and uldefi change the slots of their unit only. They leave one,  *)
(* on the file they were given, when there was none.                       *)
LEMMA DefineIsFair ==
    ASSUME TableOK(table), Whole, NEW u \in Units, NEW f \in Names,
           NEW t \in {"A", "B", "L"}, NEW a \in {"N", "A", "O"}, NEW s \in {"O", "R"}, NEW r \in Define(u, f, t, a, s)
    PROVE  /\ Fair(table, r.table, u) /\ r.ok \in BOOLEAN
           /\ r.ok /\ Entries(u) = {} => \E k : /\ SlotsOf(r.table, u) = {k}
                                                /\ r.table[k].name = Path(u, f)
<1> DEFINE e == Slot(u, Path(u, f), "A", a, s)
           d == Slot(u, Path(u, f), t, a, "O")
<1>1. /\ e \in SlotType /\ e.unit = u /\ e.name = Path(u, f)
      /\ d \in SlotType /\ d.unit = u /\ d.name = Path(u, f)
    BY SlotsTyped
<1> HIDE DEF e, d
<1>2. Fair(table, table, u)
    BY NoChange DEF Fair
<1>3. ASSUME NEW x \in SlotType, x.unit = u, x.name = Path(u, f), NEW i \in {0} \cup Entries(0)
      PROVE  LET q == Store(x, i)
             IN  /\ Fair(table, q.table, u) /\ q.ok \in BOOLEAN
                 /\ q.ok /\ Entries(u) = {} => \E k : /\ SlotsOf(q.table, u) = {k}
                                                      /\ q.table[k].name = Path(u, f)
  <2>1. Store(x, i).ok \in BOOLEAN
      BY DEF Store, Done, Stop
  <2>2. /\ Fair(table, Store(x, i).table, u)
        /\ Store(x, i).ok => \E k : /\ SlotsOf(Store(x, i).table, u) = Entries(u) \cup {k}
                                    /\ Store(x, i).table[k] = x
      BY <1>3, StoreIsFair
  <2> QED BY <1>3, <2>1, <2>2
<1>4. CASE t = "A" /\ Entries(u) # {}
  <2>1. r \in {Done(table), Stop(table)}
      BY <1>4 DEF Define, ulopen
  <2>2. r.table = table /\ r.ok \in BOOLEAN
      BY <2>1, Results
  <2> QED BY <1>2, <1>4, <2>2
<1>5. CASE t = "A" /\ Entries(u) = {}
  <2>1. \/ r = Stop(table) \/ r = Store(e, FirstBlank) \/ r = Stop(Store(e, FirstBlank).table)
      BY <1>5 DEF Define, ulopen, e
  <2>2. CASE r = Stop(table)
      BY <1>2, <2>2 DEF Stop
  <2>3. CASE r = Store(e, FirstBlank)
      BY <1>1, <1>3, <2>3, BlankSlots
  <2>4. CASE r = Stop(Store(e, FirstBlank).table)
    <3>1. Fair(table, Store(e, FirstBlank).table, u)
        BY <1>1, <1>3, BlankSlots
    <3> QED BY <2>4, <3>1 DEF Stop
  <2> QED BY <2>1, <2>2, <2>3, <2>4
<1>6. CASE t # "A"
  <2>1. r = Store(d, LastBlank)
      BY <1>6 DEF Define, uldefi, d
  <2> QED BY <1>1, <1>3, <2>1, BlankSlots
<1> QED BY <1>4, <1>5, <1>6

(* ulopen(-u) makes the first slot of u blank, or fails.                   *)
LEMMA UnlinkIsFair ==
    ASSUME NEW t, TableOK(t), NEW u \in Units, NEW r \in Unlink(u, t)
    PROVE  /\ Fair(t, r.table, u) /\ r.ok \in BOOLEAN
           /\ r.ok => \E k : SlotsOf(r.table, u) = SlotsOf(t, u) \ {k}
                              /\ (SlotsOf(t, u) # {} => k \in SlotsOf(t, u))
<1> DEFINE S == SlotsOf(t, u)
<1>1. Fair(t, t, u)
    BY NoChange DEF Fair
<1>2. CASE S = {}
  <2>1. r = Done(t)
      BY <1>2 DEF Unlink, SlotsOf
  <2>2. r.table = t /\ r.ok = TRUE
      BY <2>1, Results
  <2> QED BY <1>1, <1>2, <2>2
<1>3. CASE S # {} /\ r = Done([t EXCEPT ![Min(S)] = Blank])
  <2>1. Min(S) \in S /\ S \subseteq DOMAIN t
    <3>1. Len(t) \in Nat /\ S \subseteq 1..Len(t) /\ S \subseteq DOMAIN t
        BY DEF TableOK, SlotsOf
    <3> HIDE DEF S
    <3> QED BY <1>3, <3>1, Ends
  <2>2. Min(S) \in DOMAIN t /\ t[Min(S)].unit = u
      BY <2>1 DEF SlotsOf
  <2>3. Blank \in SlotType /\ Blank.unit = 0 /\ Blank.name = Empty /\ 0 # u
      BY SlotsTyped, Sizes
  <2>4. r.table = [t EXCEPT ![Min(S)] = Blank] /\ r.ok = TRUE
      BY <1>3, Results
  <2> DEFINE k == Min(S)
  <2>5. k \in DOMAIN t /\ t[k].unit \in {0, u} /\ Blank.unit \in {0, u}
      BY <2>2, <2>3
  <2> HIDE DEF k
  <2>6. LET s == [t EXCEPT ![k] = Blank]
        IN  /\ TableOK(s) /\ KeepsOthers(t, s, u)
            /\ SlotsOf(s, u) = IF Blank.unit = u THEN SlotsOf(t, u) \cup {k} ELSE SlotsOf(t, u) \ {k}
      BY <2>3, <2>5, ChangeSlot
  <2>7. /\ TableOK(r.table) /\ KeepsOthers(t, r.table, u)
        /\ SlotsOf(r.table, u) = S \ {Min(S)}
      BY <2>3, <2>4, <2>6 DEF k
  <2> QED BY <2>1, <2>4, <2>7 DEF Fair
<1>4. CASE S # {} /\ r = Stop(t)
    BY <1>1, <1>4, Results
<1> QED BY <1>2, <1>3, <1>4 DEF Unlink, SlotsOf

-----------------------------------------------------------------------------
(* Steps: IInv is inductive.                                               *)

(* A unit that its caller uses, and one that nobody uses.                  *)
OpenAt(u) == /\ used[u] # Unused
             /\ \E i \in Entries(u) : /\ Entries(u) = {i}
                                      /\ table[i].name = Path(u, used[u])
ClosedAt(u) == Entries(u) = {} /\ used[u] = Unused

Quiet(u) == u \in Units /\ u \notin named \cup operated \cup stuck

(* A call that is about unit u.                                            *)
About(u) == /\ Fair(table, table', u)
            /\ \E x \in Names \cup {Unused} : used' = [used EXCEPT ![u] = x]
            /\ named \subseteq named' /\ named' \subseteq Units
            /\ operated \subseteq operated' /\ operated' \subseteq Units
            /\ stuck \subseteq stuck' /\ stuck' \subseteq Units
            /\ outside' \in 0..MaxOutside

LEMMA TableType == IInv => TableOK(table)
BY DEF IInv, TypeOK, TableOK

(* The other units are left alone.                                         *)
LEMMA OthersKept ==
    ASSUME TypeOK, NEW u \in Units, About(u), NEW v \in Units, v # u
    PROVE  /\ used'[v] = used[v] /\ Entries(v)' = Entries(v)
           /\ \A i \in Entries(v) : table'[i] = table[i]
           /\ OpenAt(v) => OpenAt(v)'
           /\ ClosedAt(v) => ClosedAt(v)'
<1>1. used'[v] = used[v]
    BY DEF TypeOK, About
<1>2. Entries(v)' = Entries(v) /\ \A i \in Entries(v) : table'[i] = table[i]
    BY DEF About, Fair, KeepsOthers, SlotsOf, Entries
<1> QED BY <1>1, <1>2 DEF OpenAt, ClosedAt

LEMMA InvParts ==
    TypeOK => /\ HeldIsOpen <=> \A h \in Handles : Quiet(held[h]) => OpenAt(held[h])
              /\ FreeIsClosed <=> \A u \in Free : Quiet(u) => ClosedAt(u)
<1> SUFFICES ASSUME TypeOK
             PROVE  /\ HeldIsOpen <=> \A h \in Handles : Quiet(held[h]) => OpenAt(held[h])
                    /\ FreeIsClosed <=> \A u \in Free : Quiet(u) => ClosedAt(u)
    OBVIOUS
<1>1. \A h \in Handles : held[h] # None => held[h] \in Units
    BY DEF TypeOK
<1>2. Free \subseteq Units
    BY DEF TypeOK, Free
<1>3. None \notin Units
    BY Sizes
<1>4. HeldIsOpen <=> \A h \in Handles : Quiet(held[h]) => OpenAt(held[h])
    BY <1>1, <1>3 DEF HeldIsOpen, Quiet, OpenAt
<1>5. FreeIsClosed <=> \A u \in Free : Quiet(u) => ClosedAt(u)
    BY <1>2 DEF FreeIsClosed, Quiet, ClosedAt
<1> QED BY <1>4, <1>5

(* The same of the next state.                                             *)
LEMMA InvPartsNext ==
    TypeOK' => /\ HeldIsOpen' <=> \A h \in Handles : Quiet(held[h])' => OpenAt(held[h])'
               /\ FreeIsClosed' <=> \A u \in Free' : Quiet(u)' => ClosedAt(u)'
<1> SUFFICES ASSUME TypeOK'
             PROVE  /\ HeldIsOpen' <=> \A h \in Handles : Quiet(held[h])' => OpenAt(held[h])'
                    /\ FreeIsClosed' <=> \A u \in Free' : Quiet(u)' => ClosedAt(u)'
    OBVIOUS
<1>1. \A h \in Handles : held'[h] # None => held'[h] \in Units
    BY DEF TypeOK
<1>2. Free' \subseteq Units
    BY DEF TypeOK, Free
<1>3. None \notin Units
    BY Sizes
<1>4. HeldIsOpen' <=> \A h \in Handles : Quiet(held[h])' => OpenAt(held[h])'
    BY <1>1, <1>3 DEF HeldIsOpen, Quiet, OpenAt
<1>5. FreeIsClosed' <=> \A u \in Free' : Quiet(u)' => ClosedAt(u)'
    BY <1>2 DEF FreeIsClosed, Quiet, ClosedAt
<1> QED BY <1>4, <1>5

(* Numbers are popped and appended at the end.                             *)
LEMMA Appended ==
    ASSUME TypeOK, NEW u \in Units, free' = Append(free, u)
    PROVE  /\ free' \in Seq(Units) /\ Free' = Free \cup {u}
           /\ \A i, j \in DOMAIN free' : free'[i] = free'[j] /\ i # j =>
                 \/ i \in DOMAIN free /\ j \in DOMAIN free /\ free[i] = free[j] /\ free'[i] = free[i]
                 \/ free'[i] = u /\ u \in Free
<1> DEFINE n == Len(free) + 1
<1>1. /\ free \in Seq(Units) /\ DOMAIN free = 1..Len(free) /\ Len(free) \in Nat
      /\ free' \in Seq(Units) /\ DOMAIN free' = 1..n
      /\ free'[n] = u /\ \A i \in 1..Len(free) : free'[i] = free[i]
    BY AppendProperties DEF TypeOK
<1>2. DOMAIN free' = DOMAIN free \cup {n} /\ n \notin DOMAIN free
    BY <1>1
<1> HIDE DEF n
<1> QED BY <1>1, <1>2 DEF Free

LEMMA Popped ==
    ASSUME TypeOK, free # <<>>, free' = Rest
    PROVE  /\ Next1 \in Units /\ Next1 \in Free
           /\ free' \in Seq(Units) /\ Free' \subseteq Free /\ Free \subseteq Free' \cup {Next1}
           /\ \A i \in DOMAIN free' : i \in DOMAIN free /\ free'[i] = free[i] /\ i # Len(free)
<1>1. free \in Seq(Units) /\ Len(free) \in Nat /\ DOMAIN free = 1..Len(free) /\ Len(free) # 0
    BY EmptySeq DEF TypeOK
<1>2. /\ free' \in Seq(Units) /\ DOMAIN free' = 1..Len(free) - 1
      /\ \A i \in 1..Len(free) - 1 : free'[i] = free[i]
  <2>1. 1 \in 1..Len(free) + 1 /\ Len(free) - 1 \in Nat /\ Len(free) - 1 <= Len(free)
      BY <1>1
  <2> QED BY <1>1, <2>1, SubSeqProperties DEF Rest
<1>3. Len(free) \in DOMAIN free /\ Next1 = free[Len(free)]
    BY <1>1 DEF Next1
<1>4. DOMAIN free = DOMAIN free' \cup {Len(free)} /\ Len(free) \notin DOMAIN free'
    BY <1>1, <1>2
<1> QED BY <1>1, <1>2, <1>3, <1>4 DEF Free

(* LIBERER: the unit is closed and given back.                             *)
LEMMA LibererEffect ==
    ASSUME IInv, NEW u \in Units, Liberer(u)
    PROVE  /\ Fair(table, table', u) /\ used' = [used EXCEPT ![u] = Unused]
           /\ stuck \subseteq stuck' /\ stuck' \subseteq Units
           /\ free' = free \/ (free' = Append(free, u) /\ u # 8 /\ used[u] # Unused)
           /\ used[u] = Unused \/ u = 8 \/ free' = Append(free, u)
           /\ u \notin stuck' /\ OpenAt(u) => ClosedAt(u)'
<1>1. PICK r \in Unlink(u, table) : table' = r.table /\ Stuck(u, r)
    BY DEF Liberer, Close
<1>2. TableOK(table) /\ stuck \subseteq Units
    BY TableType DEF IInv, TypeOK
<1>3. /\ Fair(table, r.table, u) /\ r.ok \in BOOLEAN
      /\ r.ok => \E k : /\ SlotsOf(r.table, u) = SlotsOf(table, u) \ {k}
                        /\ (SlotsOf(table, u) # {} => k \in SlotsOf(table, u))
    BY <1>2, UnlinkIsFair
<1>4. /\ used' = [used EXCEPT ![u] = Unused] /\ free' = Given(u)
      /\ stuck' = IF r.ok THEN stuck ELSE stuck \cup {u}
    BY <1>1 DEF Liberer, release_from_number, Stuck
<1>5. ASSUME u \notin stuck', OpenAt(u) PROVE ClosedAt(u)'
  <2>1. r.ok
      BY <1>4, <1>5
  <2>2. PICK i \in Entries(u) : Entries(u) = {i}
      BY <1>5 DEF OpenAt
  <2>3. SlotsOf(table, u) = {i} /\ Entries(u)' = SlotsOf(table', u)
      BY <2>2 DEF SlotsOf, Entries
  <2>4. Entries(u)' = {}
      BY <1>1, <1>3, <2>1, <2>3
  <2>5. used'[u] = Unused
      BY <1>4 DEF IInv, TypeOK
  <2> QED BY <2>4, <2>5 DEF ClosedAt
<1> QED BY <1>1, <1>2, <1>3, <1>4, <1>5 DEF Given, RESERVED_UNIT

(* Types, after a call that is about one unit.                             *)
LEMMA TypeKeeps ==
    ASSUME TypeOK, NEW u \in Units, About(u), free' \in Seq(Units),
           held' \in [Handles -> Units \cup {None}]
    PROVE  TypeOK'
<1>1. used' \in [Units -> Names \cup {Unused}]
    BY DEF TypeOK, About
<1>2. TableOK(table')
    BY DEF About, Fair
<1> QED BY <1>1, <1>2 DEF TypeOK, About, TableOK

(* The calls that a caller's numbers have nothing to do with: they name the *)
(* unit, or it is the reserved one.                                        *)
LEMMA OutsideKeeps ==
    ASSUME IInv, NEW u \in Units, About(u), held' = held,
           u \in named' \cup operated' \cup {8},
           (used' = used /\ free' = free) \/ u \in named' \cup {8},
           \/ free' = free
           \/ free' = Append(free, u) /\ u # 8,
           used'[u] # Unused \/ used[u] = Unused \/ u = 8 \/ free' = Append(free, u)
    PROVE  IInv'
<1>1. TypeOK /\ Numbers /\ Holding /\ HeldIsOpen /\ FreeIsClosed
    BY DEF IInv
<1>2. free' \in Seq(Units) /\ Free \subseteq Free' /\ Free' \subseteq Free \cup {u}
      /\ (free' # free => u \in Free' /\ u # 8 /\ u \in named')
      /\ (free' = free => Free' = Free)
  <2>1. CASE free' = free
      BY <1>1, <2>1 DEF TypeOK, Free
  <2>2. CASE free' = Append(free, u) /\ u # 8
      BY <1>1, <2>2, Appended
  <2> QED BY <2>1, <2>2
<1>3. TypeOK'
    BY <1>1, <1>2, TypeKeeps DEF TypeOK
<1>4. named \subseteq named' /\ operated \subseteq operated' /\ stuck \subseteq stuck'
    BY DEF About
<1>5. \A v \in Units : v # u => used'[v] = used[v]
    BY <1>1, OthersKept
<1>6. Numbers'
  <2>1. ASSUME NEW i \in DOMAIN Pool PROVE Pool[i] \in Free' \/ used'[Pool[i]] # Unused
    <3>1. Pool[i] \in Units /\ Pool[i] # 8
        BY UnitAssumption DEF Units, RESERVED_UNIT
    <3>2. CASE Pool[i] # u
        BY <1>1, <1>2, <1>5, <3>1, <3>2 DEF Numbers
    <3>3. CASE Pool[i] = u
      <4>1. free' = Append(free, u) => u \in Free'
          BY <1>1, Appended
      <4> QED BY <1>1, <1>2, <3>1, <3>3, <4>1 DEF Numbers
    <3> QED BY <3>2, <3>3
  <2>2. 8 \notin Free'
      BY <1>1, <1>2 DEF Numbers
  <2>3. ASSUME NEW i \in DOMAIN free', NEW j \in DOMAIN free',
               free'[i] = free'[j], free'[i] \notin named'
        PROVE  i = j
    <3>1. CASE free' = free
        BY <1>1, <1>4, <2>3, <3>1 DEF Numbers
    <3>2. CASE free' = Append(free, u) /\ free' # free
        BY <1>1, <1>2, <1>4, <2>3, <3>2, Appended DEF Numbers
    <3> QED BY <3>1, <3>2
  <2>4. ASSUME NEW v \in Free', v \notin named' PROVE used'[v] = Unused
    <3>1. v \in Free /\ v \in Units
      <4>1. v \in Free
          BY <1>2, <2>4
      <4> QED BY <1>1, <4>1 DEF TypeOK, Free
    <3>2. CASE v # u
        BY <1>1, <1>4, <1>5, <2>4, <3>1, <3>2 DEF Numbers
    <3>3. CASE v = u
      <4>1. used' = used
          BY <1>1, <2>4, <3>1, <3>3 DEF Numbers
      <4> QED BY <1>1, <1>4, <2>4, <3>1, <4>1 DEF Numbers
    <3> QED BY <3>2, <3>3
  <2> QED BY <2>1, <2>2, <2>3, <2>4 DEF Numbers
<1>7. Holding'
  <2>1. ASSUME NEW h \in Handles, held[h] # None, held[h] \notin named'
        PROVE  held[h] \notin Free' /\ used'[held[h]] # Unused
    <3>1. /\ held[h] \in Units /\ held[h] \notin named /\ held[h] # 8
          /\ held[h] \notin Free /\ used[held[h]] # Unused
        BY <1>1, <1>4, <2>1 DEF Holding, TypeOK
    <3>2. CASE held[h] # u
        BY <1>2, <1>5, <3>1, <3>2
    <3>3. CASE held[h] = u
      <4>1. used' = used /\ free' = free
          BY <2>1, <3>1, <3>3
      <4> QED BY <3>1, <4>1 DEF Free
    <3> QED BY <3>2, <3>3
  <2> QED BY <1>1, <1>4, <2>1 DEF Holding
<1>8. \A h \in Handles : Quiet(held[h])' => OpenAt(held[h])'
  <2>1. ASSUME NEW h \in Handles, Quiet(held[h])' PROVE OpenAt(held[h])'
    <3> DEFINE v == held[h]
    <3>1. v \in Units /\ v # u /\ Quiet(v) /\ held'[h] = v
        BY <1>1, <1>4, <2>1 DEF Quiet, Holding
    <3>2. OpenAt(v)
        BY <1>1, <3>1, InvParts
    <3>3. PICK w \in Units : w = v
        BY <3>1
    <3>4. OpenAt(w)'
        BY <1>1, <3>1, <3>2, <3>3, OthersKept DEF OpenAt
    <3> QED BY <3>1, <3>3, <3>4 DEF OpenAt
  <2> QED BY <2>1
<1>9. \A v \in Free' : Quiet(v)' => ClosedAt(v)'
  <2>1. ASSUME NEW v \in Free', Quiet(v)' PROVE ClosedAt(v)'
    <3>1. v \in Units /\ v # 8 /\ v # u
        BY <1>6, <2>1 DEF Quiet, Numbers
    <3>2. v \in Free /\ Quiet(v)
        BY <1>2, <1>4, <2>1, <3>1 DEF Quiet
    <3>3. ClosedAt(v)
        BY <1>1, <3>2, InvParts
    <3> QED BY <1>1, <3>1, <3>3, OthersKept
  <2> QED BY <2>1
<1>10. HeldIsOpen' /\ FreeIsClosed'
    BY <1>3, <1>8, <1>9, InvPartsNext
<1>11. Nameless(table)'
    BY DEF About, Fair, TableOK, Nameless
<1> QED BY <1>3, <1>6, <1>7, <1>10, <1>11 DEF IInv

(* A call that pops a number, or gives one back, leaves names and types.    *)
LEMMA CarriedBack ==
    ASSUME IInv, NEW u \in Units, About(u), NEW v \in Units, v # u
    PROVE  /\ used'[v] = used[v]
           /\ OpenAt(v) => OpenAt(v)'
           /\ ClosedAt(v) => ClosedAt(v)'
BY OthersKept DEF IInv

(* new_free: the number is the last free one.                              *)
LEMMA NewFreeIsAbout ==
    ASSUME IInv, NEW h \in Handles, NEW f \in Names, NEW t \in Types, NEW a \in Accesses,
           NewFree(h, f, t, a)
    PROVE  /\ Next1 \in Units /\ Next1 \in Free /\ About(Next1)
           /\ used' = [used EXCEPT ![Next1] = f]
           /\ held[h] = None /\ free # <<>> /\ free' = Rest
           /\ UNCHANGED <<named, operated, stuck, outside>>
           /\ \/ held' = held
              \/ /\ held' = [held EXCEPT ![h] = Next1]
                 /\ Entries(Next1) = {} =>
                       \E k : /\ SlotsOf(table', Next1) = {k}
                              /\ table'[k].name = Path(Next1, f)
<1> DEFINE u == Next1
<1>1. TypeOK /\ TableOK(table) /\ free # <<>> /\ free' = Rest /\ Whole
    BY TableType DEF IInv, NewFree
<1>2. u \in Units /\ u \in Free
    BY <1>1, Popped
<1>3. PICK r \in IF t # "A" /\ a = "A" THEN {Stop(table)} ELSE Define(u, f, t, a, "O") :
          table' = r.table /\ held' = IF r.ok THEN [held EXCEPT ![h] = u] ELSE held
    BY DEF NewFree
<1>4. /\ Fair(table, r.table, u)
      /\ r.ok /\ Entries(u) = {} => \E k : /\ SlotsOf(r.table, u) = {k}
                                           /\ r.table[k].name = Path(u, f)
  <2> HIDE DEF u
  <2>1. CASE t # "A" /\ a = "A"
    <3>1. r = Stop(table)
        BY <1>3, <2>1
    <3>2. r.table = table /\ r.ok = FALSE
        BY <3>1, Results
    <3>3. Fair(table, table, u)
        BY <1>1, NoChange DEF Fair
    <3> QED BY <3>2, <3>3
  <2>2. CASE ~(t # "A" /\ a = "A")
    <3>1. r \in Define(u, f, t, a, "O") /\ t \in {"A", "B", "L"} /\ a \in {"N", "A", "O"}
        BY <1>3, <2>2, Sizes
    <3>2. Fair(table, r.table, u)
        BY <1>1, <1>2, <3>1, DefineIsFair
    <3>3. r.ok /\ Entries(u) = {} => \E k : /\ SlotsOf(r.table, u) = {k}
                                            /\ r.table[k].name = Path(u, f)
        BY <1>1, <1>2, <3>1, DefineIsFair, ZenonT(60)
    <3> QED BY <3>2, <3>3
  <2> QED BY <2>1, <2>2
<1>5. /\ used' = [used EXCEPT ![u] = f] /\ held[h] = None
      /\ UNCHANGED <<named, operated, stuck, outside>>
    BY DEF NewFree
<1>6. About(u)
    BY <1>1, <1>3, <1>4, <1>5 DEF About, TypeOK
<1> QED BY <1>1, <1>2, <1>3, <1>4, <1>5, <1>6

LEMMA NewFreeKeeps ==
    ASSUME IInv, NEW h \in Handles, NEW f \in Names, NEW t \in Types, NEW a \in Accesses,
           NewFree(h, f, t, a)
    PROVE  IInv'
<1>1. PICK u : u = Next1
    OBVIOUS
<1>2. TypeOK /\ Numbers /\ Holding /\ HeldIsOpen /\ FreeIsClosed
    BY DEF IInv
<1>3. /\ u \in Units /\ u \in Free /\ About(u)
      /\ used' = [used EXCEPT ![u] = f]
      /\ held[h] = None /\ free # <<>> /\ free' = Rest
      /\ named' = named /\ operated' = operated /\ stuck' = stuck
      /\ \/ held' = held
         \/ /\ held' = [held EXCEPT ![h] = u]
            /\ Entries(u) = {} => \E k : /\ SlotsOf(table', u) = {k}
                                         /\ table'[k].name = Path(u, f)
    BY <1>1, NewFreeIsAbout
<1>4. /\ free' \in Seq(Units) /\ Free' \subseteq Free /\ Free \subseteq Free' \cup {u}
      /\ \A i \in DOMAIN free' : i \in DOMAIN free /\ free'[i] = free[i] /\ i # Len(free)
      /\ Len(free) \in DOMAIN free /\ free[Len(free)] = u
  <2>1. free \in Seq(Units) /\ Len(free) \in Nat /\ DOMAIN free = 1..Len(free) /\ Len(free) # 0
      BY <1>2, <1>3, EmptySeq DEF TypeOK
  <2>2. Len(free) \in DOMAIN free
      BY <2>1
  <2> QED BY <1>1, <1>2, <1>3, <2>2, Popped DEF Next1
<1>5. \A v \in Units : v # u => used'[v] = used[v]
    BY <1>3, CarriedBack
<1>6. used'[u] = f /\ f # Unused
    BY <1>2, <1>3, Sizes DEF TypeOK
<1>7. u \notin named => u \notin Free'
    BY <1>2, <1>4 DEF Numbers, Free
<1>8. \A g \in Handles : held[g] = u => u \in named
    BY <1>2, <1>3, Sizes DEF Holding
<1>9. TypeOK'
  <2>1. held' \in [Handles -> Units \cup {None}]
      BY <1>2, <1>3 DEF TypeOK
  <2> QED BY <1>2, <1>3, <1>4, <2>1, TypeKeeps
<1>10. Numbers'
  <2>1. ASSUME NEW i \in DOMAIN Pool PROVE Pool[i] \in Free' \/ used'[Pool[i]] # Unused
    <3>1. Pool[i] \in Units
        BY DEF Units
    <3> QED BY <1>2, <1>4, <1>5, <1>6, <3>1 DEF Numbers
  <2>2. 8 \notin Free'
      BY <1>2, <1>4 DEF Numbers
  <2>3. \A i, j \in DOMAIN free' : free'[i] = free'[j] /\ free'[i] \notin named' => i = j
      BY <1>2, <1>3, <1>4 DEF Numbers
  <2>4. ASSUME NEW v \in Free', v \notin named' PROVE used'[v] = Unused
    <3>1. v \in Free /\ v \notin named /\ v # u
        BY <1>3, <1>4, <1>7, <2>4
    <3>2. v \in Units
        BY <1>2, <3>1 DEF TypeOK, Free
    <3> QED BY <1>2, <1>5, <3>1, <3>2 DEF Numbers
  <2> QED BY <2>1, <2>2, <2>3, <2>4 DEF Numbers
<1>11. \A g \in Handles : /\ held'[g] # None /\ held'[g] # u => held'[g] = held[g]
                          /\ held'[g] = u /\ u \notin named => g = h /\ held' # held
  <2>1. CASE held' = held
      BY <1>8, <2>1
  <2>2. CASE held' # held
      BY <1>2, <1>3, <1>8, <2>2 DEF TypeOK
  <2> QED BY <2>1, <2>2
<1>12. Holding'
  <2>1. ASSUME NEW g \in Handles PROVE held'[g] # 8
    <3>1. 8 # None /\ u # 8
        BY <1>2, <1>3, Sizes DEF Numbers
    <3> QED BY <1>2, <1>11, <3>1 DEF Holding
  <2>2. ASSUME NEW g \in Handles, held'[g] # None, held'[g] \notin named'
        PROVE  held'[g] \notin Free' /\ used'[held'[g]] # Unused
    <3>1. CASE held'[g] = u
        BY <1>3, <1>6, <1>7, <2>2, <3>1
    <3>2. CASE held'[g] # u
      <4>1. held'[g] = held[g] /\ held[g] \in Units
          BY <1>2, <1>11, <2>2, <3>2 DEF TypeOK
      <4> QED BY <1>2, <1>3, <1>4, <1>5, <2>2, <3>2, <4>1 DEF Holding
    <3> QED BY <3>1, <3>2
  <2>3. ASSUME NEW g \in Handles, NEW k \in Handles, g # k, held'[g] = held'[k], held'[g] # None
        PROVE  held'[g] \in named'
    <3>1. CASE held'[g] = u
        BY <1>3, <1>11, <2>3, <3>1
    <3>2. CASE held'[g] # u
        BY <1>2, <1>3, <1>11, <2>3, <3>2 DEF Holding
    <3> QED BY <3>1, <3>2
  <2> QED BY <2>1, <2>2, <2>3 DEF Holding
<1>13. ASSUME NEW g \in Handles, Quiet(held[g])' PROVE OpenAt(held[g])'
  <2>1. PICK v : v = held'[g]
      OBVIOUS
  <2>2. v \in Units /\ Quiet(v) /\ v # None
      BY <1>3, <1>13, <2>1, Sizes DEF Quiet
  <2>3. CASE v = u
    <3>1. held' # held
        BY <1>11, <2>1, <2>2, <2>3 DEF Quiet
    <3>2. ClosedAt(u)
        BY <1>2, <1>3, <2>2, <2>3, InvParts
    <3>3. PICK k : SlotsOf(table', u) = {k} /\ table'[k].name = Path(u, f)
        BY <1>3, <3>1, <3>2 DEF ClosedAt
    <3>4. Entries(u)' = SlotsOf(table', u)
        BY DEF Entries, SlotsOf
    <3>5. OpenAt(u)'
        BY <1>6, <3>3, <3>4 DEF OpenAt
    <3> QED BY <2>1, <2>3, <3>5 DEF OpenAt
  <2>4. CASE v # u
    <3>1. held[g] = v
        BY <1>11, <2>1, <2>2, <2>4
    <3>2. OpenAt(v)
        BY <1>2, <2>2, <3>1, InvParts
    <3>3. OpenAt(v)'
        BY <1>3, <2>2, <2>4, <3>2, CarriedBack
    <3> QED BY <2>1, <3>3 DEF OpenAt
  <2> QED BY <2>3, <2>4
<1>14. ASSUME NEW v \in Free', Quiet(v)' PROVE ClosedAt(v)'
  <2>1. Quiet(v) /\ v \in Free /\ v # u /\ v \in Units
      BY <1>3, <1>4, <1>7, <1>14 DEF Quiet
  <2>2. ClosedAt(v)
      BY <1>2, <2>1, InvParts
  <2> QED BY <1>3, <2>1, <2>2, CarriedBack
<1>15. HeldIsOpen' /\ FreeIsClosed' /\ Nameless(table)'
  <2>1. Nameless(table)'
      BY <1>3 DEF About, Fair, TableOK, Nameless
  <2> QED BY <1>9, <1>13, <1>14, <2>1, InvPartsNext
<1> QED BY <1>9, <1>10, <1>12, <1>15 DEF IInv

(* release: the unit of the holder is closed and given back, or a study    *)
(* that named it had already given it back.                                *)
LEMMA ReleaseIsAbout ==
    ASSUME IInv, NEW h \in Handles, Release(h)
    PROVE  /\ held[h] \in Units /\ About(held[h]) /\ held' = [held EXCEPT ![h] = None]
           /\ named' = named /\ operated' = operated
           /\ \/ Liberer(held[h])
              \/ /\ used[held[h]] = Unused /\ UNCHANGED <<free, used, table, stuck>>
<1>1. PICK u : u = held[h]
    OBVIOUS
<1>2. TypeOK /\ TableOK(table)
    BY TableType DEF IInv
<1>3. u \in Units
    BY <1>1, <1>2 DEF Release, TypeOK
<1>4. /\ held' = [held EXCEPT ![h] = None] /\ named' = named /\ operated' = operated
      /\ outside' = outside
      /\ \/ Liberer(u)
         \/ /\ used[u] = Unused /\ UNCHANGED <<free, used, table, stuck>>
    BY <1>1 DEF Release
<1>5. About(u)
  <2>1. CASE Liberer(u)
    <3>1. /\ Fair(table, table', u) /\ used' = [used EXCEPT ![u] = Unused]
          /\ stuck \subseteq stuck' /\ stuck' \subseteq Units
        BY <1>3, <2>1, LibererEffect
    <3> QED BY <1>2, <1>4, <3>1 DEF About, TypeOK
  <2>2. CASE used[u] = Unused /\ UNCHANGED <<free, used, table, stuck>>
    <3>1. Fair(table, table', u)
        BY <1>2, <2>2, NoChange DEF Fair
    <3>2. used' = [used EXCEPT ![u] = Unused]
        BY <1>2, <2>2 DEF TypeOK
    <3> QED BY <1>2, <1>4, <2>2, <3>1, <3>2 DEF About, TypeOK
  <2> QED BY <1>4, <2>1, <2>2
<1> QED BY <1>1, <1>3, <1>4, <1>5

LEMMA ReleaseKeeps ==
    ASSUME IInv, NEW h \in Handles, Release(h)
    PROVE  IInv'
<1>1. PICK u : u = held[h]
    OBVIOUS
<1>2. TypeOK /\ Numbers /\ Holding /\ HeldIsOpen /\ FreeIsClosed
    BY DEF IInv
<1>3. /\ u \in Units /\ About(u) /\ held' = [held EXCEPT ![h] = None]
      /\ named' = named /\ operated' = operated /\ stuck \subseteq stuck'
      /\ \/ Liberer(u)
         \/ /\ used[u] = Unused /\ UNCHANGED <<free, used, table, stuck>>
    BY <1>1, ReleaseIsAbout DEF About
<1>4. u # None /\ u # 8
    BY <1>1, <1>2, <1>3, Sizes DEF Holding
<1>5. u \notin named => u \notin Free /\ used[u] # Unused
    BY <1>1, <1>2, <1>4 DEF Holding
<1>6. \A v \in Units : v # u => used'[v] = used[v]
    BY <1>3, CarriedBack
<1>7. /\ free' \in Seq(Units) /\ Free \subseteq Free' /\ Free' \subseteq Free \cup {u}
      /\ u \in Free' \/ (used[u] = Unused /\ free' = free)
      /\ u \notin named => used'[u] = Unused
      /\ \A i, j \in DOMAIN free' : free'[i] = free'[j] /\ i # j =>
            \/ i \in DOMAIN free /\ j \in DOMAIN free /\ free[i] = free[j] /\ free'[i] = free[i]
            \/ free'[i] = u /\ u \in Free
  <2>1. CASE free' = free
    <3>1. Free' = Free /\ free' \in Seq(Units)
        BY <1>2, <2>1 DEF TypeOK, Free
    <3>2. used[u] = Unused
      <4>1. CASE Liberer(u)
        <5>1. used[u] = Unused \/ free' = Append(free, u)
            BY <1>3, <1>4, <4>1, LibererEffect
        <5>2. free' # Append(free, u)
          <6>1. free \in Seq(Units) /\ Len(free) \in Nat /\ Len(Append(free, u)) = Len(free) + 1
              BY <1>2, <1>3, AppendProperties DEF TypeOK
          <6>2. Len(free) # Len(free) + 1
              BY <6>1
          <6> QED BY <2>1, <6>1, <6>2
        <5> QED BY <5>1, <5>2
      <4> QED BY <1>3, <4>1
    <3> QED BY <1>5, <2>1, <3>1, <3>2
  <2>2. CASE free' = Append(free, u) /\ free' # free
    <3>1. used' = [used EXCEPT ![u] = Unused]
        BY <1>3, <2>2, LibererEffect
    <3>2. used'[u] = Unused
        BY <1>2, <1>3, <3>1 DEF TypeOK
    <3> QED BY <1>2, <1>3, <2>2, <3>2, Appended
  <2>3. free' = free \/ free' = Append(free, u)
      BY <1>3, LibererEffect
  <2> QED BY <2>1, <2>2, <2>3
<1>8. TypeOK'
  <2>1. held' \in [Handles -> Units \cup {None}]
      BY <1>2, <1>3 DEF TypeOK
  <2> QED BY <1>2, <1>3, <1>7, <2>1, TypeKeeps
<1>9. Numbers'
  <2>1. ASSUME NEW i \in DOMAIN Pool PROVE Pool[i] \in Free' \/ used'[Pool[i]] # Unused
    <3>1. Pool[i] \in Units
        BY DEF Units
    <3>2. CASE Pool[i] # u
        BY <1>2, <1>6, <1>7, <3>1, <3>2 DEF Numbers
    <3>3. CASE Pool[i] = u
        BY <1>2, <1>7, <3>3 DEF Numbers
    <3> QED BY <3>2, <3>3
  <2>2. 8 \notin Free'
      BY <1>2, <1>4, <1>7 DEF Numbers
  <2>3. \A i, j \in DOMAIN free' : free'[i] = free'[j] /\ free'[i] \notin named' => i = j
      BY <1>2, <1>3, <1>5, <1>7 DEF Numbers
  <2>4. ASSUME NEW v \in Free', v \notin named' PROVE used'[v] = Unused
    <3>1. CASE v = u
        BY <1>3, <1>7, <2>4, <3>1
    <3>2. CASE v # u
      <4>1. v \in Free
          BY <1>7, <2>4, <3>2
      <4>2. v \in Units
          BY <1>2, <4>1 DEF TypeOK, Free
      <4> QED BY <1>2, <1>3, <1>6, <2>4, <3>2, <4>1, <4>2 DEF Numbers
    <3> QED BY <3>1, <3>2
  <2> QED BY <2>1, <2>2, <2>3, <2>4 DEF Numbers
<1>10. \A g \in Handles : held'[g] # None =>
          /\ held'[g] = held[g] /\ g # h /\ held[g] \in Units
          /\ held[g] \notin named => held[g] # u
    BY <1>1, <1>2, <1>3 DEF TypeOK, Holding
<1>11. Holding'
  <2>1. \A g \in Handles : held'[g] # 8
      BY <1>2, <1>10, Sizes DEF Holding
  <2>2. ASSUME NEW g \in Handles, held'[g] # None, held'[g] \notin named'
        PROVE  held'[g] \notin Free' /\ used'[held'[g]] # Unused
    <3>1. held'[g] = held[g] /\ held[g] \in Units /\ held[g] # u
        BY <1>3, <1>10, <2>2
    <3> QED BY <1>2, <1>3, <1>6, <1>7, <2>2, <3>1 DEF Holding
  <2>3. \A g, k \in Handles :
           g # k /\ held'[g] = held'[k] /\ held'[g] # None => held'[g] \in named'
      BY <1>2, <1>3, <1>10 DEF Holding
  <2> QED BY <2>1, <2>2, <2>3 DEF Holding
<1>12. ASSUME NEW g \in Handles, Quiet(held[g])' PROVE OpenAt(held[g])'
  <2>1. PICK v : v = held'[g]
      OBVIOUS
  <2>2. v \in Units /\ Quiet(v) /\ v # None /\ v \notin named
      BY <1>3, <1>12, <2>1, Sizes DEF Quiet
  <2>3. held[g] = v /\ v # u
      BY <1>10, <2>1, <2>2
  <2>4. OpenAt(v)
      BY <1>2, <2>2, <2>3, InvParts
  <2>5. OpenAt(v)'
      BY <1>3, <2>2, <2>3, <2>4, CarriedBack
  <2> QED BY <2>1, <2>5 DEF OpenAt
<1>13. ASSUME NEW v \in Free', Quiet(v)' PROVE ClosedAt(v)'
  <2>1. Quiet(v) /\ v \in Units /\ v \notin named
      BY <1>3, <1>13 DEF Quiet
  <2>2. CASE v = u
    <3>1. Liberer(u) /\ u \notin stuck'
        BY <1>3, <1>5, <1>13, <2>1, <2>2 DEF Quiet
    <3>2. OpenAt(u)
        BY <1>1, <1>2, <2>1, <2>2, InvParts
    <3> QED BY <1>3, <2>2, <3>1, <3>2, LibererEffect
  <2>3. CASE v # u
    <3>1. ClosedAt(v)
        BY <1>2, <1>7, <1>13, <2>1, <2>3, InvParts
    <3> QED BY <1>3, <2>1, <2>3, <3>1, CarriedBack
  <2> QED BY <2>2, <2>3
<1>14. HeldIsOpen' /\ FreeIsClosed' /\ Nameless(table)'
  <2>1. Nameless(table)'
      BY <1>3 DEF About, Fair, TableOK, Nameless
  <2> QED BY <1>8, <1>12, <1>13, <2>1, InvPartsNext
<1> QED BY <1>8, <1>9, <1>11, <1>14 DEF IInv

(* The calls that name a unit or a file, the operators, and the reserved    *)
(* unit: each is about one unit, which no caller's number is meant to be.  *)
Named(u) ==
    /\ About(u) /\ held' = held /\ u \in named' \cup operated' \cup {8}
    /\ (used' = used /\ free' = free) \/ u \in named' \cup {8}
    /\ free' = free \/ (free' = Append(free, u) /\ u # 8)
    /\ used'[u] # Unused \/ used[u] = Unused \/ u = 8 \/ free' = Append(free, u)

LEMMA FairTwice ==
    ASSUME NEW r, NEW s, NEW t, NEW u, Fair(r, s, u), Fair(s, t, u) PROVE Fair(r, t, u)
BY DEF Fair, KeepsOthers

(* DEFI_FICHIER(ACTION='ASSOCIER' or 'RESERVER').                          *)
LEMMA AssocierIsNamed ==
    ASSUME IInv, NEW u \in Units, NEW f \in Names, NEW t \in Types, NEW a \in Accesses,
           NEW s \in {"O", "R"}, Associer(u, f, t, a, s)
    PROVE  Named(u)
<1>1. TypeOK /\ TableOK(table) /\ Whole /\ outside' \in 0..MaxOutside
  <2>1. TypeOK /\ TableOK(table) /\ Whole
      BY TableType DEF IInv, Associer
  <2>2. outside \in 0..MaxOutside /\ outside < MaxOutside /\ outside' = outside + 1 /\ MaxOutside \in Nat
      BY <2>1, UnitAssumption DEF Associer, Outside, TypeOK
  <2> QED BY <2>1, <2>2
<1>2. PICK r \in Define(u, f, t, a, s) : table' = r.table
    BY DEF Associer
<1>3. Fair(table, table', u)
  <2>1. t \in {"A", "B", "L"} /\ a \in {"N", "A", "O"}
      BY Sizes
  <2> QED BY <1>1, <1>2, <2>1, DefineIsFair
<1>4. /\ used' = [used EXCEPT ![u] = f] /\ named' = named \cup {u}
      /\ UNCHANGED <<free, held, operated, stuck>>
    BY DEF Associer
<1>5. used'[u] = f /\ f # Unused
    BY <1>1, <1>4, Sizes DEF TypeOK
<1>6. About(u)
    BY <1>1, <1>3, <1>4 DEF About, TypeOK
<1> QED BY <1>4, <1>5, <1>6 DEF Named

(* LIBERER, by the unit or on entering ReservedUnitUsed(8).                *)
LEMMA LibererIsNamed ==
    ASSUME IInv, NEW u \in Units, Outside, Liberer(u), held' = held, operated' = operated,
           \/ named' = named \cup {u}
           \/ named' = named /\ u = 8
    PROVE  Named(u)
<1>1. TypeOK /\ outside' \in 0..MaxOutside
  <2>1. TypeOK
      BY DEF IInv
  <2>2. outside \in 0..MaxOutside /\ outside < MaxOutside /\ outside' = outside + 1 /\ MaxOutside \in Nat
      BY <2>1, UnitAssumption DEF Outside, TypeOK
  <2> QED BY <2>1, <2>2
<1>2. /\ Fair(table, table', u) /\ used' = [used EXCEPT ![u] = Unused]
      /\ stuck \subseteq stuck' /\ stuck' \subseteq Units
      /\ free' = free \/ (free' = Append(free, u) /\ u # 8)
      /\ used[u] = Unused \/ u = 8 \/ free' = Append(free, u)
    BY LibererEffect
<1>3. About(u)
    BY <1>1, <1>2 DEF About, TypeOK
<1> QED BY <1>2, <1>3 DEF Named

(* LIBERER by the name: the unit of the first slot that has it.            *)
LEMMA LibererFichierIsNamed ==
    ASSUME IInv, NEW f \in Files, LibererFichier(f)
    PROVE  \E u \in Units : Named(u)
<1> DEFINE S == {i \in DOMAIN table : table[i].name = f}
<1>1. TypeOK /\ TableOK(table) /\ Nameless(table) /\ outside' \in 0..MaxOutside
  <2>1. TypeOK /\ TableOK(table) /\ Nameless(table)
      BY TableType DEF IInv
  <2>2. outside \in 0..MaxOutside /\ outside < MaxOutside /\ outside' = outside + 1 /\ MaxOutside \in Nat
      BY <2>1, UnitAssumption DEF LibererFichier, Outside, TypeOK
  <2> QED BY <2>1, <2>2
<1>2. Min(S) \in S
  <2>1. Len(table) \in Nat /\ S \subseteq 1..Len(table) /\ S # {}
      BY <1>1 DEF TableOK, LibererFichier
  <2> HIDE DEF S
  <2> QED BY <2>1, Ends
<1>3. PICK k : k = Min(S)
    OBVIOUS
<1>4. k \in DOMAIN table /\ table[k].name = f
    BY <1>2, <1>3
<1>5. table[k] \in SlotType /\ table[k].unit \notin {0, -1}
  <2>1. table[k] \in SlotType
      BY <1>1, <1>4 DEF TableOK
  <2>2. f # Empty
      BY UnitAssumption
  <2> QED BY <1>1, <1>4, <2>1, <2>2 DEF Nameless
<1>6. PICK u : u = table[k].unit
    OBVIOUS
<1>7. u \in Units
    BY <1>5, <1>6 DEF SlotType
<1>8. Close(u) /\ operated' = operated \cup {u} /\ UNCHANGED <<free, used, held, named>>
    BY <1>3, <1>6 DEF LibererFichier
<1>9. PICK r \in Unlink(u, table) : table' = r.table /\ Stuck(u, r)
    BY <1>8 DEF Close
<1>10. Fair(table, table', u) /\ stuck \subseteq stuck' /\ stuck' \subseteq Units
  <2>1. Fair(table, r.table, u)
      BY <1>1, <1>7, UnlinkIsFair
  <2> QED BY <1>1, <1>7, <1>9, <2>1 DEF Stuck, TypeOK
<1>11. \E x \in Names \cup {Unused} : used' = [used EXCEPT ![u] = x]
  <2>1. used[u] \in Names \cup {Unused} /\ used' = [used EXCEPT ![u] = used[u]]
      BY <1>1, <1>7, <1>8 DEF TypeOK
  <2> QED BY <2>1
<1>12. About(u)
    BY <1>1, <1>7, <1>8, <1>10, <1>11 DEF About, TypeOK
<1> QED BY <1>7, <1>8, <1>12 DEF Named

(* An operator that opens the unit when ulexis does not know it.           *)
LEMMA OperatorIsNamed ==
    ASSUME IInv, NEW u \in Units, NEW closes \in BOOLEAN, Operator(u, closes)
    PROVE  Named(u)
<1>1. TypeOK /\ TableOK(table) /\ Whole /\ outside' \in 0..MaxOutside
  <2>1. TypeOK /\ TableOK(table) /\ Whole
      BY TableType DEF IInv, Operator
  <2>2. outside \in 0..MaxOutside /\ outside < MaxOutside /\ outside' = outside + 1 /\ MaxOutside \in Nat
      BY <2>1, UnitAssumption DEF Operator, Outside, TypeOK
  <2> QED BY <2>1, <2>2
<1>2. PICK r \in ulexis(u) :
          IF r.ok /\ closes
          THEN \E c \in Unlink(u, r.table) : table' = c.table /\ Stuck(u, c)
          ELSE table' = r.table /\ UNCHANGED stuck
    BY DEF Operator
<1>3. operated' = operated \cup {u} /\ UNCHANGED <<free, used, held, named>>
    BY DEF Operator
<1>4. Fair(table, r.table, u)
  <2>1. CASE Entries(u) # {}
    <3>1. r = Done(table)
        BY <1>2, <2>1 DEF ulexis
    <3>2. r.table = table
        BY <3>1, Results
    <3> QED BY <1>1, <3>2, NoChange DEF Fair
  <2>2. CASE Entries(u) = {}
    <3>1. PICK a \in {"A", "N"} : r \in ulopen(u, Empty, a, "O")
        BY <1>2, <2>2 DEF ulexis
    <3>2. r \in Define(u, Empty, "A", a, "O")
        BY <3>1 DEF Define
    <3> QED BY <1>1, <3>2, Sizes, DefineIsFair
  <2> QED BY <2>1, <2>2
<1>5. Fair(table, table', u) /\ stuck \subseteq stuck' /\ stuck' \subseteq Units
  <2>1. CASE r.ok /\ closes
    <3>1. PICK c \in Unlink(u, r.table) : table' = c.table /\ Stuck(u, c)
        BY <1>2, <2>1
    <3>2. Fair(r.table, c.table, u)
        BY <1>4, <3>1, UnlinkIsFair DEF Fair
    <3> QED BY <1>1, <1>4, <3>1, <3>2, FairTwice DEF Stuck, TypeOK
  <2>2. CASE ~(r.ok /\ closes)
      BY <1>1, <1>2, <1>4, <2>2 DEF TypeOK
  <2> QED BY <2>1, <2>2
<1>6. \E x \in Names \cup {Unused} : used' = [used EXCEPT ![u] = x]
  <2>1. used[u] \in Names \cup {Unused} /\ used' = [used EXCEPT ![u] = used[u]]
      BY <1>1, <1>3 DEF TypeOK
  <2> QED BY <2>1
<1>7. About(u)
    BY <1>1, <1>3, <1>5, <1>6 DEF About, TypeOK
<1> QED BY <1>3, <1>7 DEF Named

(* Leaving ReservedUnitUsed(8).                                            *)
LEMMA ExitIsNamed ==
    ASSUME IInv, Exit
    PROVE  Named(8)
<1>1. TypeOK /\ TableOK(table) /\ Whole /\ outside' \in 0..MaxOutside
  <2>1. TypeOK /\ TableOK(table) /\ Whole
      BY TableType DEF IInv, Exit
  <2>2. outside \in 0..MaxOutside /\ outside < MaxOutside /\ outside' = outside + 1 /\ MaxOutside \in Nat
      BY <2>1, UnitAssumption DEF Exit, Outside, TypeOK
  <2> QED BY <2>1, <2>2
<1>2. PICK r \in ulopen(8, Empty, "A", "O") : table' = r.table
    BY DEF Exit
<1>3. Fair(table, table', 8)
  <2>1. r \in Define(8, Empty, "A", "A", "O")
      BY <1>2 DEF Define
  <2> QED BY <1>1, <1>2, <2>1, Sizes, DefineIsFair
<1>4. used' = [used EXCEPT ![8] = Empty] /\ UNCHANGED <<free, held, named, operated, stuck>>
    BY DEF Exit
<1>5. About(8)
    BY <1>1, <1>3, <1>4, Sizes DEF About, TypeOK
<1> QED BY <1>4, <1>5 DEF Named

(* A step is one of the three kinds, or changes nothing.                   *)
LEMMA Kinds ==
    ASSUME IInv, [Next]_vars
    PROVE  \/ \E h \in Handles, f \in Names, t \in Types, a \in Accesses : NewFree(h, f, t, a)
           \/ \E h \in Handles : Release(h)
           \/ \E u \in Units : Named(u)
           \/ UNCHANGED vars
<1>1. CASE \E u \in Units, f \in Names, t \in Types, a \in Accesses, s \in {"O", "R"} :
             Associer(u, f, t, a, s)
    BY <1>1, AssocierIsNamed
<1>2. CASE \E u \in Units : LibererUnite(u)
  <2>1. PICK u \in Units : LibererUnite(u)
      BY <1>2
  <2>2. Named(u)
      BY <2>1, LibererIsNamed DEF LibererUnite
  <2> QED BY <2>2
<1>3. CASE \E f \in Files : LibererFichier(f)
    BY <1>3, LibererFichierIsNamed
<1>4. CASE \E u \in Units, closes \in BOOLEAN : Operator(u, closes)
    BY <1>4, OperatorIsNamed
<1>5. CASE Enter
  <2>1. Named(8)
      BY <1>5, Sizes, LibererIsNamed DEF Enter
  <2> QED BY <2>1, Sizes
<1>6. CASE Exit
    BY <1>6, ExitIsNamed, Sizes
<1> QED BY <1>1, <1>2, <1>3, <1>4, <1>5, <1>6 DEF Next

LEMMA InitInv == Init => IInv
<1> SUFFICES ASSUME Init PROVE IInv
    OBVIOUS
<1>1. /\ free = Pool /\ used = [u \in Units |-> Unused] /\ table = Standard
      /\ held = [h \in Handles |-> None]
      /\ named = {} /\ operated = {} /\ stuck = {} /\ outside = 0
    BY DEF Init
<1>2. Pool \in Seq(19..99) /\ DOMAIN Pool = 1..Len(Pool) /\ Free = {Pool[i] : i \in DOMAIN Pool}
    BY <1>1, UnitAssumption DEF Free
<1>3. Free \subseteq Units /\ Free \subseteq 19..99
  <2>1. \A i \in DOMAIN Pool : Pool[i] \in 19..99
      BY <1>2, ElementOfSeq
  <2>2. Free \subseteq Units
      BY <1>2 DEF Units
  <2> QED BY <1>2, <2>1, <2>2, ZenonT(60)
<1>4. /\ table \in Seq(SlotType) /\ Len(table) <= 2
      /\ \A i \in DOMAIN table : /\ i <= 2 /\ table[i].unit \in {8, 15} \cap Units
  <2>1. 8 \in Units /\ 8 \in Names \cup Units
      BY Sizes
  <2> DEFINE a == Slot(8, 8, "A", "N", "O")
             b == Slot(15, 15, "A", "A", "O")
  <2>2. a \in SlotType /\ a.unit = 8 /\ (15 \in Units => b \in SlotType /\ b.unit = 15)
      BY <2>1 DEF Slot, SlotType
  <2> HIDE DEF a, b
  <2>3. CASE 15 \in Units
    <3>1. table = <<a, b>>
        BY <1>1, <2>3 DEF Standard, a, b
    <3> QED BY <2>1, <2>2, <2>3, <3>1
  <2>4. CASE 15 \notin Units
    <3>1. table = <<a>>
        BY <1>1, <2>4 DEF Standard, a, b
    <3> QED BY <2>1, <2>2, <3>1
  <2> QED BY <2>3, <2>4
<1>5. TypeOK
  <2>1. free \in Seq(Units)
    <3>1. \A i \in 1..Len(Pool) : Pool[i] \in Units
        BY <1>2 DEF Units
    <3> QED BY <1>1, <1>2, <3>1
  <2>2. used \in [Units -> Names \cup {Unused}] /\ held \in [Handles -> Units \cup {None}]
      BY <1>1
  <2>3. Len(table) <= mxf + 1 /\ \A i \in DOMAIN table : ~(i > mxf)
    <3>1. mxf \in Nat /\ mxf > 1
        BY Sizes
    <3>2. Len(table) \in Nat /\ Len(table) <= 2 /\ DOMAIN table = 1..Len(table)
        BY <1>4
    <3>3. Len(table) <= mxf + 1
        BY <3>1, <3>2
    <3>4. \A i \in 1..Len(table) : ~(i > mxf)
        BY <3>1, <3>2
    <3> QED BY <3>2, <3>3, <3>4
  <2>4. \A i \in DOMAIN table : table[i].unit # -1
      BY <1>4
  <2>5. outside \in 0..MaxOutside
      BY <1>1, UnitAssumption
  <2> QED BY <1>1, <1>4, <2>1, <2>2, <2>3, <2>4, <2>5 DEF TypeOK
<1>6. Numbers
  <2>1. 8 \notin Free
      BY <1>3
  <2>2. \A u \in Free : used[u] = Unused
      BY <1>1, <1>3
  <2>3. \A i, j \in DOMAIN free : free[i] = free[j] => i = j
      BY <1>1, UnitAssumption
  <2> QED BY <1>2, <2>1, <2>2, <2>3 DEF Numbers
<1>7. Holding /\ HeldIsOpen
  <2>1. \A h \in Handles : held[h] = None /\ None # 8
      BY <1>1, Sizes
  <2> QED BY <2>1 DEF Holding, HeldIsOpen
<1>8. FreeIsClosed
  <2>1. \A u \in Free : Entries(u) = {} /\ used[u] = Unused
      BY <1>1, <1>3, <1>4 DEF Entries
  <2> QED BY <2>1 DEF FreeIsClosed
<1>9. Nameless(table)
    BY <1>4 DEF Nameless
<1> QED BY <1>5, <1>6, <1>7, <1>8, <1>9 DEF IInv

LEMMA StepInv == IInv /\ [Next]_vars => IInv'
<1> SUFFICES ASSUME IInv, [Next]_vars PROVE IInv'
    OBVIOUS
<1>1. CASE \E h \in Handles, f \in Names, t \in Types, a \in Accesses : NewFree(h, f, t, a)
    BY <1>1, NewFreeKeeps
<1>2. CASE \E h \in Handles : Release(h)
    BY <1>2, ReleaseKeeps
<1>3. CASE \E u \in Units : Named(u)
    BY <1>3, OutsideKeeps DEF Named
<1>4. CASE UNCHANGED vars
    BY <1>4 DEF vars, IInv, TypeOK, Numbers, Holding, HeldIsOpen, FreeIsClosed, Nameless,
                Free, Entries
<1> QED BY <1>1, <1>2, <1>3, <1>4, Kinds

LEMMA InvHolds == Spec => []IInv
BY InitInv, StepInv, PTL DEF Spec

-----------------------------------------------------------------------------
(* Theorems.                                                               *)

(* Whatever DEFI_FICHIER, ulopen or LIBERER do, and whichever of them      *)
(* fails, each number of the pool is free or registered, and two callers   *)
(* of LogicalUnitFile.new_free never hold the same unit unless a study     *)
(* chose that number itself.                                               *)
THEOREM NumbersAreNotLost == Spec => []NumbersAreKept
<1>1. IInv => NumbersAreKept
    BY DEF IInv, Numbers, Holding, NumbersAreKept
<1> QED BY <1>1, InvHolds, PTL

(* The numbers that LogicalUnit.py registers and the table that ulopen and *)
(* uldefi fill agree: the unit of a caller is open once, on its file, and  *)
(* a free number is in no slot.                                            *)
THEOREM PythonAndFortranAgree == Spec => []UnitsAgree
<1>1. IInv => UnitsAgree
    BY DEF IInv, UnitsAgree
<1> QED BY <1>1, InvHolds, PTL

(* The unit of a caller, when a call is about another one.                 *)
LEMMA AnotherUnit ==
    ASSUME IInv, NEW u \in Units, About(u), NEW v \in Units, v # u
    PROVE  /\ used'[v] = used[v]
           /\ {table'[i] : i \in {j \in DOMAIN table' : table'[j].unit = v}}
                 = {table[i] : i \in Entries(v)}
<1>1. /\ used'[v] = used[v] /\ Entries(v)' = Entries(v)
      /\ \A i \in Entries(v) : table'[i] = table[i]
    BY OthersKept DEF IInv
<1>2. {j \in DOMAIN table' : table'[j].unit = v} = Entries(v)
    BY <1>1 DEF Entries
<1> QED BY <1>1, <1>2

(* Nothing that other callers of LogicalUnitFile, commands or operators do, *)
(* in any order and with any failure, renames, closes or reopens the file   *)
(* of a caller, unless they name its unit themselves.                      *)
THEOREM HoldersKeepTheirFiles == Spec => HandleKeepsItsFile
<1> DEFINE Kept(h) ==
        held[h] # None /\ held'[h] = held[h] /\ held[h] \notin named' \cup operated'
        => /\ used'[held[h]] = used[held[h]]
           /\ {table'[i] : i \in {j \in DOMAIN table' : table'[j].unit = held[h]}}
                 = {table[i] : i \in Entries(held[h])}
<1>1. ASSUME IInv, [Next]_vars PROVE [\A h \in Handles : Kept(h)]_vars
  <2>1. SUFFICES ASSUME ~ UNCHANGED vars, NEW h \in Handles, held[h] # None,
                        held'[h] = held[h], held[h] \notin named' \cup operated'
                 PROVE  /\ used'[held[h]] = used[held[h]]
                        /\ {table'[i] : i \in {j \in DOMAIN table' : table'[j].unit = held[h]}}
                              = {table[i] : i \in Entries(held[h])}
      OBVIOUS
  <2>2. PICK v : v = held[h]
      OBVIOUS
  <2>3. v \in Units /\ v # 8 /\ TypeOK /\ Holding
      BY <1>1, <2>1, <2>2 DEF IInv, TypeOK, Holding
  <2>4. SUFFICES \E u \in Units : About(u) /\ u # v
      BY <1>1, <2>2, <2>3, AnotherUnit
  <2>5. CASE \E g \in Handles, f \in Names, t \in Types, a \in Accesses : NewFree(g, f, t, a)
    <3>1. Next1 \in Units /\ Next1 \in Free /\ About(Next1) /\ named' = named
        BY <1>1, <2>5, NewFreeIsAbout
    <3>2. v \notin Free
        BY <2>1, <2>2, <2>3, <3>1 DEF Holding
    <3> QED BY <3>1, <3>2
  <2>6. CASE \E g \in Handles : Release(g)
    <3>1. PICK g \in Handles : Release(g)
        BY <2>6
    <3>2. /\ held[g] \in Units /\ About(held[g]) /\ held' = [held EXCEPT ![g] = None]
          /\ named' = named
        BY <1>1, <3>1, ReleaseIsAbout
    <3>3. g # h
        BY <2>1, <2>3, <3>2 DEF TypeOK
    <3>4. held[g] # v
        BY <2>1, <2>2, <2>3, <3>2, <3>3 DEF Holding
    <3> QED BY <3>2, <3>4
  <2>7. CASE \E u \in Units : Named(u)
      BY <2>1, <2>2, <2>3, <2>7 DEF Named
  <2> QED BY <1>1, <2>1, <2>5, <2>6, <2>7, Kinds
<1> QED BY <1>1, InvHolds, PTL DEF Spec, HandleKeepsItsFile
=============================================================================
