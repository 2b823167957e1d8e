-------------------------- MODULE JvCatalogProofs --------------------------
(***************************************************************************)
(* Proofs about JvCatalog, for every set of names, every way of combining  *)
(* their words, every number of bases and every table of primes that lets  *)
(* a search pass by every slot.                                            *)
(***************************************************************************)
EXTENDS JvCatalog, FiniteSetTheorems, TLAPS

-----------------------------------------------------------------------------
(* What one hash table h of L slots and one list r of R names have to do    *)
(* with each other, when u identifiers have been given.                     *)

(* A search for n comes to s for the first time by slots that are in use.   *)
Reached(h, L, n, s) ==
    \E k \in 0..L - 1 :
       /\ Slot(n, L, k) = s
       /\ \A q \in 0..k - 1 : h[Slot(n, L, q)] # 0 /\ Slot(n, L, q) # s

Table(h, r, L, R, u) ==
    /\ h \in [1..L -> -u..u]
    /\ r \in [1..R -> Names \cup {Erased}]
    /\ \A s, t \in 1..L : h[s] # 0 /\ Abs(h[s]) = Abs(h[t]) => s = t
    /\ \A s \in 1..L : h[s] > 0 => r[h[s]] \in Names /\ Reached(h, L, r[h[s]], s)
    /\ \A s \in 1..L : h[s] < 0 => r[-h[s]] = Erased
    /\ \A j \in 1..R : r[j] \in Names => \E s \in 1..L : h[s] = j

(* The lengths are those of jjprem.                                         *)
Length(L, R) == R \in 1..2 * MaxNames /\ L = jjprem(jprem, R)

(* A table has more slots than names, and every search looks at all of      *)
(* them.                                                                    *)
LEMMA Lengths ==
    ASSUME NEW R, NEW L, Length(L, R)
    PROVE  /\ R \in Nat /\ L \in Nat /\ L > R /\ L \in Lorep
           /\ \A n \in Names : {Slot(n, L, k) : k \in 0..L - 1} = 1..L
BY CatalogAssumption DEF Length, Lorep

(* The slots a search looks at are those of the table, and all of them.     *)
LEMMA SlotRange ==
    ASSUME NEW R, NEW L, Length(L, R), NEW n \in Names
    PROVE  /\ \A k \in 0..L - 1 : Slot(n, L, k) \in 1..L
           /\ \A s \in 1..L : \E k \in 0..L - 1 : Slot(n, L, k) = s
BY Lengths

(* A name that is not in the table goes into the first slot on its way that *)
(* is free, under an identifier that was that of a destroyed name or is the *)
(* next one.                                                                *)
LEMMA TableInsert ==
    ASSUME NEW h, NEW r, NEW L, NEW R, Length(L, R), NEW u \in 0..R, Table(h, r, L, R, u),
           NEW n \in Names, \A j \in 1..R : r[j] # n,
           NEW k \in 0..L - 1,
           \A q \in 0..k - 1 : h[Slot(n, L, q)] # 0 /\ Slot(n, L, q) # Slot(n, L, k),
           NEW i \in 1..R, NEW w \in 0..R,
           \/ h[Slot(n, L, k)] < 0 /\ i = -h[Slot(n, L, k)] /\ w = u
           \/ h[Slot(n, L, k)] = 0 /\ i = u + 1 /\ w = u + 1
    PROVE  Table([h EXCEPT ![Slot(n, L, k)] = i], [r EXCEPT ![i] = n], L, R, w)
<1> DEFINE s0 == Slot(n, L, k)
           g  == [h EXCEPT ![s0] = i]
           m  == [r EXCEPT ![i] = n]
<1>1. L \in Nat /\ R \in Nat /\ L > R
  BY Lengths
<1>2. s0 \in 1..L
  BY SlotRange
<1>3. /\ h \in [1..L -> -u..u] /\ r \in [1..R -> Names \cup {Erased}]
      /\ \A s \in 1..L : h[s] \in Int /\ -u <= h[s] /\ h[s] <= u
  BY <1>1 DEF Table
<1>4. /\ g \in [1..L -> -w..w] /\ m \in [1..R -> Names \cup {Erased}]
      /\ g[s0] = i /\ m[i] = n
      /\ \A s \in 1..L : s # s0 => g[s] = h[s]
      /\ \A j \in 1..R : j # i => m[j] = r[j]
  BY <1>1, <1>2, <1>3, SMTT(30)
<1>5. \A s \in 1..L : s # s0 => Abs(h[s]) # i
  <2> SUFFICES ASSUME NEW s \in 1..L, s # s0, Abs(h[s]) = i PROVE FALSE
    OBVIOUS
  <2>1. CASE h[s0] = 0
    BY <1>1, <1>3, <2>1 DEF Abs
  <2>2. CASE h[s0] < 0
    <3>1. Abs(h[s0]) = i
      BY <1>2, <1>3, <2>2 DEF Abs
    <3> QED
      BY <1>2, <2>2, <3>1 DEF Table
  <2> QED
    BY <1>2, <1>3, <2>1, <2>2
<1>6. \A s \in 1..L : h[s] # 0 => g[s] # 0
  BY <1>2, <1>4
<1>7. \A s, t \in 1..L : g[s] # 0 /\ Abs(g[s]) = Abs(g[t]) => s = t
  <2>1. Abs(i) = i
    BY <1>1 DEF Abs
  <2> QED
    BY <1>2, <1>4, <1>5, <2>1 DEF Table
<1>8. ASSUME NEW s \in 1..L, g[s] > 0
      PROVE  m[g[s]] \in Names /\ Reached(g, L, m[g[s]], s)
  <2>1. CASE s = s0
    <3>1. \A q \in 0..k - 1 : Slot(n, L, q) \in 1..L
      BY <1>1, SlotRange
    <3>2. Reached(g, L, n, s0)
      BY <1>6, <3>1 DEF Reached
    <3> QED
      BY <1>4, <2>1, <3>2
  <2>2. CASE s # s0
    <3>1. g[s] = h[s] /\ h[s] > 0
      BY <1>4, <1>8, <2>2
    <3>2. h[s] \in 1..R /\ h[s] # i
      BY <1>1, <1>3, <1>5, <2>2, <3>1 DEF Abs
    <3>3. m[g[s]] = r[h[s]] /\ r[h[s]] \in Names /\ Reached(h, L, r[h[s]], s)
      BY <1>4, <3>1, <3>2 DEF Table
    <3>4. \A q \in 0..L - 1 : Slot(r[h[s]], L, q) \in 1..L
      BY <3>3, SlotRange
    <3>5. Reached(g, L, r[h[s]], s)
      BY <1>1, <1>6, <3>3, <3>4 DEF Reached
    <3> QED
      BY <3>3, <3>5
  <2> QED
    BY <2>1, <2>2
<1>9. ASSUME NEW s \in 1..L, g[s] < 0
      PROVE  m[-g[s]] = Erased
  <2>1. s # s0 /\ g[s] = h[s] /\ h[s] < 0
    BY <1>1, <1>2, <1>4, <1>9
  <2>2. -h[s] \in 1..R /\ -h[s] # i
    BY <1>1, <1>3, <1>5, <2>1 DEF Abs
  <2> QED
    BY <1>4, <2>1, <2>2 DEF Table
<1>10. ASSUME NEW j \in 1..R, m[j] \in Names
       PROVE  \E s \in 1..L : g[s] = j
  <2>1. CASE j = i
    BY <1>2, <1>4, <2>1
  <2>2. CASE j # i
    <3>1. PICK s \in 1..L : h[s] = j
      BY <1>4, <1>10, <2>2 DEF Table
    <3>2. s # s0
      BY <1>1, <1>2, <1>3, <3>1, <2>2
    <3> QED
      BY <1>4, <3>1, <3>2
  <2> QED
    BY <2>1, <2>2
<1> QED
  BY <1>4, <1>7, <1>8, <1>9, <1>10 DEF Table

(* The slot of a name that is destroyed stays in use.                       *)
LEMMA TableErase ==
    ASSUME NEW h, NEW r, NEW L, NEW R, Length(L, R), NEW u \in 0..R, Table(h, r, L, R, u),
           NEW s0 \in 1..L, h[s0] > 0
    PROVE  Table([h EXCEPT ![s0] = -h[s0]], [r EXCEPT ![h[s0]] = Erased], L, R, u)
<1> DEFINE g == [h EXCEPT ![s0] = -h[s0]]
           m == [r EXCEPT ![h[s0]] = Erased]
<1>1. L \in Nat /\ R \in Nat /\ L > R
  BY Lengths
<1>2. /\ h \in [1..L -> -u..u] /\ r \in [1..R -> Names \cup {Erased}]
      /\ \A s \in 1..L : h[s] \in Int /\ -u <= h[s] /\ h[s] <= u
      /\ h[s0] \in 1..R
  BY <1>1 DEF Table
<1>3. /\ g \in [1..L -> -u..u] /\ m \in [1..R -> Names \cup {Erased}]
      /\ g[s0] = -h[s0] /\ m[h[s0]] = Erased
      /\ \A s \in 1..L : s # s0 => g[s] = h[s]
      /\ \A j \in 1..R : j # h[s0] => m[j] = r[j]
  BY <1>1, <1>2
<1>4. \A s \in 1..L : (h[s] # 0 => g[s] # 0) /\ Abs(g[s]) = Abs(h[s])
  BY <1>2, <1>3 DEF Abs
<1>5. \A s, t \in 1..L : g[s] # 0 /\ Abs(g[s]) = Abs(g[t]) => s = t
  <2>1. \A s \in 1..L : g[s] # 0 => h[s] # 0
    BY <1>2, <1>3
  <2> QED
    BY <1>4, <2>1 DEF Table
<1>6. \A s \in 1..L : s # s0 => Abs(h[s]) # h[s0]
  BY <1>2 DEF Table, Abs
<1>7. ASSUME NEW s \in 1..L, g[s] > 0
      PROVE  m[g[s]] \in Names /\ Reached(g, L, m[g[s]], s)
  <2>1. s # s0 /\ g[s] = h[s] /\ h[s] > 0
    BY <1>2, <1>3, <1>7
  <2>2. h[s] \in 1..R /\ h[s] # h[s0]
    BY <1>1, <1>2, <1>6, <2>1 DEF Abs
  <2>3. m[g[s]] = r[h[s]] /\ r[h[s]] \in Names /\ Reached(h, L, r[h[s]], s)
    BY <1>3, <2>1, <2>2 DEF Table
  <2>4. \A q \in 0..L - 1 : Slot(r[h[s]], L, q) \in 1..L
    BY <2>3, SlotRange
  <2>5. Reached(g, L, r[h[s]], s)
    BY <1>1, <1>4, <2>3, <2>4 DEF Reached
  <2> QED
    BY <2>3, <2>5
<1>8. ASSUME NEW s \in 1..L, g[s] < 0
      PROVE  m[-g[s]] = Erased
  <2>1. CASE s = s0
    BY <1>2, <1>3, <2>1
  <2>2. CASE s # s0
    <3>1. -h[s] \in 1..R /\ -h[s] # h[s0] /\ h[s] < 0
      BY <1>1, <1>2, <1>3, <1>6, <1>8, <2>2, SMTT(30) DEF Abs
    <3> QED
      BY <1>3, <2>2, <3>1 DEF Table
  <2> QED
    BY <2>1, <2>2
<1>9. ASSUME NEW j \in 1..R, m[j] \in Names
      PROVE  \E s \in 1..L : g[s] = j
  <2>1. j # h[s0]
    BY <1>3, <1>9, CatalogAssumption
  <2>2. PICK s \in 1..L : h[s] = j
    BY <1>3, <1>9, <2>1 DEF Table
  <2> QED
    BY <1>3, <2>1, <2>2
<1> QED
  BY <1>3, <1>5, <1>7, <1>8, <1>9 DEF Table

(* An identifier that no name takes.                                        *)
LEMMA TableSkip ==
    ASSUME NEW h, NEW r, NEW L, NEW R, Length(L, R), NEW u \in 0..R, Table(h, r, L, R, u),
           NEW w \in 0..R, w >= u
    PROVE  Table(h, r, L, R, w)
<1>1. -u..u \subseteq -w..w
  BY Lengths
<1> QED
  BY <1>1 DEF Table

(* There are fewer identifiers than slots, and a slot for each at most.     *)
LEMMA TableEmptySlot ==
    ASSUME NEW h, NEW r, NEW L, NEW R, Length(L, R), NEW u \in 0..R, Table(h, r, L, R, u)
    PROVE  \E s \in 1..L : h[s] = 0
<1> SUFFICES ASSUME \A s \in 1..L : h[s] # 0 PROVE FALSE
  OBVIOUS
<1> DEFINE slots == 1..L
           ids == 1..u
           f == [s \in slots |-> Abs(h[s])]
<1>1. L \in Nat /\ R \in Nat /\ L > R
  BY Lengths
<1>2. f \in [slots -> ids]
  BY <1>1 DEF Table, Abs
<1>3. IsFiniteSet(slots) /\ Cardinality(slots) = L
  BY <1>1, FS_Interval
<1>4. IsFiniteSet(ids) /\ Cardinality(ids) = u
  BY <1>1, FS_Interval
<1>5. Cardinality(ids) < Cardinality(slots)
  BY <1>1, <1>3, <1>4
<1>6. \E x, y \in slots : x # y /\ f[x] = f[y]
  <2> HIDE DEF slots, ids, f
  <2> QED
    BY <1>2, <1>3, <1>4, <1>5, FS_PigeonHole
<1> QED
  BY <1>6 DEF Table

-----------------------------------------------------------------------------
(* The invariant.                                                           *)
ByBase(f) == f = [c \in Bases |-> f[c]]

SizesAgree ==
    /\ nremax \in [Bases -> 1..2 * MaxNames]
    /\ nrhcod = [c \in Bases |-> jjprem(jprem, nremax[c])]
    /\ nreuti \in [Bases -> Nat] /\ \A c \in Bases : nreuti[c] <= nremax[c]

TablesAgree ==
    /\ ByBase(hcod) /\ ByBase(rnom) /\ ByBase(type)
    /\ \A c \in Bases :
          /\ Table(hcod[c], rnom[c], nrhcod[c], nremax[c], nreuti[c])
          /\ type[c] \in [1..nremax[c] -> Types \cup {NoType}]

OnePlace ==
    \A n \in Names, c, d \in Bases : \A i \in 1..nremax[c], j \in 1..nremax[d] :
        rnom[c][i] = n /\ rnom[d][j] = n => c = d /\ i = j

LastAgrees ==
    /\ last \in [nomos : Names \cup {Unknown},
                 place : (Bases \X (1..2 * MaxNames)) \cup {Unknown}]
    /\ last.nomos # Unknown =>
          \E c \in Bases : \E j \in 1..nremax[c] :
              last.place = <<c, j>> /\ rnom[c][j] = last.nomos

(* The tables that jjarep fills hold the names of the old ones below kn,    *)
(* under the same identifiers.                                              *)
Filling ==
    LET c == req.iclas
        R == 2 * nremax[c]
        L == jjprem(jprem, R)
    IN  /\ nremax[c] <= MaxNames
        /\ new = [kn |-> new.kn, nrmax |-> R, hcod |-> new.hcod, rnom |-> new.rnom]
        /\ new.kn \in 1..nremax[c] + 1
        /\ Table(new.hcod, new.rnom, L, R, new.kn - 1)
        /\ \A s \in 1..L : new.hcod[s] >= 0
        /\ \A j \in 1..R : new.rnom[j] = IF j < new.kn THEN rnom[c][j] ELSE Erased

ControlAgrees ==
    /\ phase \in {"repos", "jjarep", "encore", "dechire"}
    /\ phase \in {"jjarep", "encore"} =>
          req.nom \in Names /\ req.iclas \in Bases /\ req.type \in Types
    /\ phase = "jjarep" => Filling

IInv == SizesAgree /\ TablesAgree /\ OnePlace /\ LastAgrees /\ ControlAgrees

-----------------------------------------------------------------------------
(* The search.                                                              *)

(* What is known of the tables of a base.                                   *)
LEMMA BaseFacts ==
    ASSUME SizesAgree, TablesAgree, NEW c \in Bases
    PROVE  /\ Length(nrhcod[c], nremax[c]) /\ nreuti[c] \in 0..nremax[c]
           /\ nrhcod[c] \in Nat /\ nremax[c] \in Nat
           /\ Table(hcod[c], rnom[c], nrhcod[c], nremax[c], nreuti[c])
BY Lengths, CatalogAssumption DEF SizesAgree, TablesAgree, Length

(* What a search may stop at is in the catalogue.                           *)
LEMMA HitIsName ==
    ASSUME SizesAgree, TablesAgree, NEW c \in Bases, NEW n \in Names,
           NEW k \in Probes(c), Hit(n, c, k)
    PROVE  /\ Slot(n, nrhcod[c], k) \in 1..nrhcod[c]
           /\ Entry(n, c, k) \in 1..nremax[c] /\ rnom[c][Entry(n, c, k)] = n
<1> DEFINE s == Slot(n, nrhcod[c], k)
           j == Entry(n, c, k)
<1>1. s \in 1..nrhcod[c]
  BY BaseFacts, SlotRange DEF Probes
<1>2. j = hcod[c][s] /\ j \in -nreuti[c]..nreuti[c] /\ j # 0
  BY <1>1, BaseFacts DEF Entry, Table, Hit
<1>3. ~(j < 0)
  <2> SUFFICES ASSUME j < 0 PROVE FALSE
    OBVIOUS
  <2>1. rnom[c][-j] = Erased
    BY <1>1, <1>2, BaseFacts DEF Table
  <2> QED
    BY <1>2, <2>1, CatalogAssumption DEF Hit, Abs
<1> QED
  BY <1>1, <1>2, <1>3, BaseFacts DEF Hit, Abs

(* What is in the catalogue is found.                                       *)
LEMMA NameIsFound ==
    ASSUME SizesAgree, TablesAgree, OnePlace, NEW c \in Bases, NEW n \in Names,
           NEW j \in 1..nremax[c], rnom[c][j] = n
    PROVE  \E k \in Probes(c) : /\ \A b \in BOOLEAN : Found(n, c, k, b)
                                /\ Entry(n, c, k) = j
<1> DEFINE L == nrhcod[c]
           h == hcod[c]
<1>1. Table(h, rnom[c], L, nremax[c], nreuti[c]) /\ Length(L, nremax[c])
  BY BaseFacts
<1>2. PICK s \in 1..L : h[s] = j
  BY <1>1 DEF Table
<1>3. h[s] > 0
  BY <1>2, BaseFacts
<1>4. Reached(h, L, n, s)
  BY <1>1, <1>2, <1>3 DEF Table
<1>5. PICK k \in 0..L - 1 : /\ Slot(n, L, k) = s
                            /\ \A q \in 0..k - 1 : h[Slot(n, L, q)] # 0 /\ Slot(n, L, q) # s
  BY <1>4 DEF Reached
<1>6. Entry(n, c, k) = j /\ Hit(n, c, k)
  BY <1>2, <1>3, <1>5, BaseFacts DEF Entry, Hit, Abs
<1>7. \A q \in 0..k - 1 : q \in Probes(c)
  BY BaseFacts DEF Probes
<1>8. ASSUME NEW q \in 0..k - 1 PROVE Entry(n, c, q) # 0 /\ ~Hit(n, c, q)
  <2>1. Entry(n, c, q) # 0 /\ Slot(n, L, q) # s
    BY <1>5, <1>8 DEF Entry
  <2>2. ASSUME Hit(n, c, q) PROVE FALSE
    <3>1. /\ Slot(n, L, q) \in 1..L
          /\ Entry(n, c, q) \in 1..nremax[c] /\ rnom[c][Entry(n, c, q)] = n
      BY <1>7, <1>8, <2>2, HitIsName
    <3>2. Entry(n, c, q) = j
      BY <3>1 DEF OnePlace
    <3>3. h[Slot(n, L, q)] = h[s] /\ h[s] # 0
      BY <1>2, <1>3, <3>2 DEF Entry
    <3> QED
      BY <1>1, <1>2, <2>1, <3>1, <3>3 DEF Table
  <2> QED
    BY <2>1, <2>2
<1>9. \A b \in BOOLEAN : Found(n, c, k, b)
  BY <1>6, <1>8 DEF Found, End
<1> QED
  BY <1>6, <1>9 DEF Probes

(* A base knows the names that are written in it.                           *)
LEMMA KnownIsRegistered ==
    ASSUME SizesAgree, TablesAgree, OnePlace, NEW c \in Bases, NEW n \in Names, NEW b \in BOOLEAN
    PROVE  Known(n, c, b) <=> \E j \in 1..nremax[c] : rnom[c][j] = n
<1>1. ASSUME Known(n, c, b) PROVE \E j \in 1..nremax[c] : rnom[c][j] = n
  BY <1>1, HitIsName DEF Known, Found
<1>2. ASSUME NEW j \in 1..nremax[c], rnom[c][j] = n PROVE Known(n, c, b)
  BY <1>2, NameIsFound DEF Known
<1> QED
  BY <1>1, <1>2

(* The search and the reading of the names agree.                           *)
LEMMA SearchOfName ==
    ASSUME SizesAgree, TablesAgree, OnePlace, NEW c \in Bases, NEW n \in Names,
           NEW j \in 1..nremax[c], rnom[c][j] = n
    PROVE  Search(n) = <<c, j>> /\ Registered(n) = <<c, j>>
<1>1. Bases \subseteq Int
  BY DEF Bases
<1>2. {d \in Bases : Known(n, d, FALSE)} = {c}
  <2>1. \A d \in Bases : Known(n, d, FALSE) <=> \E i \in 1..nremax[d] : rnom[d][i] = n
    BY KnownIsRegistered
  <2>2. \A d \in Bases : (\E i \in 1..nremax[d] : rnom[d][i] = n) <=> d = c
    BY DEF OnePlace
  <2> QED
    BY <2>1, <2>2
<1>3. Min({c}) = c
  BY <1>1 DEF Min
<1>4. PICK k \in Probes(c) : Found(n, c, k, FALSE) /\ Entry(n, c, k) = j
  BY NameIsFound
<1>5. \A q \in Probes(c) : Found(n, c, q, FALSE) => Entry(n, c, q) = j
  BY HitIsName DEF Found, OnePlace
<1>6. Search(n) = <<c, j>>
  <2> DEFINE k0 == CHOOSE q \in Probes(c) : Found(n, c, q, FALSE)
  <2>1. k0 \in Probes(c) /\ Found(n, c, k0, FALSE)
    BY <1>4
  <2>2. Entry(n, c, k0) = j
    BY <1>5, <2>1
  <2>3. Search(n) = <<c, Entry(n, c, k0)>>
    BY <1>2, <1>3 DEF Search
  <2> QED
    BY <2>2, <2>3
<1>7. \A p : p \in Places(n) <=> p = <<c, j>>
  BY DEF Places, OnePlace
<1> QED
  BY <1>6, <1>7 DEF Registered

(* A name that is written nowhere is not found.                             *)
LEMMA SearchOfNoName ==
    ASSUME SizesAgree, TablesAgree, OnePlace, NEW n \in Names,
           \A c \in Bases : \A j \in 1..nremax[c] : rnom[c][j] # n
    PROVE  Search(n) = Unknown /\ Registered(n) = Unknown
<1>1. \A d \in Bases : ~Known(n, d, FALSE)
  BY KnownIsRegistered
<1>2. Places(n) = {}
  BY DEF Places
<1> QED
  BY <1>1, <1>2 DEF Search, Registered

-----------------------------------------------------------------------------
(* The initial state, and steps that leave the tables.                      *)

(* Tables without a name agree.                                             *)
LEMMA EmptyTable ==
    ASSUME NEW L, NEW R, Length(L, R)
    PROVE  Table([s \in 1..L |-> 0], [j \in 1..R |-> Erased], L, R, 0)
BY Lengths, CatalogAssumption DEF Table

(* The tables of a new base are empty.                                      *)
LEMMA InitAgrees == Init => IInv
<1> SUFFICES ASSUME Init PROVE IInv
  OBVIOUS
<1>1. SizesAgree
  BY CatalogAssumption DEF Init, SizesAgree
<1>2. ASSUME NEW c \in Bases
      PROVE  /\ Table(hcod[c], rnom[c], nrhcod[c], nremax[c], nreuti[c])
             /\ type[c] \in [1..nremax[c] -> Types \cup {NoType}]
  <2>1. Length(nrhcod[c], nremax[c])
    BY CatalogAssumption DEF Init, Length
  <2> QED
    BY <2>1, EmptyTable DEF Init
<1>3. ByBase(hcod) /\ ByBase(rnom) /\ ByBase(type)
  BY DEF Init, ByBase
<1>4. OnePlace
  BY CatalogAssumption DEF Init, OnePlace
<1>5. LastAgrees /\ ControlAgrees
  BY DEF Init, LastAgrees, ControlAgrees, NoLast
<1> QED
  BY <1>1, <1>2, <1>3, <1>4, <1>5 DEF IInv, TablesAgree

(* A step that leaves the tables leaves what relates them.                  *)
LEMMA SameTables ==
    ASSUME SizesAgree, TablesAgree, OnePlace, UNCHANGED table
    PROVE  SizesAgree' /\ TablesAgree' /\ OnePlace'
BY DEF SizesAgree, TablesAgree, OnePlace, table, ByBase

(* The last name found is still where it was when the tables are the same.  *)
LEMMA SameLast ==
    ASSUME LastAgrees, UNCHANGED <<rnom, nremax, last>> PROVE LastAgrees'
BY DEF LastAgrees

(* What is remembered of the last name is forgotten, or is its place.       *)
LEMMA LastFound ==
    ASSUME SizesAgree', NEW c \in Bases, NEW n \in Names, NEW j \in 1..nremax'[c],
           rnom'[c][j] = n, last' = [nomos |-> n, place |-> <<c, j>>]
    PROVE  LastAgrees'
<1>1. j \in 1..2 * MaxNames
  BY CatalogAssumption DEF SizesAgree
<1> QED
  BY <1>1, CatalogAssumption DEF LastAgrees

(* jedetr, jjcren: nothing is remembered.                                   *)
LEMMA LastForgotten ==
    ASSUME last' = NoLast PROVE LastAgrees'
BY DEF LastAgrees, NoLast

-----------------------------------------------------------------------------
(* Creation.                                                                *)

(* jjcren looks in all the bases before it inserts.                         *)
LEMMA NowhereElse ==
    ASSUME SizesAgree, TablesAgree, OnePlace, NEW n \in Names, NEW c \in Bases,
           \A d \in 1..c : ~Known(n, d, FALSE),
           \A d \in c + 1..nbcla : ~Known(n, d, Rinser(n, c))
    PROVE  \A d \in Bases : \A j \in 1..nremax[d] : rnom[d][j] # n
<1> SUFFICES ASSUME NEW d \in Bases PROVE \A j \in 1..nremax[d] : rnom[d][j] # n
  OBVIOUS
<1>1. Rinser(n, c) \in BOOLEAN
  BY DEF Rinser
<1>2. CASE d \in 1..c
  BY <1>2, KnownIsRegistered
<1>3. CASE d \in c + 1..nbcla
  BY <1>1, <1>3, KnownIsRegistered
<1>4. nbcla \in Nat
  BY CatalogAssumption
<1> QED
  BY <1>2, <1>3, <1>4 DEF Bases

(* The place of a new name is one, and free.                                *)
LEMMA PlaceIsFree ==
    ASSUME SizesAgree, TablesAgree, NEW n \in Names, NEW c \in Bases,
           ~Grows(n, c), NEW k \in Probes(c), Place(n, c, k)
    PROVE  LET e == Entry(n, c, k)
               i == Idatin(c, e)
           IN  /\ i \in 1..nremax[c] /\ rnom[c][i] = Erased
               /\ nreuti[c] + Isg(c, e) \in 0..nremax[c]
               /\ \/ e < 0 /\ i = -e /\ nreuti[c] + Isg(c, e) = nreuti[c]
                  \/ e = 0 /\ i = nreuti[c] + 1 /\ nreuti[c] + Isg(c, e) = nreuti[c] + 1
<1> DEFINE L == nrhcod[c]
           s == Slot(n, L, k)
           e == Entry(n, c, k)
<1>1. s \in 1..L
  BY BaseFacts, SlotRange DEF Probes
<1>2. e = hcod[c][s] /\ e \in Int /\ -nreuti[c] <= e /\ e <= 0
  BY <1>1, BaseFacts DEF Entry, Table, Place
<1>3. nreuti[c] \in Nat /\ nremax[c] \in Nat /\ nreuti[c] <= nremax[c]
  BY BaseFacts
<1>4. CASE e < 0
  <2>1. rnom[c][-e] = Erased
    BY <1>1, <1>2, <1>4, BaseFacts DEF Table
  <2> QED
    BY <1>2, <1>3, <1>4, <2>1 DEF Idatin, Isg
<1>5. CASE e = 0
  <2>1. ~Rinser(n, c)
    <3> SUFFICES ASSUME NEW q \in Probes(c), Place(n, c, q), Entry(n, c, q) < 0 PROVE FALSE
      BY DEF Rinser
    <3> Entry(n, c, q) \in Int
      BY BaseFacts, SlotRange DEF Entry, Table, Probes
    <3>1. CASE q < k
      BY <3>1, BaseFacts DEF Place, Probes
    <3>2. CASE k < q
      BY <1>5, <3>2, BaseFacts DEF Place, Probes
    <3>3. q \in Int /\ k \in Int
      BY BaseFacts DEF Probes
    <3> QED
      BY <1>5, <3>1, <3>2, <3>3
  <2>2. nreuti[c] < nremax[c]
    BY <1>3, <2>1 DEF Grows
  <2>3. rnom[c][nreuti[c] + 1] = Erased
    <3>1. rnom[c][nreuti[c] + 1] \in Names \cup {Erased}
      BY <1>3, <2>2, BaseFacts DEF Table
    <3>2. ASSUME rnom[c][nreuti[c] + 1] \in Names PROVE FALSE
      <4>1. PICK t \in 1..L : hcod[c][t] = nreuti[c] + 1
        BY <1>3, <2>2, <3>2, BaseFacts DEF Table
      <4>2. hcod[c][t] \in -nreuti[c]..nreuti[c]
        BY BaseFacts DEF Table
      <4> QED
        BY <1>3, <4>1, <4>2
    <3> QED
      BY <3>1, <3>2
  <2> QED
    BY <1>2, <1>3, <1>5, <2>2, <2>3 DEF Idatin, Isg
<1> QED
  BY <1>2, <1>4, <1>5

-----------------------------------------------------------------------------
(* The insertion itself: what it does to the names.                         *)
Writes(n, c, i) == /\ rnom[c][i] = Erased
                   /\ rnom' = [rnom EXCEPT ![c][i] = n]
                   /\ nremax' = nremax

(* jjcren with icre = 1: after the insertion the tables agree, and hold the *)
(* new name at a place that was free.                                       *)
LEMMA InsertAgrees ==
    ASSUME SizesAgree, TablesAgree, OnePlace,
           NEW n \in Names, NEW c \in Bases, NEW t \in Types,
           ~Grows(n, c), Insert(n, c, t),
           \A d \in Bases : \A j \in 1..nremax[d] : rnom[d][j] # n
    PROVE  /\ SizesAgree' /\ TablesAgree' /\ OnePlace' /\ LastAgrees' /\ ControlAgrees'
           /\ \E i \in 1..nremax[c] : Writes(n, c, i)
<1> DEFINE L == nrhcod[c]
           R == nremax[c]
           u == nreuti[c]
<1>1. PICK k \in Probes(c) :
          LET i == Idatin(c, Entry(n, c, k))
          IN  /\ Place(n, c, k)
              /\ hcod' = [hcod EXCEPT ![c][Slot(n, L, k)] = i]
              /\ rnom' = [rnom EXCEPT ![c][i] = n]
              /\ type' = [type EXCEPT ![c][i] = t]
              /\ nreuti' = [nreuti EXCEPT ![c] = @ + Isg(c, Entry(n, c, k))]
              /\ last' = [nomos |-> n, place |-> <<c, i>>]
  BY DEF Insert
<1>2. phase' = "repos" /\ nremax' = nremax /\ nrhcod' = nrhcod
  BY DEF Insert, Idle
<1> DEFINE e == Entry(n, c, k)
           i == Idatin(c, e)
           w == u + Isg(c, e)
           s == Slot(n, L, k)
<1>3. /\ i \in 1..R /\ rnom[c][i] = Erased /\ w \in 0..R
      /\ \/ e < 0 /\ i = -e /\ w = u
         \/ e = 0 /\ i = u + 1 /\ w = u + 1
  BY <1>1, PlaceIsFree
<1>4. /\ Length(L, R) /\ u \in 0..R /\ L \in Nat /\ R \in Nat
      /\ Table(hcod[c], rnom[c], L, R, u) /\ k \in 0..L - 1
  BY BaseFacts DEF Probes
<1>5. \A q \in 0..k - 1 : hcod[c][Slot(n, L, q)] # 0 /\ Slot(n, L, q) # s
  <2>0. \A q \in 0..k : Slot(n, L, q) \in 1..L
    BY <1>4, SlotRange
  <2>1. \A q \in 0..k - 1 : Entry(n, c, q) > 0 /\ Entry(n, c, q) \in Int
    <3>1. \A x \in 1..L : hcod[c][x] \in Int
      BY <1>4 DEF Table
    <3>2. \A q \in 0..k - 1 : Entry(n, c, q) > 0
      BY <1>1 DEF Place
    <3>3. \A q \in 0..k - 1 : q \in 0..k
      BY <1>4
    <3> QED
      BY <2>0, <3>1, <3>2, <3>3 DEF Entry
  <2>2. e <= 0 /\ e \in Int
    BY <1>1, <1>4, SlotRange DEF Place, Entry, Table
  <2> QED
    BY <2>1, <2>2 DEF Entry
<1>6. Table([hcod[c] EXCEPT ![s] = i], [rnom[c] EXCEPT ![i] = n], L, R, w)
  <2>1. hcod[c][s] = e
    BY DEF Entry
  <2> HIDE DEF L, R, u, e, i, w, s
  <2>2. \A j \in 1..R : rnom[c][j] # n
    BY DEF R
  <2>3. s = Slot(n, L, k)
    BY DEF s
  <2> QED
    BY <1>3, <1>4, <1>5, <2>1, <2>2, <2>3, TableInsert
<1>7. /\ hcod'[c] = [hcod[c] EXCEPT ![s] = i]
      /\ rnom'[c] = [rnom[c] EXCEPT ![i] = n]
      /\ type'[c] = [type[c] EXCEPT ![i] = t]
      /\ nreuti'[c] = w
  BY <1>1 DEF TablesAgree, ByBase, SizesAgree
<1>8. \A d \in Bases \ {c} : /\ hcod'[d] = hcod[d] /\ rnom'[d] = rnom[d]
                             /\ type'[d] = type[d] /\ nreuti'[d] = nreuti[d]
  BY <1>1 DEF TablesAgree, ByBase, SizesAgree
<1>9. ByBase(hcod)' /\ ByBase(rnom)' /\ ByBase(type)'
  BY <1>1 DEF TablesAgree, ByBase
<1>10. nreuti' \in [Bases -> Nat] /\ \A d \in Bases : nreuti'[d] <= nremax'[d]
  <2>1. w \in Nat /\ w <= R
    BY <1>3, <1>4
  <2> HIDE DEF w
  <2>2. nreuti' = [nreuti EXCEPT ![c] = w]
    BY <1>1 DEF SizesAgree, w
  <2> QED
    BY <1>2, <2>1, <2>2 DEF SizesAgree
<1>11. SizesAgree'
  BY <1>2, <1>10 DEF SizesAgree
<1>12. TablesAgree'
  <2>1. type[c] \in [1..R -> Types \cup {NoType}]
    BY DEF TablesAgree
  <2>2. type'[c] \in [1..R -> Types \cup {NoType}]
    BY <1>3, <1>7, <2>1
  <2>3. ASSUME NEW d \in Bases
        PROVE  /\ Table(hcod'[d], rnom'[d], nrhcod[d], nremax[d], nreuti'[d])
               /\ type'[d] \in [1..nremax[d] -> Types \cup {NoType}]
    <3>1. CASE d = c
      BY <1>6, <1>7, <2>2, <3>1
    <3>2. CASE d # c
      BY <1>8, <3>2 DEF TablesAgree
    <3> QED
      BY <3>1, <3>2
  <2> QED
    BY <1>2, <1>9, <2>3 DEF TablesAgree
<1>13. rnom'[c][i] = n /\ \A j \in 1..R : j # i => rnom'[c][j] = rnom[c][j]
  BY <1>3, <1>4, <1>7 DEF Table
<1>14. OnePlace'
  <2>1. \A d \in Bases : \A j \in 1..nremax[d] :
            rnom'[d][j] = n => d = c /\ j = i
    BY <1>8, <1>13
  <2>2. \A m \in Names \ {n}, d \in Bases : \A j \in 1..nremax[d] :
            rnom'[d][j] = m => rnom[d][j] = m
    BY <1>8, <1>13
  <2> QED
    BY <1>2, <2>1, <2>2 DEF OnePlace
<1>15. LastAgrees'
  BY <1>1, <1>2, <1>3, <1>11, <1>13, LastFound
<1>16. ControlAgrees'
  BY <1>2 DEF ControlAgrees
<1>17. Writes(n, c, i)
  BY <1>1, <1>2, <1>3 DEF Writes
<1> QED
  BY <1>3, <1>11, <1>12, <1>14, <1>15, <1>16, <1>17

-----------------------------------------------------------------------------
(* The tables that jjarep starts to fill are empty ones, of the new         *)
(* lengths.                                                                 *)
LEMMA EnlargeAgrees ==
    ASSUME IInv, NEW n \in Names, NEW c \in Bases, NEW t \in Types, Enlarge(n, c, t)
    PROVE  IInv'
<1> DEFINE R == 2 * nremax[c]
           L == jjprem(jprem, R)
           h == [s \in 1..L |-> 0]
           r == [j \in 1..R |-> Erased]
<1>1. SizesAgree' /\ TablesAgree' /\ OnePlace' /\ LastAgrees'
  BY SameTables, SameLast DEF Enlarge, IInv, table
<1>2. /\ new' = [kn |-> 1, nrmax |-> R, hcod |-> h, rnom |-> r]
      /\ req' = [nom |-> n, iclas |-> c, type |-> t]
      /\ phase' = "jjarep" /\ nremax[c] <= MaxNames
      /\ UNCHANGED <<nremax, rnom>>
  BY DEF Enlarge, Nrmax, Lhcod, table
<1>3. nremax[c] \in Nat /\ nremax[c] >= 1
  BY CatalogAssumption DEF IInv, SizesAgree
<1>4. Length(L, R)
  BY <1>2, <1>3, CatalogAssumption DEF Length
<1>5. Table(h, r, L, R, 0)
  BY <1>4, EmptyTable
<1>6. \A s \in 1..L : h[s] >= 0
  OBVIOUS
<1>7. Filling'
  <2> HIDE DEF h, r
  <2>1. /\ new'.kn = 1 /\ new'.hcod = h /\ new'.rnom = r /\ req'.iclas = c
        /\ nremax'[req'.iclas] = nremax[c]
    BY <1>2
  <2>2. new'.kn - 1 = 0
    BY <2>1
  <2>3. \A j \in 1..R : r[j] = Erased /\ ~(j < 1)
    BY <1>3 DEF r
  <2> QED
    BY <1>2, <1>3, <1>5, <1>6, <2>1, <2>2, <2>3 DEF Filling
<1>8. ControlAgrees'
  BY <1>2, <1>7 DEF ControlAgrees
<1> QED
  BY <1>1, <1>8 DEF IInv

(* The outcomes of jjcren: the name is known, or inserted, or the tables    *)
(* have to grow.                                                            *)
Inserted(n, c) == /\ \A d \in Bases : \A j \in 1..nremax[d] : rnom[d][j] # n
                  /\ \E i \in 1..nremax[c] : Writes(n, c, i)
Same == UNCHANGED <<rnom, nremax>>

(* What jjcren does, on its first turn or its second.                       *)
LEMMA CreationAgrees ==
    ASSUME IInv, NEW n \in Names, NEW c \in Bases, NEW t \in Types, jjcren(n, c, t)
    PROVE  IInv' /\ (Inserted(n, c) \/ Same)
<1>1. CASE Refuse
  <2>1. SizesAgree' /\ TablesAgree' /\ OnePlace' /\ LastAgrees'
    BY <1>1, SameTables, SameLast DEF Refuse, IInv, table
  <2>2. ControlAgrees'
    BY <1>1 DEF Refuse, Idle, ControlAgrees
  <2> QED
    BY <1>1, <2>1, <2>2 DEF IInv, Same, Refuse, table
<1>2. CASE Enlarge(n, c, t)
  BY <1>2, EnlargeAgrees DEF Enlarge, Same, table
<1>3. CASE /\ \A d \in 1..c : ~Known(n, d, FALSE)
           /\ ~Grows(n, c)
           /\ \A d \in c + 1..nbcla : ~Known(n, d, Rinser(n, c))
           /\ Insert(n, c, t)
  <2>1. \A d \in Bases : \A j \in 1..nremax[d] : rnom[d][j] # n
    BY <1>3, NowhereElse DEF IInv
  <2> QED
    BY <1>3, <2>1, InsertAgrees DEF IInv, Inserted
<1> QED
  BY <1>1, <1>2, <1>3 DEF jjcren

(* jecreo of the last name found declares it again; of another one, jjcren. *)
LEMMA JecreoAgrees ==
    ASSUME IInv, NEW n \in Names, NEW c \in Bases, NEW t \in Types, Jecreo(n, c, t)
    PROVE  IInv' /\ (Inserted(n, c) \/ Same)
<1>1. CASE last.nomos # n
  BY <1>1, CreationAgrees DEF Jecreo
<1>2. CASE last.nomos = n
  <2>1. /\ type' = [type EXCEPT ![last.place[1]][last.place[2]] = t]
        /\ UNCHANGED <<hcod, rnom, nremax, nrhcod, nreuti, last, phase, req, new>>
    BY <1>2 DEF Jecreo
  <2>2. PICK d \in Bases : \E j \in 1..nremax[d] : last.place = <<d, j>>
    BY <1>2, CatalogAssumption DEF IInv, LastAgrees
  <2>3. PICK j \in 1..nremax[d] : last.place = <<d, j>>
    BY <2>2
  <2>4. type' = [type EXCEPT ![d][j] = t]
    BY <2>1, <2>3
  <2>5. ByBase(type)' /\ \A b \in Bases : type'[b] \in [1..nremax[b] -> Types \cup {NoType}]
    BY <2>4 DEF IInv, TablesAgree, ByBase
  <2>6. TablesAgree'
    BY <2>1, <2>5 DEF IInv, TablesAgree, ByBase
  <2>7. SizesAgree' /\ OnePlace' /\ LastAgrees'
    BY <2>1, SameLast DEF IInv, SizesAgree, OnePlace
  <2>8. ControlAgrees'
    BY <2>1 DEF IInv, ControlAgrees, Filling
  <2> QED
    BY <2>1, <2>6, <2>7, <2>8 DEF IInv, Same
<1> QED
  BY <1>1, <1>2

-----------------------------------------------------------------------------
(* The rebuilding.                                                          *)

(* One more name, under its own identifier, in the tables being filled.     *)
LEMMA OneMore ==
    ASSUME IInv, phase = "jjarep", new.kn <= nremax[req.iclas],
           UNCHANGED <<table, last, req, phase>>,
           NEW h, NEW m,
           new' = [kn |-> new.kn + 1, nrmax |-> new.nrmax, hcod |-> h, rnom |-> m],
           LET R == 2 * nremax[req.iclas]
               L == jjprem(jprem, R)
           IN  /\ Table(h, m, L, R, new.kn)
               /\ \A s \in 1..L : h[s] >= 0
               /\ m = [new.rnom EXCEPT ![new.kn] = rnom[req.iclas][new.kn]]
    PROVE  IInv' /\ Same
<1> DEFINE c == req.iclas
           R == 2 * nremax[c]
           L == jjprem(jprem, R)
<1>1. SizesAgree' /\ TablesAgree' /\ OnePlace' /\ LastAgrees' /\ Same
  BY SameTables, SameLast DEF IInv, table, Same
<1>2. /\ c \in Bases /\ Filling /\ req.nom \in Names /\ req.type \in Types
      /\ nremax[c] \in Nat /\ new.kn \in 1..nremax[c] /\ new.nrmax = R
  BY CatalogAssumption DEF IInv, ControlAgrees, Filling, SizesAgree
<1>3. new.rnom \in [1..R -> Names \cup {Erased}]
  BY <1>2 DEF Filling, Table
<1>4. \A j \in 1..R : m[j] = IF j < new.kn + 1 THEN rnom[c][j] ELSE Erased
  BY <1>2, <1>3 DEF Filling
<1>5. Filling'
  <2>1. /\ new'.kn = new.kn + 1 /\ new'.hcod = h /\ new'.rnom = m /\ req' = req
        /\ nremax' = nremax /\ rnom' = rnom /\ new'.nrmax = R
    BY <1>2 DEF table
  <2>2. new'.kn - 1 = new.kn /\ new'.kn \in 1..nremax[c] + 1
    BY <1>2, <2>1
  <2>3. Table(new'.hcod, new'.rnom, L, R, new'.kn - 1)
    BY <2>1, <2>2
  <2>4. new' = [kn |-> new'.kn, nrmax |-> R, hcod |-> new'.hcod, rnom |-> new'.rnom]
    BY <1>2
  <2>5. nremax[c] <= MaxNames
    BY <1>2 DEF Filling
  <2>6. \A j \in 1..R : new'.rnom[j] = IF j < new'.kn THEN rnom[c][j] ELSE Erased
    BY <1>4, <2>1
  <2>7. \A s \in 1..L : new'.hcod[s] >= 0
    BY <2>1
  <2> QED
    BY <2>1, <2>2, <2>3, <2>4, <2>5, <2>6, <2>7 DEF Filling
<1>6. ControlAgrees'
  BY <1>2, <1>5 DEF ControlAgrees
<1> QED
  BY <1>1, <1>6 DEF IInv

(* jjarep goes through a name. Its errors would need a name with two        *)
(* identifiers, or a new table without an empty slot.                       *)
LEMMA JjarepNameAgrees ==
    ASSUME IInv, JjarepName PROVE IInv' /\ Same
<1> DEFINE c  == req.iclas
           kn == new.kn
           n  == rnom[c][kn]
           R  == 2 * nremax[c]
           L  == jjprem(jprem, R)
           h  == new.hcod
           r  == new.rnom
<1>1. phase = "jjarep" /\ kn <= nremax[c] /\ UNCHANGED <<table, last, req>>
  BY DEF JjarepName
<1>2. /\ c \in Bases /\ Filling /\ nremax[c] \in Nat /\ nremax[c] <= MaxNames
      /\ kn \in 1..nremax[c] /\ kn \in 1..R
      /\ new = [kn |-> kn, nrmax |-> R, hcod |-> h, rnom |-> r]
      /\ Table(h, r, L, R, kn - 1) /\ \A s \in 1..L : h[s] >= 0
      /\ \A j \in 1..R : r[j] = IF j < kn THEN rnom[c][j] ELSE Erased
  BY <1>1, CatalogAssumption DEF IInv, ControlAgrees, Filling, SizesAgree
<1>3. Length(L, R)
  BY <1>2, CatalogAssumption DEF Length
<1>4. L \in Nat /\ R \in Nat /\ kn - 1 \in 0..R
  BY <1>2, <1>3, Lengths
<1>5. /\ h \in [1..L -> -(kn - 1)..kn - 1] /\ r \in [1..R -> Names \cup {Erased}]
      /\ \A s \in 1..L : h[s] \in Int /\ h[s] >= 0 /\ h[s] < kn
  BY <1>2, <1>4 DEF Table
<1>6. Len(h) = L
  <2>1. h \in Seq(Int)
    BY <1>4, <1>5
  <2>2. DOMAIN h = 1..L
    BY <1>5
  <2> QED
    BY <1>4, <2>1, <2>2
<1>7. n \in Names \cup {Erased}
  BY <1>2, BaseFacts DEF IInv, Table
<1>8. CASE n = Erased /\ phase' = phase
           /\ new' = [kn |-> kn + 1, nrmax |-> new.nrmax, hcod |-> h, rnom |-> [r EXCEPT ![kn] = n]]
  <2>1. [r EXCEPT ![kn] = n] = r
    BY <1>2, <1>5, <1>8
  <2>2. Table(h, [r EXCEPT ![kn] = n], L, R, kn)
    BY <1>2, <1>3, <1>4, <2>1, TableSkip
  <2> QED
    BY <1>1, <1>2, <1>8, <2>2, OneMore
<1>9. ASSUME n # Erased
      PROVE  n \in Names /\ \A j \in 1..R : r[j] # n
  <2>1. n \in Names
    BY <1>7, <1>9
  <2>2. ASSUME NEW j \in 1..R, r[j] = n PROVE FALSE
    <3>1. j < kn /\ rnom[c][j] = n
      BY <1>2, <1>9, <2>2
    <3>2. j \in 1..nremax[c]
      BY <1>2, <3>1
    <3> QED
      BY <1>2, <2>1, <3>1, <3>2 DEF IInv, OnePlace
  <2> QED
    BY <2>1, <2>2
<1>10. ASSUME n # Erased, NEW k \in 0..L - 1
       PROVE  /\ Slot(n, L, k) \in 1..L /\ NewEntry(n, k) = h[Slot(n, L, k)]
              /\ NewStop(n, k) <=> h[Slot(n, L, k)] = 0
  <2>1. Slot(n, L, k) \in 1..L /\ NewEntry(n, k) = h[Slot(n, L, k)]
    BY <1>3, <1>6, <1>9, <1>10, SlotRange DEF NewEntry
  <2>2. ASSUME h[Slot(n, L, k)] # 0 PROVE r[Abs(h[Slot(n, L, k)])] # n
    <3>1. Abs(h[Slot(n, L, k)]) \in 1..R
      BY <1>2, <1>4, <1>5, <2>1, <2>2, SMTT(30) DEF Abs
    <3> QED
      BY <1>9, <1>10, <3>1
  <2> QED
    BY <2>1, <2>2 DEF NewStop
<1>11. ASSUME n # Erased
       PROVE  \E k \in 0..L - 1 : NewStop(n, k)
  <2>1. PICK s \in 1..L : h[s] = 0
    BY <1>2, <1>3, <1>4, TableEmptySlot
  <2>2. PICK k \in 0..L - 1 : Slot(n, L, k) = s
    BY <1>3, <1>9, <1>11, SlotRange
  <2> QED
    BY <1>10, <1>11, <2>1, <2>2
<1>12. ASSUME n # Erased, phase' = phase, NEW k \in 0..L - 1,
              NewFirst(n, k), NewEntry(n, k) = 0,
              new' = [kn |-> kn + 1, nrmax |-> new.nrmax,
                      hcod |-> [h EXCEPT ![Slot(n, L, k)] = kn], rnom |-> [r EXCEPT ![kn] = n]]
       PROVE  IInv' /\ Same
  <2>1. h[Slot(n, L, k)] = 0 /\ Slot(n, L, k) \in 1..L
    BY <1>10, <1>12
  <2>2. \A q \in 0..k - 1 : h[Slot(n, L, q)] # 0 /\ Slot(n, L, q) # Slot(n, L, k)
    <3>1. \A q \in 0..k - 1 : q \in 0..L - 1
      BY <1>4
    <3> QED
      BY <1>10, <1>12, <2>1, <3>1 DEF NewFirst
  <2>3. Table([h EXCEPT ![Slot(n, L, k)] = kn], [r EXCEPT ![kn] = n], L, R, kn)
    <3>1. kn = (kn - 1) + 1 /\ kn \in 0..R /\ kn \in 1..R
      BY <1>2, <1>4
    <3>2. n \in Names /\ \A j \in 1..R : r[j] # n
      BY <1>9, <1>12
    <3> HIDE DEF c, kn, n, R, L, h, r
    <3> QED
      BY <1>2, <1>3, <1>4, <2>1, <2>2, <3>1, <3>2, TableInsert
  <2>4. \A s \in 1..L : [h EXCEPT ![Slot(n, L, k)] = kn][s] >= 0
    BY <1>2, <1>5, <2>1
  <2> QED
    BY <1>1, <1>2, <1>12, <2>3, <2>4, OneMore
<1>13. ASSUME n # Erased, NEW k \in 0..L - 1, NewFirst(n, k) PROVE NewEntry(n, k) = 0
  BY <1>10, <1>13 DEF NewFirst
<1>14. kn <= new.nrmax
  BY <1>2
<1>15. CASE /\ n # Erased
            /\ \E k \in 0..L - 1 : NewFirst(n, k) /\ NewEntry(n, k) # 0
  BY <1>13, <1>15
<1>16. CASE /\ n # Erased
            /\ \/ \A k \in 0..L - 1 : ~NewStop(n, k)
               \/ kn > new.nrmax
  BY <1>2, <1>11, <1>14, <1>16
<1>17. CASE /\ n # Erased /\ phase' = phase
            /\ \E k \in 0..L - 1 :
                  /\ NewFirst(n, k) /\ NewEntry(n, k) = 0
                  /\ new' = [kn |-> kn + 1, nrmax |-> new.nrmax,
                             hcod |-> [h EXCEPT ![Slot(n, L, k)] = kn],
                             rnom |-> [r EXCEPT ![kn] = n]]
  BY <1>12, <1>17
<1> QED
  BY <1>6, <1>8, <1>15, <1>16, <1>17 DEF JjarepName

-----------------------------------------------------------------------------
(* The new tables hold what the old ones held.                              *)
At(n, c, j) == j \in 1..nremax[c] /\ rnom[c][j] = n
SamePlaces  == \A n \in Names, c \in Bases : \A j \in Nat : At(n, c, j)' <=> At(n, c, j)

(* The new tables of jjarep, put in place of the old ones, agree, and every *)
(* name has the identifier it had.                                          *)
LEMMA JjarepEndAgrees ==
    ASSUME IInv, JjarepEnd PROVE IInv' /\ SamePlaces
<1> DEFINE c == req.iclas
           R == 2 * nremax[c]
           L == jjprem(jprem, R)
           h == new.hcod
           r == new.rnom
           u == nreuti[c]
<1>1. /\ phase = "jjarep" /\ new.kn > nremax[c]
      /\ nremax' = [nremax EXCEPT ![c] = new.nrmax]
      /\ nrhcod' = [nrhcod EXCEPT ![c] = Len(h)]
      /\ hcod' = [hcod EXCEPT ![c] = h]
      /\ rnom' = [rnom EXCEPT ![c] = r]
      /\ type' = [type EXCEPT ![c] = [j \in 1..new.nrmax |->
                                         IF j <= u THEN type[c][j] ELSE NoType]]
      /\ phase' = "encore" /\ UNCHANGED <<nreuti, last, req>>
  BY DEF JjarepEnd
<1>2. /\ c \in Bases /\ Filling /\ req.nom \in Names /\ req.type \in Types
  BY <1>1 DEF IInv, ControlAgrees
<1>3. /\ nremax[c] \in Nat /\ 1 <= nremax[c] /\ nremax[c] <= MaxNames /\ u \in 0..nremax[c]
      /\ Table(hcod[c], rnom[c], nrhcod[c], nremax[c], u)
  BY <1>2, BaseFacts, CatalogAssumption DEF IInv, Filling, SizesAgree
<1>4. new.kn = nremax[c] + 1 /\ new.nrmax = R /\ R \in Nat /\ MaxNames \in Nat
  BY <1>1, <1>2, <1>3, CatalogAssumption, SMTT(30) DEF Filling
<1>5. /\ Table(h, r, L, R, nremax[c])
      /\ \A s \in 1..L : h[s] >= 0
      /\ \A j \in 1..R : r[j] = IF j <= nremax[c] THEN rnom[c][j] ELSE Erased
  <2>1. Table(h, r, L, R, new.kn - 1) /\ new.kn - 1 = nremax[c]
    BY <1>2, <1>3, <1>4 DEF Filling
  <2> QED
    BY <1>2, <1>3, <1>4, <2>1 DEF Filling
<1>6. Length(L, R)
  BY <1>3, <1>4 DEF Length
<1>7. L \in Nat
  BY <1>6, Lengths
<1>8. /\ h \in [1..L -> -nremax[c]..nremax[c]]
      /\ \A s \in 1..L : h[s] \in Int /\ h[s] <= nremax[c]
  <2>1. h \in [1..L -> -nremax[c]..nremax[c]]
    BY <1>5 DEF Table
  <2> HIDE DEF L, h, c
  <2> QED
    BY <1>3, <2>1
<1>9. Len(h) = L
  <2>1. h \in Seq(Int) /\ DOMAIN h = 1..L
    BY <1>7, <1>8
  <2> QED
    BY <1>7, <2>1
<1>10. \A s \in 1..L : h[s] \in 0..u
  <2> SUFFICES ASSUME NEW s \in 1..L, h[s] > u PROVE FALSE
    BY <1>3, <1>5, <1>8
  <2>1. h[s] \in 1..nremax[c] /\ h[s] \in 1..R /\ h[s] > 0
    <3> HIDE DEF L, h, c, u
    <3> QED
      BY <1>3, <1>4, <1>8 DEF R
  <2>2. r[h[s]] \in Names
    BY <1>5, <2>1 DEF Table
  <2>3. rnom[c][h[s]] \in Names
    BY <1>5, <2>1, <2>2
  <2>4. PICK t \in 1..nrhcod[c] : hcod[c][t] = h[s]
    BY <1>3, <2>1, <2>3 DEF Table
  <2>5. hcod[c][t] \in -u..u
    BY <1>3 DEF Table
  <2> QED
    BY <1>3, <2>1, <2>4, <2>5
<1>11. Table(h, r, L, R, u)
  <2>1. h \in [1..L -> -u..u]
    <3> HIDE DEF L, h, c, u
    <3>1. \A s \in 1..L : h[s] \in -u..u
      BY <1>3, <1>10
    <3> QED
      BY <1>8, <3>1
  <2> QED
    BY <1>5, <2>1 DEF Table
<1>12. /\ hcod'[c] = h /\ rnom'[c] = r /\ nremax'[c] = R /\ nrhcod'[c] = L
       /\ type'[c] = [j \in 1..R |-> IF j <= u THEN type[c][j] ELSE NoType]
       /\ \A d \in Bases \ {c} : /\ hcod'[d] = hcod[d] /\ rnom'[d] = rnom[d]
                                 /\ type'[d] = type[d] /\ nremax'[d] = nremax[d]
                                 /\ nrhcod'[d] = nrhcod[d]
       /\ ByBase(hcod)' /\ ByBase(rnom)' /\ ByBase(type)'
  BY <1>1, <1>2, <1>4, <1>9 DEF IInv, TablesAgree, SizesAgree, ByBase
<1>13. SizesAgree'
  <2>1. nremax' \in [Bases -> 1..2 * MaxNames]
    <3>1. R \in 1..2 * MaxNames
      BY <1>6 DEF Length
    <3> HIDE DEF R, c
    <3> QED
      BY <1>1, <1>4, <3>1 DEF IInv, SizesAgree
  <2>2. nrhcod' = [d \in Bases |-> jjprem(jprem, nremax'[d])]
    <3> HIDE DEF c, L, R
    <3>1. nrhcod' = [d \in Bases |-> IF d = c THEN L ELSE nrhcod[d]]
      BY <1>1, <1>9 DEF IInv, SizesAgree, c
    <3>2. \A d \in Bases : nremax'[d] = IF d = c THEN R ELSE nremax[d]
      BY <1>12
    <3> QED
      BY <3>1, <3>2 DEF IInv, SizesAgree, L
  <2>3. \A d \in Bases : nreuti[d] <= nremax'[d]
    <3>1. u <= R
      BY <1>3
    <3> HIDE DEF R, c
    <3>2. \A d \in Bases : d # c => nremax'[d] = nremax[d]
      BY <1>12
    <3> QED
      BY <1>12, <3>1, <3>2 DEF IInv, SizesAgree
  <2> QED
    BY <1>1, <2>1, <2>2, <2>3 DEF IInv, SizesAgree
<1>14. TablesAgree'
  <2>1. type[c] \in [1..nremax[c] -> Types \cup {NoType}]
    BY <1>2 DEF IInv, TablesAgree
  <2>2. type'[c] \in [1..R -> Types \cup {NoType}]
    BY <1>3, <1>4, <1>12, <2>1
  <2>3. ASSUME NEW d \in Bases
        PROVE  /\ Table(hcod'[d], rnom'[d], nrhcod'[d], nremax'[d], nreuti'[d])
               /\ type'[d] \in [1..nremax'[d] -> Types \cup {NoType}]
    <3>1. CASE d = c
      BY <1>1, <1>11, <1>12, <2>2, <3>1
    <3>2. CASE d # c
      BY <1>1, <1>12, <3>2 DEF IInv, TablesAgree
    <3> QED
      BY <3>1, <3>2
  <2> QED
    BY <1>12, <2>3 DEF TablesAgree
<1>15. \A n \in Names, d \in Bases : \A j \in Nat :
          (j \in 1..nremax'[d] /\ rnom'[d][j] = n) <=> (j \in 1..nremax[d] /\ rnom[d][j] = n)
  <2> SUFFICES ASSUME NEW n \in Names, NEW d \in Bases, NEW j \in Nat
               PROVE  (j \in 1..nremax'[d] /\ rnom'[d][j] = n)
                        <=> (j \in 1..nremax[d] /\ rnom[d][j] = n)
    OBVIOUS
  <2>1. CASE d # c
    BY <1>12, <2>1
  <2>2. CASE d = c
    <3>1. n # Erased
      BY CatalogAssumption
    <3>2. j \in 1..R <=> j \in 1..nremax[c] \/ (j \in 1..R /\ ~(j <= nremax[c]))
      BY <1>3
    <3>3. j \in 1..nremax[c] => j \in 1..R /\ j <= nremax[c]
      BY <1>3
    <3> HIDE DEF R, c, r
    <3> QED
      BY <1>5, <1>12, <2>2, <3>1, <3>2, <3>3
  <2> QED
    BY <2>1, <2>2
<1>16. OnePlace'
  <2>1. \A d \in Bases : 1..nremax'[d] \subseteq Nat
    BY <1>13 DEF SizesAgree
  <2> QED
    BY <1>15, <2>1 DEF IInv, OnePlace
<1>17. LastAgrees'
  <2>1. CASE last.nomos = Unknown
    BY <1>1, <2>1 DEF IInv, LastAgrees
  <2>2. CASE last.nomos # Unknown
    <3>1. last.nomos \in Names
      BY <2>2 DEF IInv, LastAgrees
    <3>2. PICK d \in Bases : \E j \in 1..nremax[d] :
                 last.place = <<d, j>> /\ rnom[d][j] = last.nomos
      BY <2>2 DEF IInv, LastAgrees
    <3>3. PICK j \in 1..nremax[d] : last.place = <<d, j>> /\ rnom[d][j] = last.nomos
      BY <3>2
    <3>4. j \in Nat
      BY <3>3, BaseFacts DEF IInv
    <3>5. j \in 1..nremax'[d] /\ rnom'[d][j] = last.nomos
      BY <1>15, <3>1, <3>3, <3>4
    <3> QED
      BY <1>1, <3>3, <3>5 DEF IInv, LastAgrees
  <2> QED
    BY <2>1, <2>2
<1>18. ControlAgrees'
  BY <1>1, <1>2 DEF ControlAgrees
<1>19. SamePlaces
  BY <1>15 DEF SamePlaces, At
<1> QED
  BY <1>13, <1>14, <1>16, <1>17, <1>18, <1>19 DEF IInv

-----------------------------------------------------------------------------
(* No memory for jjarep: the catalogue is what it was.                      *)
LEMMA JjarepFailsAgrees ==
    ASSUME IInv, JjarepFails PROVE IInv' /\ Same
<1>1. SizesAgree' /\ TablesAgree' /\ OnePlace' /\ LastAgrees' /\ Same
  BY SameTables, SameLast DEF JjarepFails, IInv, table, Same
<1>2. ControlAgrees'
  BY DEF JjarepFails, Idle, ControlAgrees
<1> QED
  BY <1>1, <1>2 DEF IInv

(* The second turn of jjcren, with the name that was asked for.             *)
LEMMA JjcrenEncoreAgrees ==
    ASSUME IInv, JjcrenEncore
    PROVE  IInv' /\ ((\E n \in Names, c \in Bases : Inserted(n, c)) \/ Same)
<1>1. req.nom \in Names /\ req.iclas \in Bases /\ req.type \in Types
  BY DEF IInv, ControlAgrees, JjcrenEncore
<1> QED
  BY <1>1, CreationAgrees DEF JjcrenEncore

-----------------------------------------------------------------------------
(* Accesses and destruction.                                                *)

(* A search gives the place, where the name is, or nothing.                 *)
LEMMA SearchCases ==
    ASSUME SizesAgree, TablesAgree, OnePlace, NEW n \in Names
    PROVE  \/ /\ Search(n) = Unknown /\ Registered(n) = Unknown
              /\ \A c \in Bases : \A j \in 1..nremax[c] : rnom[c][j] # n
           \/ \E c \in Bases : \E j \in 1..nremax[c] :
                 /\ rnom[c][j] = n
                 /\ Search(n) = <<c, j>> /\ Registered(n) = <<c, j>> /\ <<c, j>> # Unknown
<1>1. CASE \A c \in Bases : \A j \in 1..nremax[c] : rnom[c][j] # n
  BY <1>1, SearchOfNoName
<1>2. ASSUME NEW c \in Bases, NEW j \in 1..nremax[c], rnom[c][j] = n
      PROVE  Search(n) = <<c, j>> /\ Registered(n) = <<c, j>> /\ <<c, j>> # Unknown
  <2>1. j \in 1..2 * MaxNames
    BY CatalogAssumption DEF SizesAgree
  <2> QED
    BY <1>2, <2>1, SearchOfName, CatalogAssumption
<1> QED
  BY <1>1, <1>2

(* An access remembers the place where the search found the name.           *)
LEMMA JeexinAgrees ==
    ASSUME IInv, NEW n \in Names, Jeexin(n) PROVE IInv' /\ Same
<1>1. /\ last' = IF jjvern(n) = Unknown THEN last ELSE [nomos |-> n, place |-> jjvern(n)]
      /\ UNCHANGED <<table, phase, req, new>>
  BY DEF Jeexin
<1>2. SizesAgree' /\ TablesAgree' /\ OnePlace' /\ Same /\ ControlAgrees'
  BY <1>1, SameTables DEF IInv, table, Same, ControlAgrees, Filling
<1>3. UNCHANGED <<rnom, nremax>>
  BY <1>1 DEF table
<1>4. CASE last' = last
  BY <1>2, <1>3, <1>4, SameLast DEF IInv
<1>5. CASE jjvern(n) # Unknown /\ last.nomos = n
  <2>1. last' = [nomos |-> n, place |-> last.place]
    BY <1>1, <1>5 DEF jjvern
  <2>2. last' = last
    BY <1>5, <2>1 DEF IInv, LastAgrees
  <2> QED
    BY <1>4, <2>2
<1>6. CASE jjvern(n) # Unknown /\ last.nomos # n
  <2>1. last' = [nomos |-> n, place |-> Search(n)] /\ Search(n) # Unknown
    BY <1>1, <1>6 DEF jjvern
  <2>2. PICK c \in Bases : \E j \in 1..nremax[c] : rnom[c][j] = n /\ Search(n) = <<c, j>>
    BY <2>1, SearchCases DEF IInv
  <2>3. PICK j \in 1..nremax[c] : rnom[c][j] = n /\ Search(n) = <<c, j>>
    BY <2>2
  <2>4. LastAgrees'
    BY <1>2, <1>3, <2>1, <2>3, LastFound
  <2> QED
    BY <1>2, <2>4 DEF IInv
<1> QED
  BY <1>1, <1>4, <1>5, <1>6

(* The name that is destroyed loses its place, and no other one.            *)
Removed(n) == \E c \in Bases : \E j \in 1..nremax[c] :
                 /\ rnom[c][j] = n
                 /\ rnom' = [rnom EXCEPT ![c][j] = Erased]
                 /\ nremax' = nremax

(* jedetr finds the name, leaves its slot in use and forgets the last name. *)
LEMMA JedetrAgrees ==
    ASSUME IInv, NEW n \in Names, Jedetr(n) PROVE IInv' /\ Removed(n)
<1>1. Search(n) # Unknown
  <2> SUFFICES ASSUME Search(n) = Unknown PROVE FALSE
    OBVIOUS
  <2>1. last.nomos = n
    BY DEF Jedetr
  <2>2. \E c \in Bases : \E j \in 1..nremax[c] : rnom[c][j] = n
    BY <2>1, CatalogAssumption DEF IInv, LastAgrees
  <2> QED
    BY <2>2, SearchCases DEF IInv
<1>2. PICK c \in Bases : \E j \in 1..nremax[c] : rnom[c][j] = n /\ Search(n) = <<c, j>>
  BY <1>1, SearchCases DEF IInv
<1>3. PICK j \in 1..nremax[c] : rnom[c][j] = n /\ Search(n) = <<c, j>>
  BY <1>2
<1> DEFINE L == nrhcod[c]
           R == nremax[c]
           u == nreuti[c]
<1> DEFINE p == Search(n)
<1>4. /\ \E k \in Probes(p[1]) :
            /\ Found(n, p[1], k, FALSE)
            /\ hcod' = [hcod EXCEPT ![p[1]][Slot(n, nrhcod[p[1]], k)] = -Entry(n, p[1], k)]
            /\ rnom' = [rnom EXCEPT ![p[1]][Entry(n, p[1], k)] = Erased]
      /\ type' = [type EXCEPT ![p[1]][p[2]] = NoType]
      /\ last' = NoLast
      /\ UNCHANGED <<nremax, nrhcod, nreuti, phase, req, new>>
      /\ phase = "repos"
  <2>1. (IF p = Unknown THEN last.place ELSE p) = p
    BY <1>1
  <2> QED
    BY <1>1, <2>1, Zenon DEF Jedetr, Oubli
<1>5. p[1] = c /\ p[2] = j
  BY <1>3
<1>6. PICK k \in Probes(c) :
          /\ Found(n, c, k, FALSE)
          /\ hcod' = [hcod EXCEPT ![c][Slot(n, L, k)] = -Entry(n, c, k)]
          /\ rnom' = [rnom EXCEPT ![c][Entry(n, c, k)] = Erased]
  BY <1>4, <1>5
<1>7. /\ type' = [type EXCEPT ![c][j] = NoType]
       /\ last' = NoLast
       /\ UNCHANGED <<nremax, nrhcod, nreuti, phase, req, new>>
       /\ phase = "repos"
  BY <1>4, <1>5
<1> DEFINE s == Slot(n, L, k)
<1>8. s \in 1..L /\ hcod[c][s] = j /\ Entry(n, c, k) = j
  <2>1. s \in 1..L /\ Entry(n, c, k) \in 1..R /\ rnom[c][Entry(n, c, k)] = n
    BY <1>6, HitIsName DEF IInv, Found
  <2> QED
    BY <1>3, <2>1 DEF IInv, OnePlace, Entry
<1>9. /\ Length(L, R) /\ u \in 0..R /\ L \in Nat /\ R \in Nat
      /\ Table(hcod[c], rnom[c], L, R, u)
  BY BaseFacts DEF IInv
<1>10. Table([hcod[c] EXCEPT ![s] = -j], [rnom[c] EXCEPT ![j] = Erased], L, R, u)
  <2>1. hcod[c][s] > 0
    BY <1>8, <1>9
  <2> HIDE DEF L, R, u, s
  <2> QED
    BY <1>8, <1>9, <2>1, TableErase
<1>11. /\ hcod' = [hcod EXCEPT ![c][s] = -j] /\ rnom' = [rnom EXCEPT ![c][j] = Erased]
  BY <1>6, <1>8
<1>12. /\ hcod'[c] = [hcod[c] EXCEPT ![s] = -j]
       /\ rnom'[c] = [rnom[c] EXCEPT ![j] = Erased]
       /\ type'[c] = [type[c] EXCEPT ![j] = NoType]
  BY <1>7, <1>11 DEF IInv, TablesAgree, ByBase
<1>13. \A d \in Bases \ {c} : /\ hcod'[d] = hcod[d] /\ rnom'[d] = rnom[d]
                              /\ type'[d] = type[d]
  BY <1>7, <1>11 DEF IInv, TablesAgree, ByBase
<1>14. ByBase(hcod)' /\ ByBase(rnom)' /\ ByBase(type)'
  BY <1>7, <1>11 DEF IInv, TablesAgree, ByBase
<1>15. SizesAgree'
  BY <1>7 DEF IInv, SizesAgree
<1>16. TablesAgree'
  <2>1. type[c] \in [1..R -> Types \cup {NoType}]
    BY DEF IInv, TablesAgree
  <2>2. type'[c] \in [1..R -> Types \cup {NoType}]
    BY <1>12, <2>1
  <2>3. ASSUME NEW d \in Bases
        PROVE  /\ Table(hcod'[d], rnom'[d], nrhcod[d], nremax[d], nreuti[d])
               /\ type'[d] \in [1..nremax[d] -> Types \cup {NoType}]
    <3>1. CASE d = c
      BY <1>10, <1>12, <2>2, <3>1
    <3>2. CASE d # c
      BY <1>13, <3>2 DEF IInv, TablesAgree
    <3> QED
      BY <3>1, <3>2
  <2> QED
    BY <1>7, <1>14, <2>3 DEF TablesAgree
<1>17. rnom'[c][j] = Erased /\ \A i \in 1..R : i # j => rnom'[c][i] = rnom[c][i]
  BY <1>9, <1>12 DEF Table
<1>18. OnePlace'
  <2>1. \A m \in Names, d \in Bases : \A i \in 1..nremax[d] :
            rnom'[d][i] = m => rnom[d][i] = m
    BY <1>13, <1>17, CatalogAssumption
  <2> QED
    BY <1>7, <2>1 DEF IInv, OnePlace
<1>19. LastAgrees' /\ ControlAgrees'
  BY <1>7, LastForgotten DEF ControlAgrees
<1>20. Removed(n)
  BY <1>3, <1>7, <1>11 DEF Removed
<1> QED
  BY <1>15, <1>16, <1>18, <1>19, <1>20 DEF IInv

-----------------------------------------------------------------------------
(* The theorems.                                                            *)

(* What a step of the catalogue does to the names.                          *)
Step == \/ Same \/ SamePlaces
        \/ \E n \in Names : Removed(n) \/ \E c \in Bases : Inserted(n, c)

(* Every step keeps the invariant.                                          *)
LEMMA StepAgrees == IInv /\ [Next]_vars => IInv' /\ Step
<1> SUFFICES ASSUME IInv, [Next]_vars PROVE IInv' /\ Step
  OBVIOUS
<1>1. CASE UNCHANGED vars
  <2>1. UNCHANGED <<table, last, phase, req, new, rnom, nremax>>
    BY <1>1 DEF vars, table
  <2>2. SizesAgree' /\ TablesAgree' /\ OnePlace' /\ LastAgrees'
    BY <2>1, SameTables, SameLast DEF IInv
  <2>3. ControlAgrees'
    BY <2>1 DEF IInv, ControlAgrees, Filling
  <2> QED
    BY <2>1, <2>2, <2>3 DEF IInv, Step, Same
<1>2. ASSUME NEW n \in Names, NEW c \in Bases, NEW t \in Types, Jecreo(n, c, t)
      PROVE  IInv' /\ Step
  BY <1>2, JecreoAgrees DEF Step
<1>3. ASSUME NEW n \in Names, Jeexin(n) PROVE IInv' /\ Step
  BY <1>3, JeexinAgrees DEF Step
<1>4. ASSUME NEW n \in Names, Jedetr(n) PROVE IInv' /\ Step
  BY <1>4, JedetrAgrees DEF Step
<1>5. CASE JjarepName
  BY <1>5, JjarepNameAgrees DEF Step
<1>6. CASE JjarepEnd
  BY <1>6, JjarepEndAgrees DEF Step
<1>7. CASE JjcrenEncore
  BY <1>7, JjcrenEncoreAgrees DEF Step
<1>8. CASE JjarepFails
  BY <1>8, JjarepFailsAgrees DEF Step
<1> QED
  BY <1>1, <1>2, <1>3, <1>4, <1>5, <1>6, <1>7, <1>8 DEF Next, Jjarep, Stopped

(* Tables, names, the last name found and the tables being filled agree in  *)
(* every state that jecreo, jedetr, jjarep and the accesses reach.          *)
THEOREM Invariant == Spec => []IInv
<1>1. IInv /\ [Next]_vars => IInv'
  BY StepAgrees
<1> QED
  BY <1>1, InitAgrees, PTL DEF Spec

(* The types and sizes of the tables of jjcren and jjarep.                  *)
THEOREM TypeCorrect == Spec => []TypeOK
<1>1. IInv => TypeOK
  <2> SUFFICES ASSUME IInv PROVE TypeOK
    OBVIOUS
  <2>1. nremax \in [Bases -> Nat] /\ nreuti \in [Bases -> Nat]
    BY CatalogAssumption DEF IInv, SizesAgree
  <2>2. nrhcod \in [Bases -> Nat]
    BY CatalogAssumption DEF IInv, SizesAgree
  <2>3. \A c \in Bases :
          /\ nreuti[c] <= nremax[c]
          /\ hcod[c] \in [1..nrhcod[c] -> -nreuti[c]..nreuti[c]]
          /\ rnom[c] \in [1..nremax[c] -> Names \cup {Erased}]
          /\ type[c] \in [1..nremax[c] -> Types \cup {NoType}]
    BY DEF IInv, SizesAgree, TablesAgree, Table
  <2> QED
    BY <2>1, <2>2, <2>3 DEF IInv, LastAgrees, ControlAgrees, TypeOK
<1> QED
  BY <1>1, Invariant, PTL

(* jjcren: in every state, also while jjarep rebuilds a table, the search   *)
(* gives the place of each name that is in the catalogue and finds no other.*)
THEOREM SearchIsAlwaysRight == Spec => []SearchIsRight
<1>1. IInv => SearchIsRight
  BY SearchCases DEF IInv, SearchIsRight
<1> QED
  BY <1>1, Invariant, PTL

(* jjvern: the place kept for the last name found is the one a search would *)
(* give.                                                                    *)
THEOREM LastIsAlwaysFresh == Spec => []LastIsFresh
<1>1. IInv => LastIsFresh
  <2> SUFFICES ASSUME IInv, last.nomos # Unknown PROVE last.place = Registered(last.nomos)
    BY DEF LastIsFresh
  <2>1. last.nomos \in Names
    BY DEF IInv, LastAgrees
  <2>2. PICK c \in Bases : \E j \in 1..nremax[c] :
               last.place = <<c, j>> /\ rnom[c][j] = last.nomos
    BY DEF IInv, LastAgrees
  <2> QED
    BY <2>1, <2>2, SearchOfName DEF IInv
<1> QED
  BY <1>1, Invariant, PTL

(* jjcren: a search for a name that is not there ends at an empty slot.     *)
THEOREM AnEmptySlotIsLeft == Spec => []EmptySlotLeft
<1>1. IInv => EmptySlotLeft
  <2> SUFFICES ASSUME IInv, NEW c \in Bases, NEW n \in Names PROVE ~Full(n, c)
    BY DEF EmptySlotLeft
  <2>1. Length(nrhcod[c], nremax[c]) /\ nreuti[c] \in 0..nremax[c]
        /\ Table(hcod[c], rnom[c], nrhcod[c], nremax[c], nreuti[c])
    BY BaseFacts DEF IInv
  <2>2. PICK s \in 1..nrhcod[c] : hcod[c][s] = 0
    BY <2>1, TableEmptySlot
  <2>3. PICK k \in 0..nrhcod[c] - 1 : Slot(n, nrhcod[c], k) = s
    BY <2>1, SlotRange
  <2> QED
    BY <2>2, <2>3 DEF Full, Probes, Entry
<1> QED
  BY <1>1, Invariant, PTL

(* jjarep: every rebuilding finds a slot for each name, and no name twice.  *)
THEOREM RebuildAlwaysSucceeds == Spec => []RebuildSucceeds
<1>1. IInv => RebuildSucceeds
  BY DEF IInv, ControlAgrees, RebuildSucceeds
<1> QED
  BY <1>1, Invariant, PTL

-----------------------------------------------------------------------------
(* The refinement. Registered as a function of the tables, so that it can   *)
(* be used after a step as before it.                                       *)
Reg(r, m, n) ==
    LET P == UNION {{<<c, j>> : j \in {i \in 1..m[c] : r[c][i] = n}} : c \in Bases}
    IN  IF P = {} THEN Unknown ELSE CHOOSE p \in P : TRUE

IsAt(r, m, n, p) == \E c \in Bases : \E j \in 1..m[c] : p = <<c, j>> /\ r[c][j] = n

(* Reg gives the one place where the name is, or none.                      *)
LEMMA RegCases ==
    ASSUME NEW r, NEW m, NEW n \in Names,
           \A c, d \in Bases : \A i \in 1..m[c], j \in 1..m[d] :
               r[c][i] = n /\ r[d][j] = n => c = d /\ i = j
    PROVE  /\ \A p : IsAt(r, m, n, p) => Reg(r, m, n) = p
           /\ (\A p : ~IsAt(r, m, n, p)) => Reg(r, m, n) = Unknown
<1> DEFINE P == UNION {{<<c, j>> : j \in {i \in 1..m[c] : r[c][i] = n}} : c \in Bases}
<1>1. \A p : p \in P <=> IsAt(r, m, n, p)
  BY DEF IsAt
<1>2. \A p, q : IsAt(r, m, n, p) /\ IsAt(r, m, n, q) => p = q
  BY DEF IsAt
<1>3. Reg(r, m, n) = IF P = {} THEN Unknown ELSE CHOOSE p \in P : TRUE
  BY DEF Reg
<1> HIDE DEF P
<1> QED
  BY <1>1, <1>2, <1>3

(* The place of a name before a step.                                       *)
LEMMA RegOfState ==
    ASSUME IInv, NEW n \in Names
    PROVE  /\ Registered(n) = Reg(rnom, nremax, n)
           /\ \A p : IsAt(rnom, nremax, n, p) => Reg(rnom, nremax, n) = p
           /\ (\A p : ~IsAt(rnom, nremax, n, p)) => Reg(rnom, nremax, n) = Unknown
           /\ \A p : IsAt(rnom, nremax, n, p) => p \in Bases \X (1..2 * MaxNames) /\ p # Unknown
<1>1. Registered(n) = Reg(rnom, nremax, n)
  BY DEF Registered, Places, Reg
<1>2. /\ \A p : IsAt(rnom, nremax, n, p) => Reg(rnom, nremax, n) = p
      /\ (\A p : ~IsAt(rnom, nremax, n, p)) => Reg(rnom, nremax, n) = Unknown
  <2>1. \A c, d \in Bases : \A i \in 1..nremax[c], j \in 1..nremax[d] :
            rnom[c][i] = n /\ rnom[d][j] = n => c = d /\ i = j
    BY DEF IInv, OnePlace
  <2> QED
    BY <2>1, RegCases
<1>3. \A p : IsAt(rnom, nremax, n, p) => p \in Bases \X (1..2 * MaxNames)
  BY CatalogAssumption DEF IInv, SizesAgree, IsAt
<1> QED
  BY <1>1, <1>2, <1>3, CatalogAssumption

(* The place of a name after a step.                                        *)
LEMMA RegAfterStep ==
    ASSUME IInv', NEW n \in Names
    PROVE  /\ Registered(n)' = Reg(rnom', nremax', n)
           /\ \A p : IsAt(rnom', nremax', n, p) => Reg(rnom', nremax', n) = p
           /\ (\A p : ~IsAt(rnom', nremax', n, p)) => Reg(rnom', nremax', n) = Unknown
<1>1. Registered(n)' = Reg(rnom', nremax', n)
  BY DEF Registered, Places, Reg
<1>2. \A c, d \in Bases : \A i \in 1..nremax'[c], j \in 1..nremax'[d] :
          rnom'[c][i] = n /\ rnom'[d][j] = n => c = d /\ i = j
  BY DEF IInv, OnePlace
<1> QED
  BY <1>1, <1>2, RegCases

(* A name whose places are those it had keeps its place.                    *)
LEMMA RegIsKept ==
    ASSUME IInv, IInv', NEW n \in Names,
           \A p : IsAt(rnom', nremax', n, p) <=> IsAt(rnom, nremax, n, p)
    PROVE  Registered(n)' = Registered(n)
BY RegOfState, RegAfterStep

(* jjcren gives the new name a place that no other name has.                *)
LEMMA InsertedRegisters ==
    ASSUME IInv, IInv', NEW n \in Names, NEW c \in Bases, Inserted(n, c)
    PROVE  Promise!Next
<1>1. PICK i \in 1..nremax[c] : Writes(n, c, i)
  BY DEF Inserted
<1>2. /\ rnom[c][i] = Erased /\ rnom' = [rnom EXCEPT ![c][i] = n] /\ nremax' = nremax
  BY <1>1 DEF Writes
<1>3. /\ rnom'[c][i] = n
      /\ \A j \in 1..nremax[c] : j # i => rnom'[c][j] = rnom[c][j]
      /\ \A d \in Bases \ {c} : rnom'[d] = rnom[d]
  BY <1>2, BaseFacts DEF IInv, TablesAgree, ByBase, Table
<1>4. Registered(n) = Unknown
  BY RegOfState DEF Inserted, IsAt
<1>5. Registered(n)' = <<c, i>>
  <2>1. IsAt(rnom', nremax', n, <<c, i>>)
    BY <1>2, <1>3 DEF IsAt
  <2> QED
    BY <2>1, RegAfterStep
<1>6. \A m \in Names \ {n} : Registered(m)' = Registered(m)
  <2> SUFFICES ASSUME NEW m \in Names \ {n} PROVE Registered(m)' = Registered(m)
    OBVIOUS
  <2>1. \A p : IsAt(rnom', nremax', m, p) <=> IsAt(rnom, nremax, m, p)
    BY <1>2, <1>3, CatalogAssumption DEF IsAt
  <2> QED
    BY <2>1, RegIsKept
<1>7. <<c, i>> \in Bases \X (1..2 * MaxNames)
  BY CatalogAssumption DEF IInv, SizesAgree
<1>8. \A m \in Names : Registered(m) # <<c, i>>
  <2> SUFFICES ASSUME NEW m \in Names, Registered(m) = <<c, i>> PROVE FALSE
    OBVIOUS
  <2>1. <<c, i>> # Unknown
    BY <1>7, CatalogAssumption
  <2>2. IsAt(rnom, nremax, m, <<c, i>>)
    BY <2>1, RegOfState
  <2>3. rnom[c][i] = m
    BY <2>2 DEF IsAt
  <2> QED
    BY <1>2, <2>3, CatalogAssumption
<1>9. Registry' = [Registry EXCEPT ![n] = <<c, i>>] /\ Registry[n] = Unknown
      /\ \A m \in Names : Registry[m] # <<c, i>>
  BY <1>4, <1>5, <1>6, <1>8 DEF Registry
<1>10. Promise!Register(n)
  BY <1>7, <1>9 DEF Promise!Register
<1> QED
  BY <1>10 DEF Promise!Next

(* jedetr takes the place of the name, and of no other one.                 *)
LEMMA RemovedForgets ==
    ASSUME IInv, IInv', NEW n \in Names, Removed(n)
    PROVE  Promise!Next
<1>1. PICK c \in Bases : \E j \in 1..nremax[c] :
          /\ rnom[c][j] = n /\ rnom' = [rnom EXCEPT ![c][j] = Erased] /\ nremax' = nremax
  BY DEF Removed
<1>2. PICK j \in 1..nremax[c] :
          /\ rnom[c][j] = n /\ rnom' = [rnom EXCEPT ![c][j] = Erased] /\ nremax' = nremax
  BY <1>1
<1>3. /\ rnom'[c][j] = Erased
      /\ \A i \in 1..nremax[c] : i # j => rnom'[c][i] = rnom[c][i]
      /\ \A d \in Bases \ {c} : rnom'[d] = rnom[d]
  BY <1>2, BaseFacts DEF IInv, TablesAgree, ByBase, Table
<1>4. Registered(n) # Unknown
  <2>1. IsAt(rnom, nremax, n, <<c, j>>)
    BY <1>2 DEF IsAt
  <2> QED
    BY <2>1, RegOfState
<1>5. Registered(n)' = Unknown
  <2>1. \A d \in Bases : \A i \in 1..nremax[d] : rnom'[d][i] # n
    BY <1>2, <1>3, CatalogAssumption DEF IInv, OnePlace
  <2>2. \A p : ~IsAt(rnom', nremax', n, p)
    BY <1>2, <2>1 DEF IsAt
  <2> QED
    BY <2>2, RegAfterStep
<1>6. \A m \in Names \ {n} : Registered(m)' = Registered(m)
  <2> SUFFICES ASSUME NEW m \in Names \ {n} PROVE Registered(m)' = Registered(m)
    OBVIOUS
  <2>1. \A p : IsAt(rnom', nremax', m, p) <=> IsAt(rnom, nremax, m, p)
    BY <1>2, <1>3, CatalogAssumption DEF IsAt
  <2> QED
    BY <2>1, RegIsKept
<1>7. Registry' = [Registry EXCEPT ![n] = Unknown] /\ Registry[n] # Unknown
  <2>1. \A m \in Names : Registered(m)' = IF m = n THEN Unknown ELSE Registered(m)
    BY <1>5, <1>6
  <2> QED
    BY <1>4, <2>1 DEF Registry
<1>8. Promise!Forget(n)
  BY <1>7 DEF Promise!Forget
<1> QED
  BY <1>8 DEF Promise!Next

(* jjcren, jjarep, jedetr: a name has one place, which no other name has,   *)
(* and only its own creation and destruction change it, not the rebuilding  *)
(* of the table.                                                            *)
THEOREM ImplementsNames == Spec => NamesSpec
<1>1. Init => Promise!Init
  <2> SUFFICES ASSUME Init PROVE Promise!Init
    OBVIOUS
  <2>1. \A n \in Names : Registered(n) = Unknown
    <3>1. \A c \in Bases : \A j \in 1..nremax[c] : rnom[c][j] = Erased
      BY DEF Init
    <3> QED
      BY <3>1, InitAgrees, SearchCases, CatalogAssumption DEF IInv
  <2> QED
    BY <2>1 DEF Promise!Init, Registry
<1>2. IInv /\ [Next]_vars => IInv' /\ [Promise!Next]_Registry
  <2> SUFFICES ASSUME IInv, [Next]_vars PROVE IInv' /\ [Promise!Next]_Registry
    OBVIOUS
  <2>1. IInv' /\ Step
    BY StepAgrees
  <2>2. CASE Same \/ SamePlaces
    <3>1. ASSUME NEW n \in Names PROVE Registered(n)' = Registered(n)
      <4>1. CASE Same
        BY <4>1 DEF Same, Registered, Places
      <4>2. CASE SamePlaces
        <5>1. \A c \in Bases : 1..nremax[c] \subseteq Nat /\ 1..nremax'[c] \subseteq Nat
          BY <2>1 DEF IInv, SizesAgree
        <5>2. \A p : IsAt(rnom', nremax', n, p) <=> IsAt(rnom, nremax, n, p)
          BY <4>2, <5>1 DEF SamePlaces, At, IsAt
        <5> QED
          BY <2>1, <5>2, RegIsKept
      <4> QED
        BY <2>2, <4>1, <4>2
    <3>2. Registry' = Registry
      BY <3>1 DEF Registry
    <3> QED
      BY <2>1, <3>2
  <2>3. ASSUME NEW n \in Names, Removed(n) PROVE [Promise!Next]_Registry
    BY <2>1, <2>3, RemovedForgets
  <2>4. ASSUME NEW n \in Names, NEW c \in Bases, Inserted(n, c) PROVE [Promise!Next]_Registry
    BY <2>1, <2>4, InsertedRegisters
  <2> QED
    BY <2>1, <2>2, <2>3, <2>4 DEF Step
<1> QED
  BY <1>1, <1>2, Invariant, PTL DEF Spec, NamesSpec, Promise!Spec

=============================================================================
