---------------------------- MODULE JxDiskProofs ----------------------------
(***************************************************************************)
(* Proofs about JxDisk, for every set of objects and of contents, every    *)
(* length of an object and of a record, and every size of the base, as     *)
(* long as jxecro and jxliro tell small objects from big ones alike.       *)
(***************************************************************************)
EXTENDS JxDisk, FiniteSetTheorems, WellFoundedInduction, TLAPS

(* jxecro and jxliro agree on which objects are small (they compare lengths *)
(* in words and in bytes, and an object on the border is small for jxliro   *)
(* alone: ReadBufferIsSmall does not hold with such an object).             *)
SameTest == \A o \in Objects : PetitLu(o) <=> PetitEcrit(o)

(* The ranges of the fields of a base, in groups that the routines change   *)
(* separately.                                                              *)
Fields == {"classe", "iusadi", "nbdet", "disk", "iadd", "iitlec", "litlec",
           "tlec", "iitecr", "nitecr", "tecr", "nblmax", "nbluti", "nbpeti", "nblim"}

Places == [rec : Records, off : 0..W]
Cells  == [id : Objects, data : Values] \cup {Mort}
IsWords(c) == /\ c = [i \in DOMAIN c |-> c[i]]
              /\ DOMAIN c \subseteq 0..W
              /\ \A i \in DOMAIN c : c[i] \in Cells

SizesOK(b)    == /\ DOMAIN b = Fields
                 /\ b.classe \in Classes
                 /\ b.nblmax \in Nat /\ NbMax <= b.nblmax
                 /\ b.nbluti \in 0..b.nblmax
                 /\ b.nbpeti \in 0..NbLim /\ b.nblim \in {0, NbLim}
TablesOK(b)   == /\ b.iusadi \in [Records -> Objects \cup {Libre, Petits}]
                 /\ b.nbdet \in [Records -> Nat]
                 /\ b.iadd \in [Objects -> Places \cup {Nowhere}]
ContentsOK(b) == /\ DOMAIN b.disk = Records
                 /\ \A k \in Records : IsWords(b.disk[k])
                 /\ IsWords(b.tlec) /\ IsWords(b.tecr)
IndicesOK(b)  == /\ b.iitlec \in 0..MaxRec /\ b.litlec \in BOOLEAN
                 /\ b.iitecr \in 0..MaxRec /\ b.nitecr \in 0..W

Shape(b) == SizesOK(b) /\ TablesOK(b) /\ ContentsOK(b) /\ IndicesOK(b)

(* The buffers hold records of small objects, never the same one, and the   *)
(* read buffer is its record unless it is marked: then not all its objects  *)
(* are destroyed, for the destruction of the last one has marked it, and    *)
(* jerecu, which forgets marked buffers only, does not recover the record.  *)
Alive(w) == \E i \in DOMAIN w : w[i] # Mort
Buffers(b) == /\ b.iitlec # 0 => /\ b.iusadi[b.iitlec] = Petits
                                 /\ b.iitlec # b.iitecr
                                 /\ ~b.litlec => b.tlec = b.disk[b.iitlec] /\ Alive(b.tlec)
              /\ b.litlec => b.iitlec # 0
              /\ b.iitecr # 0 => b.iusadi[b.iitecr] = Petits

(* All the objects of the write buffer are before nitecr.                   *)
Before(w, n) == \A i \in DOMAIN w : /\ i <= n
                                    /\ w[i] # Mort => i + Mots(w[i].id) <= n
Ends(b) == b.iitecr # 0 => Before(b.tecr, b.nitecr) /\ b.nitecr + 3 <= W

(* A record of small objects is a chain, and its destroyed objects are      *)
(* counted.                                                                 *)
Chain(w) == \A i \in DOMAIN w :
              /\ 1 <= i
              /\ w[i] # Mort => /\ i + Mots(w[i].id) + 3 <= W
                                /\ \A j \in DOMAIN w : j > i => j >= i + Mots(w[i].id) + 3
Dead(w) == {i \in DOMAIN w : w[i] = Mort}

Chains(b)  == \A k \in Records : b.iusadi[k] = Petits => Chain(Words(b, k))
Counted(b) == \A k \in Records :
                b.nbdet[k] = IF b.iusadi[k] = Petits THEN Cardinality(Dead(Words(b, k))) ELSE 0

Sound(b) == Shape(b) /\ Buffers(b) /\ Ends(b) /\ Chains(b) /\ Counted(b)

(* The address of o leads to v.                                             *)
HoldsSmall(b, o, v) ==
    LET k == b.iadd[o].rec
        i == b.iadd[o].off
    IN  b.iusadi[k] = Petits /\ i \in DOMAIN Words(b, k) /\ Words(b, k)[i] = Entry(o, v)
HoldsBig(b, o, v) ==
    LET k == b.iadd[o].rec
    IN  /\ b.iadd[o].off = 0 /\ k + Blocs(o) - 1 <= MaxRec
        /\ \A r \in k .. k + Blocs(o) - 1 : b.iusadi[r] = o
        /\ 0 \in DOMAIN b.disk[k] /\ b.disk[k][0] = Entry(o, v)
Holds(b, o, v) == /\ b.iadd[o] \in Places
                  /\ IF PetitEcrit(o) THEN HoldsSmall(b, o, v) ELSE HoldsBig(b, o, v)

(* The base holds m: for each object its content, or NoImage.               *)
Contents == [Objects -> Values \cup {NoImage}]
Placed(b, m) == \A o \in Objects : IF m[o] = NoImage THEN b.iadd[o] = Nowhere
                                   ELSE Holds(b, o, m[o])
Has(b, m) == m \in Contents /\ Sound(b) /\ Placed(b, m)

PhaseOK == /\ phase \in {"ouverte", "fermee", "pleine", "perimee"}
           /\ indiq \in BOOLEAN
           /\ img \in [Users -> Values \cup {NoImage}]

(* A base that has been closed holds its description.                       *)
Described == phase = "fermee" => base.iadd[Usadi] # Nowhere /\ base.iadd[Acce] # Nowhere

(* What the base holds of the user objects is what was last written.        *)
Keeps(b, i) == /\ b.nblmax <= MaxRec
               /\ \E m \in Contents : Has(b, m) /\ \A o \in Users : m[o] = i[o]

IInv == PhaseOK /\ Described /\ Keeps(base, img)

-----------------------------------------------------------------------------
(* Lengths.                                                                 *)
LEMMA Quotient ==
    ASSUME NEW x \in Nat \ {0}, NEW y \in Nat \ {0}
    PROVE  (x + y - 1) \div y \in Nat \ {0}
OBVIOUS

LEMMA LengthsOf ==
    ASSUME NEW o \in Objects
    PROVE  /\ Mots(o) \in Nat \ {0} /\ Blocs(o) \in Nat \ {0}
           /\ PetitEcrit(o) => Mots(o) + Nde < W
<1>1. Lso[o] \in Nat \ {0} /\ Lois \in Nat \ {0} /\ W \in Nat \ {0}
  BY JxDiskAssumption
<1>2. Mots(o) \in Nat \ {0}
  BY <1>1, Quotient DEF Mots
<1>3. Blocs(o) \in Nat \ {0}
  BY <1>1, <1>2, Quotient DEF Blocs
<1>4. ASSUME PetitEcrit(o) PROVE Mots(o) + Nde < W
  <2>1. PICK m \in Nat : m = Mots(o)
    BY <1>2
  <2>2. m * Lois < (W - 6) * Lois
    BY <1>4, <2>1 DEF PetitEcrit, Lso2, Nde
  <2>3. m < W - 6
    BY <1>1, <2>2
  <2> QED
    BY <1>1, <2>1, <2>3 DEF Nde
<1> QED
  BY <1>2, <1>3, <1>4

-----------------------------------------------------------------------------
(* What the buffers do is not seen through the addresses.                   *)
SameSizes(b, c)  == /\ DOMAIN c = Fields /\ c.classe = b.classe
                    /\ c.nblmax = b.nblmax /\ c.nbluti = b.nbluti /\ c.nbpeti = b.nbpeti
                    /\ c.nblim = b.nblim
SameTables(b, c) == c.iusadi = b.iusadi /\ c.nbdet = b.nbdet /\ c.iadd = b.iadd
SameView(b, c)   == /\ SameSizes(b, c) /\ SameTables(b, c)
                    /\ \A k \in Records : Words(c, k) = Words(b, k)

LEMMA BigIsOnDisk ==
    ASSUME NEW b, Sound(b), NEW k \in Records, b.iusadi[k] # Petits
    PROVE  Words(b, k) = b.disk[k]
BY DEF Sound, Buffers, Words, Records

LEMMA SameViewIsSound ==
    ASSUME NEW b, NEW c, Sound(b), SameView(b, c),
           ContentsOK(c), IndicesOK(c), Buffers(c), Ends(c)
    PROVE  Sound(c)
<1>1. SizesOK(c) /\ TablesOK(c)
  BY DEF Sound, Shape, SizesOK, TablesOK, SameView, SameSizes, SameTables
<1>2. Chains(c)
  BY DEF Sound, Chains, SameView, SameTables
<1>3. Counted(c)
  BY DEF Sound, Counted, SameView, SameTables
<1> QED
  BY <1>1, <1>2, <1>3 DEF Sound, Shape

LEMMA SameViewIsPlaced ==
    ASSUME NEW b, NEW c, Sound(b), Sound(c), SameView(b, c), NEW m, Placed(b, m)
    PROVE  Placed(c, m)
<1> SUFFICES ASSUME NEW o \in Objects
             PROVE  IF m[o] = NoImage THEN c.iadd[o] = Nowhere ELSE Holds(c, o, m[o])
  BY DEF Placed
<1>1. c.iadd = b.iadd /\ c.iusadi = b.iusadi /\ \A k \in Records : Words(c, k) = Words(b, k)
  BY DEF SameView, SameTables
<1>2. CASE m[o] = NoImage
  BY <1>1, <1>2 DEF Placed
<1>3. CASE m[o] # NoImage
  <2>1. Holds(b, o, m[o])
    BY <1>3 DEF Placed
  <2>2. b.iadd[o] \in Places /\ b.iadd[o].rec \in Records
    BY <2>1 DEF Holds, Places
  <2>3. CASE PetitEcrit(o)
    BY <1>1, <1>3, <2>1, <2>2, <2>3 DEF Holds, HoldsSmall
  <2>4. CASE ~PetitEcrit(o)
    <3>1. HoldsBig(b, o, m[o])
      BY <2>1, <2>4 DEF Holds
    <3>2. b.iusadi[b.iadd[o].rec] # Petits
      BY <2>2, <3>1, LengthsOf, JxDiskAssumption DEF HoldsBig, Records
    <3>3. c.disk[b.iadd[o].rec] = b.disk[b.iadd[o].rec]
      BY <1>1, <2>2, <3>2, BigIsOnDisk
    <3>4. HoldsBig(c, o, m[o])
      BY <1>1, <3>1, <3>3 DEF HoldsBig
    <3> QED
      BY <1>1, <1>3, <2>2, <2>4, <3>4 DEF Holds
  <2> QED
    BY <2>3, <2>4
<1> QED
  BY <1>2, <1>3

(* Writing a record of small objects.                                       *)
LEMMA EcrbFields ==
    ASSUME NEW b, Shape(b), NEW k \in Records, NEW w, b.iusadi[k] = Petits,
           NEW c, c = Ecrb(b, k, w)
    PROVE  /\ SameSizes(b, c) /\ SameTables(b, c)
           /\ c.disk = [b.disk EXCEPT ![k] = w]
           /\ c.iitlec = b.iitlec /\ c.litlec = b.litlec /\ c.tlec = b.tlec
           /\ c.iitecr = b.iitecr /\ c.nitecr = b.nitecr /\ c.tecr = b.tecr
<1>1. DOMAIN b = Fields
  BY DEF Shape, SizesOK
<1>2. /\ c.disk = [b.disk EXCEPT ![k] = w]
      /\ c.iusadi = [b.iusadi EXCEPT ![k] = Petits]
  BY <1>1 DEF Ecrb, Fields
<1>3. /\ SameSizes(b, c) /\ c.nbdet = b.nbdet /\ c.iadd = b.iadd
      /\ c.iitlec = b.iitlec /\ c.litlec = b.litlec /\ c.tlec = b.tlec
      /\ c.iitecr = b.iitecr /\ c.nitecr = b.nitecr /\ c.tecr = b.tecr
  BY <1>1 DEF Ecrb, Fields, SameSizes
<1>4. c.iusadi = b.iusadi
  BY <1>2 DEF Shape, TablesOK
<1> QED
  BY <1>2, <1>3, <1>4 DEF SameTables

LEMMA ViderLectureFields ==
    ASSUME NEW b, Sound(b), NEW c, c = ViderLecture(b)
    PROVE  /\ SameSizes(b, c) /\ SameTables(b, c)
           /\ c.disk = IF b.litlec THEN [b.disk EXCEPT ![b.iitlec] = b.tlec] ELSE b.disk
           /\ c.iitlec = b.iitlec /\ c.litlec = b.litlec /\ c.tlec = b.tlec
           /\ c.iitecr = b.iitecr /\ c.nitecr = b.nitecr /\ c.tecr = b.tecr
<1>1. CASE b.litlec
  <2>1. b.iitlec \in Records /\ b.iusadi[b.iitlec] = Petits /\ Shape(b)
    BY <1>1, JxDiskAssumption DEF Sound, Shape, IndicesOK, Buffers, Records
  <2>2. c = Ecrb(b, b.iitlec, b.tlec)
    BY <1>1 DEF ViderLecture
  <2>3. /\ SameSizes(b, c) /\ SameTables(b, c)
        /\ c.disk = [b.disk EXCEPT ![b.iitlec] = b.tlec]
        /\ c.iitlec = b.iitlec /\ c.litlec = b.litlec /\ c.tlec = b.tlec
        /\ c.iitecr = b.iitecr /\ c.nitecr = b.nitecr /\ c.tecr = b.tecr
    BY <2>1, <2>2, EcrbFields
  <2> QED
    BY <1>1, <2>3
<1>2. CASE ~b.litlec
  BY <1>2 DEF ViderLecture, SameSizes, SameTables, Sound, Shape, SizesOK
<1> QED
  BY <1>1, <1>2

LEMMA ViderEcritureFields ==
    ASSUME NEW b, Sound(b), NEW c, c = ViderEcriture(b)
    PROVE  /\ SameSizes(b, c) /\ SameTables(b, c)
           /\ c.disk = IF b.iitecr > 0 THEN [b.disk EXCEPT ![b.iitecr] = b.tecr] ELSE b.disk
           /\ c.iitlec = b.iitlec /\ c.litlec = b.litlec /\ c.tlec = b.tlec
           /\ c.iitecr = b.iitecr /\ c.nitecr = b.nitecr /\ c.tecr = b.tecr
<1>1. CASE b.iitecr > 0
  <2>1. b.iitecr \in Records /\ b.iusadi[b.iitecr] = Petits /\ Shape(b)
    BY <1>1, JxDiskAssumption DEF Sound, Shape, IndicesOK, Buffers, Records
  <2>2. c = Ecrb(b, b.iitecr, b.tecr)
    BY <1>1 DEF ViderEcriture
  <2> QED
    BY <1>1, <2>1, <2>2, EcrbFields
<1>2. CASE ~(b.iitecr > 0)
  BY <1>2 DEF ViderEcriture, SameSizes, SameTables, Sound, Shape, SizesOK
<1> QED
  BY <1>1, <1>2

(* The read buffer is written: nothing changes for the addresses, and the   *)
(* record is the buffer.                                                    *)
LEMMA ViderLectureKeeps ==
    ASSUME NEW b, Sound(b), NEW c, c = ViderLecture(b)
    PROVE  /\ Sound(c) /\ SameView(b, c)
           /\ c.iitlec # 0 => c.disk[c.iitlec] = c.tlec
<1>1. PICK d : d = b.disk
  OBVIOUS
<1>2. /\ SameSizes(b, c) /\ SameTables(b, c)
      /\ c.disk = IF b.litlec THEN [d EXCEPT ![b.iitlec] = b.tlec] ELSE d
      /\ c.iitlec = b.iitlec /\ c.litlec = b.litlec /\ c.tlec = b.tlec
      /\ c.iitecr = b.iitecr /\ c.nitecr = b.nitecr /\ c.tecr = b.tecr
  BY <1>1, ViderLectureFields
<1>3. /\ DOMAIN d = Records /\ \A k \in Records : IsWords(d[k])
      /\ IsWords(b.tlec) /\ IsWords(b.tecr)
      /\ b.iitlec \in 0..MaxRec /\ MaxRec \in Nat
  BY <1>1, JxDiskAssumption DEF Sound, Shape, ContentsOK, IndicesOK
<1>4. /\ DOMAIN c.disk = Records
      /\ \A k \in Records : c.disk[k] = IF b.litlec /\ k = b.iitlec THEN b.tlec ELSE d[k]
  BY <1>2, <1>3
<1>5. ContentsOK(c)
  BY <1>2, <1>3, <1>4 DEF ContentsOK
<1>6. IndicesOK(c) /\ Ends(c)
  BY <1>2 DEF Sound, Shape, IndicesOK, Ends
<1>7. c.iitlec # 0 => c.disk[c.iitlec] = c.tlec
  BY <1>1, <1>2, <1>3, <1>4 DEF Sound, Buffers, Records
<1>8. Buffers(c)
  BY <1>2, <1>7 DEF Sound, Buffers, SameTables
<1>9. \A k \in Records : Words(c, k) = Words(b, k)
  BY <1>1, <1>2, <1>4 DEF Words
<1> QED
  BY <1>2, <1>5, <1>6, <1>7, <1>8, <1>9, SameViewIsSound DEF SameView

LEMMA ViderEcritureKeeps ==
    ASSUME NEW b, Sound(b), NEW c, c = ViderEcriture(b)
    PROVE  /\ Sound(c) /\ SameView(b, c)
           /\ c.iitecr # 0 => c.disk[c.iitecr] = c.tecr
<1>1. PICK d : d = b.disk
  OBVIOUS
<1>2. /\ SameSizes(b, c) /\ SameTables(b, c)
      /\ c.disk = IF b.iitecr > 0 THEN [d EXCEPT ![b.iitecr] = b.tecr] ELSE d
      /\ c.iitlec = b.iitlec /\ c.litlec = b.litlec /\ c.tlec = b.tlec
      /\ c.iitecr = b.iitecr /\ c.nitecr = b.nitecr /\ c.tecr = b.tecr
  BY <1>1, ViderEcritureFields
<1>3. /\ DOMAIN d = Records /\ \A k \in Records : IsWords(d[k])
      /\ IsWords(b.tlec) /\ IsWords(b.tecr)
      /\ b.iitecr \in 0..MaxRec /\ MaxRec \in Nat /\ b.iitlec \in 0..MaxRec
  BY <1>1, JxDiskAssumption DEF Sound, Shape, ContentsOK, IndicesOK
<1>4. /\ DOMAIN c.disk = Records
      /\ \A k \in Records : c.disk[k] = IF k = b.iitecr THEN b.tecr ELSE d[k]
  BY <1>2, <1>3 DEF Records
<1>5. ContentsOK(c)
  BY <1>2, <1>3, <1>4 DEF ContentsOK
<1>6. IndicesOK(c) /\ Ends(c)
  BY <1>2 DEF Sound, Shape, IndicesOK, Ends
<1>7. c.iitecr # 0 => c.disk[c.iitecr] = c.tecr
  BY <1>2, <1>3, <1>4 DEF Records
<1>8. Buffers(c)
  <2>1. b.iitlec # 0 => b.iitlec \in Records /\ b.iitlec # b.iitecr
    BY <1>3 DEF Sound, Buffers, Records
  <2>2. b.iitlec # 0 => c.disk[b.iitlec] = d[b.iitlec]
    BY <1>4, <2>1
  <2> QED
    BY <1>1, <1>2, <2>2 DEF Sound, Buffers, SameTables
<1>9. \A k \in Records : Words(c, k) = Words(b, k)
  BY <1>1, <1>2, <1>4 DEF Words
<1> QED
  BY <1>2, <1>5, <1>6, <1>7, <1>8, <1>9, SameViewIsSound DEF SameView

LEMMA ChargerKeeps ==
    ASSUME NEW b, Sound(b), NEW k \in Records, b.iusadi[k] = Petits, k # b.iitecr,
           Alive(Words(b, k)), NEW c, c = Charger(b, k)
    PROVE  /\ Sound(c) /\ SameView(b, c)
           /\ c.iitlec = k /\ ~c.litlec
           /\ c.iitecr = b.iitecr /\ c.nitecr = b.nitecr /\ c.tecr = b.tecr
           /\ b.iitecr # 0 => c.disk[b.iitecr] = b.disk[b.iitecr]
<1>1. PICK f : f = ViderLecture(b)
  OBVIOUS
<1>2. /\ Sound(f) /\ SameView(b, f)
      /\ f.iitlec # 0 => f.disk[f.iitlec] = f.tlec
  BY <1>1, ViderLectureKeeps
<1>3. /\ f.disk = IF b.litlec THEN [b.disk EXCEPT ![b.iitlec] = b.tlec] ELSE b.disk
      /\ f.iitlec = b.iitlec /\ f.iitecr = b.iitecr /\ f.nitecr = b.nitecr /\ f.tecr = b.tecr
      /\ f.iusadi = b.iusadi /\ DOMAIN f = Fields
  BY <1>1, ViderLectureFields DEF SameTables, SameSizes
<1>4. /\ SameSizes(f, c) /\ SameTables(f, c) /\ c.disk = f.disk
      /\ c.tlec = f.disk[k] /\ c.iitlec = k /\ c.litlec = FALSE
      /\ c.iitecr = f.iitecr /\ c.nitecr = f.nitecr /\ c.tecr = f.tecr
  BY <1>1, <1>3 DEF Charger, Fields, SameSizes, SameTables
<1>5. k \in 1..MaxRec /\ MaxRec \in Nat
  BY JxDiskAssumption DEF Records
<1>6. ContentsOK(c)
  BY <1>2, <1>4 DEF Sound, Shape, ContentsOK
<1>7. IndicesOK(c)
  <2>1. f.iitecr \in 0..MaxRec /\ f.nitecr \in 0..W
    BY <1>2 DEF Sound, Shape, IndicesOK
  <2>2. c.iitlec \in 0..MaxRec /\ c.iitecr \in 0..MaxRec /\ c.nitecr \in 0..W
    BY <1>4, <1>5, <2>1
  <2>3. c.litlec \in BOOLEAN
    BY <1>4, Zenon
  <2> QED
    BY <2>2, <2>3 DEF IndicesOK
<1>8. Buffers(c)
  <2>1. Words(f, k) = f.disk[k]
    BY <1>2, <1>3, <1>5 DEF Words
  <2>2. Alive(c.tlec)
    BY <1>2, <1>4, <2>1 DEF SameView
  <2> QED
    BY <1>2, <1>3, <1>4, <1>5, <2>2 DEF Sound, Buffers, SameTables
<1>9. Ends(c)
  BY <1>2, <1>4 DEF Sound, Ends
<1>10. \A j \in Records : Words(c, j) = Words(f, j)
  <2> SUFFICES ASSUME NEW j \in Records PROVE Words(c, j) = Words(f, j)
    OBVIOUS
  <2>1. j # 0
    BY JxDiskAssumption DEF Records
  <2> QED
    BY <1>2, <1>3, <1>4, <2>1 DEF Words, Sound, Buffers
<1>11. Sound(c) /\ SameView(f, c)
  BY <1>2, <1>4, <1>6, <1>7, <1>8, <1>9, <1>10, SameViewIsSound DEF SameView
<1>12. SameView(b, c)
  BY <1>2, <1>11 DEF SameView, SameSizes, SameTables
<1>13. b.iitecr # 0 => c.disk[b.iitecr] = b.disk[b.iitecr]
  BY <1>3, <1>4 DEF Sound, Buffers, Shape, ContentsOK, IndicesOK, Records
<1> QED
  BY <1>3, <1>4, <1>11, <1>12, <1>13

(* A small object in a record of b, changed to e by jxecro or jxlibd.       *)
LEMMA AvecIsWords ==
    ASSUME NEW w, IsWords(w), NEW i \in DOMAIN w, NEW e \in Cells
    PROVE  /\ IsWords(Avec(w, i, e)) /\ DOMAIN Avec(w, i, e) = DOMAIN w
           /\ \A j \in DOMAIN w : Avec(w, i, e)[j] = IF j = i THEN e ELSE w[j]
           /\ e = w[i] => Avec(w, i, e) = w
<1>1. PICK d : d = DOMAIN w
  OBVIOUS
<1>2. Avec(w, i, e) = [j \in d |-> IF j = i THEN e ELSE w[j]]
  BY <1>1 DEF Avec
<1>3. w = [j \in d |-> w[j]]
  BY <1>1 DEF IsWords
<1> QED
  BY <1>1, <1>2, <1>3 DEF IsWords

Modified(b, c, k, i, e) ==
    /\ \A j \in Records : Words(c, j) = IF j = k THEN Avec(Words(b, k), i, e) ELSE Words(b, j)
    /\ c.iitecr = b.iitecr /\ c.nitecr = b.nitecr
    /\ c.tecr = IF k = b.iitecr THEN Avec(b.tecr, i, e) ELSE b.tecr
    /\ b.iitecr # 0 => c.disk[b.iitecr] = b.disk[b.iitecr]

LEMMA ModifierFields ==
    ASSUME NEW b, Sound(b), NEW k \in Records, b.iusadi[k] = Petits,
           NEW i \in DOMAIN Words(b, k), Words(b, k)[i] # Mort, NEW e \in Cells,
           NEW c, c = Modifier(b, k, i, e)
    PROVE  /\ SameSizes(b, c) /\ SameTables(b, c)
           /\ ContentsOK(c) /\ IndicesOK(c) /\ Buffers(c)
           /\ Modified(b, c, k, i, e)
<1>1. k \in 1..MaxRec /\ MaxRec \in Nat /\ k # 0
  BY JxDiskAssumption DEF Records
<1>2. CASE k # b.iitlec /\ k = b.iitecr
  <2>1. DOMAIN b = Fields /\ Words(b, k) = b.tecr
    BY <1>2 DEF Sound, Shape, SizesOK, Words
  <2>2. /\ SameSizes(b, c) /\ SameTables(b, c) /\ c.disk = b.disk
        /\ c.iitlec = b.iitlec /\ c.litlec = b.litlec /\ c.tlec = b.tlec
        /\ c.iitecr = b.iitecr /\ c.nitecr = b.nitecr /\ c.tecr = Avec(b.tecr, i, e)
    BY <1>2, <2>1 DEF Modifier, Fields, SameSizes, SameTables
  <2>3. IsWords(Avec(b.tecr, i, e))
    BY <2>1, AvecIsWords DEF Sound, Shape, ContentsOK
  <2>4. ContentsOK(c) /\ IndicesOK(c) /\ Buffers(c)
    BY <2>2, <2>3 DEF Sound, Shape, ContentsOK, IndicesOK, Buffers, SameTables
  <2>5. \A j \in Records : Words(c, j) = IF j = k THEN Avec(Words(b, k), i, e) ELSE Words(b, j)
    BY <1>2, <2>1, <2>2 DEF Words
  <2> QED
    BY <1>2, <2>2, <2>4, <2>5 DEF Modified
<1>3. CASE k = b.iitlec \/ k # b.iitecr
  <2>1. PICK f : f = IF k = b.iitlec THEN b ELSE Charger(b, k)
    OBVIOUS
  <2>2. /\ Sound(f) /\ SameView(b, f) /\ f.iitlec = k
        /\ f.iitecr = b.iitecr /\ f.nitecr = b.nitecr /\ f.tecr = b.tecr
        /\ b.iitecr # 0 => f.disk[b.iitecr] = b.disk[b.iitecr]
    <3>1. CASE k = b.iitlec
      BY <2>1, <3>1 DEF SameView, SameSizes, SameTables, Sound, Shape, SizesOK
    <3>2. CASE k # b.iitlec
      <4>1. Alive(Words(b, k))
        BY DEF Alive
      <4> QED
        BY <1>3, <2>1, <3>2, <4>1, ChargerKeeps
    <3> QED
      BY <3>1, <3>2
  <2>3. DOMAIN f = Fields /\ Words(f, k) = f.tlec /\ k # b.iitecr
    BY <1>1, <1>3, <2>2 DEF Sound, Shape, SizesOK, Words, Buffers
  <2>4. c = [f EXCEPT !.tlec = Avec(@, i, e), !.litlec = TRUE]
    BY <1>3, <2>1 DEF Modifier
  <2>5. /\ SameSizes(f, c) /\ SameTables(f, c) /\ c.disk = f.disk
        /\ c.iitlec = f.iitlec /\ c.litlec = TRUE /\ c.tlec = Avec(f.tlec, i, e)
        /\ c.iitecr = f.iitecr /\ c.nitecr = f.nitecr /\ c.tecr = f.tecr
    BY <2>3, <2>4 DEF Fields, SameSizes, SameTables
  <2>6. SameSizes(b, c) /\ SameTables(b, c) /\ c.iusadi = f.iusadi
    BY <2>2, <2>5 DEF SameView, SameSizes, SameTables
  <2>7. Words(b, k) = f.tlec /\ \A j \in Records : Words(b, j) = Words(f, j)
    BY <2>2, <2>3 DEF SameView
  <2>8. IsWords(Avec(f.tlec, i, e))
    BY <2>2, <2>7, AvecIsWords DEF Sound, Shape, ContentsOK
  <2>9. ContentsOK(c) /\ IndicesOK(c) /\ Buffers(c)
    BY <1>1, <2>2, <2>5, <2>6, <2>8 DEF Sound, Shape, ContentsOK, IndicesOK, Buffers
  <2>10. \A j \in Records : Words(c, j) = IF j = k THEN Avec(Words(b, k), i, e) ELSE Words(b, j)
    BY <2>2, <2>5, <2>7 DEF Words
  <2> QED
    BY <2>2, <2>3, <2>5, <2>6, <2>9, <2>10 DEF Modified
<1> QED
  BY <1>2, <1>3

LEMMA EntryOf ==
    ASSUME NEW o \in Objects, NEW v \in Values
    PROVE  /\ Entry(o, v) \in Cells /\ Entry(o, v) # Mort
           /\ Entry(o, v).id = o /\ Entry(o, v).data = v
BY JxDiskAssumption DEF Entry, Cells

LEMMA Rewritten ==
    ASSUME NEW w, IsWords(w), NEW i \in DOMAIN w, NEW o \in Objects,
           NEW u \in Values, w[i] = Entry(o, u), NEW v \in Values,
           NEW x, x = Avec(w, i, Entry(o, v))
    PROVE  /\ Chain(w) => Chain(x)
           /\ Dead(x) = Dead(w)
           /\ \A n : Before(w, n) => Before(x, n)
<1>1. DOMAIN x = DOMAIN w /\ \A j \in DOMAIN w : x[j] = IF j = i THEN Entry(o, v) ELSE w[j]
  BY EntryOf, AvecIsWords
<1>2. /\ w[i] # Mort /\ w[i].id = o /\ Entry(o, v) # Mort /\ Entry(o, v).id = o
  BY EntryOf
<1>3. \A j \in DOMAIN w : (x[j] = Mort <=> w[j] = Mort) /\ (w[j] # Mort => x[j].id = w[j].id)
  BY <1>1, <1>2
<1> HIDE DEF Mots
<1>4. Chain(w) => Chain(x)
  BY <1>1, <1>3 DEF Chain
<1>5. Dead(x) = Dead(w)
  BY <1>1, <1>3 DEF Dead
<1>6. \A n : Before(w, n) => Before(x, n)
  BY <1>1, <1>3 DEF Before
<1> QED
  BY <1>4, <1>5, <1>6

LEMMA WordsAreFinite ==
    ASSUME NEW w, IsWords(w)
    PROVE  IsFiniteSet(Dead(w)) /\ Cardinality(Dead(w)) \in Nat
<1>1. IsFiniteSet(0..W)
  BY FS_Interval, JxDiskAssumption
<1>2. Dead(w) \subseteq 0..W
  BY DEF Dead, IsWords
<1>3. IsFiniteSet(Dead(w))
  BY <1>1, <1>2, FS_Subset
<1> QED
  BY <1>3, FS_CardinalityType

LEMMA Killed ==
    ASSUME NEW w, IsWords(w), NEW i \in DOMAIN w, w[i] # Mort, NEW x, x = Avec(w, i, Mort)
    PROVE  /\ Chain(w) => Chain(x)
           /\ Cardinality(Dead(x)) = Cardinality(Dead(w)) + 1
           /\ \A n : Before(w, n) => Before(x, n)
<1>1. DOMAIN x = DOMAIN w /\ \A j \in DOMAIN w : x[j] = IF j = i THEN Mort ELSE w[j]
  BY AvecIsWords DEF Cells
<1>2. \A j \in DOMAIN w : x[j] # Mort => w[j] # Mort /\ x[j] = w[j]
  BY <1>1
<1>3. Chain(w) => Chain(x)
  BY <1>1, <1>2 DEF Chain
<1>4. Dead(x) = Dead(w) \cup {i} /\ i \notin Dead(w)
  BY <1>1 DEF Dead
<1>5. Cardinality(Dead(x)) = Cardinality(Dead(w)) + 1
  BY <1>4, WordsAreFinite, FS_AddElement
<1>6. \A n : Before(w, n) => Before(x, n)
  BY <1>1, <1>2 DEF Before
<1> QED
  BY <1>3, <1>5, <1>6

(* An object whose address and whose place are left alone is still there.   *)
LEMMA HoldsStays ==
    ASSUME NEW b, NEW c, NEW p \in Objects, NEW v, Holds(b, p, v), c.iadd[p] = b.iadd[p],
           NEW k, NEW i, k = b.iadd[p].rec, i = b.iadd[p].off,
           PetitEcrit(p) => /\ c.iusadi[k] = Petits
                            /\ i \in DOMAIN Words(c, k) /\ Words(c, k)[i] = Words(b, k)[i],
           ~PetitEcrit(p) => /\ \A r \in k .. k + Blocs(p) - 1 : c.iusadi[r] = p
                             /\ c.disk[k] = b.disk[k]
    PROVE  Holds(c, p, v)
<1>1. CASE PetitEcrit(p)
  BY <1>1 DEF Holds, HoldsSmall
<1>2. CASE ~PetitEcrit(p)
  BY <1>2 DEF Holds, HoldsBig
<1> QED
  BY <1>1, <1>2

LEMMA BigOf ==
    ASSUME NEW b, Sound(b), NEW p \in Objects, NEW v, Holds(b, p, v), ~PetitEcrit(p)
    PROVE  /\ b.iadd[p].rec \in Records /\ b.iadd[p].rec + Blocs(p) - 1 <= MaxRec
           /\ \A r \in b.iadd[p].rec .. b.iadd[p].rec + Blocs(p) - 1 :
                r \in Records /\ b.iusadi[r] = p
           /\ b.iusadi[b.iadd[p].rec] = p /\ p # Petits /\ p # Libre
<1>1. b.iadd[p].rec \in 1..MaxRec /\ MaxRec \in Nat /\ HoldsBig(b, p, v)
  BY JxDiskAssumption DEF Holds, Places, Records
<1>2. Blocs(p) \in Nat \ {0}
  BY LengthsOf
<1> QED
  BY <1>1, <1>2, JxDiskAssumption DEF HoldsBig, Records

LEMMA SmallOf ==
    ASSUME NEW b, Sound(b), NEW p \in Objects, NEW v, Holds(b, p, v), PetitEcrit(p)
    PROVE  /\ b.iadd[p].rec \in Records /\ b.iusadi[b.iadd[p].rec] = Petits
           /\ b.iadd[p].off \in DOMAIN Words(b, b.iadd[p].rec)
           /\ Words(b, b.iadd[p].rec)[b.iadd[p].off] = Entry(p, v)
BY DEF Holds, HoldsSmall, Places

(* A small object is changed: the others are where they were.               *)
LEMMA OthersStay ==
    ASSUME NEW b, NEW c, Sound(b), Sound(c), c.iusadi = b.iusadi,
           NEW o \in Objects, NEW u \in Values, PetitEcrit(o), Holds(b, o, u),
           NEW e \in Cells, Modified(b, c, b.iadd[o].rec, b.iadd[o].off, e),
           NEW p \in Objects \ {o}, NEW v \in Values, Holds(b, p, v), c.iadd[p] = b.iadd[p]
    PROVE  Holds(c, p, v)
<1>1. PICK k, i : k = b.iadd[o].rec /\ i = b.iadd[o].off
  OBVIOUS
<1>2. PICK l, j : l = b.iadd[p].rec /\ j = b.iadd[p].off
  OBVIOUS
<1>3. /\ k \in Records /\ b.iusadi[k] = Petits
      /\ i \in DOMAIN Words(b, k) /\ Words(b, k)[i] = Entry(o, u)
  BY <1>1, SmallOf
<1>4. \A r \in Records : Words(c, r) = IF r = k THEN Avec(Words(b, k), i, e) ELSE Words(b, r)
  BY <1>1 DEF Modified
<1>5. ASSUME PetitEcrit(p)
      PROVE  /\ c.iusadi[l] = Petits
             /\ j \in DOMAIN Words(c, l) /\ Words(c, l)[j] = Words(b, l)[j]
  <2>1. /\ l \in Records /\ b.iusadi[l] = Petits
        /\ j \in DOMAIN Words(b, l) /\ Words(b, l)[j] = Entry(p, v)
    BY <1>2, <1>5, SmallOf
  <2>2. CASE l # k
    BY <1>4, <2>1, <2>2
  <2>3. CASE l = k
    <3>1. j # i
      BY <1>3, <2>1, <2>3, EntryOf
    <3>2. IsWords(Words(b, k))
      BY <1>3 DEF Sound, Shape, ContentsOK, Words
    <3>3. DOMAIN Words(c, k) = DOMAIN Words(b, k) /\ Words(c, k)[j] = Words(b, k)[j]
      BY <1>3, <1>4, <2>1, <2>3, <3>1, <3>2, AvecIsWords
    <3> QED
      BY <2>1, <2>3, <3>3
  <2> QED
    BY <2>2, <2>3
<1>6. ASSUME ~PetitEcrit(p)
      PROVE  /\ \A r \in l .. l + Blocs(p) - 1 : c.iusadi[r] = p
             /\ c.disk[l] = b.disk[l]
  <2>1. /\ l \in Records /\ \A r \in l .. l + Blocs(p) - 1 : b.iusadi[r] = p
        /\ b.iusadi[l] = p /\ p # Petits
    BY <1>2, <1>6, BigOf
  <2>2. l # k
    BY <1>3, <2>1
  <2> QED
    BY <1>4, <2>1, <2>2, BigIsOnDisk
<1> QED
  BY <1>2, <1>5, <1>6, HoldsStays

-----------------------------------------------------------------------------
(* Later writing of a small object.                                         *)
LEMMA ModifierIsSound ==
    ASSUME NEW b, Sound(b), NEW c, NEW k \in Records, b.iusadi[k] = Petits,
           NEW i \in DOMAIN Words(b, k), NEW e \in Cells, NEW x, x = Avec(Words(b, k), i, e),
           c.iusadi = b.iusadi, Modified(b, c, k, i, e),
           Chain(Words(b, k)) => Chain(x),
           \A n : Before(Words(b, k), n) => Before(x, n)
    PROVE  Chains(c) /\ Ends(c)
<1>1. \A j \in Records : Words(c, j) = IF j = k THEN x ELSE Words(b, j)
  BY DEF Modified
<1>2. Chains(c)
  BY <1>1 DEF Chains, Sound
<1>3. Ends(c)
  <2>1. CASE k = b.iitecr /\ k # 0
    <3>1. Words(b, k) = b.tecr
      BY <2>1 DEF Words, Sound, Buffers
    <3> QED
      BY <2>1, <3>1 DEF Ends, Sound, Modified
  <2>2. CASE k # b.iitecr
    BY <2>2 DEF Ends, Sound, Modified
  <2> QED
    BY <2>1, <2>2, JxDiskAssumption DEF Records
<1> QED
  BY <1>2, <1>3

LEMMA RewriteKeeps ==
    ASSUME NEW b, NEW m, Has(b, m), NEW o \in Objects, m[o] # NoImage, PetitEcrit(o),
           NEW v \in Values,
           NEW c, c = Modifier(b, b.iadd[o].rec, b.iadd[o].off, Entry(o, v))
    PROVE  /\ Has(c, [m EXCEPT ![o] = v]) /\ SameSizes(b, c)
           /\ c.iadd = b.iadd
           /\ Modified(b, c, b.iadd[o].rec, b.iadd[o].off, Entry(o, v))
<1>1. Sound(b) /\ Placed(b, m) /\ m \in Contents /\ m[o] \in Values /\ Holds(b, o, m[o])
  BY DEF Has, Placed, Contents
<1>2. PICK k, i : k = b.iadd[o].rec /\ i = b.iadd[o].off
  OBVIOUS
<1>3. /\ k \in Records /\ b.iusadi[k] = Petits
      /\ i \in DOMAIN Words(b, k) /\ Words(b, k)[i] = Entry(o, m[o])
  BY <1>1, <1>2, SmallOf
<1>4. PICK x : x = Avec(Words(b, k), i, Entry(o, v))
  OBVIOUS
<1>5. /\ SameSizes(b, c) /\ SameTables(b, c)
      /\ ContentsOK(c) /\ IndicesOK(c) /\ Buffers(c)
      /\ Modified(b, c, k, i, Entry(o, v))
  BY <1>1, <1>2, <1>3, EntryOf, ModifierFields
<1>6. IsWords(Words(b, k))
  BY <1>1, <1>3 DEF Sound, Shape, ContentsOK, Words
<1>7. /\ Chain(Words(b, k)) => Chain(x)
      /\ Dead(x) = Dead(Words(b, k))
      /\ \A n : Before(Words(b, k), n) => Before(x, n)
  BY <1>1, <1>3, <1>4, <1>6, Rewritten
<1>8. Chains(c) /\ Ends(c)
  BY <1>1, <1>3, <1>4, <1>5, <1>7, EntryOf, ModifierIsSound DEF SameTables
<1>9. \A j \in Records : Words(c, j) = IF j = k THEN x ELSE Words(b, j)
  BY <1>4, <1>5 DEF Modified
<1>10. Counted(c)
  BY <1>1, <1>5, <1>7, <1>9 DEF Sound, Counted, SameTables
<1>11. Sound(c)
  BY <1>1, <1>5, <1>8, <1>10 DEF Sound, Shape, SizesOK, TablesOK, SameSizes, SameTables
<1>12. Holds(c, o, v)
  <2>1. i \in DOMAIN Words(c, k) /\ Words(c, k)[i] = Entry(o, v)
    BY <1>3, <1>4, <1>6, <1>9, EntryOf, AvecIsWords
  <2> QED
    BY <1>1, <1>2, <1>3, <1>5, <2>1 DEF Holds, HoldsSmall, SameTables
<1>13. ASSUME NEW p \in Objects, p # o
       PROVE  IF m[p] = NoImage THEN c.iadd[p] = Nowhere ELSE Holds(c, p, m[p])
  <2>1. c.iadd = b.iadd /\ c.iusadi = b.iusadi
    BY <1>5 DEF SameTables
  <2>2. CASE m[p] = NoImage
    BY <1>1, <2>1, <2>2 DEF Placed
  <2>3. CASE m[p] # NoImage
    <3>1. Holds(b, p, m[p]) /\ m[p] \in Values
      BY <1>1, <2>3 DEF Placed, Contents
    <3>2. Holds(c, p, m[p])
      BY <1>1, <1>2, <1>5, <1>11, <1>13, <2>1, <3>1, EntryOf, OthersStay
    <3> QED
      BY <2>3, <3>2
  <2> QED
    BY <2>2, <2>3
<1>14. v # NoImage
  BY JxDiskAssumption
<1>15. Placed(c, [m EXCEPT ![o] = v])
  BY <1>1, <1>12, <1>13, <1>14 DEF Placed, Contents
<1> QED
  BY <1>1, <1>2, <1>5, <1>11, <1>15 DEF Has, Contents, SameTables

(* The same content is written: a write buffer that is the same as its      *)
(* record stays so.                                                         *)
Clean(b) == b.iitecr # 0 => b.tecr = b.disk[b.iitecr]

LEMMA RewriteKeepsClean ==
    ASSUME NEW b, NEW m, Has(b, m), NEW o \in Objects, m[o] # NoImage, PetitEcrit(o), Clean(b),
           NEW c, Modified(b, c, b.iadd[o].rec, b.iadd[o].off, Entry(o, m[o]))
    PROVE  Clean(c)
<1>1. PICK k, i : k = b.iadd[o].rec /\ i = b.iadd[o].off
  OBVIOUS
<1>2. Sound(b) /\ Holds(b, o, m[o]) /\ m[o] \in Values
  BY DEF Has, Placed, Contents
<1>3. /\ k \in Records /\ i \in DOMAIN Words(b, k) /\ Words(b, k)[i] = Entry(o, m[o])
  BY <1>1, <1>2, SmallOf
<1>4. CASE k = b.iitecr
  <2>1. k # 0
    BY <1>3, JxDiskAssumption DEF Records
  <2>2. Words(b, k) = b.tecr
    BY <1>2, <1>4, <2>1 DEF Words, Sound, Buffers
  <2>3. Avec(b.tecr, i, Entry(o, m[o])) = b.tecr
    BY <1>2, <1>3, <2>2, EntryOf, AvecIsWords DEF Sound, Shape, ContentsOK
  <2> QED
    BY <1>1, <1>4, <2>3 DEF Modified, Clean
<1>5. CASE k # b.iitecr
  BY <1>1, <1>5 DEF Modified, Clean
<1> QED
  BY <1>4, <1>5

-----------------------------------------------------------------------------
(* Records become free.                                                     *)
LEMMA NowordsIsWords ==
    /\ IsWords(Nowords) /\ DOMAIN Nowords = {} /\ Chain(Nowords) /\ Dead(Nowords) = {}
    /\ \A n : Before(Nowords, n)
<1>1. DOMAIN Nowords = {}
  BY DEF Nowords
<1>2. Nowords = [i \in DOMAIN Nowords |-> Nowords[i]]
  BY <1>1 DEF Nowords
<1> HIDE DEF Nowords
<1>3. IsWords(Nowords)
  BY <1>1, <1>2 DEF IsWords
<1> QED
  BY <1>1, <1>3 DEF Chain, Dead, Before

Freed(b, c, R) ==
    /\ \A k \in Records : c.iusadi[k] = IF k \in R THEN Libre ELSE b.iusadi[k]
    /\ \A k \in Records \ R : Words(c, k) = Words(b, k) /\ c.disk[k] = b.disk[k]

LEMMA LibererKeeps ==
    ASSUME NEW b, Sound(b), NEW R, b.iitlec \notin R, b.iitecr \notin R,
           NEW c, c = Liberer(b, R)
    PROVE  /\ Sound(c) /\ SameSizes(b, c) /\ c.iadd = b.iadd
           /\ Freed(b, c, R)
<1>1. DOMAIN b = Fields
  BY DEF Sound, Shape, SizesOK
<1>2. /\ SameSizes(b, c) /\ c.iadd = b.iadd
      /\ c.iusadi = [k \in Records |-> IF k \in R THEN Libre ELSE b.iusadi[k]]
      /\ c.nbdet = [k \in Records |-> IF k \in R THEN 0 ELSE b.nbdet[k]]
      /\ c.disk = [k \in Records |-> IF k \in R THEN Nowords ELSE b.disk[k]]
  BY <1>1 DEF Liberer, Fields, SameSizes
<1>3. /\ c.iitlec = b.iitlec /\ c.litlec = b.litlec /\ c.tlec = b.tlec
      /\ c.iitecr = b.iitecr /\ c.nitecr = b.nitecr /\ c.tecr = b.tecr
  BY <1>1 DEF Liberer, Fields
<1>4. SizesOK(c)
  BY <1>1, <1>2 DEF Sound, Shape, SizesOK, SameSizes
<1>5. TablesOK(c)
  BY <1>2 DEF Sound, Shape, TablesOK
<1>6. ContentsOK(c)
  BY <1>2, <1>3, NowordsIsWords DEF Sound, Shape, ContentsOK
<1>7. IndicesOK(c) /\ Ends(c)
  BY <1>3 DEF Sound, Shape, IndicesOK, Ends
<1>8. Buffers(c)
  <2>1. b.iitlec # 0 => b.iitlec \in Records /\ b.iitlec \notin R
    BY JxDiskAssumption DEF Sound, Shape, IndicesOK, Records
  <2>2. b.iitecr # 0 => b.iitecr \in Records /\ b.iitecr \notin R
    BY JxDiskAssumption DEF Sound, Shape, IndicesOK, Records
  <2> QED
    BY <1>2, <1>3, <2>1, <2>2 DEF Sound, Buffers
<1>9. \A k \in Records \ R : Words(c, k) = Words(b, k) /\ c.disk[k] = b.disk[k]
  BY <1>2, <1>3 DEF Words
<1>10. Chains(c)
  BY <1>2, <1>9, JxDiskAssumption DEF Sound, Chains
<1>11. Counted(c)
  BY <1>2, <1>9, JxDiskAssumption DEF Sound, Counted
<1> QED
  BY <1>2, <1>4, <1>5, <1>6, <1>7, <1>8, <1>9, <1>10, <1>11 DEF Sound, Shape, Freed

LEMMA LibererPlaces ==
    ASSUME NEW b, NEW c, Sound(b), NEW R, NEW p \in Objects, NEW v, Holds(b, p, v),
           c.iadd[p] = b.iadd[p],
           Freed(b, c, R),
           PetitEcrit(p) => b.iadd[p].rec \notin R,
           \A k \in R : b.iusadi[k] # p
    PROVE  Holds(c, p, v)
<1>1. PICK l, j : l = b.iadd[p].rec /\ j = b.iadd[p].off
  OBVIOUS
<1>2. ASSUME PetitEcrit(p)
      PROVE  /\ c.iusadi[l] = Petits
             /\ j \in DOMAIN Words(c, l) /\ Words(c, l)[j] = Words(b, l)[j]
  BY <1>1, <1>2, SmallOf DEF Freed
<1>3. ASSUME ~PetitEcrit(p)
      PROVE  /\ \A r \in l .. l + Blocs(p) - 1 : c.iusadi[r] = p
             /\ c.disk[l] = b.disk[l]
  <2>1. /\ l \in Records /\ b.iusadi[l] = p
        /\ \A r \in l .. l + Blocs(p) - 1 : r \in Records /\ b.iusadi[r] = p
    BY <1>1, <1>3, BigOf
  <2> QED
    BY <2>1 DEF Freed
<1> QED
  BY <1>1, <1>2, <1>3, HoldsStays

(* The address of one object is forgotten.                                  *)
Forgotten(b, c, o) ==
    /\ c.iadd = [b.iadd EXCEPT ![o] = Nowhere]
    /\ c.iusadi = b.iusadi /\ c.disk = b.disk
    /\ \A k : Words(c, k) = Words(b, k)

LEMMA OubliIsSound ==
    ASSUME NEW b, Sound(b), NEW o \in Objects,
           NEW c, c = [b EXCEPT !.iadd[o] = Nowhere]
    PROVE  Sound(c) /\ SameSizes(b, c) /\ Forgotten(b, c, o)
<1>1. DOMAIN b = Fields
  BY DEF Sound, Shape, SizesOK
<1>2. /\ SameSizes(b, c) /\ c.iadd = [b.iadd EXCEPT ![o] = Nowhere]
      /\ c.iusadi = b.iusadi /\ c.nbdet = b.nbdet /\ c.disk = b.disk
      /\ c.iitlec = b.iitlec /\ c.litlec = b.litlec /\ c.tlec = b.tlec
      /\ c.iitecr = b.iitecr /\ c.nitecr = b.nitecr /\ c.tecr = b.tecr
  BY <1>1 DEF Fields, SameSizes
<1>3. \A k : Words(c, k) = Words(b, k)
  BY <1>2 DEF Words
<1>4. SizesOK(c) /\ TablesOK(c)
  BY <1>2 DEF Sound, Shape, SizesOK, TablesOK, SameSizes
<1>5. ContentsOK(c) /\ IndicesOK(c) /\ Buffers(c) /\ Ends(c)
  BY <1>2 DEF Sound, Shape, ContentsOK, IndicesOK, Buffers, Ends
<1>6. Chains(c) /\ Counted(c)
  BY <1>2, <1>3 DEF Sound, Chains, Counted
<1> QED
  BY <1>2, <1>3, <1>4, <1>5, <1>6 DEF Sound, Shape, Forgotten

LEMMA JxlibdSmall ==
    ASSUME NEW b, Sound(b), NEW o \in Objects, NEW u \in Values, Holds(b, o, u), PetitEcrit(o),
           NEW c, c = Jxlibd(b, o)
    PROVE  /\ Sound(c) /\ c.nblmax = b.nblmax /\ c.iadd = b.iadd /\ c.iusadi = b.iusadi
           /\ Modified(b, c, b.iadd[o].rec, b.iadd[o].off, Mort)
<1>1. PICK k, i : k = b.iadd[o].rec /\ i = b.iadd[o].off
  OBVIOUS
<1>2. /\ k \in Records /\ b.iusadi[k] = Petits
      /\ i \in DOMAIN Words(b, k) /\ Words(b, k)[i] = Entry(o, u)
  BY <1>1, SmallOf
<1>3. Mort \in Cells /\ Words(b, k)[i] # Mort
  BY <1>2, EntryOf DEF Cells
<1>4. PICK f : f = Modifier(b, k, i, Mort)
  OBVIOUS
<1>5. PICK x : x = Avec(Words(b, k), i, Mort)
  OBVIOUS
<1>6. /\ SameSizes(b, f) /\ SameTables(b, f)
      /\ ContentsOK(f) /\ IndicesOK(f) /\ Buffers(f)
      /\ Modified(b, f, k, i, Mort)
  BY <1>2, <1>3, <1>4, ModifierFields
<1>7. IsWords(Words(b, k))
  BY <1>2 DEF Sound, Shape, ContentsOK, Words
<1>8. /\ Chain(Words(b, k)) => Chain(x)
      /\ Cardinality(Dead(x)) = Cardinality(Dead(Words(b, k))) + 1
      /\ \A n : Before(Words(b, k), n) => Before(x, n)
  BY <1>2, <1>3, <1>5, <1>7, Killed
<1>9. c = [f EXCEPT !.nbdet[k] = @ + 1, !.nbpeti = IF @ < NbLim THEN @ + 1 ELSE @]
  BY <1>1, <1>2, <1>4 DEF Jxlibd
<1>10. DOMAIN f = Fields
  BY <1>6 DEF SameSizes
<1>11. /\ DOMAIN c = Fields /\ c.classe = f.classe /\ c.nblmax = f.nblmax /\ c.nbluti = f.nbluti
       /\ c.nbpeti = IF f.nbpeti < NbLim THEN f.nbpeti + 1 ELSE f.nbpeti
       /\ c.nblim = f.nblim
       /\ c.iusadi = f.iusadi /\ c.iadd = f.iadd /\ c.nbdet = [f.nbdet EXCEPT ![k] = @ + 1]
       /\ c.disk = f.disk /\ c.iitlec = f.iitlec /\ c.litlec = f.litlec /\ c.tlec = f.tlec
       /\ c.iitecr = f.iitecr /\ c.nitecr = f.nitecr /\ c.tecr = f.tecr
  BY <1>9, <1>10 DEF Fields
<1>12. \A j : Words(c, j) = Words(f, j)
  BY <1>11 DEF Words
<1>13. Modified(b, c, k, i, Mort) /\ c.iusadi = b.iusadi /\ c.iadd = b.iadd
  BY <1>6, <1>11, <1>12 DEF Modified, SameTables
<1>14. Chains(c) /\ Ends(c)
  BY <1>2, <1>3, <1>5, <1>8, <1>13, ModifierIsSound
<1>15. SizesOK(c)
  BY <1>6, <1>11, JxDiskAssumption DEF Sound, Shape, SizesOK, SameSizes
<1>16. TablesOK(c)
  <2>1. b.nbdet \in [Records -> Nat] /\ c.nbdet = [b.nbdet EXCEPT ![k] = @ + 1]
    BY <1>6, <1>11 DEF Sound, Shape, TablesOK, SameTables
  <2>2. c.nbdet \in [Records -> Nat]
    BY <1>2, <2>1
  <2> QED
    BY <1>13, <2>2 DEF Sound, Shape, TablesOK
<1>17. ContentsOK(c) /\ IndicesOK(c) /\ Buffers(c)
  BY <1>6, <1>11 DEF ContentsOK, IndicesOK, Buffers
<1>18. Counted(c)
  <2>1. c.nbdet = [b.nbdet EXCEPT ![k] = @ + 1] /\ b.nbdet \in [Records -> Nat]
    BY <1>6, <1>11 DEF SameTables, Sound, Shape, TablesOK
  <2>2. \A j \in Records : Words(c, j) = IF j = k THEN x ELSE Words(b, j)
    BY <1>5, <1>13 DEF Modified
  <2> QED
    BY <1>2, <1>8, <1>13, <2>1, <2>2 DEF Sound, Counted
<1> QED
  BY <1>1, <1>6, <1>11, <1>13, <1>14, <1>15, <1>16, <1>17, <1>18 DEF Sound, Shape, SameSizes

(* The records of a big object.                                             *)
Extent(b, o) == b.iadd[o].rec .. b.iadd[o].rec + Blocs(o) - 1

LEMMA JxlibdBig ==
    ASSUME NEW b, Sound(b), NEW o \in Objects, NEW u \in Values, Holds(b, o, u), ~PetitEcrit(o),
           NEW c, c = Jxlibd(b, o),
           NEW R, R = Extent(b, o)
    PROVE  /\ Sound(c) /\ c.nblmax = b.nblmax /\ c.iadd = b.iadd
           /\ \A k \in R : b.iusadi[k] = o
           /\ Freed(b, c, R)
<1>1. /\ b.iadd[o].rec \in Records /\ b.iusadi[b.iadd[o].rec] = o /\ o # Petits
      /\ \A k \in R : k \in Records /\ b.iusadi[k] = o
  BY BigOf DEF Extent
<1>2. b.iitlec \notin R /\ b.iitecr \notin R
  BY <1>1, JxDiskAssumption DEF Sound, Buffers, Records
<1>3. c = Liberer(b, R)
  BY <1>1 DEF Jxlibd, Extent
<1>4. /\ Sound(c) /\ SameSizes(b, c) /\ c.iadd = b.iadd
      /\ Freed(b, c, R)
  BY <1>2, <1>3, LibererKeeps
<1> QED
  BY <1>1, <1>4, Zenon DEF SameSizes

LEMMA DetruitKeeps ==
    ASSUME NEW b, NEW m, Has(b, m), NEW o \in Objects, NEW d, d = Detruit(b, o)
    PROVE  /\ Has(d, [m EXCEPT ![o] = NoImage]) /\ d.nblmax = b.nblmax
<1>1. Sound(b) /\ Placed(b, m) /\ m \in Contents
  BY DEF Has
<1>2. [m EXCEPT ![o] = NoImage] \in Contents
  BY <1>1 DEF Contents
<1>3. CASE b.iadd[o] = Nowhere
  <2>1. m[o] = NoImage
    BY <1>1, <1>3, JxDiskAssumption DEF Placed, Holds, Places, Records
  <2>2. [m EXCEPT ![o] = NoImage] = m
    BY <1>1, <2>1 DEF Contents
  <2> QED
    BY <1>3, <2>2 DEF Detruit
<1>4. CASE b.iadd[o] # Nowhere
  <2>1. m[o] \in Values /\ Holds(b, o, m[o])
    BY <1>1, <1>4 DEF Placed, Contents
  <2>2. PICK c : c = Jxlibd(b, o)
    OBVIOUS
  <2>3. /\ Sound(c) /\ c.nblmax = b.nblmax /\ c.iadd = b.iadd
        /\ \A p \in Objects \ {o} : m[p] # NoImage => Holds(c, p, m[p])
    <3>1. CASE PetitEcrit(o)
      <4>1. /\ Sound(c) /\ c.nblmax = b.nblmax /\ c.iadd = b.iadd /\ c.iusadi = b.iusadi
            /\ Modified(b, c, b.iadd[o].rec, b.iadd[o].off, Mort)
        BY <1>1, <2>1, <2>2, <3>1, JxlibdSmall
      <4>2. ASSUME NEW p \in Objects \ {o}, m[p] # NoImage PROVE Holds(c, p, m[p])
        <5>1. m[p] \in Values /\ Holds(b, p, m[p]) /\ Mort \in Cells
          BY <1>1, <4>2 DEF Placed, Contents, Cells
        <5> QED
          BY <1>1, <2>1, <3>1, <4>1, <5>1, OthersStay
      <4> QED
        BY <4>1, <4>2
    <3>2. CASE ~PetitEcrit(o)
      <4>1. PICK R : R = Extent(b, o)
        OBVIOUS
      <4>2. /\ Sound(c) /\ c.nblmax = b.nblmax /\ c.iadd = b.iadd
            /\ \A k \in R : b.iusadi[k] = o
            /\ Freed(b, c, R)
        BY <1>1, <2>1, <2>2, <3>2, <4>1, JxlibdBig
      <4>3. ASSUME NEW p \in Objects \ {o}, m[p] # NoImage PROVE Holds(c, p, m[p])
        <5>1. Holds(b, p, m[p])
          BY <1>1, <4>3 DEF Placed
        <5>2. PetitEcrit(p) => b.iadd[p].rec \notin R
          BY <1>1, <4>2, <5>1, SmallOf, JxDiskAssumption
        <5>3. \A k \in R : b.iusadi[k] # p
          BY <4>2
        <5> QED
          BY <1>1, <4>2, <5>1, <5>2, <5>3, LibererPlaces
      <4> QED
        BY <4>2, <4>3
    <3> QED
      BY <3>1, <3>2
  <2>4. d = [c EXCEPT !.iadd[o] = Nowhere]
    BY <1>4, <2>2 DEF Detruit
  <2>5. Sound(d) /\ SameSizes(c, d) /\ Forgotten(c, d, o)
    BY <2>3, <2>4, OubliIsSound
  <2>6. b.iadd \in [Objects -> Places \cup {Nowhere}]
    BY <1>1 DEF Sound, Shape, TablesOK
  <2>7. ASSUME NEW p \in Objects \ {o}
        PROVE  IF m[p] = NoImage THEN d.iadd[p] = Nowhere ELSE Holds(d, p, m[p])
    <3>1. d.iadd[p] = b.iadd[p] /\ d.iadd[p] = c.iadd[p]
      BY <2>3, <2>5, <2>6 DEF Forgotten
    <3>2. CASE m[p] = NoImage
      BY <1>1, <3>1, <3>2 DEF Placed
    <3>3. CASE m[p] # NoImage
      <4>1. Holds(c, p, m[p])
        BY <2>3, <3>3
      <4>2. Holds(d, p, m[p])
        BY <2>5, <3>1, <4>1 DEF Holds, HoldsSmall, HoldsBig, Forgotten
      <4> QED
        BY <3>3, <4>2
    <3> QED
      BY <3>2, <3>3
  <2>8. d.iadd[o] = Nowhere
    BY <2>3, <2>5, <2>6 DEF Forgotten
  <2>9. Placed(d, [m EXCEPT ![o] = NoImage])
    BY <1>1, <2>7, <2>8 DEF Placed, Contents
  <2> QED
    BY <1>2, <2>3, <2>5, <2>9 DEF Has, SameSizes
<1> QED
  BY <1>3, <1>4

-----------------------------------------------------------------------------
(* The growth of the base: the system objects lose their images.            *)
LEMMA DoubledKeeps ==
    ASSUME NEW b, NEW m, Has(b, m), NEW c, c = [b EXCEPT !.nblmax = 2 * @]
    PROVE  Has(c, m) /\ c.nblmax = 2 * b.nblmax
<1>1. DOMAIN b = Fields /\ Sound(b) /\ Placed(b, m)
  BY DEF Has, Sound, Shape, SizesOK
<1>2. /\ DOMAIN c = Fields /\ c.classe = b.classe /\ c.nbluti = b.nbluti /\ c.nbpeti = b.nbpeti
      /\ c.nblim = b.nblim
      /\ c.nblmax = 2 * b.nblmax /\ SameTables(b, c) /\ c.disk = b.disk
      /\ c.iitlec = b.iitlec /\ c.litlec = b.litlec /\ c.tlec = b.tlec
      /\ c.iitecr = b.iitecr /\ c.nitecr = b.nitecr /\ c.tecr = b.tecr
  BY <1>1 DEF Fields, SameTables
<1>3. \A k : Words(c, k) = Words(b, k)
  BY <1>2 DEF Words
<1>4. SizesOK(c)
  BY <1>1, <1>2, JxDiskAssumption DEF Sound, Shape, SizesOK
<1>5. TablesOK(c) /\ ContentsOK(c) /\ IndicesOK(c)
  BY <1>1, <1>2 DEF Sound, Shape, TablesOK, ContentsOK, IndicesOK, SameTables
<1>6. Buffers(c) /\ Ends(c)
  BY <1>1, <1>2 DEF Sound, Buffers, Ends, SameTables
<1>7. Chains(c) /\ Counted(c)
  BY <1>1, <1>2, <1>3 DEF Sound, Chains, Counted, SameTables
<1>8. Placed(c, m)
  BY <1>1, <1>2, <1>3 DEF Placed, Holds, HoldsSmall, HoldsBig, SameTables
<1> QED
  BY <1>2, <1>4, <1>5, <1>6, <1>7, <1>8 DEF Has, Sound, Shape

Agree(m, n) == \A o \in Users : n[o] = m[o]

LEMMA JjagodKeeps ==
    ASSUME NEW b, NEW m, Has(b, m), NEW c, c = Jjagod(b)
    PROVE  /\ c.nblmax = 2 * b.nblmax
           /\ \E n \in Contents : Has(c, n) /\ Agree(m, n)
                                  /\ n[Usadi] = NoImage /\ n[Acce] = NoImage
<1>1. Usadi \in Objects /\ Acce \in Objects /\ Usadi # Acce /\ m \in Contents
  BY JxDiskAssumption DEF Has
<1>2. PICK b1 : b1 = Detruit(b, Usadi)
  OBVIOUS
<1>3. PICK m1 : m1 = [m EXCEPT ![Usadi] = NoImage]
  OBVIOUS
<1>4. Has(b1, m1) /\ b1.nblmax = b.nblmax
  BY <1>1, <1>2, <1>3, DetruitKeeps
<1>5. PICK b2 : b2 = Detruit(b1, Acce)
  OBVIOUS
<1>6. PICK m2 : m2 = [m1 EXCEPT ![Acce] = NoImage]
  OBVIOUS
<1>7. Has(b2, m2) /\ b2.nblmax = b1.nblmax
  BY <1>1, <1>4, <1>5, <1>6, DetruitKeeps
<1>8. c = [b2 EXCEPT !.nblmax = 2 * @]
  BY <1>2, <1>5 DEF Jjagod
<1>9. Has(c, m2) /\ c.nblmax = 2 * b.nblmax
  BY <1>4, <1>7, <1>8, DoubledKeeps
<1>10. m2 \in Contents /\ Agree(m, m2) /\ m2[Usadi] = NoImage /\ m2[Acce] = NoImage
  <2>1. m1 \in Contents /\ m2 \in Contents
    BY <1>4, <1>7 DEF Has
  <2> QED
    BY <1>1, <1>3, <1>6, <2>1 DEF Contents, Agree, Users
<1> QED
  BY <1>9, <1>10

LEMMA AgrandieKeeps ==
    ASSUME NEW b, NEW m, Has(b, m), NEW o, NEW allowed, NEW c, c = Agrandie(b, o, allowed)
    PROVE  \E n \in Contents : /\ Has(c, n) /\ Agree(m, n)
                               /\ b.nblmax <= c.nblmax
                               /\ c.nblmax = b.nblmax => c = b /\ n = m
                               /\ c # b => b.iadd[o] = Nowhere /\ n[Usadi] = NoImage
                                           /\ n[Acce] = NoImage
<1>1. b.nblmax \in Nat \ {0}
  BY JxDiskAssumption DEF Has, Sound, Shape, SizesOK
<1>2. CASE c = b
  BY <1>1, <1>2 DEF Agree, Has
<1>3. CASE c # b
  <2>1. c = Jjagod(b) /\ b.iadd[o] = Nowhere
    BY <1>3 DEF Agrandie
  <2>2. PICK n \in Contents : Has(c, n) /\ Agree(m, n) /\ n[Usadi] = NoImage /\ n[Acce] = NoImage
    BY <2>1, JjagodKeeps
  <2>3. c.nblmax = 2 * b.nblmax
    BY <2>1, JjagodKeeps
  <2> QED
    BY <1>1, <2>1, <2>2, <2>3
<1> QED
  BY <1>2, <1>3

-----------------------------------------------------------------------------
(* First image of a small object.                                           *)
LEMMA Least ==
    ASSUME NEW S \in SUBSET Nat, S # {} PROVE Min(S) \in S
<1>1. PICK n \in S : \A k \in S : ~(<<k, n>> \in OpToRel(<, Nat))
  BY NatLessThanWellFounded, WFMin
<1>2. \A k \in S : n <= k
  <2>1. SUFFICES ASSUME NEW k \in S, k < n PROVE FALSE
    OBVIOUS
  <2>2. <<k, n>> \in OpToRel(<, Nat)
    BY <2>1 DEF OpToRel
  <2> QED
    BY <1>1, <2>2
<1> QED
  BY <1>2 DEF Min

LEMMA Appended ==
    ASSUME NEW w, IsWords(w), NEW n \in Nat, Before(w, n), Chain(w),
           NEW o \in Objects, NEW v \in Values, n + Mots(o) + Nde <= W,
           NEW i, i = n + 3, NEW x, x = Avec(w, i, Entry(o, v))
    PROVE  /\ IsWords(x) /\ Chain(x) /\ Dead(x) = Dead(w) /\ Before(x, i + Mots(o))
           /\ i \in DOMAIN x /\ x[i] = Entry(o, v)
           /\ \A j \in DOMAIN w : j \in DOMAIN x /\ x[j] = w[j]
<1>1. PICK l \in Nat : l = Mots(o)
  BY LengthsOf
<1>2. PICK e : e = Entry(o, v)
  OBVIOUS
<1>3. e \in Cells /\ e # Mort /\ e.id = o
  BY <1>2, EntryOf
<1>4. i \in Nat /\ W \in Nat /\ i + l + 3 <= W
  BY <1>1, JxDiskAssumption DEF Nde
<1>5. \A j \in DOMAIN w : j \in 0..W /\ j <= n /\ j # i
  BY <1>4, JxDiskAssumption DEF Before, IsWords
<1>6. x = [j \in DOMAIN w \cup {i} |-> IF j = i THEN e ELSE w[j]]
  BY <1>2 DEF Avec
<1>7. /\ DOMAIN x = DOMAIN w \cup {i} /\ x[i] = e
      /\ \A j \in DOMAIN w : x[j] = w[j]
  BY <1>5, <1>6
<1> HIDE DEF Mots
<1>8. IsWords(x)
  <2>1. x = [j \in DOMAIN x |-> x[j]]
    BY <1>6
  <2>2. DOMAIN x \subseteq 0..W
    BY <1>1, <1>4, <1>5, <1>7
  <2>3. \A j \in DOMAIN x : x[j] \in Cells
    BY <1>3, <1>7 DEF IsWords
  <2> QED
    BY <2>1, <2>2, <2>3 DEF IsWords
<1>9. Dead(x) = Dead(w)
  BY <1>3, <1>5, <1>7 DEF Dead
<1>10. \A j \in DOMAIN w : w[j] # Mort => /\ w[j].id \in Objects /\ Mots(w[j].id) \in Nat
                                         /\ j + Mots(w[j].id) <= n
  BY LengthsOf DEF Before, IsWords, Cells
<1>11. Before(x, i + Mots(o))
  BY <1>1, <1>3, <1>4, <1>5, <1>7, <1>10 DEF Before
<1>12. Chain(x)
  <2>1. ASSUME NEW j \in DOMAIN x
        PROVE  /\ 1 <= j
               /\ x[j] # Mort => /\ j + Mots(x[j].id) + 3 <= W
                                 /\ \A k \in DOMAIN x : k > j => k >= j + Mots(x[j].id) + 3
    <3>1. CASE j = i
      BY <1>1, <1>3, <1>4, <1>5, <1>7, <3>1
    <3>2. CASE j \in DOMAIN w
      BY <1>4, <1>5, <1>7, <1>10, <3>2 DEF Chain
    <3> QED
      BY <1>7, <3>1, <3>2
  <2> QED
    BY <2>1 DEF Chain
<1> QED
  BY <1>2, <1>7, <1>8, <1>9, <1>11, <1>12

(* A new record of small objects.                                           *)
LEMMA NouveauKeeps ==
    ASSUME NEW b, NEW m, Has(b, m), Clean(b), b.nblmax <= MaxRec, Libres(b) # {}, 3 <= W,
           NEW c, c = Nouveau(b)
    PROVE  /\ Has(c, m) /\ c.nblmax = b.nblmax /\ c.iadd = b.iadd
           /\ c.iitecr # 0 /\ c.nitecr = 0 /\ c.tecr = Nowords
<1>1. PICK k : k = Min(Libres(b))
  OBVIOUS
<1>2. /\ Sound(b) /\ Placed(b, m) /\ b.nblmax \in Nat /\ MaxRec \in Nat /\ b.nbluti \in 0..b.nblmax
      /\ DOMAIN b = Fields
  BY JxDiskAssumption DEF Has, Sound, Shape, SizesOK
<1>3. k \in Libres(b)
  BY <1>1, <1>2, Least DEF Libres
<1>4. k \in Records /\ k # 0 /\ k \in 1..b.nblmax /\ b.iusadi[k] = Libre
  BY <1>2, <1>3 DEF Libres, Records
<1>5. c = [b EXCEPT !.iitecr = k, !.nitecr = 0, !.tecr = Nowords,
                    !.iusadi[k] = Petits, !.nbdet[k] = 0,
                    !.nbluti = IF k > @ THEN k ELSE @]
  BY <1>1 DEF Nouveau
<1>6. /\ DOMAIN c = Fields /\ c.classe = b.classe /\ c.nblmax = b.nblmax /\ c.nbpeti = b.nbpeti
      /\ c.nblim = b.nblim
      /\ c.nbluti = IF k > b.nbluti THEN k ELSE b.nbluti
      /\ c.iusadi = [b.iusadi EXCEPT ![k] = Petits] /\ c.nbdet = [b.nbdet EXCEPT ![k] = 0]
      /\ c.iadd = b.iadd /\ c.disk = b.disk
      /\ c.iitlec = b.iitlec /\ c.litlec = b.litlec /\ c.tlec = b.tlec
      /\ c.iitecr = k /\ c.nitecr = 0 /\ c.tecr = Nowords
  BY <1>2, <1>5 DEF Fields
<1>7. k # b.iitlec /\ k # b.iitecr
  BY <1>2, <1>4, JxDiskAssumption DEF Sound, Buffers
<1>8. /\ Words(c, k) = Nowords
      /\ \A j \in Records \ {k} : Words(c, j) = Words(b, j)
  BY <1>6, <1>7, JxDiskAssumption DEF Words, Clean, Records
<1>9. SizesOK(c)
  BY <1>2, <1>4, <1>6 DEF Sound, Shape, SizesOK
<1>10. TablesOK(c) /\ \A j \in Records : c.iusadi[j] = IF j = k THEN Petits ELSE b.iusadi[j]
  <2>1. /\ b.iusadi \in [Records -> Objects \cup {Libre, Petits}]
        /\ b.nbdet \in [Records -> Nat] /\ b.iadd \in [Objects -> Places \cup {Nowhere}]
    BY <1>2 DEF Sound, Shape, TablesOK
  <2>2. c.iusadi \in [Records -> Objects \cup {Libre, Petits}]
    BY <1>4, <1>6, <2>1
  <2>3. c.nbdet \in [Records -> Nat]
    BY <1>4, <1>6, <2>1
  <2> QED
    BY <1>4, <1>6, <2>1, <2>2, <2>3 DEF TablesOK
<1>11. ContentsOK(c)
  BY <1>2, <1>6, NowordsIsWords DEF Sound, Shape, ContentsOK
<1>12. IndicesOK(c)
  BY <1>2, <1>4, <1>6, JxDiskAssumption DEF Sound, Shape, IndicesOK, Records
<1>13. Ends(c)
  BY <1>6, NowordsIsWords DEF Ends
<1>14. Buffers(c)
  BY <1>2, <1>4, <1>6, <1>7, <1>10, JxDiskAssumption DEF Sound, Shape, IndicesOK, Buffers, Records
<1>15. Chains(c)
  BY <1>2, <1>8, <1>10, NowordsIsWords DEF Sound, Chains
<1>16. Counted(c)
  <2>1. Cardinality(Dead(Words(c, k))) = 0
    BY <1>8, NowordsIsWords, FS_EmptySet
  <2>2. \A j \in Records : c.nbdet[j] = IF j = k THEN 0 ELSE b.nbdet[j]
    BY <1>2, <1>6 DEF Sound, Shape, TablesOK
  <2> QED
    BY <1>2, <1>8, <1>10, <2>1, <2>2 DEF Sound, Counted
<1>17. Sound(c)
  BY <1>9, <1>10, <1>11, <1>12, <1>13, <1>14, <1>15, <1>16 DEF Sound, Shape
<1>18. ASSUME NEW p \in Objects, m[p] # NoImage PROVE Holds(c, p, m[p])
  <2>1. Holds(b, p, m[p])
    BY <1>2, <1>18 DEF Placed
  <2>2. PICK l, j : l = b.iadd[p].rec /\ j = b.iadd[p].off
    OBVIOUS
  <2>3. ASSUME PetitEcrit(p)
        PROVE  /\ c.iusadi[l] = Petits
               /\ j \in DOMAIN Words(c, l) /\ Words(c, l)[j] = Words(b, l)[j]
    <3>1. l \in Records /\ b.iusadi[l] = Petits /\ j \in DOMAIN Words(b, l)
      BY <1>2, <2>1, <2>2, <2>3, SmallOf
    <3> QED
      BY <1>4, <1>8, <1>10, <3>1, JxDiskAssumption
  <2>4. ASSUME ~PetitEcrit(p)
        PROVE  /\ \A r \in l .. l + Blocs(p) - 1 : c.iusadi[r] = p
               /\ c.disk[l] = b.disk[l]
    <3>1. /\ p # Libre
          /\ \A r \in l .. l + Blocs(p) - 1 : r \in Records /\ b.iusadi[r] = p
      BY <1>2, <2>1, <2>2, <2>4, BigOf
    <3> QED
      BY <1>4, <1>6, <1>10, <3>1
  <2>5. c.iadd[p] = b.iadd[p]
    BY <1>6
  <2> QED
    BY <2>1, <2>2, <2>3, <2>4, <2>5, HoldsStays
<1>19. Placed(c, m)
  BY <1>2, <1>6, <1>18 DEF Placed
<1> QED
  BY <1>4, <1>6, <1>17, <1>19 DEF Has

(* A small object is put at the end of the write buffer.                    *)
Ajoute(b, o, v) ==
    LET i == b.nitecr + 3
    IN  [b EXCEPT !.tecr = Avec(@, i, Entry(o, v)),
                  !.iadd[o] = [rec |-> b.iitecr, off |-> i],
                  !.nitecr = i + Mots(o)]

LEMMA AppendKeeps ==
    ASSUME NEW b, NEW m, Has(b, m), b.iitecr # 0, NEW o \in Objects, m[o] = NoImage,
           PetitEcrit(o), b.nitecr + Mots(o) + Nde <= W, NEW v \in Values,
           NEW c, c = Ajoute(b, o, v)
    PROVE  Has(c, [m EXCEPT ![o] = v]) /\ c.nblmax = b.nblmax
<1>1. /\ Sound(b) /\ Placed(b, m) /\ m \in Contents /\ DOMAIN b = Fields
      /\ IsWords(b.tecr) /\ b.nitecr \in Nat
  BY DEF Has, Sound, Shape, SizesOK, ContentsOK, IndicesOK
<1>2. PICK k, i : k = b.iitecr /\ i = b.nitecr + 3
  OBVIOUS
<1>3. /\ k \in Records /\ k # 0 /\ b.iusadi[k] = Petits /\ k # b.iitlec
      /\ Words(b, k) = b.tecr
  BY <1>1, <1>2, JxDiskAssumption DEF Sound, Shape, IndicesOK, Buffers, Records, Words
<1>4. Before(b.tecr, b.nitecr) /\ Chain(b.tecr)
  BY <1>1, <1>2, <1>3 DEF Sound, Ends, Chains
<1>5. PICK x : x = Avec(b.tecr, i, Entry(o, v))
  OBVIOUS
<1>6. /\ IsWords(x) /\ Chain(x) /\ Dead(x) = Dead(b.tecr) /\ Before(x, i + Mots(o))
      /\ i \in DOMAIN x /\ x[i] = Entry(o, v)
      /\ \A j \in DOMAIN b.tecr : j \in DOMAIN x /\ x[j] = b.tecr[j]
  BY <1>1, <1>2, <1>4, <1>5, Appended
<1>7. /\ SameSizes(b, c) /\ c.iusadi = b.iusadi /\ c.nbdet = b.nbdet
      /\ c.iadd = [b.iadd EXCEPT ![o] = [rec |-> k, off |-> i]]
      /\ c.disk = b.disk /\ c.iitlec = b.iitlec /\ c.litlec = b.litlec /\ c.tlec = b.tlec
      /\ c.iitecr = k /\ c.nitecr = i + Mots(o) /\ c.tecr = x
  BY <1>1, <1>2, <1>5 DEF Fields, SameSizes, Ajoute
<1>8. \A j \in Records : Words(c, j) = IF j = k THEN x ELSE Words(b, j)
  BY <1>2, <1>3, <1>7 DEF Words
<1>9. /\ i \in 0..W /\ i + Mots(o) \in 0..W /\ i + Mots(o) + 3 <= W
  BY <1>1, <1>2, LengthsOf, JxDiskAssumption DEF Nde
<1>10. SizesOK(c)
  BY <1>1, <1>7 DEF Sound, Shape, SizesOK, SameSizes
<1>11. TablesOK(c)
  <2>1. [rec |-> k, off |-> i] \in Places
    BY <1>3, <1>9 DEF Places
  <2>2. c.iadd \in [Objects -> Places \cup {Nowhere}]
    BY <1>1, <1>7, <2>1 DEF Sound, Shape, TablesOK
  <2> QED
    BY <1>1, <1>7, <2>2 DEF Sound, Shape, TablesOK
<1>12. ContentsOK(c)
  BY <1>1, <1>6, <1>7 DEF Sound, Shape, ContentsOK
<1>13. IndicesOK(c)
  BY <1>1, <1>2, <1>7, <1>9 DEF Sound, Shape, IndicesOK
<1>14. Buffers(c)
  BY <1>1, <1>2, <1>7 DEF Sound, Buffers
<1>15. Ends(c)
  BY <1>6, <1>7, <1>9 DEF Ends
<1>16. Chains(c)
  BY <1>1, <1>6, <1>7, <1>8 DEF Sound, Chains
<1>17. Counted(c)
  BY <1>1, <1>3, <1>6, <1>7, <1>8 DEF Sound, Counted
<1>18. Sound(c)
  BY <1>10, <1>11, <1>12, <1>13, <1>14, <1>15, <1>16, <1>17 DEF Sound, Shape
<1>19. /\ c.iadd[o] = [rec |-> k, off |-> i]
       /\ \A p \in Objects \ {o} : c.iadd[p] = b.iadd[p]
  BY <1>1, <1>7 DEF Sound, Shape, TablesOK
<1>20. Holds(c, o, v)
  <2>1. c.iadd[o] \in Places
    BY <1>3, <1>9, <1>19 DEF Places
  <2>2. c.iadd[o].rec = k /\ c.iadd[o].off = i /\ c.iusadi[k] = Petits /\ Words(c, k) = x
    BY <1>3, <1>7, <1>8, <1>19
  <2>3. HoldsSmall(c, o, v)
    BY <1>6, <2>2, Zenon DEF HoldsSmall
  <2> QED
    BY <2>1, <2>3 DEF Holds
<1>21. ASSUME NEW p \in Objects \ {o}, m[p] # NoImage PROVE Holds(c, p, m[p])
  <2>1. Holds(b, p, m[p])
    BY <1>1, <1>21 DEF Placed
  <2>2. PICK l, j : l = b.iadd[p].rec /\ j = b.iadd[p].off
    OBVIOUS
  <2>3. ASSUME PetitEcrit(p)
        PROVE  /\ c.iusadi[l] = Petits
               /\ j \in DOMAIN Words(c, l) /\ Words(c, l)[j] = Words(b, l)[j]
    <3>1. l \in Records /\ b.iusadi[l] = Petits /\ j \in DOMAIN Words(b, l)
      BY <1>1, <2>1, <2>2, <2>3, SmallOf
    <3> QED
      BY <1>3, <1>6, <1>7, <1>8, <3>1
  <2>4. ASSUME ~PetitEcrit(p)
        PROVE  /\ \A r \in l .. l + Blocs(p) - 1 : c.iusadi[r] = p
               /\ c.disk[l] = b.disk[l]
    BY <1>1, <1>7, <2>1, <2>2, <2>4, BigOf
  <2>5. c.iadd[p] = b.iadd[p]
    BY <1>19
  <2> QED
    BY <2>1, <2>2, <2>3, <2>4, <2>5, HoldsStays
<1>22. v # NoImage
  BY JxDiskAssumption
<1>23. Placed(c, [m EXCEPT ![o] = v])
  BY <1>1, <1>19, <1>20, <1>21, <1>22 DEF Placed, Contents
<1> QED
  BY <1>1, <1>7, <1>18, <1>23 DEF Has, Contents, SameSizes

LEMMA PremierPetitKeeps ==
    ASSUME NEW b, NEW m, Has(b, m), b.nblmax <= MaxRec, NEW o \in Objects, m[o] = NoImage,
           PetitEcrit(o), ~Pleine(b, o), NEW v \in Values, NEW c, c = PremierPetit(b, o, v)
    PROVE  Has(c, [m EXCEPT ![o] = v]) /\ c.nblmax = b.nblmax
<1>1. /\ Sound(b) /\ Placed(b, m) /\ m \in Contents /\ b.iadd[o] = Nowhere
      /\ b.nitecr \in Nat /\ b.iitecr \in Nat
  BY DEF Has, Placed, Sound, Shape, IndicesOK
<1>2. Mots(o) + Nde < W /\ Mots(o) \in Nat
  BY LengthsOf
<1>3. PICK t : t = IF Tient(b, o) THEN b ELSE Nouveau(ViderEcriture(b))
  OBVIOUS
<1>4. /\ Has(t, m) /\ t.nblmax = b.nblmax /\ t.iitecr # 0
      /\ t.nitecr + Mots(o) + Nde <= W
  <2>1. CASE Tient(b, o)
    BY <1>1, <1>3, <2>1 DEF Tient
  <2>2. CASE ~Tient(b, o)
    <3>1. PICK f : f = ViderEcriture(b)
      OBVIOUS
    <3>2. Sound(f) /\ SameView(b, f) /\ Clean(f)
      BY <1>1, <3>1, ViderEcritureKeeps DEF Clean
    <3>3. Has(f, m) /\ f.nblmax = b.nblmax /\ f.iusadi = b.iusadi
      BY <1>1, <3>2, SameViewIsPlaced DEF Has, SameView, SameSizes, SameTables
    <3>4. Libres(f) # {}
      BY <1>1, <2>2, <3>3 DEF Pleine, Libres
    <3>5. 3 <= W
      BY <1>2, JxDiskAssumption DEF Nde
    <3>6. t = Nouveau(f)
      BY <1>3, <2>2, <3>1
    <3>7. /\ Has(t, m) /\ t.nblmax = f.nblmax /\ t.iitecr # 0 /\ t.nitecr = 0
      BY <3>2, <3>3, <3>4, <3>5, <3>6, NouveauKeeps
    <3> QED
      BY <1>2, <3>3, <3>7, JxDiskAssumption DEF Nde
  <2> QED
    BY <2>1, <2>2
<1>5. c = Ajoute(t, o, v)
  BY <1>3 DEF PremierPetit, Ajoute
<1> QED
  BY <1>4, <1>5, AppendKeeps

-----------------------------------------------------------------------------
(* Writing of a big object, in the records of R.                            *)
Suite(k, o) == k .. k + Blocs(o) - 1

WrittenBig(b, c, R, o, k, e) ==
    /\ \A r \in Records : c.iusadi[r] = IF r \in R THEN o ELSE b.iusadi[r]
    /\ \A r \in Records \ R : Words(c, r) = Words(b, r) /\ c.disk[r] = b.disk[r]
    /\ 0 \in DOMAIN c.disk[k] /\ c.disk[k][0] = e

LEMMA OneWord ==
    ASSUME NEW e \in Cells, NEW w, w = Avec(Nowords, 0, e)
    PROVE  IsWords(w) /\ 0 \in DOMAIN w /\ w[0] = e
<1>1. w = [j \in {0} |-> e]
  BY NowordsIsWords DEF Avec
<1>2. DOMAIN w = {0} /\ w[0] = e /\ w = [j \in DOMAIN w |-> w[j]]
  BY <1>1
<1>3. {0} \subseteq 0..W
  BY JxDiskAssumption
<1> QED
  BY <1>2, <1>3 DEF IsWords

LEMMA EcrireGrosKeeps ==
    ASSUME NEW b, Sound(b), NEW o \in Objects, NEW v \in Values, NEW k \in Records,
           NEW R, R = Suite(k, o),
           \A r \in R : r \in Records /\ b.iusadi[r] # Petits,
           NEW c, c = EcrireGros(b, k, o, v)
    PROVE  /\ Sound(c) /\ SameSizes(b, c) /\ c.iadd = b.iadd
           /\ WrittenBig(b, c, R, o, k, Entry(o, v))
<1>1. PICK w : w = Avec(Nowords, 0, Entry(o, v))
  OBVIOUS
<1>2. IsWords(w) /\ 0 \in DOMAIN w /\ w[0] = Entry(o, v)
  BY <1>1, EntryOf, OneWord
<1>3. k \in R /\ o # Petits
  BY LengthsOf, JxDiskAssumption DEF Suite, Records
<1>4. DOMAIN b = Fields
  BY DEF Sound, Shape, SizesOK
<1>5. /\ SameSizes(b, c) /\ c.iadd = b.iadd /\ c.nbdet = b.nbdet
      /\ c.iusadi = [r \in Records |-> IF r \in R THEN o ELSE b.iusadi[r]]
      /\ c.disk = [r \in Records |-> IF r \in R THEN w ELSE b.disk[r]]
  BY <1>1, <1>4 DEF EcrireGros, Suite, Fields, SameSizes
<1>6. /\ c.iitlec = b.iitlec /\ c.litlec = b.litlec /\ c.tlec = b.tlec
      /\ c.iitecr = b.iitecr /\ c.nitecr = b.nitecr /\ c.tecr = b.tecr
  BY <1>4 DEF EcrireGros, Fields
<1>7. \A r \in Records \ R : Words(c, r) = Words(b, r) /\ c.disk[r] = b.disk[r]
  BY <1>5, <1>6 DEF Words
<1>8. WrittenBig(b, c, R, o, k, Entry(o, v))
  BY <1>2, <1>3, <1>5, <1>7 DEF WrittenBig
<1>9. SizesOK(c)
  BY <1>5 DEF Sound, Shape, SizesOK, SameSizes
<1>10. TablesOK(c)
  BY <1>5 DEF Sound, Shape, TablesOK
<1>11. ContentsOK(c)
  BY <1>2, <1>5, <1>6 DEF Sound, Shape, ContentsOK
<1>12. IndicesOK(c) /\ Ends(c)
  BY <1>6 DEF Sound, Shape, IndicesOK, Ends
<1>13. Buffers(c)
  <2>1. b.iitlec # 0 => b.iitlec \in Records /\ b.iitlec \notin R
    BY JxDiskAssumption DEF Sound, Shape, IndicesOK, Records, Buffers
  <2>2. b.iitecr # 0 => b.iitecr \in Records /\ b.iitecr \notin R
    BY JxDiskAssumption DEF Sound, Shape, IndicesOK, Records, Buffers
  <2> QED
    BY <1>5, <1>6, <2>1, <2>2 DEF Sound, Buffers
<1>14. Chains(c)
  BY <1>3, <1>5, <1>7 DEF Sound, Chains
<1>15. Counted(c)
  BY <1>3, <1>5, <1>7 DEF Sound, Counted
<1> QED
  BY <1>5, <1>8, <1>9, <1>10, <1>11, <1>12, <1>13, <1>14, <1>15 DEF Sound, Shape

(* The other objects are where they were.                                   *)
LEMMA OthersStayBig ==
    ASSUME NEW b, NEW c, Sound(b), NEW R, NEW o \in Objects, NEW k, NEW e,
           WrittenBig(b, c, R, o, k, e), \A r \in R : b.iusadi[r] \in {Libre, o},
           NEW p \in Objects \ {o}, NEW v, Holds(b, p, v), c.iadd[p] = b.iadd[p]
    PROVE  Holds(c, p, v)
<1>1. PICK l, j : l = b.iadd[p].rec /\ j = b.iadd[p].off
  OBVIOUS
<1>2. ASSUME PetitEcrit(p)
      PROVE  /\ c.iusadi[l] = Petits
             /\ j \in DOMAIN Words(c, l) /\ Words(c, l)[j] = Words(b, l)[j]
  <2>1. l \in Records /\ b.iusadi[l] = Petits /\ j \in DOMAIN Words(b, l)
    BY <1>1, <1>2, SmallOf
  <2>2. l \notin R
    BY <2>1, JxDiskAssumption
  <2> QED
    BY <2>1, <2>2 DEF WrittenBig
<1>3. ASSUME ~PetitEcrit(p)
      PROVE  /\ \A r \in l .. l + Blocs(p) - 1 : c.iusadi[r] = p
             /\ c.disk[l] = b.disk[l]
  <2>1. /\ l \in Records /\ b.iusadi[l] = p /\ p # Libre
        /\ \A r \in l .. l + Blocs(p) - 1 : r \in Records /\ b.iusadi[r] = p
    BY <1>1, <1>3, BigOf
  <2>2. \A r \in Records : b.iusadi[r] = p => r \notin R
    BY <2>1
  <2> QED
    BY <2>1, <2>2 DEF WrittenBig
<1> QED
  BY <1>1, <1>2, <1>3, HoldsStays

LEMMA RewriteBigKeeps ==
    ASSUME NEW b, NEW m, Has(b, m), NEW o \in Objects, m[o] # NoImage, ~PetitEcrit(o),
           NEW v \in Values, NEW c, c = EcrireGros(b, b.iadd[o].rec, o, v)
    PROVE  Has(c, [m EXCEPT ![o] = v]) /\ SameSizes(b, c)
<1>1. Sound(b) /\ Placed(b, m) /\ m \in Contents /\ m[o] \in Values /\ Holds(b, o, m[o])
  BY DEF Has, Placed, Contents
<1>2. PICK k : k = b.iadd[o].rec
  OBVIOUS
<1>3. PICK R : R = Suite(k, o)
  OBVIOUS
<1>4. /\ k \in Records /\ k + Blocs(o) - 1 <= MaxRec /\ o # Petits
      /\ \A r \in R : r \in Records /\ b.iusadi[r] = o
  BY <1>1, <1>2, <1>3, BigOf DEF Suite
<1>5. /\ Sound(c) /\ SameSizes(b, c) /\ c.iadd = b.iadd
      /\ WrittenBig(b, c, R, o, k, Entry(o, v))
  BY <1>1, <1>2, <1>3, <1>4, EcrireGrosKeeps
<1>6. Holds(c, o, v)
  <2>1. c.iadd[o] = b.iadd[o] /\ b.iadd[o] \in Places /\ b.iadd[o].off = 0
    BY <1>1, <1>5 DEF Holds, HoldsBig
  <2>2. HoldsBig(c, o, v)
    BY <1>2, <1>3, <1>4, <1>5, <2>1 DEF HoldsBig, WrittenBig, Suite
  <2> QED
    BY <2>1, <2>2 DEF Holds
<1>7. ASSUME NEW p \in Objects \ {o}
      PROVE  IF m[p] = NoImage THEN c.iadd[p] = Nowhere ELSE Holds(c, p, m[p])
  <2>1. CASE m[p] = NoImage
    BY <1>1, <1>5, <2>1 DEF Placed
  <2>2. CASE m[p] # NoImage
    <3>1. Holds(b, p, m[p]) /\ c.iadd[p] = b.iadd[p]
      BY <1>1, <1>5, <2>2 DEF Placed
    <3>2. Holds(c, p, m[p])
      BY <1>1, <1>4, <1>5, <3>1, OthersStayBig
    <3> QED
      BY <2>2, <3>2
  <2> QED
    BY <2>1, <2>2
<1>8. v # NoImage
  BY JxDiskAssumption
<1>9. Placed(c, [m EXCEPT ![o] = v])
  BY <1>1, <1>6, <1>7, <1>8 DEF Placed, Contents
<1> QED
  BY <1>1, <1>5, <1>9 DEF Has, Contents

(* First image of a big object.                                             *)
Installe(g, o, k) ==
    LET last == k + Blocs(o) - 1
    IN  [g EXCEPT !.iadd[o] = [rec |-> k, off |-> 0],
                  !.nbluti = IF last > @ THEN last ELSE @]

LEMMA InstalleIsSound ==
    ASSUME NEW g, Sound(g), NEW o \in Objects, NEW k \in Records,
           k + Blocs(o) - 1 <= g.nblmax, NEW c, c = Installe(g, o, k)
    PROVE  /\ Sound(c) /\ c.nblmax = g.nblmax
           /\ c.iadd = [g.iadd EXCEPT ![o] = [rec |-> k, off |-> 0]]
           /\ c.iusadi = g.iusadi /\ c.disk = g.disk
           /\ \A r : Words(c, r) = Words(g, r)
<1>1. PICK last : last = k + Blocs(o) - 1
  OBVIOUS
<1>2. last \in Nat /\ last <= g.nblmax
  BY <1>1, LengthsOf, JxDiskAssumption DEF Records
<1>3. DOMAIN g = Fields
  BY DEF Sound, Shape, SizesOK
<1>4. /\ DOMAIN c = Fields /\ c.classe = g.classe /\ c.nblmax = g.nblmax /\ c.nbpeti = g.nbpeti
      /\ c.nblim = g.nblim
      /\ c.nbluti = IF last > g.nbluti THEN last ELSE g.nbluti
      /\ c.iadd = [g.iadd EXCEPT ![o] = [rec |-> k, off |-> 0]]
      /\ c.iusadi = g.iusadi /\ c.nbdet = g.nbdet /\ c.disk = g.disk
      /\ c.iitlec = g.iitlec /\ c.litlec = g.litlec /\ c.tlec = g.tlec
      /\ c.iitecr = g.iitecr /\ c.nitecr = g.nitecr /\ c.tecr = g.tecr
  BY <1>1, <1>3 DEF Installe, Fields
<1>5. \A r : Words(c, r) = Words(g, r)
  BY <1>4 DEF Words
<1>6. SizesOK(c)
  BY <1>2, <1>4 DEF Sound, Shape, SizesOK
<1>7. TablesOK(c)
  <2>1. [rec |-> k, off |-> 0] \in Places
    BY JxDiskAssumption DEF Places
  <2> QED
    BY <1>4, <2>1 DEF Sound, Shape, TablesOK
<1>8. ContentsOK(c) /\ IndicesOK(c) /\ Buffers(c) /\ Ends(c)
  BY <1>4 DEF Sound, Shape, ContentsOK, IndicesOK, Buffers, Ends
<1>9. Chains(c) /\ Counted(c)
  BY <1>4, <1>5 DEF Sound, Chains, Counted
<1> QED
  BY <1>4, <1>5, <1>6, <1>7, <1>8, <1>9 DEF Sound, Shape

LEMMA PremierGrosKeeps ==
    ASSUME NEW b, NEW m, Has(b, m), b.nblmax <= MaxRec, NEW o \in Objects, m[o] = NoImage,
           ~PetitEcrit(o), ~Pleine(b, o), NEW v \in Values, NEW c, c = PremierGros(b, o, v)
    PROVE  Has(c, [m EXCEPT ![o] = v]) /\ c.nblmax = b.nblmax
<1>1. /\ Sound(b) /\ Placed(b, m) /\ m \in Contents /\ b.iadd[o] = Nowhere
      /\ b.nblmax \in Nat /\ MaxRec \in Nat
  BY JxDiskAssumption DEF Has, Placed, Sound, Shape, SizesOK
<1>2. Blocs(o) \in Nat \ {0}
  BY LengthsOf
<1>3. PICK k : k = Min(Suites(b, Blocs(o)))
  OBVIOUS
<1>4. k \in Suites(b, Blocs(o))
  <2>1. Suites(b, Blocs(o)) # {}
    BY <1>1 DEF Pleine
  <2>2. Suites(b, Blocs(o)) \in SUBSET Nat
    BY <1>1, <1>2 DEF Suites
  <2> QED
    BY <1>3, <2>1, <2>2, Least
<1>5. PICK R : R = Suite(k, o)
  OBVIOUS
<1>6. /\ k \in Nat /\ 1 <= k /\ k <= b.nblmax - Blocs(o)
      /\ \A r \in R : r \in 1..b.nblmax /\ b.iusadi[r] = Libre
  BY <1>1, <1>2, <1>4, <1>5 DEF Suites, Suite, Libres
<1>7. /\ k \in Records /\ k + Blocs(o) - 1 <= MaxRec /\ k + Blocs(o) - 1 <= b.nblmax
      /\ \A r \in R : r \in Records /\ b.iusadi[r] = Libre
  BY <1>1, <1>2, <1>6 DEF Records
<1>8. PICK g : g = EcrireGros(b, k, o, v)
  OBVIOUS
<1>9. \A r \in R : r \in Records /\ b.iusadi[r] # Petits
  BY <1>7, JxDiskAssumption
<1>10. /\ Sound(g) /\ SameSizes(b, g) /\ g.iadd = b.iadd
       /\ WrittenBig(b, g, R, o, k, Entry(o, v))
  BY <1>1, <1>5, <1>7, <1>8, <1>9, EcrireGrosKeeps
<1>11. c = Installe(g, o, k)
  BY <1>3, <1>8 DEF PremierGros, Installe
<1>12. /\ Sound(c) /\ c.nblmax = g.nblmax
       /\ c.iadd = [g.iadd EXCEPT ![o] = [rec |-> k, off |-> 0]]
       /\ c.iusadi = g.iusadi /\ c.disk = g.disk
       /\ \A r : Words(c, r) = Words(g, r)
  BY <1>7, <1>10, <1>11, InstalleIsSound DEF SameSizes
<1>13. b.iadd \in [Objects -> Places \cup {Nowhere}]
  BY <1>1 DEF Sound, Shape, TablesOK
<1>14. /\ c.iadd[o] = [rec |-> k, off |-> 0]
       /\ \A p \in Objects \ {o} : c.iadd[p] = b.iadd[p]
  BY <1>10, <1>12, <1>13
<1>15. WrittenBig(b, c, R, o, k, Entry(o, v))
  BY <1>10, <1>12 DEF WrittenBig
<1>16. Holds(c, o, v)
  <2>1. c.iadd[o] \in Places /\ c.iadd[o].off = 0 /\ c.iadd[o].rec = k
    BY <1>7, <1>14, JxDiskAssumption DEF Places
  <2>2. HoldsBig(c, o, v)
    BY <1>5, <1>7, <1>15, <2>1 DEF HoldsBig, WrittenBig, Suite
  <2> QED
    BY <2>1, <2>2 DEF Holds
<1>17. ASSUME NEW p \in Objects \ {o}
      PROVE  IF m[p] = NoImage THEN c.iadd[p] = Nowhere ELSE Holds(c, p, m[p])
  <2>1. CASE m[p] = NoImage
    BY <1>1, <1>14, <2>1 DEF Placed
  <2>2. CASE m[p] # NoImage
    <3>1. Holds(b, p, m[p]) /\ c.iadd[p] = b.iadd[p]
      BY <1>1, <1>14, <2>2 DEF Placed
    <3>2. Holds(c, p, m[p])
      BY <1>1, <1>7, <1>15, <3>1, OthersStayBig
    <3> QED
      BY <2>2, <3>2
  <2> QED
    BY <2>1, <2>2
<1>18. v # NoImage
  BY JxDiskAssumption
<1>19. Placed(c, [m EXCEPT ![o] = v])
  BY <1>1, <1>16, <1>17, <1>18 DEF Placed, Contents
<1> QED
  BY <1>1, <1>10, <1>12, <1>19 DEF Has, Contents, SameSizes

(* jxecro, when there is room.                                              *)
LEMMA JxecroKeeps ==
    ASSUME NEW b, NEW m, Has(b, m), b.nblmax <= MaxRec, NEW o \in Objects, ~Pleine(b, o),
           NEW v \in Values, NEW c, c = Jxecro(b, o, v)
    PROVE  Has(c, [m EXCEPT ![o] = v]) /\ c.nblmax = b.nblmax
<1>1. m[o] = NoImage <=> b.iadd[o] = Nowhere
  BY JxDiskAssumption DEF Has, Placed, Holds, Places, Records
<1>2. CASE b.iadd[o] = Nowhere /\ PetitEcrit(o)
  BY <1>1, <1>2, PremierPetitKeeps DEF Jxecro
<1>3. CASE b.iadd[o] = Nowhere /\ ~PetitEcrit(o)
  BY <1>1, <1>3, PremierGrosKeeps DEF Jxecro
<1>4. CASE b.iadd[o] # Nowhere /\ PetitEcrit(o)
  BY <1>1, <1>4, RewriteKeeps DEF Jxecro, SameSizes
<1>5. CASE b.iadd[o] # Nowhere /\ ~PetitEcrit(o)
  BY <1>1, <1>5, RewriteBigKeeps DEF Jxecro, SameSizes
<1> QED
  BY <1>2, <1>3, <1>4, <1>5

-----------------------------------------------------------------------------
(* A reading.                                                               *)
LEMMA JxliroKeeps ==
    ASSUME SameTest, NEW b, NEW m, Has(b, m), NEW o \in Objects, m[o] # NoImage,
           NEW c, c = Jxliro(b, o)
    PROVE  Has(c, m) /\ SameSizes(b, c)
<1>1. PICK k : k = b.iadd[o].rec
  OBVIOUS
<1>2. Sound(b) /\ Placed(b, m) /\ m \in Contents /\ m[o] \in Values /\ Holds(b, o, m[o])
  BY DEF Has, Placed, Contents
<1>3. CASE PetitLu(o) /\ k \notin {b.iitlec, b.iitecr}
  <2>1. c = Charger(b, k)
    BY <1>1, <1>3 DEF Jxliro
  <2>2. PetitEcrit(o)
    BY <1>3 DEF SameTest
  <2>3. k \in Records /\ b.iusadi[k] = Petits
    BY <1>1, <1>2, <2>2, SmallOf
  <2>4. Alive(Words(b, k))
    BY <1>1, <1>2, <2>2, SmallOf, EntryOf DEF Alive
  <2>5. Sound(c) /\ SameView(b, c)
    BY <1>2, <1>3, <2>1, <2>3, <2>4, ChargerKeeps
  <2> QED
    BY <1>2, <2>5, SameViewIsPlaced DEF Has, SameView
<1>4. CASE ~(PetitLu(o) /\ k \notin {b.iitlec, b.iitecr})
  <2>1. c = b
    BY <1>1, <1>4 DEF Jxliro
  <2> QED
    BY <1>2, <2>1 DEF SameSizes, Sound, Shape, SizesOK
<1> QED
  BY <1>3, <1>4

-----------------------------------------------------------------------------
(* A buffer that is the same as its record can be forgotten.                *)
LEMMA WithoutBuffers ==
    ASSUME NEW b, Sound(b), NEW c, SameSizes(b, c), SameTables(b, c), c.disk = b.disk,
           IsWords(c.tlec), IsWords(c.tecr), c.nitecr \in 0..W,
           \/ c.iitlec = b.iitlec /\ c.litlec = b.litlec /\ c.tlec = b.tlec
           \/ c.iitlec = 0 /\ c.litlec = FALSE /\ (b.iitlec # 0 => b.disk[b.iitlec] = b.tlec),
           \/ c.iitecr = b.iitecr /\ c.nitecr = b.nitecr /\ c.tecr = b.tecr
           \/ c.iitecr = 0 /\ Clean(b)
    PROVE  Sound(c) /\ SameView(b, c)
<1>1. MaxRec \in Nat /\ 0 \in 0..MaxRec
  BY JxDiskAssumption
<1>2. c.iitlec \in {0, b.iitlec} /\ c.iitecr \in {0, b.iitecr}
  OBVIOUS
<1>3. ContentsOK(c)
  BY DEF Sound, Shape, ContentsOK
<1>4. IndicesOK(c)
  <2>1. b.litlec \in BOOLEAN
    BY DEF Sound, Shape, IndicesOK
  <2>2. c.litlec \in BOOLEAN
    BY <2>1, Zenon
  <2>3. b.iitlec \in 0..MaxRec /\ b.iitecr \in 0..MaxRec
    BY DEF Sound, Shape, IndicesOK
  <2>4. c.iitlec \in 0..MaxRec /\ c.iitecr \in 0..MaxRec
    BY <1>1, <1>2, <2>3
  <2> QED
    BY <2>2, <2>4 DEF IndicesOK
<1>5. Buffers(c)
  BY DEF Sound, Buffers, SameTables
<1>6. Ends(c)
  BY DEF Sound, Ends
<1>7. \A k \in Records : Words(c, k) = Words(b, k)
  BY <1>1 DEF Words, Clean, Sound, Buffers, Records
<1> QED
  BY <1>3, <1>4, <1>5, <1>6, <1>7, SameViewIsSound DEF SameView

LEMMA EcritureVideeKeeps ==
    ASSUME NEW b, Sound(b), NEW c, c = EcritureVidee(b)
    PROVE  Sound(c) /\ SameView(b, c) /\ c.iitecr = 0
<1>1. PICK f : f = ViderEcriture(b)
  OBVIOUS
<1>2. Sound(f) /\ SameView(b, f) /\ Clean(f)
  BY <1>1, ViderEcritureKeeps DEF Clean
<1>3. DOMAIN f = Fields
  BY <1>2 DEF Sound, Shape, SizesOK
<1>4. /\ SameSizes(f, c) /\ SameTables(f, c) /\ c.disk = f.disk
      /\ c.iitlec = f.iitlec /\ c.litlec = f.litlec /\ c.tlec = f.tlec
      /\ c.iitecr = 0 /\ c.nitecr = 0 /\ c.tecr = Nowords
  BY <1>1, <1>3 DEF EcritureVidee, Fields, SameSizes, SameTables
<1>5. IsWords(c.tlec) /\ IsWords(c.tecr) /\ c.nitecr \in 0..W
  BY <1>2, <1>4, NowordsIsWords, JxDiskAssumption DEF Sound, Shape, ContentsOK
<1>6. Sound(c) /\ SameView(f, c)
  BY <1>2, <1>4, <1>5, WithoutBuffers
<1> QED
  BY <1>2, <1>4, <1>6 DEF SameView, SameSizes, SameTables

LEMMA LectureVideeKeeps ==
    ASSUME NEW b, Sound(b), NEW c, c = LectureVidee(b)
    PROVE  /\ Sound(c) /\ SameView(b, c) /\ ~c.litlec
           /\ c.iitecr = b.iitecr /\ c.nitecr = b.nitecr /\ c.tecr = b.tecr
           /\ Clean(b) => Clean(c)
<1>1. CASE b.litlec
  <2>1. PICK f : f = ViderLecture(b)
    OBVIOUS
  <2>2. Sound(f) /\ SameView(b, f) /\ (f.iitlec # 0 => f.disk[f.iitlec] = f.tlec)
    BY <2>1, ViderLectureKeeps
  <2>3. /\ f.iitecr = b.iitecr /\ f.nitecr = b.nitecr /\ f.tecr = b.tecr /\ f.iitlec = b.iitlec
        /\ f.disk = [b.disk EXCEPT ![b.iitlec] = b.tlec]
    BY <1>1, <2>1, ViderLectureFields
  <2>4. DOMAIN f = Fields
    BY <2>2 DEF Sound, Shape, SizesOK
  <2>5. /\ SameSizes(f, c) /\ SameTables(f, c) /\ c.disk = f.disk
        /\ c.iitlec = 0 /\ c.litlec = FALSE /\ c.tlec = Nowords
        /\ c.iitecr = f.iitecr /\ c.nitecr = f.nitecr /\ c.tecr = f.tecr
    BY <1>1, <2>1, <2>4 DEF LectureVidee, Fields, SameSizes, SameTables
  <2>6. IsWords(c.tlec) /\ IsWords(c.tecr) /\ c.nitecr \in 0..W
    BY <2>2, <2>5, NowordsIsWords DEF Sound, Shape, ContentsOK, IndicesOK
  <2>7. Sound(c) /\ SameView(f, c)
    BY <2>2, <2>5, <2>6, WithoutBuffers
  <2>8. SameView(b, c)
    BY <2>2, <2>7 DEF SameView, SameSizes, SameTables
  <2>9. ASSUME Clean(b) PROVE Clean(c)
    <3>1. b.iitecr # 0 => b.iitecr \in Records /\ b.iitecr # b.iitlec /\ DOMAIN b.disk = Records
      BY <1>1, JxDiskAssumption DEF Sound, Shape, IndicesOK, Buffers, Records, ContentsOK
    <3> QED
      BY <2>3, <2>5, <2>9, <3>1 DEF Clean
  <2> QED
    BY <2>3, <2>5, <2>7, <2>8, <2>9
<1>2. CASE ~b.litlec
  <2>1. c = b
    BY <1>2 DEF LectureVidee
  <2>2. SameView(b, b)
    BY DEF SameView, SameSizes, SameTables, Sound, Shape, SizesOK
  <2> QED
    BY <1>2, <2>1, <2>2
<1> QED
  BY <1>1, <1>2

LEMMA AvantPleineKeeps ==
    ASSUME NEW b, NEW m, Has(b, m), NEW o, NEW c, c = AvantPleine(b, o)
    PROVE  Has(c, m) /\ c.nblmax = b.nblmax
<1>1. Sound(b) /\ Placed(b, m) /\ m \in Contents
  BY DEF Has
<1>2. CASE PetitEcrit(o)
  <2>1. c = ViderEcriture(b)
    BY <1>2 DEF AvantPleine
  <2>2. Sound(c) /\ SameView(b, c)
    BY <1>1, <2>1, ViderEcritureKeeps
  <2> QED
    BY <1>1, <2>2, SameViewIsPlaced DEF Has, SameView, SameSizes
<1>3. CASE ~PetitEcrit(o)
  BY <1>3 DEF AvantPleine
<1> QED
  BY <1>2, <1>3

-----------------------------------------------------------------------------
(* jerecu.                                                                  *)
LEMMA CountersKeep ==
    ASSUME NEW b, NEW m, Has(b, m), NEW n \in {b.nblim, 0},
           NEW c, c = [b EXCEPT !.nbpeti = 0, !.nblim = n]
    PROVE  Has(c, m) /\ c.nblmax = b.nblmax
<1>1. DOMAIN b = Fields /\ Sound(b) /\ Placed(b, m)
  BY DEF Has, Sound, Shape, SizesOK
<1>2. /\ DOMAIN c = Fields /\ c.classe = b.classe /\ c.nbluti = b.nbluti /\ c.nbpeti = 0
      /\ c.nblim = n /\ c.nblmax = b.nblmax /\ SameTables(b, c) /\ c.disk = b.disk
      /\ c.iitlec = b.iitlec /\ c.litlec = b.litlec /\ c.tlec = b.tlec
      /\ c.iitecr = b.iitecr /\ c.nitecr = b.nitecr /\ c.tecr = b.tecr
  BY <1>1 DEF Fields, SameTables
<1>3. \A k : Words(c, k) = Words(b, k)
  BY <1>2 DEF Words
<1>4. SizesOK(c)
  BY <1>1, <1>2, JxDiskAssumption DEF Sound, Shape, SizesOK
<1>5. TablesOK(c) /\ ContentsOK(c) /\ IndicesOK(c)
  BY <1>1, <1>2 DEF Sound, Shape, TablesOK, ContentsOK, IndicesOK, SameTables
<1>6. Buffers(c) /\ Ends(c)
  BY <1>1, <1>2 DEF Sound, Buffers, Ends, SameTables
<1>7. Chains(c) /\ Counted(c)
  BY <1>1, <1>2, <1>3 DEF Sound, Chains, Counted, SameTables
<1>8. Placed(c, m)
  BY <1>1, <1>2, <1>3 DEF Placed, Holds, HoldsSmall, HoldsBig, SameTables
<1> QED
  BY <1>2, <1>4, <1>5, <1>6, <1>7, <1>8 DEF Has, Sound, Shape

LEMMA RecuperablesAreFree ==
    ASSUME NEW b, NEW m, Has(b, m), ~b.litlec, b.iitecr = 0,
           NEW c, c = Liberer(b, Recuperables(b))
    PROVE  Has(c, m) /\ c.nblmax = b.nblmax
<1>1. PICK R : R = Recuperables(b)
  OBVIOUS
<1>2. Sound(b) /\ Placed(b, m) /\ m \in Contents
  BY DEF Has
<1>3. \A k \in R : /\ k # 0 /\ b.iusadi[k] = Petits
                   /\ \A i \in DOMAIN b.disk[k] : b.disk[k][i] = Mort
  BY <1>1, <1>2 DEF Recuperables, Sound, Shape, SizesOK
<1>4. b.iitecr \notin R
  BY <1>3
<1>5. b.iitlec \notin R
  <2>1. SUFFICES ASSUME b.iitlec \in R PROVE FALSE
    OBVIOUS
  <2>2. b.tlec = b.disk[b.iitlec] /\ Alive(b.tlec)
    BY <1>2, <1>3, <2>1 DEF Sound, Buffers
  <2> QED
    BY <1>3, <2>1, <2>2 DEF Alive
<1>6. Sound(c) /\ SameSizes(b, c) /\ c.iadd = b.iadd /\ Freed(b, c, R)
  BY <1>1, <1>2, <1>4, <1>5, LibererKeeps
<1>7. ASSUME NEW p \in Objects, m[p] # NoImage PROVE Holds(c, p, m[p])
  <2>1. Holds(b, p, m[p]) /\ c.iadd[p] = b.iadd[p] /\ m[p] \in Values
    BY <1>2, <1>6, <1>7 DEF Placed, Contents
  <2>2. ASSUME PetitEcrit(p), b.iadd[p].rec \in R PROVE FALSE
    <3>1. PICK k, i : k = b.iadd[p].rec /\ i = b.iadd[p].off
      OBVIOUS
    <3>2. /\ k \in Records /\ i \in DOMAIN Words(b, k) /\ Words(b, k)[i] = Entry(p, m[p])
      BY <1>2, <2>1, <2>2, <3>1, SmallOf
    <3>3. k # b.iitlec /\ k # b.iitecr
      BY <1>4, <1>5, <2>2, <3>1
    <3>4. Words(b, k) = b.disk[k]
      BY <3>3 DEF Words
    <3>5. Entry(p, m[p]) # Mort
      BY <2>1, EntryOf
    <3> QED
      BY <1>3, <2>2, <3>1, <3>2, <3>4, <3>5
  <2>3. \A k \in R : b.iusadi[k] # p
    BY <1>3, JxDiskAssumption
  <2> QED
    BY <1>2, <1>6, <2>1, <2>2, <2>3, LibererPlaces
<1>8. Placed(c, m)
  BY <1>2, <1>6, <1>7 DEF Placed
<1> QED
  BY <1>2, <1>6, <1>8 DEF Has, SameSizes

LEMMA JerecuKeeps ==
    ASSUME NEW b, NEW m, Has(b, m), NEW t, t = LectureVidee(EcritureVidee(b)),
           NEW c, c = [Liberer(t, Recuperables(t)) EXCEPT !.nbpeti = 0]
    PROVE  Has(c, m) /\ c.nblmax = b.nblmax
<1>1. Sound(b) /\ Placed(b, m) /\ m \in Contents
  BY DEF Has
<1>2. PICK f : f = EcritureVidee(b)
  OBVIOUS
<1>3. Sound(f) /\ SameView(b, f) /\ f.iitecr = 0
  BY <1>1, <1>2, EcritureVideeKeeps
<1>4. t = LectureVidee(f)
  BY <1>2
<1>5. Sound(t) /\ SameView(f, t) /\ ~t.litlec /\ t.iitecr = 0
  BY <1>3, <1>4, LectureVideeKeeps
<1>6. SameView(b, t)
  BY <1>3, <1>5 DEF SameView, SameSizes, SameTables
<1>7. Has(t, m) /\ t.nblmax = b.nblmax
  BY <1>1, <1>5, <1>6, SameViewIsPlaced DEF Has, SameView, SameSizes
<1>8. PICK g : g = Liberer(t, Recuperables(t))
  OBVIOUS
<1>9. Has(g, m) /\ g.nblmax = t.nblmax
  BY <1>5, <1>7, <1>8, RecuperablesAreFree
<1>10. c = [g EXCEPT !.nbpeti = 0, !.nblim = g.nblim]
  <2>1. DOMAIN g = Fields
    BY <1>9 DEF Has, Sound, Shape, SizesOK
  <2> QED
    BY <1>8, <2>1 DEF Fields
<1> QED
  BY <1>7, <1>9, <1>10, CountersKeep

-----------------------------------------------------------------------------
(* jelibf.                                                                  *)
LEMMA RewriteBigKeepsClean ==
    ASSUME NEW b, NEW m, Has(b, m), NEW o \in Objects, m[o] # NoImage, ~PetitEcrit(o), Clean(b),
           NEW v, NEW c, c = EcrireGros(b, b.iadd[o].rec, o, v)
    PROVE  Clean(c)
<1>1. Sound(b) /\ Holds(b, o, m[o])
  BY DEF Has, Placed
<1>2. PICK R : R = Extent(b, o)
  OBVIOUS
<1>3. \A r \in R : b.iusadi[r] = o /\ o # Petits
  BY <1>1, <1>2, BigOf DEF Extent
<1>4. b.iitecr # 0 => b.iitecr \in Records /\ b.iitecr \notin R
  BY <1>1, <1>3, JxDiskAssumption DEF Sound, Shape, IndicesOK, Records, Buffers
<1>5. c.iitecr = b.iitecr /\ c.tecr = b.tecr
      /\ \A r \in Records \ R : c.disk[r] = b.disk[r]
  BY <1>1, <1>2 DEF EcrireGros, Extent, Fields, Sound, Shape, SizesOK
<1> QED
  BY <1>4, <1>5 DEF Clean

(* Once more the same content of a system object, the write buffer being    *)
(* the same as its record, forgotten, and the read buffer written.          *)
Reecrit(b, o, v) == ViderLecture([Jxecro(b, o, v) EXCEPT !.iitecr = 0])

LEMMA ReecritKeeps ==
    ASSUME NEW b, NEW m, Has(b, m), Clean(b), NEW o \in Objects, m[o] # NoImage,
           NEW v, v = m[o], NEW d, d = Reecrit(b, o, v)
    PROVE  /\ Has(d, m) /\ d.iitecr = 0 /\ d.nblmax = b.nblmax
           /\ d.iitlec # 0 => d.disk[d.iitlec] = d.tlec
<1>1. /\ Sound(b) /\ Placed(b, m) /\ m \in Contents /\ v \in Values /\ b.iadd[o] # Nowhere
      /\ [m EXCEPT ![o] = v] = m
  BY JxDiskAssumption DEF Has, Placed, Contents, Holds, Places, Records
<1>2. PICK f : f = Jxecro(b, o, v)
  OBVIOUS
<1>3. Has(f, m) /\ SameSizes(b, f) /\ Clean(f)
  <2>1. CASE PetitEcrit(o)
    <3>1. f = Modifier(b, b.iadd[o].rec, b.iadd[o].off, Entry(o, v))
      BY <1>1, <1>2, <2>1 DEF Jxecro
    <3>2. /\ Has(f, m) /\ SameSizes(b, f)
          /\ Modified(b, f, b.iadd[o].rec, b.iadd[o].off, Entry(o, m[o]))
      BY <1>1, <2>1, <3>1, RewriteKeeps
    <3> QED
      BY <2>1, <3>2, RewriteKeepsClean
  <2>2. CASE ~PetitEcrit(o)
    <3>1. f = EcrireGros(b, b.iadd[o].rec, o, v)
      BY <1>1, <1>2, <2>2 DEF Jxecro
    <3>2. Has(f, m) /\ SameSizes(b, f)
      BY <1>1, <2>2, <3>1, RewriteBigKeeps
    <3>3. Clean(f)
      BY <2>2, <3>1, RewriteBigKeepsClean
    <3> QED
      BY <3>2, <3>3
  <2> QED
    BY <2>1, <2>2
<1>4. PICK g : g = [f EXCEPT !.iitecr = 0]
  OBVIOUS
<1>5. DOMAIN f = Fields /\ Sound(f) /\ Placed(f, m)
  BY <1>3 DEF Has, Sound, Shape, SizesOK
<1>6. /\ SameSizes(f, g) /\ SameTables(f, g) /\ g.disk = f.disk
      /\ g.iitlec = f.iitlec /\ g.litlec = f.litlec /\ g.tlec = f.tlec
      /\ g.iitecr = 0 /\ g.nitecr = f.nitecr /\ g.tecr = f.tecr
  BY <1>4, <1>5 DEF Fields, SameSizes, SameTables
<1>7. IsWords(g.tlec) /\ IsWords(g.tecr) /\ g.nitecr \in 0..W
  BY <1>5, <1>6 DEF Sound, Shape, ContentsOK, IndicesOK
<1>8. Sound(g) /\ SameView(f, g)
  BY <1>3, <1>5, <1>6, <1>7, WithoutBuffers
<1>9. d = ViderLecture(g)
  BY <1>2, <1>4 DEF Reecrit
<1>10. /\ Sound(d) /\ SameView(g, d) /\ (d.iitlec # 0 => d.disk[d.iitlec] = d.tlec)
       /\ d.iitecr = 0
  <2>1. Sound(d) /\ SameView(g, d) /\ (d.iitlec # 0 => d.disk[d.iitlec] = d.tlec)
    BY <1>8, <1>9, ViderLectureKeeps
  <2>2. d.iitecr = g.iitecr
    BY <1>8, <1>9, ViderLectureFields
  <2> QED
    BY <1>6, <2>1, <2>2
<1>11. SameView(f, d)
  BY <1>8, <1>10 DEF SameView, SameSizes, SameTables
<1>12. Placed(d, m) /\ d.nblmax = b.nblmax
  BY <1>3, <1>5, <1>10, <1>11, SameViewIsPlaced DEF SameView, SameSizes
<1> QED
  BY <1>1, <1>10, <1>12 DEF Has

LEMMA FermeKeeps ==
    ASSUME NEW b, NEW m, Has(b, m), NEW v \in Values, m[Usadi] = v, m[Acce] = v,
           NEW c, c = Ferme(b, v)
    PROVE  Has(c, m) /\ c.nblmax = b.nblmax
<1>1. /\ Sound(b) /\ Placed(b, m) /\ m \in Contents
      /\ Usadi \in Objects /\ Acce \in Objects /\ v # NoImage
  BY JxDiskAssumption DEF Has
<1>2. PICK f : f = ViderEcriture(b)
  OBVIOUS
<1>3. Sound(f) /\ SameView(b, f) /\ Clean(f)
  BY <1>1, <1>2, ViderEcritureKeeps DEF Clean
<1>4. PICK b1 : b1 = LectureVidee(f)
  OBVIOUS
<1>5. Sound(b1) /\ SameView(f, b1) /\ Clean(b1)
  BY <1>3, <1>4, LectureVideeKeeps
<1>6. SameView(b, b1)
  BY <1>3, <1>5 DEF SameView, SameSizes, SameTables
<1>7. Has(b1, m) /\ b1.nblmax = b.nblmax
  BY <1>1, <1>5, <1>6, SameViewIsPlaced DEF Has, SameView, SameSizes
<1>8. PICK b2 : b2 = Reecrit(b1, Acce, v)
  OBVIOUS
<1>9. Has(b2, m) /\ b2.iitecr = 0 /\ b2.nblmax = b1.nblmax
  BY <1>1, <1>5, <1>7, <1>8, ReecritKeeps
<1>10. Clean(b2)
  BY <1>9 DEF Clean
<1>11. PICK b3 : b3 = Reecrit(b2, Usadi, v)
  OBVIOUS
<1>12. /\ Has(b3, m) /\ b3.iitecr = 0 /\ b3.nblmax = b2.nblmax
       /\ b3.iitlec # 0 => b3.disk[b3.iitlec] = b3.tlec
  BY <1>1, <1>9, <1>10, <1>11, ReecritKeeps
<1>13. c = [b3 EXCEPT !.litlec = FALSE, !.iitlec = 0, !.nitecr = 0,
                      !.tlec = Nowords, !.tecr = Nowords]
  BY <1>2, <1>4, <1>8, <1>11 DEF Ferme, Reecrit
<1>14. DOMAIN b3 = Fields /\ Sound(b3) /\ Placed(b3, m) /\ Clean(b3)
  BY <1>12 DEF Has, Sound, Shape, SizesOK, Clean
<1>15. /\ SameSizes(b3, c) /\ SameTables(b3, c) /\ c.disk = b3.disk
       /\ c.iitlec = 0 /\ c.litlec = FALSE /\ c.tlec = Nowords
       /\ c.iitecr = b3.iitecr /\ c.nitecr = 0 /\ c.tecr = Nowords
  BY <1>13, <1>14 DEF Fields, SameSizes, SameTables
<1>16. IsWords(c.tlec) /\ IsWords(c.tecr) /\ c.nitecr \in 0..W
  BY <1>15, NowordsIsWords, JxDiskAssumption
<1>17. Sound(c) /\ SameView(b3, c)
  BY <1>12, <1>14, <1>15, <1>16, WithoutBuffers
<1>18. Placed(c, m)
  BY <1>14, <1>17, SameViewIsPlaced
<1> QED
  BY <1>1, <1>7, <1>9, <1>12, <1>15, <1>17, <1>18 DEF Has, SameSizes

-----------------------------------------------------------------------------
(* The initial base.                                                        *)
LEMMA LeastOfTwo ==
    ASSUME NEW x \in Nat, NEW y \in Nat, NEW n, n = Min({x, y})
    PROVE  n \in {x, y} /\ n <= x /\ n <= y
<1>1. \E k \in {x, y} : \A l \in {x, y} : k <= l
  OBVIOUS
<1> QED
  BY <1>1 DEF Min

LEMMA BaseVideHas ==
    ASSUME NEW classe \in Classes,
           NEW nbloc \in Nat, NbMax <= nbloc, nbloc <= MaxRec,
           NEW b, b = BaseVide(classe, nbloc),
           NEW m, m = [o \in Objects |-> NoImage]
    PROVE  Has(b, m) /\ b.nblmax <= MaxRec
<1>0. PICK n : n = Min({nbloc, NbFile})
  OBVIOUS
<1>a. n \in Nat /\ NbMax <= n /\ n <= MaxRec
  <2>1. nbloc \in Nat /\ NbFile \in Nat
    BY JxDiskAssumption
  <2>2. n \in {nbloc, NbFile} /\ n <= nbloc /\ n <= NbFile
    BY <1>0, <2>1, LeastOfTwo
  <2> QED
    BY <2>1, <2>2, JxDiskAssumption
<1>1. /\ DOMAIN b = Fields /\ b.classe = classe /\ b.nblmax = n
      /\ b.nbluti = 0 /\ b.nbpeti = 0 /\ b.nblim = NbLim
      /\ b.iusadi = [k \in Records |-> Libre] /\ b.nbdet = [k \in Records |-> 0]
      /\ b.disk = [k \in Records |-> Nowords] /\ b.iadd = [o \in Objects |-> Nowhere]
      /\ b.iitlec = 0 /\ b.litlec = FALSE /\ b.tlec = Nowords
      /\ b.iitecr = 0 /\ b.nitecr = 0 /\ b.tecr = Nowords
  BY <1>0 DEF BaseVide, Fields
<1>2. SizesOK(b)
  BY <1>1, <1>a, JxDiskAssumption DEF SizesOK
<1>3. TablesOK(b)
  BY <1>1 DEF TablesOK
<1>4. ContentsOK(b)
  BY <1>1, NowordsIsWords DEF ContentsOK
<1>5. IndicesOK(b)
  <2>1. b.litlec \in BOOLEAN
    BY <1>1, Zenon
  <2>2. b.iitlec \in 0..MaxRec /\ b.iitecr \in 0..MaxRec /\ b.nitecr \in 0..W
    BY <1>1, JxDiskAssumption
  <2> QED
    BY <2>1, <2>2 DEF IndicesOK
<1>6. Buffers(b) /\ Ends(b)
  BY <1>1 DEF Buffers, Ends
<1>7. Chains(b) /\ Counted(b)
  BY <1>1, JxDiskAssumption DEF Chains, Counted
<1>8. m \in Contents /\ Placed(b, m)
  BY <1>1 DEF Contents, Placed
<1> QED
  BY <1>1, <1>a, <1>2, <1>3, <1>4, <1>5, <1>6, <1>7, <1>8 DEF Has, Sound, Shape

LEMMA EcrireSystemeKeeps ==
    ASSUME NEW b, NEW i, Keeps(b, i), NEW o \in Objects \ Users, NEW allowed,
           ResteDeLaPlace(b, o, allowed),
           NEW v \in Values, NEW c, c = EcrireSysteme(b, o, v, allowed)
    PROVE  Keeps(c, i)
<1>1. PICK m \in Contents : Has(b, m) /\ \A p \in Users : m[p] = i[p]
  BY DEF Keeps
<1>2. PICK a : a = Agrandie(b, o, allowed)
  OBVIOUS
<1>3. PICK n \in Contents : Has(a, n) /\ Agree(m, n)
  BY <1>1, <1>2, AgrandieKeeps, ZenonT(60)
<1>4. a.nblmax <= MaxRec /\ ~Pleine(a, o) /\ c = Jxecro(a, o, v)
  BY <1>2 DEF ResteDeLaPlace, EcrireSysteme
<1>5. Has(c, [n EXCEPT ![o] = v]) /\ c.nblmax = a.nblmax
  BY <1>3, <1>4, JxecroKeeps
<1>6. [n EXCEPT ![o] = v] \in Contents /\ \A p \in Users : [n EXCEPT ![o] = v][p] = i[p]
  BY <1>1, <1>3 DEF Agree, Contents, Users
<1> QED
  BY <1>4, <1>5, <1>6 DEF Keeps

LEMMA NouvelleBaseKeeps ==
    ASSUME NEW classe \in Classes, NEW v \in Values, NEW allowed,
           NEW nbloc \in Nat, NbMax <= nbloc, nbloc <= MaxRec,
           PlaceDesSystemes(classe, nbloc, v, allowed),
           NEW i, i = [o \in Users |-> NoImage],
           NEW c, c = NouvelleBase(classe, nbloc, v, allowed)
    PROVE  Keeps(c, i)
<1>1. PICK b0 : b0 = BaseVide(classe, nbloc)
  OBVIOUS
<1>2. PICK b1 : b1 = EcrireSysteme(b0, Usadi, v, allowed)
  OBVIOUS
<1>3. /\ ResteDeLaPlace(b0, Usadi, allowed) /\ ResteDeLaPlace(b1, Acce, allowed)
      /\ c = EcrireSysteme(b1, Acce, v, allowed)
  BY <1>1, <1>2 DEF PlaceDesSystemes, NouvelleBase, AvecUsadi
<1>4. Usadi \in Objects \ Users /\ Acce \in Objects \ Users
  BY JxDiskAssumption DEF Users
<1>5. Keeps(b0, i)
  <2>1. PICK m : m = [o \in Objects |-> NoImage]
    OBVIOUS
  <2>2. Has(b0, m) /\ b0.nblmax <= MaxRec
    BY <1>1, <2>1, BaseVideHas
  <2>3. m \in Contents /\ \A o \in Users : m[o] = i[o]
    BY <2>1 DEF Contents, Users
  <2> QED
    BY <2>2, <2>3 DEF Keeps
<1>6. Keeps(b1, i)
  BY <1>2, <1>3, <1>4, <1>5, EcrireSystemeKeeps
<1> QED
  BY <1>3, <1>4, <1>6, EcrireSystemeKeeps

LEMMA InitIsSound == Init => IInv
<1> SUFFICES ASSUME Init PROVE IInv
  OBVIOUS
<1>1. PICK classe \in Classes, v \in Values :
        /\ PlaceDesSystemes(classe, NbMax, v, TRUE)
        /\ base = NouvelleBase(classe, NbMax, v, TRUE)
  BY DEF Init
<1>2. phase = "ouverte" /\ indiq = FALSE /\ img = [o \in Users |-> NoImage]
  BY DEF Init
<1>a. NbMax \in Nat /\ NbMax <= NbMax /\ NbMax <= MaxRec
  BY JxDiskAssumption
<1>3. Keeps(base, img)
  BY <1>1, <1>2, <1>a, NouvelleBaseKeeps
<1>4. PhaseOK /\ Described
  BY <1>2 DEF PhaseOK, Described
<1> QED
  BY <1>3, <1>4 DEF IInv

-----------------------------------------------------------------------------
(* Every step.                                                              *)
LEMMA AddressOrNone ==
    ASSUME NEW b, NEW m, Has(b, m), NEW o \in Objects
    PROVE  (m[o] = NoImage <=> b.iadd[o] = Nowhere) /\ m \in Contents
BY JxDiskAssumption DEF Has, Placed, Holds, Places, Records

LEMMA EcrireIsSound ==
    ASSUME IInv, NEW o \in Users, NEW v \in Values, NEW evicting \in BOOLEAN,
           Ecrire(o, v, evicting)
    PROVE  IInv'
<1>1. PICK m \in Contents : Has(base, m) /\ \A p \in Users : m[p] = img[p]
  BY DEF IInv, Keeps
<1>2. PICK a : a = Agrandie(base, o, ~evicting /\ ~indiq)
  OBVIOUS
<1>3. PICK n \in Contents : Has(a, n) /\ Agree(m, n)
  BY <1>1, <1>2, AgrandieKeeps
<1>4. o \in Objects /\ o # Usadi /\ o # Acce
  BY DEF Users
<1>5. a.nblmax <= MaxRec /\ phase' = "ouverte"
  BY <1>2 DEF Ecrire
<1>6. CASE /\ ~Pleine(a, o) /\ base' = Jxecro(a, o, v)
           /\ indiq' = (indiq /\ ~evicting) /\ img' = [img EXCEPT ![o] = v]
  <2>1. Has(base', [n EXCEPT ![o] = v]) /\ base'.nblmax = a.nblmax
    BY <1>3, <1>4, <1>5, <1>6, JxecroKeeps
  <2>2. img \in [Users -> Values \cup {NoImage}]
    BY DEF IInv, PhaseOK
  <2>3. [n EXCEPT ![o] = v] \in Contents /\ \A p \in Users : [n EXCEPT ![o] = v][p] = img'[p]
    BY <1>1, <1>3, <1>4, <1>6, <2>2 DEF Agree, Contents, Users
  <2>4. Keeps(base', img')
    BY <1>5, <2>1, <2>3 DEF Keeps
  <2>5. PhaseOK'
    BY <1>5, <1>6, <2>2 DEF PhaseOK, IInv
  <2> QED
    BY <1>5, <2>4, <2>5 DEF IInv, Described
<1>7. CASE /\ Pleine(a, o) /\ base' = AvantPleine(a, o)
           /\ indiq' = (indiq \/ evicting) /\ UNCHANGED img
  <2>1. Has(base', n) /\ base'.nblmax = a.nblmax
    BY <1>3, <1>7, AvantPleineKeeps
  <2>2. Keeps(base', img')
    BY <1>1, <1>3, <1>5, <1>7, <2>1 DEF Keeps, Agree
  <2>3. PhaseOK'
    BY <1>5, <1>7 DEF PhaseOK, IInv
  <2> QED
    BY <1>5, <2>2, <2>3 DEF IInv, Described
<1> QED
  BY <1>2, <1>6, <1>7 DEF Ecrire

LEMMA AgrandirIsSound ==
    ASSUME IInv, Agrandir
    PROVE  IInv'
<1>1. PICK m \in Contents : Has(base, m) /\ \A p \in Users : m[p] = img[p]
  BY DEF IInv, Keeps
<1>2. /\ base' = Jjagod(base) /\ 2 * base.nblmax <= MaxRec
      /\ phase' = "ouverte" /\ UNCHANGED <<indiq, img>>
  BY DEF Agrandir
<1>3. PICK c : c = Jjagod(base)
  OBVIOUS
<1>4. c.nblmax = 2 * base.nblmax /\ \E n \in Contents : Has(c, n) /\ Agree(m, n)
  BY <1>1, <1>3, JjagodKeeps
<1>5. Keeps(c, img)
  BY <1>1, <1>2, <1>4 DEF Keeps, Agree
<1>6. PhaseOK'
  BY <1>2 DEF PhaseOK, IInv
<1> QED
  BY <1>2, <1>3, <1>5, <1>6 DEF IInv, Described

LEMMA LireIsSound ==
    ASSUME SameTest, IInv, NEW o \in Users, Lire(o)
    PROVE  IInv'
<1>1. PICK m \in Contents : Has(base, m) /\ \A p \in Users : m[p] = img[p]
  BY DEF IInv, Keeps
<1>2. /\ base.iadd[o] # Nowhere /\ base' = Jxliro(base, o)
      /\ phase = "ouverte" /\ UNCHANGED <<phase, indiq, img>>
  BY DEF Lire
<1>3. o \in Objects
  BY DEF Users
<1>4. m[o] # NoImage
  BY <1>1, <1>2, <1>3, AddressOrNone
<1>5. PICK c : c = Jxliro(base, o)
  OBVIOUS
<1>6. Has(c, m) /\ c.nblmax = base.nblmax
  BY <1>1, <1>3, <1>4, <1>5, JxliroKeeps DEF SameSizes
<1>7. Keeps(c, img)
  BY <1>1, <1>6 DEF Keeps, IInv
<1>8. PhaseOK'
  BY <1>2 DEF PhaseOK, IInv
<1> QED
  BY <1>2, <1>5, <1>7, <1>8 DEF IInv, Described

LEMMA DetruireIsSound ==
    ASSUME IInv, NEW o \in Users, Detruire(o)
    PROVE  IInv'
<1>1. PICK m \in Contents : Has(base, m) /\ \A p \in Users : m[p] = img[p]
  BY DEF IInv, Keeps
<1>2. /\ base' = Detruit(base, o) /\ img' = [img EXCEPT ![o] = NoImage]
      /\ phase = "ouverte" /\ UNCHANGED <<phase, indiq>>
  BY DEF Detruire
<1>3. o \in Objects /\ img \in [Users -> Values \cup {NoImage}]
  BY DEF Users, IInv, PhaseOK
<1>4. PICK c : c = Detruit(base, o)
  OBVIOUS
<1>5. Has(c, [m EXCEPT ![o] = NoImage]) /\ c.nblmax = base.nblmax
  BY <1>1, <1>3, <1>4, DetruitKeeps
<1>6. /\ [m EXCEPT ![o] = NoImage] \in Contents
      /\ \A p \in Users : [m EXCEPT ![o] = NoImage][p] = img'[p]
  BY <1>1, <1>2, <1>3 DEF Contents, Users
<1>7. Keeps(c, img')
  BY <1>5, <1>6 DEF Keeps, IInv
<1>8. PhaseOK'
  BY <1>2, <1>3 DEF PhaseOK, IInv
<1> QED
  BY <1>2, <1>4, <1>7, <1>8 DEF IInv, Described

LEMMA JerecuIsSound ==
    ASSUME IInv, Jerecu
    PROVE  IInv'
<1>1. PICK m \in Contents : Has(base, m) /\ \A p \in Users : m[p] = img[p]
  BY DEF IInv, Keeps
<1>2. PICK t : t = LectureVidee(EcritureVidee(base))
  OBVIOUS
<1>3. PICK c : c = [Liberer(t, Recuperables(t)) EXCEPT !.nbpeti = 0]
  OBVIOUS
<1>4. base' = c /\ phase = "ouverte" /\ UNCHANGED <<phase, indiq, img>>
  BY <1>2, <1>3 DEF Jerecu
<1>5. Has(c, m) /\ c.nblmax = base.nblmax
  BY <1>1, <1>2, <1>3, JerecuKeeps
<1>6. Keeps(c, img)
  BY <1>1, <1>5 DEF Keeps, IInv
<1>7. PhaseOK'
  BY <1>4 DEF PhaseOK, IInv
<1> QED
  BY <1>4, <1>6, <1>7 DEF IInv, Described

LEMMA JeinifIsSound ==
    ASSUME SameTest, IInv, Jeinif
    PROVE  IInv'
<1>1. PICK m \in Contents : Has(base, m) /\ \A p \in Users : m[p] = img[p]
  BY DEF IInv, Keeps
<1>2. PICK b1 : b1 = Jxliro(base, Usadi)
  OBVIOUS
<1>3. PICK b2 : b2 = Jxliro(b1, Acce)
  OBVIOUS
<1>4. /\ base' = [b2 EXCEPT !.nbpeti = 0, !.nblim = 0]
      /\ phase = "fermee" /\ phase' = "ouverte" /\ indiq' = FALSE
      /\ UNCHANGED img
  BY <1>2, <1>3 DEF Jeinif
<1>5. Usadi \in Objects /\ Acce \in Objects
  BY JxDiskAssumption
<1>6. m[Usadi] # NoImage /\ m[Acce] # NoImage
  BY <1>1, <1>4, <1>5, AddressOrNone DEF IInv, Described
<1>7. Has(b1, m) /\ b1.nblmax = base.nblmax
  BY <1>1, <1>2, <1>5, <1>6, JxliroKeeps DEF SameSizes
<1>8. Has(b2, m) /\ b2.nblmax = b1.nblmax
  BY <1>3, <1>5, <1>6, <1>7, JxliroKeeps DEF SameSizes
<1>9. Has(base', m) /\ base'.nblmax = b2.nblmax
  BY <1>4, <1>8, CountersKeep
<1>10. Keeps(base', img)
  BY <1>1, <1>7, <1>8, <1>9 DEF Keeps, IInv
<1>11. PhaseOK'
  BY <1>4 DEF PhaseOK, IInv
<1> QED
  BY <1>4, <1>10, <1>11 DEF IInv, Described

LEMMA JereouIsSound ==
    ASSUME IInv, NEW v \in Values, Jereou(v)
    PROVE  IInv'
<1>1. PICK m \in Contents : Has(base, m) /\ \A p \in Users : m[p] = img[p]
  BY DEF IInv, Keeps
<1>2. /\ phase = "ouverte" /\ base.classe = "V"
      /\ PlaceDesSystemes("V", base.nblmax, v, ~indiq)
      /\ base' = NouvelleBase("V", base.nblmax, v, ~indiq) /\ UNCHANGED <<phase, indiq, img>>
      /\ \A o \in Users : base.iadd[o] = Nowhere
  BY DEF Jereou
<1>3. "V" \in Classes
  BY <1>1, <1>2 DEF Has, Sound, Shape, SizesOK
<1>a. base.nblmax \in Nat /\ NbMax <= base.nblmax /\ base.nblmax <= MaxRec
  BY <1>1 DEF Has, Sound, Shape, SizesOK, IInv, Keeps
<1>4. img = [o \in Users |-> NoImage]
  <2>1. \A o \in Users : img[o] = NoImage
    BY <1>1, <1>2, AddressOrNone DEF Users
  <2> QED
    BY <2>1 DEF IInv, PhaseOK
<1>5. Keeps(base', img)
  BY <1>2, <1>3, <1>4, <1>a, NouvelleBaseKeeps
<1>6. PhaseOK'
  BY <1>2 DEF PhaseOK, IInv
<1> QED
  BY <1>2, <1>5, <1>6 DEF IInv, Described

LEMMA JelibfIsSound ==
    ASSUME IInv, NEW v \in Values, Jelibf(v)
    PROVE  IInv'
<1>1. PICK m \in Contents : Has(base, m) /\ \A p \in Users : m[p] = img[p]
  BY DEF IInv, Keeps
<1>2. PICK a1 : a1 = Agrandie(base, Usadi, ~indiq)
  OBVIOUS
<1>3. PICK n1 \in Contents : /\ Has(a1, n1) /\ Agree(m, n1)
                             /\ base.nblmax <= a1.nblmax
                             /\ a1.nblmax = base.nblmax => a1 = base /\ n1 = m
  BY <1>1, <1>2, AgrandieKeeps
<1>4. PICK b1 : b1 = Jxecro(a1, Usadi, v)
  OBVIOUS
<1>5. PICK a2 : a2 = Agrandie(b1, Acce, ~indiq)
  OBVIOUS
<1>6. PICK b2 : b2 = Jxecro(a2, Acce, v)
  OBVIOUS
<1>7. /\ Usadi \in Objects /\ Acce \in Objects /\ Usadi # Acce
      /\ Usadi \notin Users /\ Acce \notin Users /\ v # NoImage
  BY JxDiskAssumption DEF Users
<1>8. UNCHANGED <<indiq, img>> /\ a1.nblmax <= MaxRec
  BY <1>2, <1>4, <1>5, <1>6 DEF Jelibf
<1>9. CASE Pleine(a1, Usadi) /\ base' = AvantPleine(a1, Usadi) /\ phase' = "pleine"
  <2>1. PICK c : c = AvantPleine(a1, Usadi)
    OBVIOUS
  <2>2. Has(c, n1) /\ c.nblmax = a1.nblmax
    BY <1>3, <2>1, AvantPleineKeeps
  <2>3. Keeps(c, img)
    BY <1>1, <1>3, <1>7, <1>8, <2>2 DEF Keeps, Agree, Users
  <2>4. PhaseOK'
    BY <1>8, <1>9 DEF PhaseOK, IInv
  <2> QED
    BY <1>8, <1>9, <2>1, <2>3, <2>4 DEF IInv, Described
<1>10. CASE ~Pleine(a1, Usadi) /\ a2.nblmax <= MaxRec
  <2>1. PICK m1 : m1 = [n1 EXCEPT ![Usadi] = v]
    OBVIOUS
  <2>2. Has(b1, m1) /\ b1.nblmax = a1.nblmax
    <3>1. Has(b1, [n1 EXCEPT ![Usadi] = v]) /\ b1.nblmax = a1.nblmax
      BY <1>3, <1>4, <1>7, <1>8, <1>10, JxecroKeeps
    <3> QED
      BY <2>1, <3>1
  <2>3. PICK n2 \in Contents : /\ Has(a2, n2) /\ Agree(m1, n2)
                               /\ b1.nblmax <= a2.nblmax
                               /\ a2.nblmax = b1.nblmax => a2 = b1 /\ n2 = m1
    BY <1>5, <2>2, AgrandieKeeps
  <2>4. \A p \in Users : n2[p] = img[p]
    BY <1>1, <1>3, <1>7, <2>1, <2>3 DEF Agree, Contents, Users
  <2>5. CASE Pleine(a2, Acce) /\ base' = AvantPleine(a2, Acce) /\ phase' = "pleine"
    <3>1. PICK c : c = AvantPleine(a2, Acce)
      OBVIOUS
    <3>2. Has(c, n2) /\ c.nblmax = a2.nblmax
      BY <2>3, <3>1, AvantPleineKeeps
    <3>3. Keeps(c, img)
      BY <1>10, <2>3, <2>4, <3>2 DEF Keeps
    <3>4. PhaseOK'
      BY <1>8, <2>5 DEF PhaseOK, IInv
    <3> QED
      BY <1>8, <2>5, <3>1, <3>3, <3>4 DEF IInv, Described
  <2>6. CASE /\ ~Pleine(a2, Acce)
             /\ IF a2.nblmax = base.nblmax
                THEN base' = Ferme(b2, v) /\ phase' = "fermee"
                ELSE base' = b2 /\ phase' = "perimee"
    <3>1. PICK m2 : m2 = [n2 EXCEPT ![Acce] = v]
      OBVIOUS
    <3>2. Has(b2, m2) /\ b2.nblmax = a2.nblmax
      <4>1. Has(b2, [n2 EXCEPT ![Acce] = v]) /\ b2.nblmax = a2.nblmax
        BY <1>6, <1>7, <1>10, <2>3, <2>6, JxecroKeeps
      <4> QED
        BY <3>1, <4>1
    <3>3. m2 \in Contents /\ \A p \in Users : m2[p] = img[p]
      BY <1>7, <2>3, <2>4, <3>1 DEF Contents, Users
    <3>4. CASE a2.nblmax = base.nblmax
      <4>1. n2 = m1
        <5>1. base.nblmax \in Nat /\ a1.nblmax \in Nat /\ a2.nblmax \in Nat
          BY <1>1, <1>3, <2>3 DEF Has, Sound, Shape, SizesOK
        <5> QED
          BY <1>3, <2>2, <2>3, <3>4, <5>1
      <4>2. m2[Usadi] = v /\ m2[Acce] = v
        BY <1>3, <1>7, <2>1, <2>3, <3>1, <4>1 DEF Contents
      <4>3. PICK c : c = Ferme(b2, v)
        OBVIOUS
      <4>4. Has(c, m2) /\ c.nblmax = b2.nblmax
        BY <3>2, <4>2, <4>3, FermeKeeps
      <4>5. Keeps(c, img)
        BY <1>10, <3>2, <3>3, <4>4 DEF Keeps
      <4>6. c.iadd[Usadi] # Nowhere /\ c.iadd[Acce] # Nowhere
        BY <1>7, <4>2, <4>4, AddressOrNone
      <4>7. base' = c /\ phase' = "fermee"
        BY <2>6, <3>4, <4>3
      <4>8. PhaseOK'
        BY <1>8, <4>7 DEF PhaseOK, IInv
      <4> QED
        BY <1>8, <4>5, <4>6, <4>7, <4>8 DEF IInv, Described
    <3>5. CASE a2.nblmax # base.nblmax
      <4>1. base' = b2 /\ phase' = "perimee"
        BY <2>6, <3>5
      <4>2. Keeps(b2, img)
        BY <1>10, <3>2, <3>3 DEF Keeps
      <4>3. PhaseOK'
        BY <1>8, <4>1 DEF PhaseOK, IInv
      <4> QED
        BY <1>8, <4>1, <4>2, <4>3 DEF IInv, Described
    <3> QED
      BY <3>4, <3>5
  <2> QED
    BY <1>2, <1>4, <1>5, <1>6, <1>10, <2>5, <2>6 DEF Jelibf
<1> QED
  BY <1>2, <1>4, <1>5, <1>6, <1>9, <1>10 DEF Jelibf

LEMMA NextIsSound ==
    ASSUME SameTest, IInv, [Next]_vars
    PROVE  IInv'
<1>1. CASE \E o \in Users, v \in Values, evicting \in BOOLEAN : Ecrire(o, v, evicting)
  BY <1>1, EcrireIsSound
<1>2. CASE \E o \in Users : Lire(o)
  BY <1>2, LireIsSound
<1>3. CASE \E o \in Users : Detruire(o)
  BY <1>3, DetruireIsSound
<1>4. CASE \E v \in Values : Jelibf(v)
  BY <1>4, JelibfIsSound
<1>5. CASE Agrandir
  BY <1>5, AgrandirIsSound
<1>6. CASE Jjldyn
  BY <1>6 DEF Jjldyn, IInv, PhaseOK, Described
<1>7. CASE Jerecu
  BY <1>7, JerecuIsSound
<1>8. CASE Jeinif
  BY <1>8, JeinifIsSound
<1>9. CASE \E v \in Values : Jereou(v)
  BY <1>9, JereouIsSound
<1>10. CASE Stopped \/ UNCHANGED vars
  BY <1>10 DEF Stopped, vars, IInv, PhaseOK, Described
<1> QED
  BY <1>1, <1>2, <1>3, <1>4, <1>5, <1>6, <1>7, <1>8, <1>9, <1>10 DEF Next

-----------------------------------------------------------------------------
(* What a sound base is worth.                                              *)
LEMMA CountedFits ==
    ASSUME NEW w, IsWords(w), Chain(w)
    PROVE  Cardinality(Dead(w)) \in 0..W
<1>1. W \in Nat \ {0} /\ 1 \in Int
  BY JxDiskAssumption
<1>2. IsFiniteSet(1..W) /\ Cardinality(1..W) = W
  BY <1>1, FS_Interval
<1>3. Dead(w) \subseteq 1..W
  BY <1>1 DEF Dead, Chain, IsWords
<1>4. Cardinality(Dead(w)) <= Cardinality(1..W)
  BY <1>2, <1>3, FS_Subset
<1> QED
  BY <1>1, <1>2, <1>4, WordsAreFinite

LEMMA WordsOfRecord ==
    ASSUME NEW b, Sound(b), NEW k \in Records
    PROVE  IsWords(Words(b, k))
BY DEF Sound, Shape, ContentsOK, Words

LEMMA TypesHold == IInv => TypeOK
<1> SUFFICES ASSUME IInv PROVE TypeOK
  OBVIOUS
<1>1. Sound(base) /\ base.nblmax <= MaxRec
  BY DEF IInv, Keeps, Has
<1>2. base.classe \in Classes /\ base.nblmax \in NbMax..MaxRec
      /\ base.nbluti \in 0..base.nblmax /\ base.nbpeti \in 0..NbLim
      /\ base.nblim \in {0, NbLim}
  BY <1>1, JxDiskAssumption DEF Sound, Shape, SizesOK
<1>3. /\ base.iusadi \in [Records -> Objects \cup {Libre, Petits}]
      /\ base.nbdet \in [Records -> Nat]
      /\ base.iadd \in [Objects -> [rec : Records, off : 0..W] \cup {Nowhere}]
  BY <1>1 DEF Sound, Shape, TablesOK, Places
<1>4. \A k \in Records : base.nbdet[k] \in 0..W
  <2> SUFFICES ASSUME NEW k \in Records PROVE base.nbdet[k] \in 0..W
    OBVIOUS
  <2>1. IsWords(Words(base, k))
    BY <1>1, WordsOfRecord
  <2>2. base.nbdet[k] = IF base.iusadi[k] = Petits THEN Cardinality(Dead(Words(base, k))) ELSE 0
    BY <1>1 DEF Sound, Counted
  <2>3. base.iusadi[k] = Petits => Chain(Words(base, k))
    BY <1>1 DEF Sound, Chains
  <2>4. CASE base.iusadi[k] = Petits
    BY <2>1, <2>2, <2>3, <2>4, CountedFits
  <2>5. CASE base.iusadi[k] # Petits
    BY <2>2, <2>5, JxDiskAssumption
  <2> QED
    BY <2>4, <2>5
<1>5. base.nbdet \in [Records -> 0..W]
  BY <1>3, <1>4
<1>6. DOMAIN base.disk = Records /\ \A k \in Records : WordsOK(base.disk[k])
  BY <1>1 DEF Sound, Shape, ContentsOK, IsWords, WordsOK, Cells
<1>7. WordsOK(base.tlec) /\ WordsOK(base.tecr)
  BY <1>1 DEF Sound, Shape, ContentsOK, IsWords, WordsOK, Cells
<1>8. base.iitlec \in 0..MaxRec /\ base.iitecr \in 0..MaxRec /\ base.nitecr \in 0..W
  BY <1>1 DEF Sound, Shape, IndicesOK
<1>9. base.litlec \in BOOLEAN
  BY <1>1, Zenon DEF Sound, Shape, IndicesOK
<1>10. /\ phase \in {"ouverte", "fermee", "pleine", "perimee"} /\ indiq \in BOOLEAN
       /\ img \in [Users -> Values \cup {NoImage}]
  BY DEF IInv, PhaseOK
<1> QED
  BY <1>2, <1>3, <1>5, <1>6, <1>7, <1>8, <1>9, <1>10, Zenon DEF TypeOK

LEMMA PlacesHold == IInv => PlacesAreKept
<1> SUFFICES ASSUME IInv, NEW o \in Objects, base.iadd[o] # Nowhere
             PROVE  LET k == base.iadd[o].rec
                        words == IF PetitEcrit(o) THEN Words(base, k) ELSE base.disk[k]
                    IN  /\ base.iadd[o].off \in DOMAIN words
                        /\ words[base.iadd[o].off] # Mort
                        /\ words[base.iadd[o].off].id = o
                        /\ IF PetitEcrit(o) THEN base.iusadi[k] = Petits
                           ELSE \A r \in k .. k + Blocs(o) - 1 : base.iusadi[r] = o
  BY DEF PlacesAreKept
<1>1. PICK m \in Contents : Has(base, m)
  BY DEF IInv, Keeps
<1>2. m[o] \in Values /\ Holds(base, o, m[o])
  BY <1>1, AddressOrNone DEF Has, Placed, Contents
<1>3. PICK e : e = Entry(o, m[o])
  OBVIOUS
<1>4. e # Mort /\ e.id = o
  BY <1>2, <1>3, JxDiskAssumption DEF Entry
<1>5. CASE PetitEcrit(o)
  BY <1>2, <1>3, <1>4, <1>5 DEF Holds, HoldsSmall
<1>6. CASE ~PetitEcrit(o)
  BY <1>2, <1>3, <1>4, <1>6 DEF Holds, HoldsBig
<1> QED
  BY <1>5, <1>6

LEMMA ChainsHold == IInv => RecordsAreChains
<1> SUFFICES ASSUME IInv PROVE RecordsAreChains
  OBVIOUS
<1>1. Sound(base)
  BY DEF IInv, Keeps, Has
<1>2. ASSUME NEW k \in Records, base.iusadi[k] = Petits
      PROVE  \A i \in DOMAIN Words(base, k) : Words(base, k)[i] # Mort =>
               /\ i + Mots(Words(base, k)[i].id) + 3 <= W
               /\ \A j \in DOMAIN Words(base, k) :
                    j > i => j >= i + Mots(Words(base, k)[i].id) + 3
  <2>1. Chain(Words(base, k))
    BY <1>1, <1>2 DEF Sound, Chains
  <2> QED
    BY <2>1 DEF Chain
<1> QED
  BY <1>2, TypesHold DEF RecordsAreChains

LEMMA BuffersHold == IInv => BuffersAgree
BY DEF IInv, Keeps, Has, Sound, Buffers, BuffersAgree

LEMMA ReadingsHold ==
    ASSUME SameTest, IInv
    PROVE  ReadsLastWritten
<1> SUFFICES ASSUME NEW o \in Users
             PROVE  IF base.iadd[o] = Nowhere THEN img[o] = NoImage
                    ELSE Read(base, o) = img[o]
  BY DEF ReadsLastWritten
<1>1. PICK m \in Contents : Has(base, m) /\ \A p \in Users : m[p] = img[p]
  BY DEF IInv, Keeps
<1>2. o \in Objects /\ m[o] = img[o]
  BY <1>1 DEF Users
<1>3. m[o] = NoImage <=> base.iadd[o] = Nowhere
  BY <1>1, <1>2, AddressOrNone
<1>4. CASE base.iadd[o] = Nowhere
  BY <1>2, <1>3, <1>4
<1>5. CASE base.iadd[o] # Nowhere
  <2>1. m[o] \in Values /\ Holds(base, o, m[o])
    BY <1>1, <1>2, <1>3, <1>5 DEF Has, Placed, Contents
  <2>2. PICK e : e = Entry(o, m[o])
    OBVIOUS
  <2>3. e # Mort /\ e.data = m[o]
    BY <1>2, <2>1, <2>2, JxDiskAssumption DEF Entry
  <2>4. PetitLu(o) <=> PetitEcrit(o)
    BY <1>2 DEF SameTest
  <2>5. CASE PetitEcrit(o)
    <3>1. /\ base.iadd[o].off \in DOMAIN Words(base, base.iadd[o].rec)
          /\ Words(base, base.iadd[o].rec)[base.iadd[o].off] = e
      BY <2>1, <2>2, <2>5 DEF Holds, HoldsSmall
    <3> QED
      BY <1>2, <1>5, <2>3, <2>4, <2>5, <3>1 DEF Read
  <2>6. CASE ~PetitEcrit(o)
    <3>1. /\ base.iadd[o].off \in DOMAIN base.disk[base.iadd[o].rec]
          /\ base.disk[base.iadd[o].rec][base.iadd[o].off] = e
      BY <2>1, <2>2, <2>6 DEF Holds, HoldsBig
    <3> QED
      BY <1>2, <1>5, <2>3, <2>4, <2>6, <3>1 DEF Read
  <2> QED
    BY <2>5, <2>6
<1> QED
  BY <1>4, <1>5

-----------------------------------------------------------------------------
(* The theorems.                                                            *)
LEMMA AlwaysSound ==
    ASSUME SameTest
    PROVE  Spec => []IInv
<1>1. SameTest /\ IInv /\ [Next]_vars => IInv'
  BY NextIsSound
<1> QED
  BY <1>1, InitIsSound, PTL DEF Spec

(* The address of an object leads to it, alive, and to no other, whatever   *)
(* jxecro, jxliro, jxlibd, jerecu, jjagod, jelibf and jeinif have done: no  *)
(* record is recovered, allocated or overwritten while an address leads     *)
(* there.                                                                   *)
THEOREM AddressesLeadToObjects == SameTest => (Spec => []PlacesAreKept)
<1> SUFFICES ASSUME SameTest PROVE Spec => []PlacesAreKept
  OBVIOUS
<1> QED
  BY AlwaysSound, PlacesHold, PTL

(* The ranges of jusadi, inbdet, iadd and the indices of the buffers, and   *)
(* the chain of every record of small objects, wherever its current words   *)
(* are: no object overlaps the next one, and the end of the chain fits.     *)
THEOREM SmallObjectsFit == SameTest => (Spec => []RecordsAreChains)
<1> SUFFICES ASSUME SameTest PROVE Spec => []RecordsAreChains
  OBVIOUS
<1> QED
  BY AlwaysSound, ChainsHold, PTL

(* The buffers of jxliro and jxecro never hold the same record, and what is *)
(* not marked for writing can be forgotten.                                 *)
THEOREM BuffersNeverShare == SameTest => (Spec => []BuffersAgree)
<1> SUFFICES ASSUME SameTest PROVE Spec => []BuffersAgree
  OBVIOUS
<1> QED
  BY AlwaysSound, BuffersHold, PTL

(* jxliro returns what jxecro was last given for the object, through every  *)
(* sequence of readings, writings, destructions, recoveries, growths,       *)
(* closings and openings of one base, the recoveries of a base that was     *)
(* opened again included, and what was destroyed has no address.            *)
THEOREM DiskReturnsLastWritten == SameTest => (Spec => []ReadsLastWritten)
<1> SUFFICES ASSUME SameTest PROVE Spec => []ReadsLastWritten
  OBVIOUS
<1>1. IInv => ReadsLastWritten
  BY ReadingsHold
<1> QED
  BY <1>1, AlwaysSound, PTL
=============================================================================
