------------------------------- MODULE JxDisk -------------------------------
(***************************************************************************)
(* The direct access file of one JEVEUX base (bibfor/jeveux, jx* routines, *)
(* jerecu, jjagod, jelibf, jeinif): fixed size records, each free, part of *)
(* one big object, or shared by several small ones; the write buffer,      *)
(* where the first image of a small object goes; the read buffer, where    *)
(* small objects are read, rewritten and destroyed; the recovery of the    *)
(* records whose small objects are all destroyed; the growth of the base;  *)
(* its closing and its opening.                                            *)
(*                                                                         *)
(* One action is one call from the memory manager. It is the composition   *)
(* of operators that are named after the routines and map the state of the *)
(* base (the common blocks ificje, lficje, jusadi, inbdet and the file) to *)
(* its next state. Offsets are those of the code, counted in words.        *)
(***************************************************************************)
EXTENDS Integers, FiniteSets, FiniteSetsExt

CONSTANTS Objects,      \* the objects of the base
          Usadi, Acce,  \* two of them: $$USADI and $$ACCE, of the system
          Values,       \* contents of a segment of values
          NoImage,      \* content of an object that has no image
          Garbage,      \* what is read where nothing was written
          Mort,         \* words of a destroyed object, identifier negative
          Libre, Petits,\* states of a record that are no object
          Nowhere,      \* iadd = 0
          Lso,          \* Lso[o]: length of o in bytes
          Lois,         \* bytes in a word
          W,            \* words in a record: lgbl = W * Lois
          NbMax,        \* nblmax of the first base: NOMBRE, or NbFile
          NbFile,       \* mfic/(longbl*lois): records a new base may have
          MaxRec,       \* bound of the model: no growth beyond
          NbLim,        \* 500: nblim of a new base, the destroyed small
                        \* objects before a recovery
          Classes       \* the bases it may be: "G", "V"

ASSUME JxDiskAssumption ==
    /\ Usadi \in Objects /\ Acce \in Objects /\ Usadi # Acce
    /\ Garbage \notin Values /\ NoImage \notin Values /\ NoImage # Garbage
    /\ Libre # Petits /\ Libre \notin Objects /\ Petits \notin Objects
    /\ Mort \notin [id : Objects, data : Values]
    /\ Nowhere \notin [rec : Nat, off : Nat]
    /\ Lois \in Nat \ {0}
    /\ Lso \in [Objects -> Nat \ {0}]
    /\ W \in Nat \ {0} /\ MaxRec \in Nat
    /\ NbMax \in Nat \ {0} /\ NbFile \in Nat /\ NbMax <= NbFile /\ NbMax <= MaxRec
    /\ NbLim \in Nat \ {0}
    /\ Classes \subseteq {"G", "V"}

VARIABLES base,         \* the base, see TypeOK
          phase,        \* "ouverte", "fermee", or a way the closing went wrong
          indiq,        \* indiq_jjldyn = 1 while no jjldyn is active
          img           \* history: the content last written for each object,
                        \* the variable img of Jeveux.tla

vars == <<base, phase, indiq, img>>

Records == 1..MaxRec
Users   == Objects \ {Usadi, Acce}
Nowords == [i \in {} |-> Garbage]       \* content of a new record

(* Sizes. A small object takes its words and three more in a record, nde    *)
(* words being kept for the end of the chain; jxecro compares the length in *)
(* whole words, jxliro the length in bytes.                                 *)
Nde       == 6
Mots(o)   == (Lso[o] + Lois - 1) \div Lois
Lso2(o)   == Mots(o) * Lois
Blocs(o)  == (Mots(o) + W - 1) \div W
PetitEcrit(o) == Lso2(o) < (W - Nde) * Lois
PetitLu(o)    == Lso[o] < (W - Nde) * Lois

Entry(o, v) == [id |-> o, data |-> v]

Avec(words, i, e) == [j \in DOMAIN words \cup {i} |-> IF j = i THEN e ELSE words[j]]

-----------------------------------------------------------------------------
(* Buffers.                                                                 *)

(* jxecrb on a record of small objects.                                     *)
Ecrb(b, k, words) == [b EXCEPT !.disk[k] = words, !.iusadi[k] = Petits]

ViderLecture(b)  == IF b.litlec THEN Ecrb(b, b.iitlec, b.tlec) ELSE b
ViderEcriture(b) == IF b.iitecr > 0 THEN Ecrb(b, b.iitecr, b.tecr) ELSE b

(* Record k comes in the read buffer, after what it holds is written.       *)
ChargerSansVider(b, k) ==                                   \* mutant
    [b EXCEPT !.tlec = b.disk[k], !.iitlec = k, !.litlec = FALSE]
Charger(b, k) ==
    LET f == ViderLecture(b)
    IN  [f EXCEPT !.tlec = f.disk[k], !.iitlec = k, !.litlec = FALSE]

(* The words of record k, as the next access sees them.                     *)
Words(b, k) == IF k = b.iitlec THEN b.tlec
               ELSE IF k = b.iitecr THEN b.tecr ELSE b.disk[k]

(* A small object is changed in the buffer that holds its record.           *)
ModifierSansMarque(b, k, i, e) ==                           \* mutant
    IF k # b.iitlec /\ k = b.iitecr THEN [b EXCEPT !.tecr = Avec(@, i, e)]
    ELSE LET c == IF k = b.iitlec THEN b ELSE Charger(b, k)
         IN  [c EXCEPT !.tlec = Avec(@, i, e)]
Modifier(b, k, i, e) ==
    IF k # b.iitlec /\ k = b.iitecr THEN [b EXCEPT !.tecr = Avec(@, i, e)]
    ELSE LET c == IF k = b.iitlec THEN b ELSE Charger(b, k)
         IN  [c EXCEPT !.tlec = Avec(@, i, e), !.litlec = TRUE]

-----------------------------------------------------------------------------
(* Reading.                                                                 *)

Jxliro(b, o) ==
    IF PetitLu(o) /\ b.iadd[o].rec \notin {b.iitlec, b.iitecr}
    THEN Charger(b, b.iadd[o].rec)
    ELSE b

(* The content jxliro returns.                                              *)
Read(b, o) ==
    LET words == IF PetitLu(o) THEN Words(b, b.iadd[o].rec)
                               ELSE b.disk[b.iadd[o].rec]
        i     == b.iadd[o].off
    IN  IF i \in DOMAIN words /\ words[i] # Mort THEN words[i].data ELSE Garbage

-----------------------------------------------------------------------------
(* The records of R become free. (What a free record holds is not read; the *)
(* model forgets it.)                                                       *)
Liberer(b, R) ==
    [b EXCEPT !.iusadi = [k \in Records |-> IF k \in R THEN Libre ELSE @[k]],
              !.nbdet  = [k \in Records |-> IF k \in R THEN 0 ELSE @[k]],
              !.disk   = [k \in Records |-> IF k \in R THEN Nowords ELSE @[k]]]

(* Destruction: a small object is marked in its record, the records of a    *)
(* big one become free. (nbpeti is compared with nblim, NbLim or 0, and     *)
(* nothing else: it stops at NbLim in the model.)                           *)
Jxlibd(b, o) ==
    LET k == b.iadd[o].rec
        i == b.iadd[o].off
    IN  IF b.iusadi[k] = Petits
        THEN [Modifier(b, k, i, Mort)
                EXCEPT !.nbdet[k] = @ + 1,
                       !.nbpeti = IF @ < NbLim THEN @ + 1 ELSE @]
        ELSE Liberer(b, k .. k + Blocs(o) - 1)

Detruit(b, o) == IF b.iadd[o] = Nowhere THEN b
                 ELSE [Jxlibd(b, o) EXCEPT !.iadd[o] = Nowhere]

-----------------------------------------------------------------------------
(* Writing.                                                                 *)

(* More than half of the records used: jjagod doubles their number, and the *)
(* old images of $$USADI and $$ACCE are destroyed.                          *)
Rempli(b) == (100 * b.nbluti) \div b.nblmax > 50

Jjagod(b) == [Detruit(Detruit(b, Usadi), Acce) EXCEPT !.nblmax = 2 * @]

Agrandie(b, o, allowed) ==
    IF b.iadd[o] = Nowhere /\ Rempli(b) /\ allowed THEN Jjagod(b) ELSE b

Libres(b) == {k \in 1..b.nblmax : b.iusadi[k] = Libre}
Suites(b, n) == {k \in 1 .. b.nblmax - n : k .. k + n - 1 \subseteq Libres(b)}

TientSansFin(b, o) ==                                       \* mutant
    b.iitecr > 0 /\ b.nitecr + Mots(o) + 3 <= W
Tient(b, o) == b.iitecr > 0 /\ b.nitecr + Mots(o) + Nde <= W

(* JEVEUX_42: no room for a first image.                                    *)
Pleine(b, o) == /\ b.iadd[o] = Nowhere
                /\ IF PetitEcrit(o) THEN ~Tient(b, o) /\ Libres(b) = {}
                                    ELSE Suites(b, Blocs(o)) = {}

(* What is done before JEVEUX_42 is raised.                                 *)
AvantPleine(b, o) == IF PetitEcrit(o) THEN ViderEcriture(b) ELSE b

Nouveau(b) ==
    LET k == Min(Libres(b))
    IN  [b EXCEPT !.iitecr = k, !.nitecr = 0, !.tecr = Nowords,
                  !.iusadi[k] = Petits, !.nbdet[k] = 0,
                  !.nbluti = IF k > @ THEN k ELSE @]

PremierPetit(b, o, v) ==
    LET t == IF Tient(b, o) THEN b ELSE Nouveau(ViderEcriture(b))
        i == t.nitecr + 3
    IN  [t EXCEPT !.tecr = Avec(@, i, Entry(o, v)),
                  !.iadd[o] = [rec |-> t.iitecr, off |-> i],
                  !.nitecr = i + Mots(o)]

(* jxecrb on the records of a big object.                                   *)
EcrireGros(b, k, o, v) ==
    LET R == k .. k + Blocs(o) - 1
    IN  [b EXCEPT !.disk = [r \in Records |-> IF r \in R THEN Avec(Nowords, 0, Entry(o, v))
                                               ELSE @[r]],
                  !.iusadi = [r \in Records |-> IF r \in R THEN o ELSE @[r]]]

PremierGros(b, o, v) ==
    LET k == Min(Suites(b, Blocs(o)))
        last == k + Blocs(o) - 1
    IN  [EcrireGros(b, k, o, v) EXCEPT !.iadd[o] = [rec |-> k, off |-> 0],
                                       !.nbluti = IF last > @ THEN last ELSE @]

(* jxecro, once the base has been enlarged if it must be.                   *)
Jxecro(b, o, v) ==
    IF b.iadd[o] = Nowhere
    THEN IF PetitEcrit(o) THEN PremierPetit(b, o, v) ELSE PremierGros(b, o, v)
    ELSE IF PetitEcrit(o) THEN Modifier(b, b.iadd[o].rec, b.iadd[o].off, Entry(o, v))
                          ELSE EcrireGros(b, b.iadd[o].rec, o, v)

-----------------------------------------------------------------------------
(* jeinif: a new base, with the first images of its system objects. (In the *)
(* code fifteen objects are written; two are enough to tell small from big.)*)
(* When they have no room JEVEUX_42 is raised and there is no base. nbloc is *)
(* the number of records asked for.                                         *)
BaseVide(classe, nbloc) ==
    [classe |-> classe,
     iusadi |-> [k \in Records |-> Libre],  \* $$USADI, first two words
     nbdet  |-> [k \in Records |-> 0],      \* $$USADI, third word
     disk   |-> [k \in Records |-> Nowords],
     iadd   |-> [o \in Objects |-> Nowhere],
     iitlec |-> 0, litlec |-> FALSE, tlec |-> Nowords,
     iitecr |-> 0, nitecr |-> 0, tecr |-> Nowords,
     nblmax |-> Min({nbloc, NbFile}), nbluti |-> 0, nbpeti |-> 0,
     nblim |-> NbLim]                       \* set for a new base only

ResteDeLaPlace(b, o, allowed) == LET a == Agrandie(b, o, allowed)
                                 IN  a.nblmax <= MaxRec /\ ~Pleine(a, o)

EcrireSysteme(b, o, v, allowed) == Jxecro(Agrandie(b, o, allowed), o, v)

AvecUsadi(classe, nbloc, v, allowed) ==
    EcrireSysteme(BaseVide(classe, nbloc), Usadi, v, allowed)

PlaceDesSystemes(classe, nbloc, v, allowed) ==
    /\ ResteDeLaPlace(BaseVide(classe, nbloc), Usadi, allowed)
    /\ ResteDeLaPlace(AvecUsadi(classe, nbloc, v, allowed), Acce, allowed)

NouvelleBase(classe, nbloc, v, allowed) ==
    EcrireSysteme(AvecUsadi(classe, nbloc, v, allowed), Acce, v, allowed)

Init == /\ \E classe \in Classes, v \in Values :
              /\ PlaceDesSystemes(classe, NbMax, v, TRUE)
              /\ base = NouvelleBase(classe, NbMax, v, TRUE)
        /\ phase = "ouverte"
        /\ indiq = FALSE
        /\ img = [o \in Users |-> NoImage]

(* jxecro of a user object; evicting: called by jjldyn, which raises        *)
(* indiq_jjldyn while it works and does not lower it when jxecro raises an  *)
(* error.                                                                   *)
Ecrire(o, v, evicting) ==
    /\ phase = "ouverte"
    /\ LET b == Agrandie(base, o, ~evicting /\ ~indiq)
       IN  /\ b.nblmax <= MaxRec
           /\ \/ /\ ~Pleine(b, o)
                 /\ base' = Jxecro(b, o, v)
                 /\ indiq' = (indiq /\ ~evicting)
                 /\ img' = [img EXCEPT ![o] = v]
              \/ /\ Pleine(b, o)
                 /\ base' = AvantPleine(b, o)
                 /\ indiq' = (indiq \/ evicting)
                 /\ UNCHANGED img
    /\ UNCHANGED phase

(* jxecro enlarges the global and the volatile base together: the base      *)
(* grows when the other one is filled.                                      *)
Agrandir == /\ phase = "ouverte" /\ ~indiq /\ 2 * base.nblmax <= MaxRec
            /\ base' = Jjagod(base)
            /\ UNCHANGED <<phase, indiq, img>>

(* A jjldyn that has nothing to write.                                      *)
Jjldyn == /\ phase = "ouverte" /\ indiq
          /\ indiq' = FALSE
          /\ UNCHANGED <<base, phase, img>>

Lire(o) == /\ phase = "ouverte" /\ base.iadd[o] # Nowhere
           /\ base' = Jxliro(base, o)
           /\ UNCHANGED <<phase, indiq, img>>

Detruire(o) == /\ phase = "ouverte" /\ base.iadd[o] # Nowhere
               /\ base' = Detruit(base, o)
               /\ img' = [img EXCEPT ![o] = NoImage]
               /\ UNCHANGED <<phase, indiq>>

(* jerecu: the records of small objects that are all destroyed become free. *)
(* The first record is never recovered. superv_after calls it for base G    *)
(* after every command, operators for base V.                               *)
RecuperablesEntames(b) ==                                   \* mutant
    {k \in 2..b.nbluti : b.iusadi[k] = Petits /\ b.nbdet[k] > 0}
Recuperables(b) ==
    {k \in 2..b.nbluti : /\ b.iusadi[k] = Petits /\ b.nbdet[k] > 0
                         /\ \A i \in DOMAIN b.disk[k] : b.disk[k][i] = Mort}

LectureVidee(b) ==
    IF b.litlec THEN [ViderLecture(b) EXCEPT !.litlec = FALSE, !.iitlec = 0, !.tlec = Nowords]
                ELSE b

EcritureVidee(b) == [ViderEcriture(b) EXCEPT !.iitecr = 0, !.nitecr = 0, !.tecr = Nowords]

Jerecu ==
    /\ phase = "ouverte" /\ base.nbpeti >= base.nblim
    /\ LET t == LectureVidee(EcritureVidee(base))
       IN  base' = [Liberer(t, Recuperables(t)) EXCEPT !.nbpeti = 0]
    /\ UNCHANGED <<phase, indiq, img>>

(* jelibf 'SAUVE': $$USADI and $$ACCE get a place, the buffers are written, *)
(* then $$ACCE and $$USADI once more, at the addresses in memory they had   *)
(* when jelibf began: if one of the first two writings has enlarged the     *)
(* base, these are the addresses of segments that jjagod has freed, and the *)
(* model stops before what is written from there.                           *)
Ferme(b, v) ==
    LET b1 == LectureVidee(ViderEcriture(b))
        b2 == ViderLecture([Jxecro(b1, Acce, v) EXCEPT !.iitecr = 0])
        b3 == ViderLecture([Jxecro(b2, Usadi, v) EXCEPT !.iitecr = 0])
    IN  [b3 EXCEPT !.litlec = FALSE, !.iitlec = 0, !.nitecr = 0,
                   !.tlec = Nowords, !.tecr = Nowords]

Jelibf(v) ==
    /\ phase = "ouverte" /\ base.classe = "G"
    /\ LET a1 == Agrandie(base, Usadi, ~indiq)
           b1 == Jxecro(a1, Usadi, v)
           a2 == Agrandie(b1, Acce, ~indiq)
           b2 == Jxecro(a2, Acce, v)
       IN  \/ /\ a1.nblmax <= MaxRec /\ Pleine(a1, Usadi)
              /\ base' = AvantPleine(a1, Usadi) /\ phase' = "pleine"
           \/ /\ a1.nblmax <= MaxRec /\ ~Pleine(a1, Usadi)
              /\ a2.nblmax <= MaxRec /\ Pleine(a2, Acce)
              /\ base' = AvantPleine(a2, Acce) /\ phase' = "pleine"
           \/ /\ a1.nblmax <= MaxRec /\ ~Pleine(a1, Usadi)
              /\ a2.nblmax <= MaxRec /\ ~Pleine(a2, Acce)
              /\ IF a2.nblmax = base.nblmax
                 THEN base' = Ferme(b2, v) /\ phase' = "fermee"
                 ELSE base' = b2 /\ phase' = "perimee"
    /\ UNCHANGED <<indiq, img>>

(* jereou after jedetv, at the end of every command: when more than one     *)
(* record in a hundred is used, base V is thrown away and made anew, with   *)
(* as many records as it has become, or those the file may have.            *)
(* (Without room for its system objects JEVEUX_42 ends the run: no step.)   *)
Jereou(v) ==
    /\ phase = "ouverte" /\ base.classe = "V"
    /\ \A o \in Users : base.iadd[o] = Nowhere
    /\ 100 * base.nbluti > base.nblmax
    /\ PlaceDesSystemes("V", base.nblmax, v, ~indiq)
    /\ base' = NouvelleBase("V", base.nblmax, v, ~indiq)
    /\ UNCHANGED <<phase, indiq, img>>

(* jeinif on an existing base, in a new process: what the system objects    *)
(* hold is read back. nbpeti starts again (jeinif.F90:170); nblim is set for *)
(* a new base only (line 202), here it is the zero of the common block:     *)
(* every call of jerecu recovers.                                           *)
Jeinif == /\ phase = "fermee"
          /\ base' = [Jxliro(Jxliro(base, Usadi), Acce) EXCEPT !.nbpeti = 0, !.nblim = 0]
          /\ phase' = "ouverte" /\ indiq' = FALSE
          /\ UNCHANGED img

Stopped == phase \in {"pleine", "perimee"} /\ UNCHANGED vars

Next == \/ \E o \in Users, v \in Values, evicting \in BOOLEAN : Ecrire(o, v, evicting)
        \/ \E o \in Users : Lire(o) \/ Detruire(o)
        \/ \E v \in Values : Jelibf(v) \/ Jereou(v)
        \/ Agrandir \/ Jjldyn \/ Jerecu \/ Jeinif
        \/ Stopped

Spec == Init /\ [][Next]_vars
-----------------------------------------------------------------------------
(* The ranges of the state, and what a record and a buffer may hold.        *)
WordsOK(c) == /\ DOMAIN c \subseteq 0..W
              /\ \A i \in DOMAIN c : c[i] \in [id : Objects, data : Values] \cup {Mort}

TypeOK ==
    /\ base.classe \in Classes
    /\ base.iusadi \in [Records -> Objects \cup {Libre, Petits}]
    /\ base.nbdet \in [Records -> 0..W]
    /\ DOMAIN base.disk = Records
    /\ \A k \in Records : WordsOK(base.disk[k])
    /\ WordsOK(base.tlec) /\ WordsOK(base.tecr)
    /\ base.iadd \in [Objects -> [rec : Records, off : 0..W] \cup {Nowhere}]
    /\ base.iitlec \in 0..MaxRec /\ base.iitecr \in 0..MaxRec
    /\ base.litlec \in BOOLEAN
    /\ base.nitecr \in 0..W
    /\ base.nblmax \in NbMax..MaxRec /\ base.nbluti \in 0..base.nblmax
    /\ base.nbpeti \in 0..NbLim /\ base.nblim \in {0, NbLim}
    /\ phase \in {"ouverte", "fermee", "pleine", "perimee"}
    /\ indiq \in BOOLEAN
    /\ img \in [Users -> Values \cup {NoImage}]

(* The address of an object leads to that object, alive, and to no other:   *)
(* recovery, growth and destruction never give its place away, whichever    *)
(* buffer its record is in.                                                 *)
PlacesAreKept ==
    \A o \in Objects : base.iadd[o] # Nowhere =>
        LET k == base.iadd[o].rec
            words == IF PetitEcrit(o) THEN Words(base, k) ELSE base.disk[k]
        IN  /\ base.iadd[o].off \in DOMAIN words
            /\ words[base.iadd[o].off] # Mort
            /\ words[base.iadd[o].off].id = o
            /\ IF PetitEcrit(o) THEN base.iusadi[k] = Petits
               ELSE \A r \in k .. k + Blocs(o) - 1 : base.iusadi[r] = o

(* The two buffers never hold the same record, and a read buffer that need  *)
(* not be written is the same as its record.                                *)
BuffersAgree ==
    base.iitlec # 0 =>
        /\ base.iitlec # base.iitecr
        /\ ~base.litlec => base.tlec = base.disk[base.iitlec]

(* Types hold; the small objects of a record do not overlap, and what closes *)
(* the chain fits behind them.                                              *)
RecordsAreChains ==
    TypeOK /\ \A k \in Records : base.iusadi[k] = Petits =>
        LET words == Words(base, k)
        IN  \A i \in DOMAIN words : words[i] # Mort =>
              /\ i + Mots(words[i].id) + 3 <= W
              /\ \A j \in DOMAIN words : j > i => j >= i + Mots(words[i].id) + 3

(* Comment of jxecro: a record with non-null identifiers belongs to one big *)
(* object. So the read buffer, where small objects are looked for, is never *)
(* one of those.                                                            *)
ReadBufferIsSmall ==
    base.iitlec # 0 => base.iusadi[base.iitlec] = Petits

(* Comment of jxecro: the growth is put off only while jjagod or jjldyn is  *)
(* at work.                                                                 *)
GrowthNotPutOff == ~indiq

(* Comment of jelibf: $$USADI and $$ACCE, whose lengths jjagod may have     *)
(* changed, are written by the closing.                                     *)
DescriptionIsCurrent == phase # "perimee"

(* What a reading returns is what was last written, whatever was read,      *)
(* written, destroyed, recovered, enlarged, closed and opened in between,   *)
(* and whichever of the buffers and the file holds it.                      *)
ReadsLastWritten ==
    \A o \in Users : IF base.iadd[o] = Nowhere THEN img[o] = NoImage
                     ELSE Read(base, o) = img[o]
=============================================================================
