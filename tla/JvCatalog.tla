----------------------------- MODULE JvCatalog -----------------------------
(***************************************************************************)
(* The catalogue of names of JEVEUX (bibfor/jeveux: jjcren, jjarep,        *)
(* jjvern, jecreo, jedetr, jjprem, jxhcod): in each base a hash table with *)
(* open addressing, whose entries are identifiers, negative once the name  *)
(* is destroyed; a table that is rebuilt twice as large when identifiers   *)
(* run out; and, before the tables, the last name found, with its place.   *)
(*                                                                         *)
(* One action is one call, except that jjarep, which may fail, and jjcren, *)
(* which starts again after it, are cut: one action for each turn of the   *)
(* loop of jjarep, one for the second turn of jjcren ("goto 500").         *)
(***************************************************************************)
EXTENDS Integers, Sequences, FiniteSetsExt

CONSTANTS Names,        \* names of objects, of at most 24 characters
          Code,         \* Code[n]: the words of n combined by jxhcod
          Types,        \* what jecreo may declare
          NoType,       \* cleared by jjmzat
          Erased,       \* '?' in rnom
          Unknown,      \* no place, no name
          nbcla,        \* bases open, searched in the order 1..nbcla
          NrepInit,     \* NrepInit[c]: nremax of a new base c
          jprem,        \* the table of prime numbers of jjprem
          MaxNames      \* bound of the model: no growth of a larger base

VARIABLES hcod,         \* hcod[c]: the hash table, 0 or an identifier or its opposite
          rnom,         \* rnom[c]: names by identifier
          type,         \* type[c]: attribute by identifier
          nremax,       \* nremax[c]: length of rnom[c]
          nrhcod,       \* nrhcod[c]: length of hcod[c]
          nreuti,       \* nreuti[c]: identifiers given so far
          last,         \* the last name found and its place (nomos, iclaos, idatos)
          phase,        \* where the program is, see TypeOK
          req,          \* the call of jecreo that is being served
          new           \* the tables that jjarep fills, and its index kn

table == <<hcod, rnom, type, nremax, nrhcod, nreuti>>
vars  == <<table, last, phase, req, new>>

Bases == 1..nbcla

-----------------------------------------------------------------------------
(* Sizes and positions.                                                     *)

(* The bisection of jjprem in its table, for fact * nombre = 13 n / 10.     *)
jjprem(prem, n) ==
    LET npre     == Len(prem)
        Above(i) == prem[i] <= (13 * n - 1) \div 10
        Exact(i) == (13 * n) % 10 = 0 /\ prem[i] = (13 * n) \div 10
        Turn(i, h) == IF Above(i) THEN IF i + h < npre THEN i + h ELSE npre
                                  ELSE IF i - h > 1 THEN i - h ELSE 1
        iprem[j \in 0..npre] == [i \in 1..npre |->
            LET h == (j + 1) \div 2
                m == Turn(i, h)
            IN  CASE Exact(i)             -> i
                  [] ~Exact(i) /\ h > 1   -> iprem[h][m]
                  [] ~Exact(i) /\ h <= 1  -> IF Above(m) THEN m + 1 ELSE m]
    IN  prem[iprem[npre \div 2][npre \div 2]]

(* jxhcod, and the slots that jjcren and jjarep look at in turn, in tables  *)
(* of the lengths that jjprem gives.                                        *)
jxhcod(n, lorep) == 1 + (Code[n] % lorep)
Lorep == {jjprem(jprem, m) : m \in 1..2 * MaxNames}
Way   == [n \in Names, lorep \in Lorep |-> [k \in 0..lorep - 1 |->
             1 + ((jxhcod(n, lorep) - 1 + k * (jxhcod(n, lorep - 2) + 1)) % lorep)]]
Slot(n, lorep, k) == Way[n, lorep][k]

Abs(j) == IF j < 0 THEN -j ELSE j

(* The sizes are those of jjprem: more slots than names, and as many of     *)
(* them as make every search pass by every slot, once.                      *)
ASSUME CatalogAssumption ==
    /\ nbcla \in Nat \ {0} /\ MaxNames \in Nat
    /\ NrepInit \in [Bases -> 1..2 * MaxNames]
    /\ Code \in [Names -> Nat]
    /\ Erased \notin Names /\ Unknown \notin Names /\ NoType \notin Types
    /\ \A p \in Bases \X (1..2 * MaxNames) : Unknown # p
    /\ \A m \in 1..2 * MaxNames :
          LET lorep == jjprem(jprem, m) IN
          /\ lorep \in Nat /\ lorep > m
          /\ \A n \in Names : {Slot(n, lorep, k) : k \in 0..lorep - 1} = 1..lorep

-----------------------------------------------------------------------------
(* The search of jjcren. In the table of base c, k is the rank of a probe.  *)
(* rinser: a slot to use again has been found in a former base; the search  *)
(* then does not stop at an empty first slot.                               *)
Probes(c)      == 0..nrhcod[c] - 1
Entry(n, c, k) == hcod[c][Slot(n, nrhcod[c], k)]

End(n, c, k, rinser) == Entry(n, c, k) = 0 /\ ~(rinser /\ k = 0)
Hit(n, c, k)         == LET j == Entry(n, c, k) IN j # 0 /\ rnom[c][Abs(j)] = n

FoundBeforeErased(n, c, k, rinser) ==                       \* mutant
    /\ Hit(n, c, k)
    /\ \A q \in 0..k - 1 : Entry(n, c, q) > 0 /\ ~Hit(n, c, q)
Found(n, c, k, rinser) ==
    /\ Hit(n, c, k)
    /\ \A q \in 0..k - 1 : ~End(n, c, q, rinser) /\ ~Hit(n, c, q)

Known(n, c, rinser) == \E k \in Probes(c) : Found(n, c, k, rinser)

(* jjcren with icre = 0: the place of n in the first base that knows it.    *)
Search(n) ==
    LET in == {c \in Bases : Known(n, c, FALSE)}
    IN  IF in = {} THEN Unknown
        ELSE LET c == Min(in)
                 k == CHOOSE k \in Probes(c) : Found(n, c, k, FALSE)
             IN  <<c, Entry(n, c, k)>>

(* jjvern: the last name found is not searched for again.                   *)
jjvern(n) == IF last.nomos = n THEN last.place ELSE Search(n)

(* The identifier of a name that goes into a slot that holds j: that of a   *)
(* destroyed name, or a new one.                                            *)
Idatin(c, j) == IF j < 0 THEN -j ELSE nreuti[c] + 1
IsgNone(c, j) == 0                                          \* mutant
Isg(c, j)    == IF j < 0 THEN 0 ELSE 1

(* Where a new name goes: the first slot on its way that is empty or whose  *)
(* name is destroyed.                                                       *)
Place(n, c, k) == /\ Entry(n, c, k) <= 0
                  /\ \A q \in 0..k - 1 : Entry(n, c, q) > 0

(* A slot whose name is destroyed counts only if an empty one follows.      *)
Full(n, c)   == \A k \in Probes(c) : Entry(n, c, k) # 0
Rinser(n, c) == \E k \in Probes(c) : Place(n, c, k) /\ Entry(n, c, k) < 0

(* jjcren calls jjarep, and the lengths it asks for.                        *)
GrowsLate(n, c) == \/ Full(n, c)                             \* mutant
                   \/ ~Rinser(n, c) /\ nreuti[c] > nremax[c]
Grows(n, c) == \/ Full(n, c)
               \/ ~Rinser(n, c) /\ nreuti[c] >= nremax[c]

NrmaxSame(nr) == nr                                         \* mutant
Nrmax(nr) == 2 * nr
Lhcod(nr) == jjprem(jprem, 2 * nr)

-----------------------------------------------------------------------------
NoLast == [nomos |-> Unknown, place |-> Unknown]
OubliNone == last                                           \* mutant
Oubli  == NoLast
NoReq  == [nom |-> Unknown, iclas |-> 0, type |-> NoType]
NoNew  == [kn |-> 0, nrmax |-> 0, hcod |-> <<>>, rnom |-> <<>>]

Idle == phase' = "repos" /\ req' = NoReq /\ new' = NoNew

Init == /\ nremax = NrepInit
        /\ nrhcod = [c \in Bases |-> jjprem(jprem, nremax[c])]
        /\ hcod = [c \in Bases |-> [s \in 1..nrhcod[c] |-> 0]]
        /\ rnom = [c \in Bases |-> [j \in 1..nremax[c] |-> Erased]]
        /\ type = [c \in Bases |-> [j \in 1..nremax[c] |-> NoType]]
        /\ nreuti = [c \in Bases |-> 0]
        /\ last = NoLast
        /\ phase = "repos" /\ req = NoReq /\ new = NoNew

-----------------------------------------------------------------------------
(* jjcren with icre = 1, and the end of jecreo.                             *)

(* JEVEUX_10: the name is known.                                            *)
Refuse == Idle /\ UNCHANGED <<table, last>>

Insert(n, c, t) ==
    /\ \E k \in Probes(c) :
          LET idatin == Idatin(c, Entry(n, c, k))
              isg    == Isg(c, Entry(n, c, k))
          IN  /\ Place(n, c, k)
              /\ hcod' = [hcod EXCEPT ![c][Slot(n, nrhcod[c], k)] = idatin]
              /\ rnom' = [rnom EXCEPT ![c][idatin] = n]
              /\ type' = [type EXCEPT ![c][idatin] = t]
              /\ nreuti' = [nreuti EXCEPT ![c] = @ + isg]
              /\ last' = [nomos |-> n, place |-> <<c, idatin>>]
    /\ Idle
    /\ UNCHANGED <<nremax, nrhcod>>

(* The call of jjarep, up to its loop.                                      *)
Enlarge(n, c, t) ==
    /\ nremax[c] <= MaxNames
    /\ phase' = "jjarep"
    /\ req' = [nom |-> n, iclas |-> c, type |-> t]
    /\ new' = LET nrmax == Nrmax(nremax[c])
                  lhcod == Lhcod(nremax[c])
              IN  [kn |-> 1, nrmax |-> nrmax, hcod |-> [s \in 1..lhcod |-> 0],
                   rnom |-> [j \in 1..nrmax |-> Erased]]
    /\ UNCHANGED <<table, last>>

(* The bases behind c are searched after the test on the size of its tables.*)
jjcren(n, c, t) ==
    LET before == \E d \in 1..c : Known(n, d, FALSE)
        behind == \E d \in c + 1..nbcla : Known(n, d, Rinser(n, c))
    IN  \/ before /\ Refuse
        \/ ~before /\ Grows(n, c) /\ Enlarge(n, c, t)
        \/ ~before /\ ~Grows(n, c) /\ behind /\ Refuse
        \/ ~before /\ ~Grows(n, c) /\ ~behind /\ Insert(n, c, t)

(* jecreo. jjvern answers for the last name found without looking at icre,  *)
(* and jecreo then declares the object again.                               *)
Jecreo(n, c, t) ==
    /\ phase = "repos"
    /\ IF last.nomos = n
       THEN /\ type' = [type EXCEPT ![last.place[1]][last.place[2]] = t]
            /\ UNCHANGED <<hcod, rnom, nremax, nrhcod, nreuti, last, phase, req, new>>
       ELSE jjcren(n, c, t)

(* "goto 500" after jjarep.                                                 *)
JjcrenEncore == phase = "encore" /\ jjcren(req.nom, req.iclas, req.type)

-----------------------------------------------------------------------------
(* jjarep: the loop on identifiers, which keeps them.                       *)

(* The slot of n in the tables being filled: the first that is empty or     *)
(* already holds n.                                                         *)
NewEntry(n, k) == new.hcod[Slot(n, Len(new.hcod), k)]
NewStop(n, k)  == \/ NewEntry(n, k) = 0
                  \/ NewEntry(n, k) # 0 /\ new.rnom[Abs(NewEntry(n, k))] = n
NewFirst(n, k) == NewStop(n, k) /\ \A q \in 0..k - 1 : ~NewStop(n, q)

JjarepName ==
    LET n == rnom[req.iclas][new.kn]
        In(h) == [kn |-> new.kn + 1, nrmax |-> new.nrmax, hcod |-> h,
                  rnom |-> [new.rnom EXCEPT ![new.kn] = n]]
        ranks == 0..Len(new.hcod) - 1
    IN  /\ phase = "jjarep" /\ new.kn <= nremax[req.iclas]
        /\ \/ n = Erased /\ new' = In(new.hcod) /\ UNCHANGED phase
           \/ /\ n # Erased
              /\ \E k \in ranks :
                    /\ NewFirst(n, k) /\ NewEntry(n, k) = 0 /\ new.kn <= new.nrmax
                    /\ new' = In([new.hcod EXCEPT ![Slot(n, Len(new.hcod), k)] = new.kn])
              /\ UNCHANGED phase
           \/ /\ n # Erased
              /\ \E k \in ranks : NewFirst(n, k) /\ NewEntry(n, k) # 0
              /\ phase' = "JEVEUX_59" /\ UNCHANGED new
           \/ /\ n # Erased
              /\ \/ \A k \in ranks : ~NewStop(n, k)
                 \/ new.kn > new.nrmax /\ \E k \in ranks : NewFirst(n, k) /\ NewEntry(n, k) = 0
              /\ phase' = "JEVEUX_58" /\ UNCHANGED new
        /\ UNCHANGED <<table, last, req>>

(* jjarep: the other tables are copied and the new ones take the place of   *)
(* the old.                                                                 *)
JjarepEnd ==
    LET c == req.iclas IN
    /\ phase = "jjarep" /\ new.kn > nremax[c]
    /\ nremax' = [nremax EXCEPT ![c] = new.nrmax]
    /\ nrhcod' = [nrhcod EXCEPT ![c] = Len(new.hcod)]
    /\ hcod' = [hcod EXCEPT ![c] = new.hcod]
    /\ rnom' = [rnom EXCEPT ![c] = new.rnom]
    /\ type' = [type EXCEPT ![c] = [j \in 1..new.nrmax |->
                                       IF j <= nreuti[c] THEN @[j] ELSE NoType]]
    /\ phase' = "encore"
    /\ new' = NoNew
    /\ UNCHANGED <<nreuti, last, req>>

(* jjalls fails in jjarep (JEVEUX_62). Before the loop nothing is changed;  *)
(* after it nremax and nrhcod are already those of tables that are not      *)
(* installed, and any further search reads beyond the old ones: the model   *)
(* stops there.                                                             *)
JjarepFails ==
    /\ phase = "jjarep"
    /\ \/ new.kn = 1 /\ Idle
       \/ new.kn > nremax[req.iclas] /\ phase' = "dechire" /\ UNCHANGED <<req, new>>
    /\ UNCHANGED <<table, last>>

-----------------------------------------------------------------------------
(* An access to n by its name (jeveuo, jelira, jeexin): jjvern, icre = 0.   *)
(* A search that fails leaves the last name found.                          *)
Jeexin(n) ==
    LET p == jjvern(n) IN
    /\ phase = "repos"
    /\ last' = IF p = Unknown THEN last ELSE [nomos |-> n, place |-> p]
    /\ UNCHANGED <<table, phase, req, new>>

(* jedetr of a simple object: jjvern, jjcren with icre = -1, nomos is       *)
(* cleared, jjmzat clears the attributes of the place found last.           *)
Jedetr(n) ==
    LET found == Search(n)
        p     == IF found = Unknown THEN last.place ELSE found
        c     == p[1]
    IN  /\ phase = "repos"
        /\ last.nomos = n \/ found # Unknown
        /\ IF found = Unknown
           THEN UNCHANGED <<hcod, rnom>>
           ELSE \E k \in Probes(c) :
                  /\ Found(n, c, k, FALSE)
                  /\ hcod' = [hcod EXCEPT ![c][Slot(n, nrhcod[c], k)] = -Entry(n, c, k)]
                  /\ rnom' = [rnom EXCEPT ![c][Entry(n, c, k)] = Erased]
        /\ type' = [type EXCEPT ![c][p[2]] = NoType]
        /\ last' = Oubli
        /\ UNCHANGED <<nremax, nrhcod, nreuti, phase, req, new>>

(* What follows an error of the loop of jjarep is not modelled: it does not *)
(* happen (RebuildSucceeds).                                                *)
Stopped == phase \in {"dechire", "JEVEUX_58", "JEVEUX_59"} /\ UNCHANGED vars

Jjarep == JjarepName \/ JjarepEnd \/ JjcrenEncore

Next == \/ \E n \in Names, c \in Bases, t \in Types : Jecreo(n, c, t)
        \/ \E n \in Names : Jeexin(n) \/ Jedetr(n)
        \/ Jjarep \/ JjarepFails \/ Stopped

Spec     == Init /\ [][Next]_vars
FairSpec == Spec /\ WF_vars(Jjarep)

-----------------------------------------------------------------------------
(* Properties.                                                              *)

(* Types and sizes of the tables of jjcren and jjarep.                      *)
TypeOK ==
    /\ nremax \in [Bases -> Nat] /\ nrhcod \in [Bases -> Nat] /\ nreuti \in [Bases -> Nat]
    /\ \A c \in Bases :
          /\ nreuti[c] <= nremax[c]
          /\ hcod[c] \in [1..nrhcod[c] -> -nreuti[c]..nreuti[c]]
          /\ rnom[c] \in [1..nremax[c] -> Names \cup {Erased}]
          /\ type[c] \in [1..nremax[c] -> Types \cup {NoType}]
    /\ last.nomos \in Names \cup {Unknown}
    /\ phase \in {"repos", "jjarep", "encore", "JEVEUX_58", "JEVEUX_59", "dechire"}

(* Where a name is written in rnom.                                         *)
Places(n)     == UNION {{<<c, j>> : j \in {i \in 1..nremax[c] : rnom[c][i] = n}} : c \in Bases}
Registered(n) == IF Places(n) = {} THEN Unknown ELSE CHOOSE p \in Places(n) : TRUE

(* jjcren: whatever was created, destroyed, put where another was and       *)
(* rebuilt before, the search gives the place of each name that is in the   *)
(* catalogue, and finds no other.                                           *)
SearchIsRight == \A n \in Names : Search(n) = Registered(n)

(* jjcren, jjarep: a name has one place, which no other name has, from its  *)
(* creation to its destruction; only the calls for a name move it.          *)
Registry == [n \in Names |-> Registered(n)]
Promise  == INSTANCE JvNames WITH Idents <- 1..2 * MaxNames, reg <- Registry
NamesSpec == Promise!Spec

(* jjvern: the place remembered for the last name is still its place.       *)
LastIsFresh == last.nomos # Unknown => last.place = Registered(last.nomos)

(* jjcren: an empty slot is left in every table, so that a search for a     *)
(* name that is not there ends before it has looked at all of it.           *)
EmptySlotLeft == \A c \in Bases, n \in Names : ~Full(n, c)

(* jjarep never meets its errors JEVEUX_58 and JEVEUX_59.                   *)
RebuildSucceeds == phase \notin {"JEVEUX_58", "JEVEUX_59"}

(* jjarep, jjcren: one growth is enough, the creation ends.                 *)
CreationEnds == phase \in {"jjarep", "encore"} ~> phase \in {"repos", "dechire"}

(* jecreo of a name that exists is an error (message JEVEUX_10): what an    *)
(* object was declared to be does not change while it has its place.        *)
ExistingIsRefused ==
    [][\A n \in Names :
          LET p == Registered(n) IN
          (p # Unknown /\ Registered(n)' = p) => type'[p[1]][p[2]] = type[p[1]][p[2]]]_vars
=============================================================================
