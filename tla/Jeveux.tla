------------------------------- MODULE Jeveux -------------------------------
(***************************************************************************)
(* The JEVEUX memory manager of code_aster (bibfor/jeveux) seen by the     *)
(* commands that use it: simple objects with a segment of values in memory *)
(* and an image on disk, the marks that keep a segment in use, the         *)
(* automatic unloading of idle segments under a memory limit, and the      *)
(* clean-up the supervisor runs after every command and after every error. *)
(*                                                                         *)
(* A segment carries two words around it: its usage, X (idle: it may be    *)
(* unloaded at any allocation) or U (in use: its address is known to some  *)
(* code), and its status, A (same as the disk image) or D (to be written). *)
(*                                                                         *)
(* Disk records are the subject of another module: here an image is the    *)
(* value a later reading returns.                                          *)
(***************************************************************************)
EXTENDS Integers, Sequences, FiniteSets, FiniteSetsExt

CONSTANTS Objects,      \* the simple objects of the catalogue
          Volatile,     \* those of base 'V'; the others belong to base 'G'
          Values, Zero, \* contents of a segment; Zero is that of jjalls 'INIT'
          Absent, Empty,\* abstract contents of an object without a segment
          NoImage,      \* iadd = 0: the object has no image on disk
          NoObject,     \* a zero word of DESMA
          Size,         \* Size[o]: words a segment of o takes in memory
          Limits,       \* values the memory limit vmxdyn may be given
          MaxMark,      \* 200 in the code: jemarq asserts ipgc < 200
          LgdInit,      \* length of DESMA at the first jemarq
          MaxLgd,       \* bound of the model: DESMA is never enlarged beyond
          LgpInit,      \* 50 in the code: length of KPOSMA at the first jemarq
          DebugModes    \* values idebug may be given

ASSUME JeveuxAssumption ==
    /\ IsFiniteSet(Objects)
    /\ Volatile \subseteq Objects
    /\ Zero \in Values
    /\ NoImage \notin Values /\ Absent \notin Values /\ Empty \notin Values
    /\ Absent # Empty
    /\ NoObject \notin Objects
    /\ Size \in [Objects -> Nat \ {0}]
    /\ Limits \subseteq Nat
    /\ MaxMark \in Nat /\ MaxMark > 1
    /\ LgdInit \in Nat \ {0} /\ MaxLgd \in Nat /\ LgpInit \in Nat \ {0}
    /\ DebugModes \subseteq BOOLEAN

VARIABLES seg,          \* "none": not in the catalogue, "out": no segment, "X", "U"
          dirty,        \* status D of the segment
          val,          \* content of the segment (Zero when there is none)
          img,          \* content of the disk image
          mark,         \* imarq(2*id-1)
          slot,         \* imarq(2*id): position in DESMA, 0 for none
          desma,        \* the marked objects; its length is lgduti
          kposma,       \* kposma[n]: lgduti when mark n was set; its length is ipgc
          lgd,          \* the length DESMA is believed to have
          desmaLen,     \* the length of the segment that holds DESMA
          lgp,          \* the length of the segment that holds KPOSMA
          limit,        \* vmxdyn
          idebug,       \* debug mode: a release writes and frees at once
          phase,        \* where the control is, see Phases
          pending,      \* the object whose jeveuo is enlarging DESMA
          claim,        \* the level that relies on the address of o: see Claims
          holder,       \* the C++ object that has it: see Holders
          writers       \* the objects whose address was asked for writing

vars == <<seg, dirty, val, img, mark, slot, desma, kposma, lgd, desmaLen, lgp,
          limit, idebug, phase, pending, claim, holder, writers>>

segments == <<seg, dirty, val, img>>
marks    == <<mark, slot, desma, kposma>>
table    == <<lgd, desmaLen, lgp, pending, idebug>>
claims   == <<claim, holder, writers>>

(* The control of the sequential program:                                   *)
(*   idle      Python or C++ code, between two commands                     *)
(*   op        inside a command (execop)                                    *)
(*   agrandir  inside jjecrs, DESMA is full                                 *)
(*   fatal     utmess 'F' has been called                                   *)
(*   nettoyer, detruire, unwind, after: the steps of utmess that follow     *)
(*   closed    the bases are closed                                         *)
(*   aborted   jefini('ERREUR') has stopped the process                     *)
(*   overrun   a word past the end of DESMA or KPOSMA has been written      *)
Phases == {"idle", "op", "agrandir", "fatal", "nettoyer", "detruire", "unwind",
           "after", "closed", "aborted", "overrun"}

Running == phase \in {"idle", "op"}

(* Two history variables say who relies on an address jeveuo returned.      *)
(* claim[o] is the outermost level of jemarq whose code does, 1.. , or -1   *)
(* for a jeveut, good until the end of the command.                         *)
(* holder[o] is the code outside any jemarq, that is the JeveuxVector of o, *)
(* which keeps the address it was given from one command to the next:       *)
(*   none       no such code has it                                         *)
(*   kept       it has it, and the segment is in use for it (mark 0)        *)
(*   overruled  it has it, but a jeveut has replaced mark 0 by -1, or a     *)
(*              jelibe has released the segment: the address is good till   *)
(*              the end of the command at best, and the JeveuxVector does   *)
(*              not know                                                    *)
Nobody  == MaxMark
Claims  == {-1} \cup 1..Nobody
Holders == {"none", "kept", "overruled"}

Relied(o) == claim[o] # Nobody \/ holder[o] = "kept"

ipgc == Len(kposma)

Exists(o) == seg[o] # "none"
Loaded == {o \in Objects : seg[o] \in {"X", "U"}}
Idle   == {o \in Objects : seg[o] = "X"}

IdleCleanAnyUsage == {o \in Loaded : ~dirty[o]}             \* mutant
IdleClean == {o \in Idle : ~dirty[o]}

Evictions == {{}, IdleClean, Idle}

-----------------------------------------------------------------------------
(* Memory. mcdyn is the total of the segments and of the two tables.        *)

Words(S) == MapThenSumSet(LAMBDA o : Size[o], S)

Tables == desmaLen + lgp
mcdyn  == Words(Loaded) + Tables

Fits(need, evicted, max) == Words(Loaded \ evicted) + Tables + need <= max

(* jjldyn(.., -1) ends with jermxd, which accepts a new limit only above    *)
(* what is allocated; jjldyn(.., -2) leaves the limit alone.                *)
JermxdUnchecked(used) == {limit} \cup Limits                \* mutant
Jermxd(used) == {limit} \cup {m \in Limits : used < m}

(* jjalls: the segments that are unloaded so that `need' more words can be  *)
(* allocated, and the limit it leaves. Idle clean segments go when the      *)
(* limit is passed or hpalloc fails once, all idle ones when it is still    *)
(* passed.                                                                  *)
Jjalls(need, evicted, max) ==
    \/ /\ evicted \in {{}, IdleClean} /\ max = limit
       /\ Fits(need, {}, limit)
    \/ /\ evicted = IdleClean /\ max = limit
       /\ ~Fits(need, {}, limit) /\ Fits(need, IdleClean, limit)
    \/ /\ evicted = Idle /\ max \in Jermxd(Words(Loaded \ Idle) + Tables)
       /\ ~Fits(need, IdleClean, limit) /\ Fits(need, Idle, max)

(* jjalls stops on JEVEUX_62 (limit) or JEVEUX_60 (hpalloc fails twice).    *)
JjallsFails(need, evicted, max) ==
    \/ evicted = IdleClean /\ max = limit /\ Fits(need, IdleClean, limit)
    \/ /\ evicted = Idle /\ ~Fits(need, IdleClean, limit)
       /\ max \in Jermxd(Words(Loaded \ Idle) + Tables)

(* Unloading the segments of S: jxecro for those with status D, then free.  *)
WrittenOnce(S) ==                                           \* mutant
    [p \in Objects |-> IF p \in S /\ img[p] = NoImage THEN val[p] ELSE img[p]]
Written(S)  == [p \in Objects |-> IF p \in S /\ dirty[p] THEN val[p] ELSE img[p]]
Freed(S)    == [p \in Objects |-> IF p \in S THEN "out" ELSE seg[p]]
Cleared(S)  == [p \in Objects |-> IF p \in S THEN Zero ELSE val[p]]
Clean(S)    == [p \in Objects |-> dirty[p] /\ p \notin S]

Unload(S) == /\ seg' = Freed(S) /\ img' = Written(S)
             /\ val' = Cleared(S) /\ dirty' = Clean(S)

-----------------------------------------------------------------------------
(* Marks.                                                                   *)

(* The words of DESMA where the objects of S stand are set to zero.         *)
DesmaWithout(S) == [k \in DOMAIN desma |->
                      IF \E o \in S : slot[o] = k THEN NoObject ELSE desma[k]]

Unmarked(S) == [p \in Objects |-> IF p \in S THEN 0 ELSE mark[p]]
Slotless(S) == [p \in Objects |-> IF p \in S THEN 0 ELSE slot[p]]

(* jjmzat and jjlide: the marks of the objects of S are reset.              *)
ForgetKeepsDesma(S) == /\ mark' = Unmarked(S)               \* mutant
                       /\ slot' = Slotless(S)
                       /\ UNCHANGED desma
Forget(S) == /\ mark' = Unmarked(S)
             /\ slot' = Slotless(S)
             /\ desma' = DesmaWithout(S)

(* jeveuo at level n (0 outside any jemarq), or jeveut (n = -1).            *)
HolderAfter(o, n) ==
    IF n = 0 THEN IF seg[o] = "U" /\ mark[o] = -1 THEN "overruled" ELSE "kept"
    ELSE IF n = -1 /\ holder[o] = "kept" THEN "overruled"
    ELSE holder[o]

Claim(o, n, cel) ==
    /\ claim' = [claim EXCEPT ![o] = IF n = -1 THEN n
                                     ELSE IF n = 0 \/ holder[o] = "kept" THEN @
                                     ELSE IF n < @ THEN n ELSE @]
    /\ holder' = [holder EXCEPT ![o] = HolderAfter(o, n)]
    /\ writers' = IF cel = "E" THEN writers \cup {o} ELSE writers

(* The levels that rely on the objects of S return; a C++ object stays.     *)
Disclaim(S) == /\ claim' = [p \in Objects |-> IF p \in S THEN Nobody ELSE claim[p]]
               /\ writers' = writers \ {p \in S : holder[p] # "kept"}
               /\ UNCHANGED holder

(* The objects of S exist no more, or have been unloaded by the closing.    *)
Lose(S) == /\ claim' = [p \in Objects |-> IF p \in S THEN Nobody ELSE claim[p]]
           /\ holder' = [p \in Objects |-> IF p \in S THEN "none" ELSE holder[p]]
           /\ writers' = writers \ S

(* utmess 'F': the callers are abandoned, the C++ objects stay.             *)
Fatal == phase' = "fatal" /\ Disclaim(Objects)

(* jjecrs, marks of an object that becomes or stays in use at level n       *)
(* (n = -1 under jeveut, ipgc otherwise).                                   *)
MarkAgain(o, n) == n                                        \* mutant
Mark(o, n) == IF seg[o] # "U" \/ n = -1 THEN n ELSE mark[o]

NextSlot == Len(desma) + 1

Jjecrs(o, n, cel) ==
    /\ mark' = [mark EXCEPT ![o] = Mark(o, n)]
    /\ UNCHANGED <<kposma, lgd, desmaLen, lgp, idebug>>
    /\ \/ /\ seg[o] # "U" /\ n > 0
          /\ \/ /\ Len(desma) < lgd /\ Len(desma) < desmaLen
                /\ desma' = Append(desma, o)
                /\ slot' = [slot EXCEPT ![o] = NextSlot]
                /\ Claim(o, n, cel)
                /\ UNCHANGED <<phase, pending>>
             \/ /\ Len(desma) < lgd /\ Len(desma) >= desmaLen
                /\ phase' = "overrun"
                /\ UNCHANGED <<desma, slot, pending, claims>>
             \/ /\ Len(desma) = lgd /\ 2 * lgd <= MaxLgd
                /\ phase' = "agrandir" /\ pending' = o
                /\ Claim(o, n, cel)
                /\ UNCHANGED <<desma, slot>>
       \/ /\ seg[o] = "U" /\ n = -1
          /\ desma' = DesmaWithout({o})
          /\ slot' = [slot EXCEPT ![o] = 0]
          /\ Claim(o, n, cel)
          /\ UNCHANGED <<phase, pending>>
       \/ /\ (seg[o] # "U" /\ n <= 0) \/ (seg[o] = "U" /\ n # -1)
          /\ Claim(o, n, cel)
          /\ UNCHANGED <<desma, slot, phase, pending>>

-----------------------------------------------------------------------------
Init == /\ seg = [o \in Objects |-> "none"]
        /\ dirty = [o \in Objects |-> FALSE]
        /\ val = [o \in Objects |-> Zero]
        /\ img = [o \in Objects |-> NoImage]
        /\ mark = [o \in Objects |-> 0]
        /\ slot = [o \in Objects |-> 0]
        /\ desma = <<>> /\ kposma = <<>>
        /\ lgd = LgdInit /\ desmaLen = LgdInit /\ lgp = LgpInit
        /\ limit \in {m \in Limits : m >= LgdInit + LgpInit}
        /\ idebug \in DebugModes
        /\ phase = "idle" /\ pending = NoObject
        /\ claim = [o \in Objects |-> Nobody]
        /\ holder = [o \in Objects |-> "none"] /\ writers = {}

(* jecreo on a new name; on a known one jjcren stops.                       *)
Jecreo(o) ==
    /\ Running
    /\ \/ /\ ~Exists(o)
          /\ seg' = [seg EXCEPT ![o] = "out"]
          /\ UNCHANGED <<dirty, val, img, marks, table, limit, phase, claims>>
       \/ /\ Exists(o)
          /\ Fatal
          /\ UNCHANGED <<segments, marks, table, limit>>

(* jeveuo and jeveut (n = -1): the segment of o is brought in memory if it  *)
(* is not there, read from its image or, in write mode, initialised.        *)
HasContent(o, cel) == seg[o] \in {"X", "U"} \/ img[o] # NoImage \/ cel = "E"

Content(o) == IF seg[o] \in {"X", "U"} THEN val[o]
              ELSE IF img[o] # NoImage THEN img[o] ELSE Zero

(* jjecrs, status: an access in write mode sets D, one in read mode keeps   *)
(* what is there.                                                           *)
StatusOfAccess(o, cel) == cel = "E"                         \* mutant
Status(o, cel) == cel = "E" \/ dirty[o]

Bring(o, n, cel) ==
    \E evicted \in Evictions, max \in Limits :
       /\ IF o \in Loaded THEN evicted = {} /\ max = limit
                          ELSE Jjalls(Size[o], evicted, max)
       /\ seg' = [Freed(evicted) EXCEPT ![o] = "U"]
       /\ val' = [Cleared(evicted) EXCEPT ![o] = Content(o)]
       /\ dirty' = [Clean(evicted) EXCEPT ![o] = Status(o, cel)]
       /\ img' = Written(evicted)
       /\ limit' = max
       /\ Jjecrs(o, n, cel)

Jeveuo(o, cel) == /\ Running /\ Exists(o) /\ HasContent(o, cel)
                  /\ Bring(o, ipgc, cel)

Jeveut(o, cel) == /\ phase = "op" /\ Exists(o) /\ HasContent(o, cel)
                  /\ Bring(o, -1, cel)

(* Unknown object, or nothing to read (JEVEUX1_61).                         *)
JeveuoRefused(o, cel) ==
    /\ Running
    /\ ~Exists(o) \/ ~HasContent(o, cel)
    /\ Fatal
    /\ UNCHANGED <<segments, marks, table, limit>>

(* No memory for the segment: what could be unloaded has been.              *)
JeveuoNoMemory(o, cel) ==
    /\ Running /\ Exists(o) /\ HasContent(o, cel) /\ o \notin Loaded
    /\ \E evicted \in Evictions, max \in Limits :
          /\ JjallsFails(Size[o], evicted, max)
          /\ Unload(evicted) /\ limit' = max
    /\ Fatal
    /\ UNCHANGED <<marks, table>>

(* jjecrs, DESMA full: lgd is doubled, then the new segment is allocated.   *)
Agrandir ==
    /\ phase = "agrandir"
    /\ \E evicted \in Evictions, max \in Limits :
          /\ Jjalls(2 * lgd, evicted, max)
          /\ Unload(evicted) /\ limit' = max
    /\ lgd' = 2 * lgd /\ desmaLen' = 2 * lgd
    /\ desma' = Append(desma, pending)
    /\ slot' = [slot EXCEPT ![pending] = NextSlot]
    /\ phase' = "op" /\ pending' = NoObject
    /\ UNCHANGED <<mark, kposma, lgp, claims, idebug>>

AgrandirNoMemory ==
    /\ phase = "agrandir"
    /\ \E evicted \in Evictions, max \in Limits :
          /\ JjallsFails(2 * lgd, evicted, max)
          /\ Unload(evicted) /\ limit' = max
    /\ lgd' = 2 * lgd
    /\ pending' = NoObject
    /\ Fatal
    /\ UNCHANGED <<marks, desmaLen, lgp, idebug>>

(* The code that asked for the address in write mode uses it. (A C++ object *)
(* that was overruled asks again first: see updateValuePointer.)            *)
Ecrire(o, v) ==
    /\ Running
    /\ o \in writers /\ Relied(o)
    /\ v # val[o]
    /\ val' = [val EXCEPT ![o] = v]
    /\ UNCHANGED <<seg, dirty, img, marks, table, limit, phase, claims>>

(* jemarq: a full KPOSMA is replaced by one of twice its length, allocated  *)
(* while the old one is still there.                                        *)
RoomForMark ==
    \/ ipgc < lgp /\ UNCHANGED <<segments, limit, lgp>>
    \/ /\ ipgc = lgp
       /\ \E evicted \in Evictions, max \in Limits :
             Jjalls(2 * lgp, evicted, max) /\ Unload(evicted) /\ limit' = max
       /\ lgp' = 2 * lgp

(* lgp is doubled before jjalls is called. The message of a jjalls that     *)
(* fails, or the one of jjldyn on the limit it has changed, calls jemarq    *)
(* again, which takes the old KPOSMA for the longer one.                    *)
NoRoomForMark ==
    /\ ipgc = lgp
    /\ \E evicted \in Evictions, max \in Limits :
          /\ \/ JjallsFails(2 * lgp, evicted, max)
             \/ Jjalls(2 * lgp, evicted, max) /\ max # limit
          /\ Unload(evicted) /\ limit' = max
    /\ phase' = "overrun"
    /\ UNCHANGED <<kposma, lgp>>

KposmaPushed == Append(kposma, Len(desma))

JemarqOneTooMany ==                                         \* mutant
    /\ phase = "op"
    /\ \/ /\ ipgc < MaxMark
          /\ RoomForMark
          /\ kposma' = KposmaPushed
          /\ UNCHANGED phase
       \/ /\ ipgc = MaxMark
          /\ RoomForMark
          /\ phase' = "aborted"
          /\ UNCHANGED kposma
       \/ NoRoomForMark
    /\ UNCHANGED <<mark, slot, desma, lgd, desmaLen, pending, idebug, claims>>

Jemarq ==
    /\ phase = "op"
    /\ \/ /\ ipgc + 1 < MaxMark
          /\ RoomForMark
          /\ kposma' = KposmaPushed
          /\ UNCHANGED phase
       \/ /\ ipgc + 1 = MaxMark
          /\ RoomForMark
          /\ phase' = "aborted"
          /\ UNCHANGED kposma
       \/ NoRoomForMark
    /\ UNCHANGED <<mark, slot, desma, lgd, desmaLen, pending, idebug, claims>>

(* jedema releases whatever stands in DESMA since the last jemarq.          *)
Marked == {desma[k] : k \in kposma[ipgc] + 1 .. Len(desma)} \ {NoObject}

KposmaUnchanged == kposma                                   \* mutant
KposmaPopped == SubSeq(kposma, 1, ipgc - 1)

JedemaBody ==
    /\ \/ /\ ~idebug
          /\ seg' = [p \in Objects |-> IF p \in Marked THEN "X" ELSE seg[p]]
          /\ UNCHANGED <<dirty, val, img>>
       \/ /\ idebug
          /\ Unload({p \in Marked : mark[p] = ipgc})
    /\ mark' = Unmarked(Marked)
    /\ slot' = Slotless(Marked)
    /\ desma' = SubSeq(desma, 1, kposma[ipgc])
    /\ kposma' = KposmaPopped
    /\ Disclaim({p \in Objects : claim[p] = ipgc})

Jedema ==
    /\ phase = "op"
    /\ \/ /\ ipgc > 0
          /\ JedemaBody
          /\ UNCHANGED <<table, limit, phase>>
       \/ /\ ipgc = 0
          /\ Fatal
          /\ UNCHANGED <<segments, marks, table, limit>>

(* jelibe: the caller gives up the address; the segment is released only if *)
(* its mark is the current one. Outside any jemarq the address may be that  *)
(* of a C++ object as well.                                                 *)
Libere(o) ==
    IF seg[o] = "U" /\ mark[o] = 0 /\ ipgc = 0
    THEN /\ holder' = [holder EXCEPT ![o] = "overruled"]
         /\ writers' = writers \ {o}
         /\ UNCHANGED claim
    ELSE Disclaim({p \in {o} : claim[p] = ipgc})

Jelibe(o) ==
    /\ phase = "op"
    /\ \/ /\ Exists(o)
          /\ Libere(o)
          /\ \/ /\ seg[o] = "U" /\ mark[o] = ipgc /\ ~idebug
                /\ seg' = [seg EXCEPT ![o] = "X"]
                /\ Forget({o})
                /\ UNCHANGED <<dirty, val, img>>
             \/ /\ seg[o] = "U" /\ mark[o] = ipgc /\ idebug
                /\ Unload({o})
                /\ Forget({o})
             \/ /\ seg[o] = "X" /\ dirty[o] /\ idebug
                /\ Unload({o})
                /\ UNCHANGED <<mark, slot, desma>>
             \/ /\ ~(seg[o] = "U" /\ mark[o] = ipgc)
                /\ ~(seg[o] = "X" /\ dirty[o] /\ idebug)
                /\ UNCHANGED <<segments, mark, slot, desma>>
          /\ UNCHANGED <<kposma, table, limit, phase>>
       \/ /\ ~Exists(o)
          /\ Fatal
          /\ UNCHANGED <<segments, marks, table, limit>>

(* jelibd: an idle segment is unloaded on request.                          *)
Jelibd(o) ==
    /\ phase = "op" /\ seg[o] = "X"
    /\ Unload({o})
    /\ UNCHANGED <<marks, table, limit, phase, claims>>

(* jeimpo, jelira..: a segment read for printing comes in and stays idle.   *)
Jeimpo(o) ==
    /\ phase = "op" /\ seg[o] = "out" /\ img[o] # NoImage
    /\ \E evicted \in Evictions, max \in Limits :
          /\ Jjalls(Size[o], evicted, max)
          /\ seg' = [Freed(evicted) EXCEPT ![o] = "X"]
          /\ val' = [Cleared(evicted) EXCEPT ![o] = img[o]]
          /\ dirty' = Clean(evicted)
          /\ img' = Written(evicted)
          /\ limit' = max
    /\ UNCHANGED <<marks, table, phase, claims>>

(* jjldyn called for memory outside JEVEUX (as_allocate, MUMPS..).          *)
Jjldyn ==
    /\ phase = "op"
    /\ \/ /\ Unload(IdleClean) /\ UNCHANGED limit
       \/ /\ Unload(Idle)
          /\ limit' \in Jermxd(Words(Loaded \ Idle) + Tables)
    /\ UNCHANGED <<marks, table, phase, claims>>

(* Destruction of a set of objects, in memory and on disk.                  *)
Erase(S) ==
    /\ seg' = [p \in Objects |-> IF p \in S THEN "none" ELSE seg[p]]
    /\ dirty' = Clean(S)
    /\ val' = Cleared(S)
    /\ img' = [p \in Objects |-> IF p \in S THEN NoImage ELSE img[p]]
    /\ Forget(S)
    /\ Lose(S)

Jedetr(o) ==
    /\ Running /\ Exists(o)
    /\ Erase({o})
    /\ UNCHANGED <<kposma, table, limit, phase>>

(* jelibz('G'): the segments jeveut asked for.                              *)
PermanentOfV == {p \in Volatile : seg[p] = "U" /\ mark[p] = -1}         \* mutant
Permanent == {p \in Objects \ Volatile : seg[p] = "U" /\ mark[p] = -1}

(* superv_after: jelibz('G') then jedetv and jereou('V'). The C++ object    *)
(* whose address a jeveut has overruled keeps it, the segment becomes idle. *)
SupervAfter ==
    /\ seg' = [p \in Objects |-> IF p \in Volatile THEN "none"
                                 ELSE IF p \in Permanent THEN "X" ELSE seg[p]]
    /\ dirty' = Clean(Volatile)
    /\ val' = Cleared(Volatile)
    /\ img' = [p \in Objects |-> IF p \in Volatile THEN NoImage ELSE img[p]]
    /\ Forget(Permanent \cup Volatile)
    /\ claim' = [p \in Objects |-> IF p \in Permanent \cup Volatile THEN Nobody ELSE claim[p]]
    /\ holder' = [p \in Objects |-> IF p \in Volatile THEN "none" ELSE holder[p]]
    /\ writers' = writers \ (Permanent \cup Volatile)

(* superv_before may raise the limit.                                       *)
StartCommand ==
    /\ phase = "idle"
    /\ phase' = "op"
    /\ limit' \in {limit} \cup {m \in Limits : m > limit /\ m > mcdyn}
    /\ UNCHANGED <<segments, marks, table, claims>>

(* execop: the marks must be balanced when the operator returns.            *)
EndCommand ==
    /\ phase = "op"
    /\ \/ /\ ipgc = 0
          /\ SupervAfter
          /\ phase' = "idle"
          /\ UNCHANGED <<kposma, table, limit>>
       \/ /\ ipgc > 0
          /\ Fatal
          /\ UNCHANGED <<segments, marks, table, limit>>

(* jedbg2: the assembly of matrices puts the debug mode off, and on again;  *)
(* the command DEBUG changes it as well.                                    *)
Jedbg2 ==
    /\ phase = "op"
    /\ idebug' \in DebugModes \ {idebug}
    /\ UNCHANGED <<segments, marks, lgd, desmaLen, lgp, pending, limit, phase, claims>>

(* Any routine may call utmess 'F'.                                         *)
RaiseError == /\ Running
              /\ Fatal
              /\ UNCHANGED <<segments, marks, table, limit>>

(* utmess: jemarq (undone when the assertion in it fails) ...               *)
Utmess ==
    /\ phase = "fatal"
    /\ \/ /\ RoomForMark
          /\ kposma' = IF ipgc + 1 < MaxMark THEN KposmaPushed ELSE kposma
          /\ phase' = "nettoyer"
       \/ NoRoomForMark
    /\ UNCHANGED <<mark, slot, desma, lgd, desmaLen, pending, idebug, claims>>

(* ... then superv_after.                                                   *)
Nettoyer ==
    /\ phase = "nettoyer"
    /\ SupervAfter
    /\ phase' = "detruire"
    /\ UNCHANGED <<kposma, table, limit>>

(* jedetc destroys the objects of the result of the command, unless the     *)
(* error validates it.                                                      *)
Jedetc ==
    /\ phase = "detruire"
    /\ \E S \in SUBSET {p \in Objects : Exists(p)} : Erase(S)
    /\ phase' = "unwind"
    /\ UNCHANGED <<kposma, table, limit>>

Unwind ==
    /\ phase = "unwind"
    /\ \/ /\ ipgc > 0
          /\ JedemaBody
          /\ UNCHANGED phase
       \/ /\ ipgc = 0
          /\ phase' = "after"
          /\ UNCHANGED <<segments, marks, claims>>
    /\ UNCHANGED <<table, limit>>

BackToPython ==
    /\ phase = "after"
    /\ SupervAfter
    /\ phase' = "idle"
    /\ UNCHANGED <<kposma, table, limit>>

(* op9999: jelibf('SAUVE', 'G') and jelibf('DETRUIT', 'V').                 *)
Jelibf ==
    /\ phase = "op"
    /\ seg' = [p \in Objects |-> IF p \in Volatile \/ ~Exists(p) THEN "none" ELSE "out"]
    /\ img' = [p \in Objects |-> IF p \in Volatile THEN NoImage ELSE Written(Loaded)[p]]
    /\ val' = Cleared(Objects) /\ dirty' = Clean(Objects)
    /\ mark' = Unmarked(Objects) /\ slot' = Slotless(Objects)
    /\ desma' = <<>> /\ kposma' = <<>>
    /\ Lose(Objects)
    /\ phase' = "closed"
    /\ UNCHANGED <<table, limit>>

(* A later run (POURSUITE) opens the global base again.                     *)
Poursuite ==
    /\ phase = "closed"
    /\ phase' = "idle"
    /\ lgd' = LgdInit /\ desmaLen' = LgdInit /\ lgp' = LgpInit
    /\ idebug' \in DebugModes
    /\ limit' \in {m \in Limits : m >= LgdInit + LgpInit}
    /\ UNCHANGED <<segments, marks, pending, claims>>

Stopped == phase \in {"aborted", "overrun"} /\ UNCHANGED vars

ErrorPath == \/ Agrandir \/ AgrandirNoMemory
             \/ Utmess \/ Nettoyer \/ Jedetc \/ Unwind \/ BackToPython

Next == \/ \E o \in Objects : \/ Jecreo(o) \/ Jelibe(o) \/ Jelibd(o)
                              \/ Jeimpo(o) \/ Jedetr(o)
        \/ \E o \in Objects, cel \in {"L", "E"} :
              Jeveuo(o, cel) \/ Jeveut(o, cel) \/ JeveuoRefused(o, cel)
                             \/ JeveuoNoMemory(o, cel)
        \/ \E o \in Objects, v \in Values : Ecrire(o, v)
        \/ Jemarq \/ Jedema \/ Jjldyn \/ Jedbg2
        \/ StartCommand \/ EndCommand \/ RaiseError
        \/ ErrorPath
        \/ Jelibf \/ Poursuite
        \/ Stopped

Spec == Init /\ [][Next]_vars

(* The program is sequential: once utmess or jjecrs is entered it goes on.  *)
FairSpec == Spec /\ WF_vars(ErrorPath)
-----------------------------------------------------------------------------
(* Every variable keeps the range the code gives it.                        *)
TypeOK ==
    /\ seg \in [Objects -> {"none", "out", "X", "U"}]
    /\ dirty \in [Objects -> BOOLEAN]
    /\ val \in [Objects -> Values]
    /\ img \in [Objects -> Values \cup {NoImage}]
    /\ mark \in [Objects -> -1..MaxMark]
    /\ slot \in [Objects -> Nat]
    /\ desma \in Seq(Objects \cup {NoObject})
    /\ kposma \in Seq(Nat) /\ Len(kposma) < MaxMark
    /\ lgd \in Nat /\ desmaLen \in Nat /\ lgp \in Nat \ {0} /\ ipgc <= lgp
    /\ limit \in Limits /\ idebug \in BOOLEAN
    /\ phase \in Phases
    /\ pending \in Objects \cup {NoObject}
    /\ claim \in [Objects -> Claims]
    /\ holder \in [Objects -> Holders]
    /\ writers \subseteq Objects

(* A segment with status A has an image, and the image holds its content:   *)
(* this is what lets jjldyn free it without writing. (As long as no         *)
(* enlargement of DESMA has failed: see DesmaIsLongEnough.)                 *)
CleanIsSaved == lgd = desmaLen => \A o \in Loaded : dirty[o] \/ img[o] = val[o]

(* Marks and DESMA point at each other: the slot of an object holds it, an  *)
(* occupied slot is the one its object knows, and it stands in the part of  *)
(* DESMA that belongs to the mark of the object, so that the jedema of that *)
(* mark, and no other, releases it.                                         *)
Interval(n) == kposma[n] + 1 .. IF n = ipgc THEN Len(desma) ELSE kposma[n + 1]

SlotsAgree ==
    /\ \A o \in Objects : slot[o] # 0 =>
          /\ slot[o] \in DOMAIN desma /\ desma[slot[o]] = o
          /\ seg[o] = "U"
          /\ mark[o] \in 1..ipgc /\ slot[o] \in Interval(mark[o])
    /\ \A k \in DOMAIN desma : desma[k] # NoObject => slot[desma[k]] = k

(* The level of jemarq, or the jeveut, that was given an address, and has   *)
(* neither released it nor returned, finds the segment there: what nested   *)
(* routines, evictions and other releases do meanwhile does not move it.    *)
(* Code outside any jemarq, the C++ objects, finds it there until a jeveut  *)
(* (or a jelibe outside any jemarq) on the same object overrules it, or the *)
(* object is destroyed; nothing is promised then. Who asked for writing     *)
(* finds status D. (As long as no enlargement of DESMA has failed.)         *)
ClaimPinned ==
    lgd = desmaLen =>
        \A o \in Objects :
            /\ claim[o] # Nobody =>
                  seg[o] = "U" /\ mark[o] <= claim[o] /\ claim[o] <= ipgc
            /\ holder[o] = "kept" => seg[o] = "U" /\ mark[o] = 0
            /\ o \in writers => Relied(o) /\ dirty[o]

(* Between commands nothing is left in use but what code outside any jemarq *)
(* still holds, whether the last command ended well or in error: no other   *)
(* object stays out of the reach of the automatic unloading.                *)
NothingLeftInUse ==
    phase = "idle" /\ lgd = desmaLen =>
        /\ ipgc = 0
        /\ \A o \in Objects : seg[o] = "U" => mark[o] = 0 /\ holder[o] = "kept"

(* What JEVEUX has allocated stays under its limit, whichever way segments  *)
(* come and go and the limit is changed.                                    *)
MemoryBounded == mcdyn <= limit

(* An object in use leaves memory only by its destruction, the closing of   *)
(* the bases or, in debug mode, its release: no allocation takes it.        *)
InUseStays ==
    [][\A o \in Objects : (seg[o] = "U" /\ seg'[o] = "out") => idebug \/ phase' = "closed"]_vars

(* After an error the program comes back to Python, or has stopped, unless  *)
(* its message has written past the end of KPOSMA: utmess does not go round *)
(* for ever.                                                                *)
ErrorEnds == phase = "fatal" ~> phase \in {"idle", "aborted", "overrun"}

(* Comment of jjecrs: DESMA is enlarged before it is used beyond its length.*)
DesmaIsLongEnough == phase # "overrun"

(* The content of an object, wherever it is.                                *)
Contents == [o \in Objects |-> IF seg[o] = "none" THEN Absent
                               ELSE IF seg[o] \in {"X", "U"} THEN val[o]
                               ELSE IF img[o] # NoImage THEN img[o] ELSE Empty]

(* The promise of JvStore: whatever is unloaded, reloaded, released or      *)
(* closed, a content changes only under an access in write mode.            *)
Store == INSTANCE JvStore WITH
    store <- Contents, editing <- writers, open <- phase # "closed"

StoreSpec == Store!Spec
=============================================================================
