---------------------------- MODULE JeveuxProofs ----------------------------
(***************************************************************************)
(* Proofs about Jeveux, for every set of objects, every limit on memory    *)
(* and every depth of marks.                                               *)
(***************************************************************************)
EXTENDS Jeveux, FiniteSetTheorems, WellFoundedInduction, TLAPS

(* The typing of each group of variables, so that an action has to be       *)
(* looked at only for the groups it changes.                                *)
SegmentTypes == /\ seg \in [Objects -> {"none", "out", "X", "U"}]
                /\ dirty \in [Objects -> BOOLEAN]
                /\ val \in [Objects -> Values]
                /\ img \in [Objects -> Values \cup {NoImage}]
MarkTypes == /\ mark \in [Objects -> -1..MaxMark]
             /\ slot \in [Objects -> Nat]
             /\ desma \in Seq(Objects \cup {NoObject})
             /\ kposma \in Seq(Nat) /\ Len(kposma) < MaxMark /\ ipgc <= lgp
ControlTypes == /\ lgd \in Nat /\ desmaLen \in Nat /\ lgp \in Nat \ {0}
                /\ limit \in Limits
                /\ phase \in Phases /\ pending \in Objects \cup {NoObject}
                /\ idebug \in BOOLEAN
ClaimTypes == /\ claim \in [Objects -> Claims]
              /\ holder \in [Objects -> Holders]
              /\ writers \subseteq Objects

LEMMA TypeOKParts ==
    TypeOK <=> SegmentTypes /\ MarkTypes /\ ControlTypes /\ ClaimTypes
BY DEF TypeOK, SegmentTypes, MarkTypes, ControlTypes, ClaimTypes

LEMMA UnloadTypes ==
    ASSUME SegmentTypes, NEW S, Unload(S) PROVE SegmentTypes'
BY JeveuxAssumption DEF SegmentTypes, Unload, Freed, Written, Cleared, Clean

LEMMA DisclaimTypes ==
    ASSUME ClaimTypes, NEW S, Disclaim(S) PROVE ClaimTypes'
BY JeveuxAssumption DEF ClaimTypes, Disclaim, Claims, Nobody

LEMMA LoseTypes ==
    ASSUME ClaimTypes, NEW S, Lose(S) PROVE ClaimTypes'
BY JeveuxAssumption DEF ClaimTypes, Lose, Claims, Holders, Nobody

LEMMA FatalTypes ==
    ASSUME ClaimTypes, Fatal PROVE ClaimTypes' /\ phase' \in Phases
BY DisclaimTypes DEF Fatal, Phases

LEMMA ClaimStepTypes ==
    ASSUME ClaimTypes, NEW o \in Objects, NEW n \in -1..MaxMark, NEW cel, Claim(o, n, cel)
    PROVE  ClaimTypes'
<1>1. n # 0 => n \in Claims
  BY JeveuxAssumption DEF Claims, Nobody
<1>2. /\ claim' = [claim EXCEPT ![o] = claim'[o]]
      /\ claim'[o] \in {claim[o], n} /\ (claim'[o] = n => n # 0 \/ n = claim[o])
  BY DEF ClaimTypes, Claim
<1>3. claim' \in [Objects -> Claims]
  BY <1>1, <1>2 DEF ClaimTypes
<1>4. HolderAfter(o, n) \in Holders
  BY DEF ClaimTypes, HolderAfter, Holders
<1> QED
  BY <1>3, <1>4 DEF ClaimTypes, Claim

LEMMA DesmaWithoutTypes ==
    ASSUME MarkTypes, NEW S
    PROVE  /\ DesmaWithout(S) \in Seq(Objects \cup {NoObject})
           /\ Len(DesmaWithout(S)) = Len(desma)
<1>1. DOMAIN desma = 1..Len(desma) /\ Len(desma) \in Nat
  BY DEF MarkTypes
<1>2. DesmaWithout(S) \in [1..Len(desma) -> Objects \cup {NoObject}]
  BY <1>1 DEF DesmaWithout, MarkTypes
<1> QED
  BY <1>1, <1>2

LEMMA ForgetTypes ==
    ASSUME MarkTypes, NEW S, Forget(S), UNCHANGED <<kposma, lgp>> PROVE MarkTypes'
BY DesmaWithoutTypes, JeveuxAssumption DEF MarkTypes, Forget, Unmarked, Slotless, ipgc

LEMMA EraseTypes ==
    ASSUME TypeOK, NEW S, Erase(S), UNCHANGED <<kposma, lgp>>
    PROVE  SegmentTypes' /\ MarkTypes' /\ ClaimTypes'
<1>1. SegmentTypes'
  BY JeveuxAssumption DEF TypeOK, SegmentTypes, Erase, Cleared, Clean
<1>2. MarkTypes'
  BY TypeOKParts, ForgetTypes DEF Erase
<1>3. ClaimTypes'
  BY TypeOKParts, LoseTypes DEF Erase
<1> QED
  BY <1>1, <1>2, <1>3

LEMMA BringTypes ==
    ASSUME TypeOK, NEW o \in Objects, NEW n \in -1..MaxMark-1, NEW cel, Bring(o, n, cel)
    PROVE  TypeOK'
<1>1. PICK evicted \in Evictions, max \in Limits :
         /\ seg' = [Freed(evicted) EXCEPT ![o] = "U"]
         /\ val' = [Cleared(evicted) EXCEPT ![o] = Content(o)]
         /\ dirty' = [Clean(evicted) EXCEPT ![o] = Status(o, cel)]
         /\ img' = Written(evicted)
         /\ limit' = max
         /\ Jjecrs(o, n, cel)
  BY DEF Bring
<1>2. SegmentTypes'
  <2>1. Content(o) \in Values /\ Status(o, cel) \in BOOLEAN
    BY JeveuxAssumption DEF TypeOK, Content, Status
  <2> QED
    BY <1>1, <2>1, JeveuxAssumption DEF TypeOK, SegmentTypes, Freed, Cleared, Clean, Written
<1>3. MarkTypes'
  <2>1. mark' \in [Objects -> -1..MaxMark] /\ kposma' = kposma
    BY <1>1, JeveuxAssumption DEF TypeOK, Jjecrs, Mark
  <2>2. slot' \in [Objects -> Nat]
    <3>1. \/ slot' = slot
          \/ slot' = [slot EXCEPT ![o] = NextSlot]
          \/ slot' = [slot EXCEPT ![o] = 0]
      BY <1>1 DEF Jjecrs
    <3>2. NextSlot \in Nat
      BY DEF NextSlot, TypeOK
    <3>3. slot \in [Objects -> Nat]
      BY DEF TypeOK
    <3> QED
      BY <3>1, <3>2, <3>3
  <2>3. desma' \in Seq(Objects \cup {NoObject})
    <3>1. \/ desma' = desma
          \/ desma' = Append(desma, o)
          \/ desma' = DesmaWithout({o})
      BY <1>1 DEF Jjecrs
    <3>2. /\ desma \in Seq(Objects \cup {NoObject})
          /\ DesmaWithout({o}) \in Seq(Objects \cup {NoObject})
      BY TypeOKParts, DesmaWithoutTypes DEF TypeOK
    <3> QED
      BY <3>1, <3>2
  <2> QED
    BY <1>1, <2>1, <2>2, <2>3 DEF MarkTypes, TypeOK, Jjecrs, ipgc
<1>4. ControlTypes'
  BY <1>1, JeveuxAssumption DEF TypeOK, ControlTypes, Jjecrs, Phases
<1>5. ClaimTypes'
  <2> n \in -1..MaxMark
    BY JeveuxAssumption
  <2>1. CASE Claim(o, n, cel)
    BY <2>1, TypeOKParts, ClaimStepTypes
  <2>2. CASE UNCHANGED claims
    BY <2>2, TypeOKParts DEF claims, ClaimTypes
  <2> QED
    BY <1>1, <2>1, <2>2 DEF Jjecrs, claims
<1> QED
  BY <1>2, <1>3, <1>4, <1>5, TypeOKParts DEF TypeOK, SegmentTypes, MarkTypes, ControlTypes, ClaimTypes

LEMMA SubSeqTypes ==
    ASSUME NEW S, NEW s \in Seq(S), NEW n \in Nat, n <= Len(s)
    PROVE  /\ SubSeq(s, 1, n) \in Seq(S) /\ Len(SubSeq(s, 1, n)) = n
           /\ \A k \in 1..n : SubSeq(s, 1, n)[k] = s[k]
OBVIOUS

LEMMA JemarqTypes ==
    ASSUME MarkTypes, lgp \in Nat \ {0}, ipgc + 1 < MaxMark, RoomForMark, kposma' = KposmaPushed
    PROVE  kposma' \in Seq(Nat) /\ Len(kposma') < MaxMark /\ ipgc' <= lgp'
<1>1. /\ kposma' \in Seq(Nat) /\ Len(kposma') = Len(kposma) + 1
      /\ Len(kposma) \in Nat /\ ipgc = Len(kposma) /\ ipgc' = Len(kposma')
  BY DEF MarkTypes, KposmaPushed, ipgc
<1>2. \/ Len(kposma) < lgp /\ lgp' = lgp
      \/ Len(kposma) = lgp /\ lgp' = 2 * lgp
  BY <1>1 DEF RoomForMark, segments
<1>3. Len(kposma) < MaxMark - 1 /\ MaxMark \in Nat /\ lgp \in Nat \ {0}
  BY <1>1, JeveuxAssumption
<1> QED
  BY <1>1, <1>2, <1>3

(* jemarq, with or without room for one more mark.                          *)
LEMMA RoomTypes ==
    ASSUME SegmentTypes, ControlTypes, RoomForMark \/ NoRoomForMark
    PROVE  /\ SegmentTypes' /\ limit' \in Limits /\ lgp' \in Nat \ {0}
           /\ lgp <= lgp'
<1>1. \A S : Unload(S) => SegmentTypes'
  BY UnloadTypes
<1>2. \/ UNCHANGED <<segments, limit, lgp>>
      \/ /\ \E evicted \in Evictions, max \in Limits : Unload(evicted) /\ limit' = max
         /\ lgp' \in {lgp, 2 * lgp}
  BY DEF RoomForMark, NoRoomForMark
<1>3. CASE UNCHANGED <<segments, limit, lgp>>
  BY <1>3 DEF segments, SegmentTypes, ControlTypes
<1>4. CASE /\ \E evicted \in Evictions, max \in Limits : Unload(evicted) /\ limit' = max
           /\ lgp' \in {lgp, 2 * lgp}
  <2>1. SegmentTypes' /\ limit' \in Limits
    BY <1>1, <1>4
  <2> QED
    BY <2>1, <1>4 DEF ControlTypes
<1> QED
  BY <1>2, <1>3, <1>4

LEMMA SupervAfterTypes ==
    ASSUME TypeOK, SupervAfter
    PROVE  /\ SegmentTypes' /\ ClaimTypes'
           /\ mark' \in [Objects -> -1..MaxMark] /\ slot' \in [Objects -> Nat]
           /\ desma' \in Seq(Objects \cup {NoObject})
<1>1. SegmentTypes'
  BY JeveuxAssumption DEF TypeOK, SegmentTypes, SupervAfter, Cleared, Clean
<1>2. ClaimTypes'
  BY TypeOKParts, JeveuxAssumption DEF SupervAfter, ClaimTypes, Claims, Holders, Nobody
<1>3. desma' \in Seq(Objects \cup {NoObject})
  BY TypeOKParts, DesmaWithoutTypes DEF SupervAfter, Forget
<1>4. mark' \in [Objects -> -1..MaxMark] /\ slot' \in [Objects -> Nat]
  BY JeveuxAssumption DEF TypeOK, SupervAfter, Forget, Unmarked, Slotless
<1> QED
  BY <1>1, <1>2, <1>3, <1>4

LEMMA JedemaTypes ==
    ASSUME TypeOK, ipgc > 0, kposma[ipgc] <= Len(desma), JedemaBody, UNCHANGED lgp
    PROVE  SegmentTypes' /\ MarkTypes' /\ ClaimTypes'
<1>1. SegmentTypes'
  <2>1. CASE ~idebug
    BY <2>1 DEF TypeOK, SegmentTypes, JedemaBody
  <2>2. CASE idebug
    BY <2>2, TypeOKParts, UnloadTypes DEF JedemaBody
  <2> QED
    BY <2>1, <2>2
<1>2. MarkTypes'
  <2>1. mark' \in [Objects -> -1..MaxMark] /\ slot' \in [Objects -> Nat]
    BY JeveuxAssumption DEF TypeOK, JedemaBody, Unmarked, Slotless
  <2>2. ipgc \in Nat /\ kposma[ipgc] \in Nat /\ ipgc - 1 \in Nat /\ ipgc - 1 <= Len(kposma)
    BY DEF TypeOK, ipgc
  <2>3. desma' \in Seq(Objects \cup {NoObject})
    BY <2>2, SubSeqTypes DEF TypeOK, JedemaBody
  <2>4. kposma' \in Seq(Nat) /\ Len(kposma') = ipgc - 1
    BY <2>2, SubSeqTypes DEF TypeOK, JedemaBody, KposmaPopped
  <2> QED
    BY <2>1, <2>2, <2>3, <2>4, JeveuxAssumption, SMTT(30) DEF MarkTypes, TypeOK, ipgc
<1>3. ClaimTypes'
  BY TypeOKParts, DisclaimTypes DEF JedemaBody
<1> QED
  BY <1>1, <1>2, <1>3

(***************************************************************************)
(* The inductive invariant. SlotsAgree says that a slot leads to the right *)
(* object; the facts below say that an object in use under a mark has one, *)
(* except the one whose jeveuo is enlarging DESMA, that the positions      *)
(* jemarq noted are still within DESMA when jedema comes back to them, and *)
(* that the marks below 1 are those of a jeveut (-1) or of code outside    *)
(* any jemarq (0).                                                         *)
(***************************************************************************)
KposmaSorted == /\ \A n \in 1..ipgc : kposma[n] <= Len(desma)
                /\ \A i, j \in 1..ipgc : i <= j => kposma[i] <= kposma[j]

TableOK == /\ lgd > 0 /\ desmaLen > 0 /\ desmaLen <= lgd
           /\ Len(desma) <= desmaLen

PendingOK == phase = "agrandir" =>
                /\ pending \in Objects
                /\ seg[pending] = "U"
                /\ ipgc > 0 /\ mark[pending] = ipgc
                /\ slot[pending] = 0
                /\ lgd = desmaLen /\ Len(desma) = lgd

LevelZero == phase \in {"idle", "after", "closed"} => ipgc = 0

MarkedHasSlot == lgd = desmaLen =>
    \A o \in Objects : mark[o] > 0 => \/ slot[o] # 0
                                      \/ phase = "agrandir" /\ o = pending

UnmarkedIdle == \A o \in Objects : seg[o] # "U" => mark[o] = 0

ClosedEmpty == phase = "closed" =>
    /\ desma = <<>> /\ writers = {}
    /\ \A o \in Objects : seg[o] # "U" /\ claim[o] = Nobody /\ holder[o] = "none"

PermanentClaimed == lgd = desmaLen /\ phase \in {"idle", "op", "agrandir"} =>
    \A o \in Objects : seg[o] = "U" /\ mark[o] = -1 => claim[o] = -1

ZeroHeld == lgd = desmaLen =>
    \A o \in Objects : seg[o] = "U" /\ mark[o] = 0 => holder[o] = "kept"

MarksOK == KposmaSorted /\ SlotsAgree /\ UnmarkedIdle

IInv == /\ TypeOK /\ MarksOK /\ TableOK /\ PendingOK /\ LevelZero
        /\ MarkedHasSlot /\ ClosedEmpty
        /\ PermanentClaimed /\ ZeroHeld /\ ClaimPinned /\ NothingLeftInUse

(* An occupied word of DESMA names an object.                               *)
LEMMA DesmaRange ==
    ASSUME TypeOK
    PROVE  /\ DOMAIN desma = 1..Len(desma) /\ Len(desma) \in Nat
           /\ \A k \in DOMAIN desma : desma[k] # NoObject => desma[k] \in Objects
           /\ ipgc \in Nat /\ \A n \in 1..ipgc : kposma[n] \in Nat
BY DEF TypeOK, ipgc

(* Taking the objects of S out of DESMA, with or without a jemarq, keeps    *)
(* marks and DESMA in agreement.                                            *)
LEMMA LosingSlotsKeepsMarks ==
    ASSUME TypeOK, MarksOK, NEW S \in SUBSET Objects,
           slot' = Slotless(S), desma' = DesmaWithout(S),
           \A p \in Objects : IF p \in S THEN seg'[p] = "U" \/ mark'[p] = 0
                              ELSE /\ mark'[p] = mark[p]
                                   /\ seg'[p] = "U" <=> seg[p] = "U",
           kposma' = kposma \/ kposma' = Append(kposma, Len(desma))
    PROVE  MarksOK'
<1>1. /\ Len(desma') = Len(desma) /\ DOMAIN desma' = DOMAIN desma
      /\ \A k \in DOMAIN desma :
            desma'[k] = IF \E o \in S : slot[o] = k THEN NoObject ELSE desma[k]
  BY TypeOKParts, DesmaWithoutTypes DEF DesmaWithout
<1>2. \A p \in Objects : /\ slot'[p] = IF p \in S THEN 0 ELSE slot[p]
                         /\ p \notin S => mark'[p] = mark[p]
  BY DEF Slotless
<1>3. /\ ipgc' \in {ipgc, ipgc + 1}
      /\ \A n \in 1..ipgc : kposma'[n] = kposma[n]
      /\ ipgc' = ipgc + 1 => kposma'[ipgc + 1] = Len(desma)
  <2>1. CASE kposma' = kposma
    BY <2>1, DesmaRange DEF ipgc
  <2>2. CASE kposma' = Append(kposma, Len(desma))
    BY <2>2 DEF TypeOK, ipgc
  <2> QED
    BY <2>1, <2>2
<1>4. KposmaSorted'
  <2>1. \A n \in 1..ipgc : kposma[n] \in Nat /\ kposma[n] <= Len(desma)
    BY DesmaRange DEF MarksOK, KposmaSorted
  <2>2. \A n \in 1..ipgc' : kposma'[n] <= Len(desma)
    <3>1. Len(desma) \in Nat /\ ipgc \in Nat
      BY DesmaRange
    <3> QED
      BY <3>1, <1>3, <2>1
  <2>3. ASSUME NEW i \in 1..ipgc', NEW j \in 1..ipgc', i <= j
        PROVE  kposma'[i] <= kposma'[j]
    <3>1. CASE j \in 1..ipgc
      BY <3>1, <2>3, <1>3, DesmaRange DEF MarksOK, KposmaSorted
    <3>2. CASE i \in 1..ipgc /\ j = ipgc + 1
      BY <3>2, <2>1, <1>3, DesmaRange
    <3>3. CASE i = ipgc + 1 /\ j = ipgc + 1
      BY <3>3, <1>3, DesmaRange
    <3> QED
      BY <2>3, <3>1, <3>2, <3>3, <1>3, DesmaRange
  <2> QED
    BY <1>1, <2>2, <2>3 DEF KposmaSorted
<1>5. UnmarkedIdle'
  BY DEF MarksOK, UnmarkedIdle
<1>6. SlotsAgree'
  <2>1. ASSUME NEW o \in Objects, slot'[o] # 0
        PROVE  /\ slot'[o] \in DOMAIN desma' /\ desma'[slot'[o]] = o
               /\ seg'[o] = "U" /\ mark'[o] \in 1..ipgc'
               /\ slot'[o] \in Interval(mark[o])'
    <3>1. /\ o \notin S /\ slot'[o] = slot[o] /\ mark'[o] = mark[o]
          /\ slot[o] \in DOMAIN desma /\ desma[slot[o]] = o /\ seg[o] = "U"
          /\ mark[o] \in 1..ipgc /\ slot[o] \in Interval(mark[o])
      BY <1>2, <2>1 DEF MarksOK, SlotsAgree
    <3>2. \A p \in S : slot[p] # slot[o]
      BY <3>1, DesmaRange DEF MarksOK, SlotsAgree
    <3>3. desma'[slot'[o]] = o /\ slot'[o] \in DOMAIN desma'
      BY <3>1, <3>2, <1>1
    <3>4. mark'[o] \in 1..ipgc'
      BY <3>1, <1>3, DesmaRange
    <3>5. Interval(mark[o]) = Interval(mark[o])'
      <4> DEFINE n == mark[o]
      <4>1. mark'[o] = n /\ n \in 1..ipgc /\ kposma'[n] = kposma[n]
        BY <3>1, <1>3
      <4>2. CASE n = ipgc
        BY <4>1, <4>2, <1>1, <1>3, DesmaRange DEF Interval
      <4>3. CASE n < ipgc
        <5>1. n + 1 \in 1..ipgc /\ n # ipgc /\ n # ipgc'
          BY <4>1, <4>3, <1>3, DesmaRange
        <5>2. kposma'[n + 1] = kposma[n + 1]
          BY <5>1, <1>3
        <5> QED
          BY <4>1, <5>1, <5>2 DEF Interval
      <4>4. n = ipgc \/ n < ipgc
        BY <4>1, DesmaRange
      <4> QED
        BY <4>2, <4>3, <4>4
    <3> QED
      BY <3>1, <3>3, <3>4, <3>5
  <2>2. ASSUME NEW k \in DOMAIN desma', desma'[k] # NoObject
        PROVE  slot'[desma'[k]] = k
    <3>1. /\ k \in DOMAIN desma /\ desma'[k] = desma[k] /\ desma[k] \in Objects
          /\ ~ \E o \in S : slot[o] = k
      BY <2>2, <1>1, DesmaRange
    <3>2. slot[desma[k]] = k
      BY <2>2, <3>1 DEF MarksOK, SlotsAgree
    <3> QED
      BY <3>1, <3>2, <1>2
  <2> QED
    BY <2>1, <2>2 DEF SlotsAgree
<1> QED
  BY <1>4, <1>5, <1>6 DEF MarksOK

(* The actions that leave the marks alone, and the set of segments in use.  *)
LEMMA UntouchedMarks ==
    ASSUME TypeOK, MarksOK, UNCHANGED <<mark, slot, desma>>,
           \A p \in Objects : seg'[p] = "U" <=> seg[p] = "U",
           kposma' = kposma \/ kposma' = Append(kposma, Len(desma))
    PROVE  MarksOK'
<1>1. desma' = DesmaWithout({}) /\ slot' = Slotless({})
  BY DesmaRange DEF TypeOK, DesmaWithout, Slotless
<1> QED
  BY <1>1, LosingSlotsKeepsMarks

(* One more marked object at the end of DESMA.                              *)
LEMMA AppendKeepsMarks ==
    ASSUME TypeOK, MarksOK, NEW o \in Objects, slot[o] = 0, ipgc > 0,
           desma' = Append(desma, o),
           slot' = [slot EXCEPT ![o] = NextSlot],
           mark' = [mark EXCEPT ![o] = ipgc],
           \A p \in Objects : seg'[p] = "U" <=> (seg[p] = "U" \/ p = o),
           kposma' = kposma
    PROVE  MarksOK'
<1>1. /\ Len(desma') = Len(desma) + 1 /\ DOMAIN desma' = 1..Len(desma) + 1
      /\ \A k \in DOMAIN desma : desma'[k] = desma[k]
      /\ desma'[Len(desma) + 1] = o
  BY DesmaRange DEF TypeOK
<1>2. \A p \in Objects : /\ mark'[p] = IF p = o THEN ipgc ELSE mark[p]
                         /\ slot'[p] = IF p = o THEN Len(desma) + 1 ELSE slot[p]
  BY DEF TypeOK, NextSlot
<1>3. ipgc' = ipgc
  BY DEF ipgc
<1>4. KposmaSorted'
  <2>1. Len(desma) \in Nat /\ \A k \in 1..ipgc : kposma[k] \in Nat
    BY DesmaRange
  <2> QED
    BY <2>1, <1>1, <1>3 DEF MarksOK, KposmaSorted
<1>5. UnmarkedIdle'
  BY <1>2 DEF MarksOK, UnmarkedIdle
<1>6. SlotsAgree'
  <2>1. ASSUME NEW p \in Objects, slot'[p] # 0
        PROVE  /\ slot'[p] \in DOMAIN desma' /\ desma'[slot'[p]] = p
               /\ seg'[p] = "U" /\ mark'[p] \in 1..ipgc'
               /\ slot'[p] \in Interval(mark[p])'
    <3>1. CASE p = o
      <4>1. kposma[ipgc] <= Len(desma) /\ kposma[ipgc] \in Nat
        BY DesmaRange DEF MarksOK, KposmaSorted
      <4>2. slot'[o] = Len(desma) + 1 /\ mark'[o] = ipgc /\ desma'[slot'[o]] = o
        BY <1>1, <1>2
      <4>3. slot'[o] \in Interval(mark[o])'
        BY <4>1, <4>2, <1>1, <1>3, DesmaRange DEF Interval
      <4> QED
        BY <3>1, <4>2, <4>3, <1>1, <1>3, DesmaRange
    <3>2. CASE p # o
      <4>1. /\ slot'[p] = slot[p] /\ mark'[p] = mark[p]
            /\ slot[p] \in DOMAIN desma /\ desma[slot[p]] = p /\ seg[p] = "U"
            /\ mark[p] \in 1..ipgc /\ slot[p] \in Interval(mark[p])
        BY <3>2, <2>1, <1>2 DEF MarksOK, SlotsAgree
      <4>2. slot[p] \in Interval(mark[p])'
        BY <4>1, <1>1, <1>3, DesmaRange DEF Interval
      <4>3. slot'[p] \in DOMAIN desma' /\ desma'[slot'[p]] = p
        BY <4>1, <1>1, DesmaRange
      <4> QED
        BY <4>1, <4>2, <4>3, <1>3
    <3> QED
      BY <3>1, <3>2
  <2>2. ASSUME NEW k \in DOMAIN desma', desma'[k] # NoObject
        PROVE  slot'[desma'[k]] = k
    <3>1. CASE k = Len(desma) + 1
      BY <3>1, <1>1, <1>2
    <3>2. CASE k # Len(desma) + 1
      <4>1. k \in DOMAIN desma /\ desma'[k] = desma[k] /\ desma[k] \in Objects
        BY <3>2, <2>2, <1>1, DesmaRange
      <4>2. slot[desma[k]] = k /\ k # 0
        BY <4>1, <2>2, DesmaRange DEF MarksOK, SlotsAgree
      <4> QED
        BY <4>1, <4>2, <1>2
    <3> QED
      BY <3>1, <3>2
  <2> QED
    BY <2>1, <2>2 DEF SlotsAgree
<1> QED
  BY <1>4, <1>5, <1>6 DEF MarksOK

LEMMA ForgetKeepsMarks ==
    ASSUME TypeOK, MarksOK, NEW S \in SUBSET Objects, Forget(S),
           \A p \in Objects : seg'[p] = "U" <=> seg[p] = "U" /\ p \notin S,
           kposma' = kposma \/ kposma' = Append(kposma, Len(desma))
    PROVE  MarksOK'
<1>1. slot' = Slotless(S) /\ desma' = DesmaWithout(S)
  BY DEF Forget
<1>2. \A p \in Objects : IF p \in S THEN mark'[p] = 0
                         ELSE mark'[p] = mark[p] /\ (seg'[p] = "U" <=> seg[p] = "U")
  BY DEF Forget, Unmarked
<1> QED
  BY <1>1, <1>2, LosingSlotsKeepsMarks

(* What jedema finds after the position of the last jemarq is what was      *)
(* marked with the level that ends.                                         *)
LEMMA MarkedAreOfLevel ==
    ASSUME TypeOK, MarksOK, ipgc > 0
    PROVE  Marked = {p \in Objects : slot[p] # 0 /\ mark[p] = ipgc}
<1>1. ASSUME NEW p \in Objects, slot[p] # 0, mark[p] = ipgc PROVE p \in Marked
  <2>1. /\ slot[p] \in kposma[ipgc] + 1 .. Len(desma) /\ desma[slot[p]] = p
    BY <1>1 DEF MarksOK, SlotsAgree, Interval
  <2> QED
    BY <2>1, JeveuxAssumption DEF Marked
<1>2. ASSUME NEW p \in Marked
      PROVE  p \in Objects /\ slot[p] # 0 /\ mark[p] = ipgc
  <2>1. PICK k \in kposma[ipgc] + 1 .. Len(desma) : p = desma[k] /\ p # NoObject
    BY DEF Marked
  <2>2. ipgc \in 1..ipgc /\ kposma[ipgc] \in Nat
    BY DesmaRange
  <2>3. k \in DOMAIN desma /\ k \in Nat /\ k # 0 /\ k > kposma[ipgc]
    BY <2>1, <2>2, DesmaRange
  <2>4. p \in Objects /\ slot[p] = k
    BY <2>1, <2>3, DesmaRange DEF MarksOK, SlotsAgree
  <2>5. mark[p] \in 1..ipgc /\ k \in Interval(mark[p])
    BY <2>3, <2>4 DEF MarksOK, SlotsAgree
  <2>6. CASE mark[p] < ipgc
    <3>1. mark[p] + 1 \in 1..ipgc /\ mark[p] # ipgc /\ mark[p] + 1 <= ipgc
      BY <2>5, <2>6, DesmaRange
    <3>2. k <= kposma[mark[p] + 1] /\ kposma[mark[p] + 1] \in Nat
      BY <2>5, <3>1, DesmaRange DEF Interval
    <3>3. kposma[mark[p] + 1] <= kposma[ipgc]
      BY <2>2, <3>1 DEF MarksOK, KposmaSorted
    <3> QED
      BY <2>2, <2>3, <3>2, <3>3
  <2> QED
    BY <2>3, <2>4, <2>5, <2>6, DesmaRange
<1> QED
  BY <1>1, <1>2

LEMMA JedemaSegments ==
    ASSUME TypeOK, MarksOK, ipgc > 0, JedemaBody
    PROVE  \A p \in Objects :
              /\ seg'[p] = "U" <=> seg[p] = "U" /\ p \notin Marked
              /\ p \notin Marked => dirty'[p] = dirty[p]
<1>1. Marked = {p \in Marked : mark[p] = ipgc} /\ Marked \subseteq Objects
  BY MarkedAreOfLevel
<1>2. CASE ~idebug
  BY <1>2 DEF JedemaBody
<1>3. CASE idebug
  BY <1>1, <1>3 DEF JedemaBody, Unload, Freed, Clean, TypeOK
<1> QED
  BY <1>2, <1>3

LEMMA JedemaKeepsMarks ==
    ASSUME TypeOK, MarksOK, ipgc > 0, JedemaBody
    PROVE  MarksOK' /\ Len(desma') <= Len(desma)
<1> DEFINE top == kposma[ipgc]
<1>1. ipgc \in Nat /\ top \in Nat /\ top <= Len(desma) /\ Len(desma) \in Nat
  BY DesmaRange DEF MarksOK, KposmaSorted
<1>2. /\ Len(desma') = top /\ DOMAIN desma' = 1..top
      /\ \A k \in 1..top : desma'[k] = desma[k]
  BY <1>1 DEF TypeOK, JedemaBody
<1>3. ipgc' = ipgc - 1 /\ \A n \in 1..ipgc - 1 : kposma'[n] = kposma[n]
  <2>1. kposma \in Seq(Nat) /\ Len(kposma) \in Nat /\ Len(kposma) > 0
    BY DEF TypeOK, ipgc
  <2>2. kposma' = SubSeq(kposma, 1, Len(kposma) - 1)
    BY DEF JedemaBody, KposmaPopped, ipgc
  <2>3. /\ Len(kposma') = Len(kposma) - 1
        /\ \A n \in 1..Len(kposma) - 1 : kposma'[n] = kposma[n]
    <3>1. Len(kposma) - 1 \in Nat /\ Len(kposma) - 1 <= Len(kposma)
      BY <2>1
    <3> QED
      BY <2>1, <2>2, <3>1, SubSeqTypes
  <2> QED
    BY <2>3 DEF ipgc
<1>4. \A p \in Objects : /\ mark'[p] = IF p \in Marked THEN 0 ELSE mark[p]
                         /\ slot'[p] = IF p \in Marked THEN 0 ELSE slot[p]
                         /\ seg'[p] = "U" <=> seg[p] = "U" /\ p \notin Marked
  BY JedemaSegments DEF JedemaBody, Unmarked, Slotless
<1>5. KposmaSorted'
  <2>1. \A i, j \in 1..ipgc - 1 : i <= j => kposma'[i] <= kposma'[j]
    BY <1>1, <1>3 DEF MarksOK, KposmaSorted
  <2>2. \A n \in 1..ipgc - 1 : kposma'[n] <= top
    BY <1>1, <1>3 DEF MarksOK, KposmaSorted
  <2> QED
    BY <2>1, <2>2, <1>2, <1>3 DEF KposmaSorted
<1>6. UnmarkedIdle'
  BY <1>4 DEF MarksOK, UnmarkedIdle
<1>7. SlotsAgree'
  <2>1. ASSUME NEW p \in Objects, slot'[p] # 0
        PROVE  /\ slot'[p] \in DOMAIN desma' /\ desma'[slot'[p]] = p
               /\ seg'[p] = "U" /\ mark'[p] \in 1..ipgc'
               /\ slot'[p] \in Interval(mark[p])'
    <3> DEFINE n == mark[p]
    <3>1. /\ p \notin Marked /\ slot'[p] = slot[p] /\ mark'[p] = n
          /\ slot[p] \in DOMAIN desma /\ desma[slot[p]] = p /\ seg[p] = "U"
          /\ n \in 1..ipgc /\ slot[p] \in Interval(n)
      BY <2>1, <1>4 DEF MarksOK, SlotsAgree
    <3>2. n # ipgc /\ n \in 1..ipgc - 1 /\ n + 1 \in 1..ipgc /\ n + 1 <= ipgc
      BY <3>1, <1>1, MarkedAreOfLevel, <2>1
    <3>3. slot[p] \in kposma[n] + 1 .. kposma[n + 1]
      BY <3>1, <3>2 DEF Interval
    <3>4. kposma[n] \in Nat /\ kposma[n + 1] \in Nat /\ kposma[n + 1] <= top
      BY <3>2, <1>1, DesmaRange DEF MarksOK, KposmaSorted
    <3>5. slot[p] \in 1..top
      BY <3>3, <3>4, <1>1
    <3>6. kposma'[n] = kposma[n] /\ (n # ipgc - 1 => kposma'[n + 1] = kposma[n + 1])
      BY <3>2, <1>1, <1>3
    <3>7. n = ipgc - 1 => kposma[n + 1] = top
      BY <1>1
    <3>8. slot[p] \in Interval(mark[p])'
      BY <3>1, <3>2, <3>3, <3>6, <3>7, <1>1, <1>2, <1>3 DEF Interval
    <3> QED
      BY <3>1, <3>2, <3>5, <3>8, <1>2, <1>3, <1>4
  <2>2. ASSUME NEW k \in DOMAIN desma', desma'[k] # NoObject
        PROVE  slot'[desma'[k]] = k
    <3>1. k \in 1..top /\ k \in DOMAIN desma /\ desma'[k] = desma[k]
      BY <1>1, <1>2, DesmaRange
    <3>2. desma[k] \in Objects /\ slot[desma[k]] = k
      BY <2>2, <3>1, DesmaRange DEF MarksOK, SlotsAgree
    <3>3. desma[k] \notin Marked
      <4>1. ASSUME desma[k] \in Marked PROVE k \in kposma[ipgc] + 1 .. Len(desma)
        BY <4>1, <3>1, <3>2, <1>1, MarkedAreOfLevel DEF MarksOK, SlotsAgree, Interval
      <4> QED
        BY <4>1, <3>1, <1>1
    <3> QED
      BY <3>1, <3>2, <3>3, <1>4
  <2> QED
    BY <2>1, <2>2 DEF SlotsAgree
<1> QED
  BY <1>1, <1>2, <1>5, <1>6, <1>7 DEF MarksOK

(* What most actions do to the part of the state the invariant is about:    *)
(* they take some objects out of use, and give up claims.                   *)
Releasing(S) ==
    /\ Forget(S)
    /\ \A p \in Objects : seg'[p] = "U" <=> seg[p] = "U" /\ p \notin S
    /\ \A p \in Objects : seg[p] = "U" /\ p \notin S => dirty'[p] = dirty[p]
    /\ \A p \in Objects : claim'[p] \in {claim[p], Nobody}
    /\ \A p \in Objects \ S : holder'[p] = holder[p]
    /\ lgd = desmaLen => \A p \in S : claim'[p] = Nobody /\ holder'[p] # "kept"
    /\ writers' \subseteq writers
    /\ lgd = desmaLen => \A p \in writers' : Relied(p)'
    /\ kposma' = kposma \/ kposma' = Append(kposma, Len(desma))
    /\ UNCHANGED <<lgd, desmaLen>>
    /\ phase # "agrandir" /\ phase' \notin {"agrandir", "closed"}
    /\ phase' \in {"idle", "after"} => ipgc' = 0
    /\ phase' = "idle" => phase = "idle" \/ Permanent \cup Volatile \subseteq S
    /\ phase' \in {"idle", "op"} /\ lgd = desmaLen =>
          \/ Permanent \cup Volatile \subseteq S
          \/ /\ Running
             /\ \A p \in Objects \ S : mark[p] = -1 => claim'[p] = claim[p]

(* A mark above zero is the one of a level that has not ended.              *)
LEMMA MarksInRange ==
    ASSUME IInv, phase # "agrandir", lgd = desmaLen, NEW p \in Objects
    PROVE  mark[p] \in Int /\ mark[p] <= ipgc
<1>1. mark[p] \in Int /\ ipgc \in Nat
  BY DesmaRange, JeveuxAssumption DEF IInv, TypeOK
<1>2. CASE mark[p] > 0
  <2>1. slot[p] # 0
    BY <1>2 DEF IInv, MarkedHasSlot
  <2> QED
    BY <2>1, <1>1 DEF IInv, MarksOK, SlotsAgree
<1> QED
  BY <1>1, <1>2

LEMMA ReleasingKeepsIInv ==
    ASSUME IInv, TypeOK', NEW S \in SUBSET Objects, Releasing(S)
    PROVE  IInv'
<1>1. MarksOK'
  BY ForgetKeepsMarks DEF IInv, Releasing
<1>2. ipgc \in Nat /\ ipgc' \in Nat /\ ipgc <= ipgc'
  BY SMTT(30) DEF IInv, TypeOK, Releasing, ipgc
<1>3. \A p \in Objects : /\ mark'[p] = IF p \in S THEN 0 ELSE mark[p]
                         /\ slot'[p] = IF p \in S THEN 0 ELSE slot[p]
  BY DEF Releasing, Forget, Unmarked, Slotless
<1>4. TableOK'
  <2>1. Len(desma') = Len(desma)
    BY TypeOKParts, DesmaWithoutTypes DEF IInv, Releasing, Forget
  <2> QED
    BY <2>1 DEF IInv, TableOK, Releasing
<1>5. PendingOK' /\ LevelZero' /\ ClosedEmpty'
  BY DEF Releasing, PendingOK, LevelZero, ClosedEmpty
<1>6. MarkedHasSlot'
  BY <1>3 DEF IInv, MarkedHasSlot, Releasing
<1>7. PermanentClaimed' /\ ZeroHeld'
  <2>1. ASSUME lgd' = desmaLen', NEW o \in Objects, seg'[o] = "U"
        PROVE  /\ mark'[o] = 0 => holder'[o] = "kept"
               /\ phase' \in {"idle", "op", "agrandir"} /\ mark'[o] = -1 => claim'[o] = -1
    <3>1. /\ lgd = desmaLen /\ o \notin S /\ seg[o] = "U" /\ mark'[o] = mark[o]
          /\ holder'[o] = holder[o] /\ phase' # "agrandir"
      BY <2>1, <1>3 DEF Releasing
    <3>2. mark[o] = 0 => holder[o] = "kept"
      BY <3>1 DEF IInv, ZeroHeld
    <3>3. ASSUME phase' \in {"idle", "op"}, mark[o] = -1 PROVE claim'[o] = -1
      <4>1. ~(Permanent \cup Volatile \subseteq S)
        BY <3>1, <3>3 DEF Permanent
      <4>2. claim'[o] = claim[o] /\ Running
        BY <3>1, <3>3, <4>1 DEF Releasing
      <4> QED
        BY <3>1, <3>3, <4>2 DEF IInv, PermanentClaimed, Running
    <3> QED
      BY <3>1, <3>2, <3>3
  <2> QED
    BY <2>1 DEF PermanentClaimed, ZeroHeld
<1>8. ClaimPinned'
  <2> SUFFICES ASSUME lgd' = desmaLen', NEW o \in Objects
               PROVE  /\ claim'[o] # Nobody =>
                            seg'[o] = "U" /\ mark'[o] <= claim'[o] /\ claim'[o] <= ipgc'
                      /\ holder'[o] = "kept" => seg'[o] = "U" /\ mark'[o] = 0
                      /\ o \in writers' => Relied(o)' /\ dirty'[o]
    BY DEF ClaimPinned, Nobody
  <2>1. /\ lgd = desmaLen /\ (o \in writers' => Relied(o)' /\ o \in writers)
        /\ claim'[o] # Nobody => claim'[o] = claim[o] /\ o \notin S
        /\ holder'[o] = "kept" => holder[o] = "kept" /\ o \notin S
    BY DEF Releasing
  <2>2. /\ claim[o] # Nobody =>
              seg[o] = "U" /\ mark[o] <= claim[o] /\ claim[o] <= ipgc
        /\ holder[o] = "kept" => seg[o] = "U" /\ mark[o] = 0
        /\ o \in writers => dirty[o]
    BY <2>1 DEF IInv, ClaimPinned
  <2>3. claim[o] \in Int /\ mark[o] \in Int
    BY JeveuxAssumption DEF IInv, TypeOK, Claims, Nobody
  <2>4. /\ claim'[o] # Nobody =>
              seg'[o] = "U" /\ mark'[o] <= claim'[o] /\ claim'[o] <= ipgc'
        /\ holder'[o] = "kept" => seg'[o] = "U" /\ mark'[o] = 0
    BY <2>1, <2>2, <2>3, <1>2, <1>3 DEF Releasing
  <2>5. o \in writers' => dirty'[o]
    BY <2>1, <2>2 DEF Releasing, Relied, Nobody
  <2> QED
    BY <2>1, <2>4, <2>5
<1>9. NothingLeftInUse'
  <2> SUFFICES ASSUME phase' = "idle", lgd' = desmaLen', NEW o \in Objects, seg'[o] = "U"
               PROVE  mark'[o] = 0
    BY <1>7 DEF NothingLeftInUse, Releasing, ZeroHeld
  <2>1. /\ ipgc' = 0 /\ o \notin S /\ seg[o] = "U" /\ mark'[o] = mark[o]
        /\ lgd = desmaLen /\ phase # "agrandir"
    BY <1>3 DEF Releasing
  <2>2. CASE phase = "idle"
    BY <2>1, <2>2 DEF IInv, NothingLeftInUse
  <2>3. CASE Permanent \cup Volatile \subseteq S
    <3>1. mark[o] # -1
      BY <2>1, <2>3 DEF Permanent
    <3>2. mark[o] <= ipgc /\ mark[o] \in -1..MaxMark
      BY <2>1, MarksInRange DEF IInv, TypeOK
    <3> QED
      BY <2>1, <3>1, <3>2, <1>2, JeveuxAssumption
  <2> QED
    BY <2>1, <2>2, <2>3 DEF Releasing
<1> QED
  BY <1>1, <1>4, <1>5, <1>6, <1>7, <1>8, <1>9 DEF IInv

(* What is evicted is idle.                                                 *)
LEMMA EvictionsAreIdle ==
    ASSUME NEW evicted \in Evictions
    PROVE  evicted \subseteq Objects /\ \A p \in evicted : seg[p] = "X"
BY DEF Evictions, IdleClean, Idle

(* jeveuo and jeveut, as the invariant sees them.                           *)
LEMMA BringSegments ==
    ASSUME TypeOK, NEW o \in Objects, NEW n, NEW cel, Bring(o, n, cel)
    PROVE  /\ Jjecrs(o, n, cel)
           /\ \A p \in Objects : seg'[p] = "U" <=> (seg[p] = "U" \/ p = o)
           /\ \A p \in Objects \ {o} : seg[p] = "U" => dirty'[p] = dirty[p]
           /\ dirty'[o] = Status(o, cel) \/ (dirty[o] /\ seg[o] = "U")
           /\ dirty[o] /\ seg[o] = "U" => dirty'[o]
<1>1. PICK evicted \in Evictions :
         /\ seg' = [Freed(evicted) EXCEPT ![o] = "U"]
         /\ dirty' = [Clean(evicted) EXCEPT ![o] = Status(o, cel)]
         /\ Jjecrs(o, n, cel)
  BY DEF Bring
<1>2. \A p \in evicted : seg[p] = "X"
  BY EvictionsAreIdle
<1> QED
  BY <1>1, <1>2 DEF Freed, Clean, Status, TypeOK

(* The five outcomes of the marking of an object by jjecrs.                 *)
LEMMA JjecrsCases ==
    ASSUME IInv, NEW o \in Objects, NEW n \in {-1, ipgc}, NEW cel, Jjecrs(o, n, cel),
           \A p \in Objects : seg'[p] = "U" <=> (seg[p] = "U" \/ p = o)
    PROVE  /\ MarksOK'
           /\ Len(desma') <= desmaLen
<1>1. Len(desma) \in Nat /\ Len(desma) <= desmaLen /\ ipgc \in Nat /\ kposma' = kposma
  BY DesmaRange DEF IInv, TableOK, Jjecrs
<1>2. \A p \in Objects : mark'[p] = IF p = o THEN Mark(o, n) ELSE mark[p]
  BY DEF IInv, TypeOK, Jjecrs
<1>3. seg[o] # "U" => slot[o] = 0
  BY DEF IInv, MarksOK, SlotsAgree
<1>4. CASE desma' = Append(desma, o) /\ slot' = [slot EXCEPT ![o] = NextSlot]
           /\ seg[o] # "U" /\ n > 0 /\ Len(desma) < desmaLen
  <2>1. n = ipgc /\ ipgc > 0 /\ mark' = [mark EXCEPT ![o] = ipgc]
    <3>1. n = ipgc /\ ipgc > 0
      BY <1>1, <1>4
    <3>2. Mark(o, n) = n /\ mark' = [mark EXCEPT ![o] = Mark(o, n)]
      BY <1>4 DEF Jjecrs, Mark
    <3> QED
      BY <3>1, <3>2
  <2>2. desmaLen \in Nat /\ desma \in Seq(Objects \cup {NoObject})
    BY DEF IInv, TypeOK
  <2>3. MarksOK'
    BY <2>1, <1>1, <1>3, <1>4, AppendKeepsMarks DEF IInv
  <2>4. Len(desma') = Len(desma) + 1
    BY <2>2, <1>4
  <2> QED
    BY <2>2, <2>3, <2>4, <1>1, <1>4
<1>5. CASE UNCHANGED <<slot, desma>> /\ seg[o] # "U"
  <2>1. Slotless({o}) = slot
    BY <1>3, <1>5 DEF IInv, TypeOK, Slotless
  <2>2. DesmaWithout({o}) = desma
    <3>1. \A k \in DOMAIN desma : slot[o] # k
      BY <1>3, <1>5, DesmaRange DEF IInv
    <3> QED
      BY <3>1 DEF IInv, TypeOK, DesmaWithout
  <2> QED
    BY <2>1, <2>2, <1>1, <1>2, <1>5, LosingSlotsKeepsMarks DEF IInv
<1>6. CASE /\ seg[o] = "U" /\ n = -1
           /\ desma' = DesmaWithout({o}) /\ slot' = [slot EXCEPT ![o] = 0]
  <2>1. slot' = Slotless({o})
    BY <1>6 DEF IInv, TypeOK, Slotless
  <2>2. MarksOK'
    BY <2>1, <1>1, <1>2, <1>6, LosingSlotsKeepsMarks DEF IInv
  <2>3. Len(desma') = Len(desma)
    BY <1>6, TypeOKParts, DesmaWithoutTypes DEF IInv
  <2> QED
    BY <2>2, <2>3, <1>1
<1>7. CASE UNCHANGED <<slot, desma>> /\ seg[o] = "U" /\ n # -1
  <2>1. mark' = mark
    BY <1>7 DEF IInv, TypeOK, Jjecrs, Mark
  <2> QED
    BY <2>1, <1>1, <1>7, UntouchedMarks DEF IInv
<1> QED
  BY <1>4, <1>5, <1>6, <1>7 DEF Jjecrs

(* jeveuo and jeveut keep the invariant.                                    *)
LEMMA BringKeepsIInv ==
    ASSUME IInv, TypeOK', Running, NEW o \in Objects, NEW n \in {-1, ipgc}, NEW cel,
           n = -1 => phase = "op",
           Bring(o, n, cel)
    PROVE  IInv'
<1>1. /\ Jjecrs(o, n, cel)
      /\ \A p \in Objects : seg'[p] = "U" <=> (seg[p] = "U" \/ p = o)
      /\ \A p \in Objects \ {o} : seg[p] = "U" => dirty'[p] = dirty[p]
      /\ cel = "E" => dirty'[o]
      /\ dirty[o] /\ seg[o] = "U" => dirty'[o]
  BY BringSegments DEF IInv, Status
<1>2. /\ phase # "agrandir" /\ kposma' = kposma /\ ipgc' = ipgc /\ ipgc \in Nat
      /\ lgd' = lgd /\ desmaLen' = desmaLen /\ lgd \in Nat /\ desmaLen \in Nat
      /\ lgd > 0 /\ desmaLen > 0 /\ desmaLen <= lgd /\ Len(desma) <= desmaLen
      /\ Len(desma) \in Nat
  BY <1>1, DesmaRange DEF Running, Jjecrs, IInv, TypeOK, TableOK, ipgc
<1>3. MarksOK' /\ TableOK'
  BY <1>1, <1>2, JjecrsCases DEF IInv, TableOK
<1>4. \A p \in Objects : /\ mark'[p] = IF p = o THEN Mark(o, n) ELSE mark[p]
                         /\ p # o => slot'[p] = slot[p]
  BY <1>1 DEF IInv, TypeOK, Jjecrs
<1>5. seg[o] # "U" => slot[o] = 0
  BY DEF IInv, MarksOK, SlotsAgree
<1>6. n \in Int /\ n <= ipgc /\ n < Nobody /\ -1 <= n
  BY <1>2, JeveuxAssumption DEF IInv, TypeOK, Nobody, ipgc
<1>7. PendingOK'
  <2> SUFFICES ASSUME phase' = "agrandir" PROVE PendingOK'
    BY DEF PendingOK
  <2>1. /\ seg[o] # "U" /\ n > 0 /\ pending' = o /\ Len(desma) = lgd
        /\ UNCHANGED <<desma, slot>>
    BY <1>1, <1>2 DEF Jjecrs, claims
  <2>2. n = ipgc /\ ipgc > 0
    BY <2>1, <1>2
  <2>3. mark'[o] = ipgc /\ lgd = desmaLen
    BY <2>1, <2>2, <1>2, <1>4 DEF Mark
  <2> QED
    BY <2>1, <2>2, <2>3, <1>1, <1>2, <1>5 DEF PendingOK
<1>8. LevelZero' /\ ClosedEmpty'
  <2>1. phase' \notin {"after", "closed"} /\ (phase' = "idle" => phase = "idle")
    BY <1>1 DEF Running, Jjecrs
  <2> QED
    BY <2>1, <1>2 DEF IInv, LevelZero, ClosedEmpty
<1>9. MarkedHasSlot'
  <2> SUFFICES ASSUME lgd' = desmaLen', NEW p \in Objects, mark'[p] > 0
               PROVE  slot'[p] # 0 \/ (phase' = "agrandir" /\ p = pending')
    BY DEF MarkedHasSlot
  <2>1. CASE p # o
    BY <2>1, <1>2, <1>4 DEF IInv, MarkedHasSlot
  <2>2. CASE p = o /\ seg[o] # "U"
    <3>1. n > 0
      BY <2>2, <1>4 DEF Mark
    <3>2. CASE slot' = [slot EXCEPT ![o] = NextSlot]
      BY <3>2, <2>2, <1>2 DEF IInv, TypeOK, NextSlot
    <3>3. CASE phase' = "agrandir" /\ pending' = o
      BY <3>3, <2>2
    <3>4. ~(Len(desma) < lgd /\ Len(desma) >= desmaLen)
      <4>1. lgd = desmaLen
        BY <1>2
      <4> QED
        BY <4>1, <1>2
    <3>5. \/ slot' = [slot EXCEPT ![o] = NextSlot]
          \/ phase' = "agrandir" /\ pending' = o
          \/ phase' = "overrun" /\ Len(desma) < lgd /\ Len(desma) >= desmaLen
      <4>1. ~(n <= 0)
        BY <3>1, <1>6
      <4> QED
        BY <2>2, <3>1, <4>1, <1>1 DEF Jjecrs
    <3> QED
      BY <3>2, <3>3, <3>4, <3>5
  <2>3. CASE p = o /\ seg[o] = "U"
    <3>1. n # -1 /\ mark'[o] = mark[o]
      BY <2>3, <1>4 DEF Mark
    <3>2. slot' = slot
      BY <2>3, <3>1, <1>1 DEF Jjecrs
    <3> QED
      BY <2>3, <3>1, <3>2, <1>2 DEF IInv, MarkedHasSlot
  <2> QED
    BY <2>1, <2>2, <2>3
<1>10. CASE phase' = "overrun"
  <2>1. lgd' # desmaLen'
    BY <1>1, <1>2, <1>10 DEF Jjecrs, Running
  <2> QED
    BY <2>1, <1>3, <1>7, <1>8, <1>9, <1>10
       DEF IInv, ClaimPinned, NothingLeftInUse, PermanentClaimed, ZeroHeld
<1>11. CASE Claim(o, n, cel)
  <2> SUFFICES ASSUME lgd = desmaLen
               PROVE  PermanentClaimed' /\ ZeroHeld' /\ ClaimPinned' /\ NothingLeftInUse'
    BY <1>2, <1>3, <1>7, <1>8, <1>9
       DEF IInv, PermanentClaimed, ZeroHeld, ClaimPinned, NothingLeftInUse
  <2>1. /\ claim[o] \in Int /\ mark[o] \in Int /\ mark[o] >= -1
        /\ claim[o] # 0 /\ claim[o] >= -1 /\ claim[o] <= Nobody
    <3>1. claim[o] \in {-1} \cup 1..Nobody /\ mark[o] \in -1..MaxMark
      BY DEF IInv, TypeOK, Claims
    <3>2. MaxMark \in Nat /\ MaxMark > 1
      BY JeveuxAssumption
    <3> QED
      BY <3>1, <3>2 DEF Nobody
  <2>2. /\ \A p \in Objects : p # o => claim'[p] = claim[p] /\ holder'[p] = holder[p]
        /\ \A p \in writers' : p \in writers \/ (p = o /\ cel = "E")
    BY <1>11 DEF IInv, TypeOK, Claim
  <2>3. /\ holder'[o] = HolderAfter(o, n)
        /\ claim'[o] = IF n = -1 THEN n
                       ELSE IF n = 0 \/ holder[o] = "kept" THEN claim[o]
                       ELSE IF n < claim[o] THEN n ELSE claim[o]
    BY <1>11 DEF IInv, TypeOK, Claim
  <2>4. /\ claim[o] # Nobody => seg[o] = "U" /\ mark[o] <= claim[o] /\ claim[o] <= ipgc
        /\ holder[o] = "kept" => seg[o] = "U" /\ mark[o] = 0
        /\ o \in writers => Relied(o) /\ dirty[o]
        /\ mark[o] <= ipgc
    BY <1>2, MarksInRange DEF IInv, ClaimPinned
  <2>5. mark'[o] = IF seg[o] # "U" \/ n = -1 THEN n ELSE mark[o]
    BY <1>4 DEF Mark
  <2>6. /\ seg[o] = "U" /\ mark[o] = -1 => claim[o] = -1
        /\ seg[o] = "U" /\ mark[o] = 0 => holder[o] = "kept"
    BY DEF Running, IInv, PermanentClaimed, ZeroHeld
  <2>7. claim'[o] # Nobody => mark'[o] <= claim'[o] /\ claim'[o] <= ipgc
    <3>1. CASE n = -1
      BY <3>1, <2>3, <2>5, <1>2
    <3>2. CASE n # -1 /\ claim'[o] = claim[o]
      BY <3>2, <2>4, <2>5, <1>2
    <3>3. CASE n # -1 /\ claim'[o] = n
      BY <3>3, <2>1, <2>4, <2>5, <1>2
    <3> QED
      BY <3>1, <3>2, <3>3, <2>3
  <2>8. holder'[o] = "kept" <=> \/ n = 0 /\ ~(seg[o] = "U" /\ mark[o] = -1)
                                \/ n \notin {0, -1} /\ holder[o] = "kept"
    <3>1. CASE n = 0
      BY <3>1, <2>3 DEF HolderAfter
    <3>2. CASE n = -1
      BY <3>2, <2>3 DEF HolderAfter
    <3>3. CASE n \notin {0, -1}
      BY <3>3, <2>3 DEF HolderAfter
    <3> QED
      BY <3>1, <3>2, <3>3
  <2>9. holder'[o] = "kept" => mark'[o] = 0
    <3>1. CASE n = 0 /\ ~(seg[o] = "U" /\ mark[o] = -1)
      BY <3>1, <2>1, <2>4, <2>5, <1>2
    <3>2. CASE n \notin {0, -1} /\ holder[o] = "kept"
      BY <3>2, <2>4, <2>5
    <3> QED
      BY <2>8, <3>1, <3>2
  <2>10. mark'[o] = 0 => holder'[o] = "kept"
    <3>1. CASE n = 0
      BY <3>1, <2>5, <2>8, <1>6
    <3>2. CASE n # 0
      BY <3>2, <2>5, <2>6, <2>8
    <3> QED
      BY <3>1, <3>2
  <2>11. mark'[o] = -1 => claim'[o] = -1
    <3>1. CASE n = -1
      BY <3>1, <2>3
    <3>2. CASE n # -1
      <4>1. ASSUME mark'[o] = -1 PROVE claim[o] = -1 /\ n = ipgc
        BY <3>2, <4>1, <2>5, <2>6
      <4> QED
        BY <3>2, <4>1, <2>3, <1>2
    <3> QED
      BY <3>1, <3>2
  <2>12. o \in writers' => Relied(o)' /\ dirty'[o]
    <3>1. ASSUME o \in writers' PROVE dirty'[o]
      <4>1. CASE cel = "E"
        BY <4>1, <1>1
      <4>2. CASE o \in writers
        BY <4>2, <2>4, <1>1 DEF Relied
      <4> QED
        BY <3>1, <4>1, <4>2, <2>2
    <3>2. Relied(o)'
      <4>1. CASE n = -1
        BY <4>1, <2>3, <1>6 DEF Relied, Nobody
      <4>2. CASE n = 0
        <5>1. CASE seg[o] = "U" /\ mark[o] = -1
          BY <4>2, <5>1, <2>3, <2>6, <1>6 DEF Relied, Nobody
        <5>2. CASE ~(seg[o] = "U" /\ mark[o] = -1)
          BY <4>2, <5>2, <2>8 DEF Relied
        <5> QED
          BY <5>1, <5>2
      <4>3. CASE n \notin {0, -1} /\ holder[o] = "kept"
        BY <4>3, <2>8 DEF Relied
      <4>4. CASE n \notin {0, -1} /\ holder[o] # "kept"
        BY <4>4, <2>1, <2>3, <1>6 DEF Relied, Nobody
      <4> QED
        BY <4>1, <4>2, <4>3, <4>4
    <3> QED
      BY <3>1, <3>2
  <2>13. PermanentClaimed' /\ ZeroHeld'
    <3>1. ASSUME NEW p \in Objects, seg'[p] = "U"
          PROVE  /\ mark'[p] = 0 => holder'[p] = "kept"
                 /\ mark'[p] = -1 => claim'[p] = -1
      <4>1. CASE p # o
        BY <3>1, <4>1, <2>2, <1>1, <1>4 DEF Running, IInv, PermanentClaimed, ZeroHeld
      <4> QED
        BY <4>1, <2>10, <2>11
    <3> QED
      BY <3>1 DEF PermanentClaimed, ZeroHeld
  <2>14. ClaimPinned'
    <3>1. ASSUME NEW p \in Objects
          PROVE  /\ claim'[p] # Nobody =>
                       seg'[p] = "U" /\ mark'[p] <= claim'[p] /\ claim'[p] <= ipgc'
                 /\ holder'[p] = "kept" => seg'[p] = "U" /\ mark'[p] = 0
                 /\ p \in writers' => Relied(p)' /\ dirty'[p]
      <4>1. CASE p # o
        <5>1. /\ claim'[p] = claim[p] /\ holder'[p] = holder[p] /\ mark'[p] = mark[p]
              /\ p \in writers' => p \in writers
              /\ seg'[p] = "U" <=> seg[p] = "U"
              /\ seg[p] = "U" => dirty'[p] = dirty[p]
          BY <4>1, <2>2, <1>1, <1>4
        <5>2. /\ claim[p] # Nobody =>
                    seg[p] = "U" /\ mark[p] <= claim[p] /\ claim[p] <= ipgc
              /\ holder[p] = "kept" => seg[p] = "U" /\ mark[p] = 0
              /\ p \in writers => Relied(p) /\ dirty[p]
          BY DEF IInv, ClaimPinned
        <5> QED
          BY <5>1, <5>2, <1>2 DEF Relied, Nobody
      <4> QED
        BY <4>1, <2>7, <2>9, <2>12, <1>1, <1>2
    <3> QED
      BY <3>1 DEF ClaimPinned, Nobody
  <2>15. NothingLeftInUse'
    <3> SUFFICES ASSUME phase' = "idle"
                 PROVE  ipgc = 0 /\ \A p \in Objects : seg'[p] = "U" => mark'[p] = 0
      BY <2>13, <1>2 DEF NothingLeftInUse, ZeroHeld
    <3>1. phase = "idle"
      BY <1>1, <1>2 DEF Jjecrs
    <3>2. n = 0 /\ ipgc = 0 /\ \A p \in Objects : seg[p] = "U" => mark[p] = 0
      BY <3>1 DEF IInv, NothingLeftInUse
    <3> QED
      BY <3>2, <1>1, <1>4 DEF Mark
  <2> QED
    BY <2>13, <2>14, <2>15
<1> QED
  BY <1>1, <1>10, <1>11 DEF Jjecrs

(* Unloading idle segments leaves those in use alone.                       *)
LEMMA UnloadKeepsUsed ==
    ASSUME TypeOK, NEW S, \A p \in S : seg[p] # "U", Unload(S)
    PROVE  \A p \in Objects : /\ seg'[p] = "U" <=> seg[p] = "U"
                              /\ seg[p] = "U" => dirty'[p] = dirty[p]
BY DEF TypeOK, Unload, Freed, Clean

LEMMA AgrandirKeepsIInv ==
    ASSUME IInv, TypeOK', Agrandir PROVE IInv'
<1> DEFINE o == pending
<1>1. /\ o \in Objects /\ seg[o] = "U" /\ ipgc > 0 /\ mark[o] = ipgc /\ slot[o] = 0
      /\ lgd = desmaLen /\ Len(desma) = lgd /\ lgd \in Nat /\ lgd > 0
      /\ desma \in Seq(Objects \cup {NoObject})
  BY DEF IInv, PendingOK, TableOK, TypeOK, Agrandir
<1>2. PICK evicted \in Evictions : Unload(evicted)
  BY DEF Agrandir
<1>3. /\ \A p \in evicted : seg[p] # "U"
      /\ \A p \in Objects : /\ seg'[p] = "U" <=> seg[p] = "U"
                            /\ seg[p] = "U" => dirty'[p] = dirty[p]
  BY <1>2, EvictionsAreIdle, UnloadKeepsUsed DEF IInv
<1>4. /\ kposma' = kposma /\ mark' = mark /\ ipgc' = ipgc /\ UNCHANGED claims
      /\ lgd' = 2 * lgd /\ desmaLen' = 2 * lgd /\ phase' = "op"
      /\ desma' = Append(desma, o) /\ slot' = [slot EXCEPT ![o] = NextSlot]
  BY DEF Agrandir, claims, ipgc
<1>5. MarksOK'
  <2>1. mark' = [mark EXCEPT ![o] = ipgc]
    BY <1>1, <1>4 DEF IInv, TypeOK
  <2>2. \A p \in Objects : seg'[p] = "U" <=> (seg[p] = "U" \/ p = o)
    BY <1>1, <1>3
  <2> QED
    BY <2>1, <2>2, <1>1, <1>4, AppendKeepsMarks DEF IInv
<1>6. TableOK'
  <2>1. Len(desma') = Len(desma) + 1
    BY <1>1, <1>4
  <2> QED
    BY <2>1, <1>1, <1>4 DEF TableOK
<1>7. PendingOK' /\ LevelZero' /\ ClosedEmpty' /\ NothingLeftInUse'
  BY <1>4 DEF PendingOK, LevelZero, ClosedEmpty, NothingLeftInUse
<1>8. MarkedHasSlot'
  <2>1. NextSlot # 0
    BY <1>1 DEF NextSlot
  <2> QED
    BY <2>1, <1>1, <1>4 DEF IInv, TypeOK, MarkedHasSlot
<1>9. PermanentClaimed' /\ ZeroHeld'
  <2>1. phase = "agrandir"
    BY DEF Agrandir
  <2> QED
    BY <2>1, <1>1, <1>3, <1>4 DEF IInv, PermanentClaimed, ZeroHeld, claims
<1>10. ClaimPinned'
  BY <1>1, <1>3, <1>4 DEF IInv, ClaimPinned, Relied, claims, Nobody
<1> QED
  BY <1>5, <1>6, <1>7, <1>8, <1>9, <1>10 DEF IInv

LEMMA AgrandirNoMemoryKeepsIInv ==
    ASSUME IInv, TypeOK', AgrandirNoMemory PROVE IInv'
<1>1. PICK evicted \in Evictions : Unload(evicted)
  BY DEF AgrandirNoMemory
<1>2. \A p \in Objects : seg'[p] = "U" <=> seg[p] = "U"
  BY <1>1, EvictionsAreIdle, UnloadKeepsUsed DEF IInv
<1>3. /\ UNCHANGED <<mark, slot, desma, kposma>> /\ phase' = "fatal"
      /\ lgd' = 2 * lgd /\ desmaLen' = desmaLen
  BY DEF AgrandirNoMemory, marks, Fatal
<1>4. MarksOK'
  BY <1>2, <1>3, UntouchedMarks DEF IInv
<1>5. lgd' # desmaLen' /\ TableOK'
  BY <1>3, DesmaRange DEF IInv, TableOK, TypeOK
<1>6. /\ PendingOK' /\ LevelZero' /\ ClosedEmpty' /\ NothingLeftInUse'
      /\ MarkedHasSlot' /\ ClaimPinned' /\ PermanentClaimed' /\ ZeroHeld'
  BY <1>3, <1>5 DEF PendingOK, LevelZero, ClosedEmpty, NothingLeftInUse,
                    MarkedHasSlot, ClaimPinned, PermanentClaimed, ZeroHeld
<1> QED
  BY <1>4, <1>5, <1>6 DEF IInv

LEMMA JedemaKeepsIInv ==
    ASSUME IInv, TypeOK', phase \in {"op", "unwind"}, ipgc > 0, JedemaBody,
           UNCHANGED <<table, phase>>
    PROVE  IInv'
<1>1. MarksOK' /\ Len(desma') <= Len(desma)
  BY JedemaKeepsMarks DEF IInv
<1>2. /\ lgd' = lgd /\ desmaLen' = desmaLen /\ phase' = phase
      /\ lgd \in Nat /\ desmaLen \in Nat /\ Len(desma) \in Nat
      /\ Len(desma') \in Nat /\ ipgc \in Nat
  BY DesmaRange DEF IInv, TypeOK, table
<1>3. TableOK'
  BY <1>1, <1>2 DEF IInv, TableOK
<1>4. PendingOK' /\ LevelZero' /\ ClosedEmpty' /\ NothingLeftInUse'
  BY <1>2 DEF PendingOK, LevelZero, ClosedEmpty, NothingLeftInUse
<1>5. \A p \in Objects :
         /\ mark'[p] = IF p \in Marked THEN 0 ELSE mark[p]
         /\ slot'[p] = IF p \in Marked THEN 0 ELSE slot[p]
         /\ seg'[p] = "U" <=> seg[p] = "U" /\ p \notin Marked
         /\ p \notin Marked => dirty'[p] = dirty[p]
         /\ p \in Marked => mark[p] = ipgc
  BY JedemaSegments, MarkedAreOfLevel DEF IInv, JedemaBody, Unmarked, Slotless
<1>6. MarkedHasSlot'
  BY <1>2, <1>5 DEF IInv, MarkedHasSlot
<1>7. \A p \in Objects : claim'[p] = IF claim[p] = ipgc THEN Nobody ELSE claim[p]
  BY DEF JedemaBody, Disclaim
<1>8. /\ holder' = holder
      /\ \A p \in Objects : p \in writers' =>
            p \in writers /\ (claim[p] = ipgc => holder[p] = "kept")
  BY DEF JedemaBody, Disclaim
<1>9. PermanentClaimed' /\ ZeroHeld'
  <2>1. ASSUME lgd = desmaLen, NEW p \in Objects, seg'[p] = "U"
        PROVE  /\ mark'[p] = 0 => holder'[p] = "kept"
               /\ phase = "op" /\ mark'[p] = -1 => claim'[p] = -1
    <3>1. seg[p] = "U" /\ mark'[p] = mark[p]
      BY <2>1, <1>5
    <3>2. mark[p] = 0 => holder[p] = "kept"
      BY <2>1, <3>1 DEF IInv, ZeroHeld
    <3>3. phase = "op" /\ mark[p] = -1 => claim[p] = -1
      BY <2>1, <3>1 DEF IInv, PermanentClaimed
    <3> QED
      BY <3>1, <3>2, <3>3, <1>2, <1>7, <1>8
  <2> QED
    BY <2>1, <1>2 DEF PermanentClaimed, ZeroHeld
<1>10. ClaimPinned'
  <2> SUFFICES ASSUME lgd = desmaLen, NEW p \in Objects
               PROVE  /\ claim'[p] # Nobody =>
                            seg'[p] = "U" /\ mark'[p] <= claim'[p] /\ claim'[p] <= ipgc'
                      /\ holder'[p] = "kept" => seg'[p] = "U" /\ mark'[p] = 0
                      /\ p \in writers' => Relied(p)' /\ dirty'[p]
    BY <1>2 DEF ClaimPinned, Nobody
  <2>1. /\ claim[p] # Nobody => seg[p] = "U" /\ mark[p] <= claim[p] /\ claim[p] <= ipgc
        /\ holder[p] = "kept" => seg[p] = "U" /\ mark[p] = 0
        /\ p \in writers => Relied(p) /\ dirty[p]
    BY DEF IInv, ClaimPinned
  <2>2. claim[p] \in Int /\ mark[p] \in Int
    BY JeveuxAssumption DEF IInv, TypeOK, Claims, Nobody
  <2>3. ipgc' = ipgc - 1
    <3>1. kposma \in Seq(Nat) /\ ipgc = Len(kposma) /\ ipgc - 1 \in Nat
      BY <1>2 DEF IInv, TypeOK, ipgc
    <3>2. kposma' = SubSeq(kposma, 1, ipgc - 1)
      BY DEF JedemaBody, KposmaPopped
    <3>3. Len(kposma') = ipgc - 1
      BY <3>1, <3>2, SubSeqTypes
    <3> QED
      BY <3>3 DEF ipgc
  <2>4. ASSUME claim'[p] # Nobody
        PROVE  /\ seg'[p] = "U" /\ mark'[p] <= claim'[p] /\ claim'[p] <= ipgc'
               /\ dirty'[p] = dirty[p]
    <3>1. claim'[p] = claim[p] /\ claim[p] # ipgc /\ claim[p] # Nobody
      BY <2>4, <1>7
    <3>2. claim[p] <= ipgc - 1 /\ p \notin Marked
      BY <3>1, <2>1, <2>2, <1>2, <1>5
    <3> QED
      BY <3>1, <3>2, <2>1, <2>3, <1>5
  <2>5. ASSUME holder[p] = "kept"
        PROVE  seg'[p] = "U" /\ mark'[p] = 0 /\ dirty'[p] = dirty[p]
    <3>1. p \notin Marked
      BY <2>1, <2>5, <1>2, <1>5
    <3> QED
      BY <3>1, <2>1, <2>5, <1>5
  <2>6. ASSUME p \in writers'
        PROVE  /\ p \in writers
               /\ \/ holder[p] = "kept"
                  \/ claim'[p] = claim[p] /\ claim[p] # Nobody
    BY <2>6, <2>1, <1>7, <1>8 DEF Relied
  <2>7. p \in writers' => Relied(p)' /\ dirty'[p]
    BY <2>1, <2>4, <2>5, <2>6, <1>8 DEF Relied, Nobody
  <2> QED
    BY <2>4, <2>5, <2>7, <1>8
<1> QED
  BY <1>1, <1>3, <1>4, <1>6, <1>9, <1>10 DEF IInv

(* Closing the bases and opening them again.                                *)
LEMMA JelibfKeepsIInv ==
    ASSUME IInv, TypeOK', Jelibf PROVE IInv'
<1>1. /\ desma' = <<>> /\ kposma' = <<>> /\ phase' = "closed" /\ ipgc' = 0
      /\ \A p \in Objects : seg'[p] # "U" /\ mark'[p] = 0 /\ slot'[p] = 0
                            /\ claim'[p] = Nobody /\ holder'[p] = "none"
      /\ writers' = {}
  BY DEF IInv, TypeOK, Jelibf, Unmarked, Slotless, Lose, ipgc
<1>2. MarksOK'
  BY <1>1 DEF MarksOK, KposmaSorted, SlotsAgree, UnmarkedIdle
<1>3. TableOK'
  BY <1>1 DEF IInv, TableOK, TypeOK, Jelibf, table
<1>4. /\ PendingOK' /\ LevelZero' /\ MarkedHasSlot' /\ ClosedEmpty'
      /\ PermanentClaimed' /\ ZeroHeld' /\ ClaimPinned' /\ NothingLeftInUse'
  BY <1>1 DEF PendingOK, LevelZero, MarkedHasSlot, ClosedEmpty,
              PermanentClaimed, ZeroHeld, ClaimPinned, NothingLeftInUse, Nobody
<1> QED
  BY <1>2, <1>3, <1>4 DEF IInv

LEMMA PoursuiteKeepsIInv ==
    ASSUME IInv, TypeOK', Poursuite PROVE IInv'
<1>1. /\ UNCHANGED <<seg, mark, slot, desma, kposma, claim, holder, writers>>
      /\ phase = "closed" /\ phase' = "idle" /\ ipgc' = ipgc /\ ipgc = 0
      /\ lgd' = LgdInit /\ desmaLen' = LgdInit
  BY DEF IInv, Poursuite, segments, marks, claims, ipgc, LevelZero
<1>2. /\ desma = <<>> /\ writers = {}
      /\ \A p \in Objects : /\ seg[p] # "U" /\ claim[p] = Nobody
                            /\ mark[p] = 0 /\ holder[p] = "none"
  BY <1>1 DEF IInv, ClosedEmpty, MarksOK, UnmarkedIdle
<1>3. MarksOK'
  BY <1>1, UntouchedMarks DEF IInv
<1>4. TableOK'
  BY <1>1, <1>2, JeveuxAssumption DEF TableOK
<1>5. /\ PendingOK' /\ LevelZero' /\ MarkedHasSlot' /\ ClosedEmpty'
      /\ PermanentClaimed' /\ ZeroHeld' /\ ClaimPinned' /\ NothingLeftInUse'
  BY <1>1, <1>2 DEF IInv, PendingOK, LevelZero, MarkedHasSlot, ClosedEmpty,
                    PermanentClaimed, ZeroHeld, ClaimPinned, NothingLeftInUse, Nobody
<1> QED
  BY <1>3, <1>4, <1>5 DEF IInv

(* Every action keeps the types.                                            *)
LEMMA TypeStep == ASSUME IInv, [Next]_vars PROVE TypeOK'
<1> USE DEF IInv
<1>t. /\ SegmentTypes /\ MarkTypes /\ ControlTypes /\ ClaimTypes
      /\ ipgc \in 0..MaxMark - 1
  BY TypeOKParts, DesmaRange, JeveuxAssumption, SMTT(30) DEF TypeOK, ipgc
<1>s. UNCHANGED segments => SegmentTypes'
  BY <1>t DEF segments, SegmentTypes
<1>m. UNCHANGED <<marks, lgp>> => MarkTypes'
  BY <1>t DEF marks, MarkTypes, ipgc
<1>g. UNCHANGED table => UNCHANGED lgp
  BY DEF table
<1>c. UNCHANGED claims => ClaimTypes'
  BY <1>t DEF claims, ClaimTypes
<1>k. UNCHANGED <<table, limit>> /\ phase' \in Phases => ControlTypes'
  BY <1>t DEF table, ControlTypes
<1>f. Fatal => ClaimTypes' /\ phase' \in Phases
  BY <1>t, FatalTypes
<1>p. \A S : Unload(S) => SegmentTypes'
  BY <1>t, UnloadTypes
<1>o. phase \in Phases
  BY <1>t DEF ControlTypes
<1>q. SegmentTypes' /\ MarkTypes' /\ ControlTypes' /\ ClaimTypes' => TypeOK'
  BY DEF TypeOK, SegmentTypes, MarkTypes, ControlTypes, ClaimTypes
<1>r. /\ UNCHANGED kposma /\ lgp <= lgp' /\ lgp' \in Nat =>
            kposma' \in Seq(Nat) /\ Len(kposma') < MaxMark /\ ipgc' <= lgp'
      /\ ipgc + 1 < MaxMark /\ RoomForMark /\ kposma' = KposmaPushed =>
            kposma' \in Seq(Nat) /\ Len(kposma') < MaxMark /\ ipgc' <= lgp'
      /\ SegmentTypes' /\ limit' \in Limits /\ lgp' \in Nat \ {0}
            /\ UNCHANGED <<mark, slot, desma, lgd, desmaLen, pending, idebug, claims>>
            /\ kposma' \in Seq(Nat) /\ Len(kposma') < MaxMark /\ ipgc' <= lgp'
            /\ phase' \in Phases => TypeOK'
  <2>1. lgp \in Nat \ {0}
    BY <1>t DEF ControlTypes
  <2>2. UNCHANGED kposma /\ lgp <= lgp' /\ lgp' \in Nat =>
            kposma' \in Seq(Nat) /\ Len(kposma') < MaxMark /\ ipgc' <= lgp'
    BY <1>t, <2>1 DEF MarkTypes, ipgc
  <2>3. ASSUME ipgc + 1 < MaxMark, RoomForMark, kposma' = KposmaPushed
        PROVE  kposma' \in Seq(Nat) /\ Len(kposma') < MaxMark /\ ipgc' <= lgp'
    BY <2>1, <2>3, <1>t, JemarqTypes
  <2>4. ASSUME SegmentTypes', limit' \in Limits, lgp' \in Nat \ {0},
               UNCHANGED <<mark, slot, desma, lgd, desmaLen, pending, idebug, claims>>,
               kposma' \in Seq(Nat), Len(kposma') < MaxMark, ipgc' <= lgp',
               phase' \in Phases
        PROVE  TypeOK'
    <3>1. MarkTypes' /\ ControlTypes'
      BY <2>4, <1>t DEF MarkTypes, ControlTypes
    <3> QED
      BY <2>4, <3>1, <1>c, <1>q
  <2> QED
    BY <2>2, <2>3, <2>4
<1> HIDE DEF IInv
<1>1. ASSUME NEW o \in Objects, Jecreo(o) PROVE TypeOK'
  <2>1. CASE ~Exists(o)
    <3>1. seg' = [seg EXCEPT ![o] = "out"] /\ UNCHANGED <<dirty, val, img>>
      BY <1>1, <2>1 DEF Jecreo
    <3>2. SegmentTypes'
      BY <3>1, <1>t DEF SegmentTypes
    <3> QED
      BY <3>2, <2>1, <1>1, <1>m, <1>g, <1>c, <1>k, <1>o, <1>q DEF Jecreo
  <2>2. CASE Exists(o)
    BY <2>2, <1>1, <1>s, <1>m, <1>g, <1>f, <1>k, <1>q DEF Jecreo
  <2> QED
    BY <2>1, <2>2
<1>2. ASSUME NEW o \in Objects, NEW cel, Jeveuo(o, cel) \/ Jeveut(o, cel) PROVE TypeOK'
  <2>1. Bring(o, ipgc, cel) \/ Bring(o, -1, cel)
    BY <1>2 DEF Jeveuo, Jeveut
  <2>2. ipgc \in -1..MaxMark - 1 /\ -1 \in -1..MaxMark - 1
    BY <1>t, JeveuxAssumption
  <2> QED
    BY <2>1, <2>2, BringTypes DEF IInv
<1>3. ASSUME NEW o \in Objects, NEW cel, JeveuoRefused(o, cel) PROVE TypeOK'
  BY <1>3, <1>s, <1>m, <1>g, <1>f, <1>k, <1>q DEF JeveuoRefused
<1>4. ASSUME NEW o \in Objects, NEW cel, JeveuoNoMemory(o, cel) PROVE TypeOK'
  <2>1. SegmentTypes' /\ MarkTypes' /\ ClaimTypes'
    BY <1>4, <1>p, <1>m, <1>g, <1>f DEF JeveuoNoMemory
  <2>2. ControlTypes'
    BY <1>4, <1>t, <1>f DEF JeveuoNoMemory, ControlTypes, table
  <2> QED
    BY <2>1, <2>2, <1>q
<1>5. CASE Agrandir
  <2>1. SegmentTypes' /\ ClaimTypes'
    BY <1>5, <1>p, <1>c DEF Agrandir
  <2>2. pending \in Objects
    BY <1>5 DEF Agrandir, IInv, PendingOK
  <2>3. MarkTypes'
    <3>1. NextSlot \in Nat
      BY <1>t DEF MarkTypes, NextSlot
    <3> QED
      BY <2>2, <3>1, <1>5, <1>t DEF Agrandir, MarkTypes, ipgc
  <2>4. ControlTypes'
    BY <1>5, <1>t DEF Agrandir, ControlTypes, Phases
  <2> QED
    BY <2>1, <2>3, <2>4, <1>q
<1>6. CASE AgrandirNoMemory
  <2>1. SegmentTypes' /\ MarkTypes' /\ ClaimTypes'
    BY <1>6, <1>p, <1>m, <1>g, <1>f DEF AgrandirNoMemory
  <2>2. ControlTypes'
    BY <1>6, <1>t, <1>f DEF AgrandirNoMemory, ControlTypes
  <2> QED
    BY <2>1, <2>2, <1>q
<1>7. ASSUME NEW o \in Objects, NEW v \in Values, Ecrire(o, v) PROVE TypeOK'
  <2>1. SegmentTypes'
    BY <1>7, <1>t DEF Ecrire, SegmentTypes
  <2> QED
    BY <2>1, <1>7, <1>m, <1>g, <1>c, <1>k, <1>o, <1>q DEF Ecrire
<1>8. CASE Jemarq
  <2>1. /\ SegmentTypes' /\ limit' \in Limits /\ lgp' \in Nat \ {0} /\ lgp <= lgp'
        /\ UNCHANGED <<mark, slot, desma, lgd, desmaLen, pending, idebug, claims>>
        /\ phase' \in Phases
    <3>1. NoRoomForMark => phase' = "overrun"
      BY DEF NoRoomForMark
    <3> QED
      BY <3>1, <1>8, <1>o, <1>t, RoomTypes DEF Jemarq, Phases
  <2>2. kposma' \in Seq(Nat) /\ Len(kposma') < MaxMark /\ ipgc' <= lgp'
    BY <2>1, <1>8, <1>r DEF Jemarq, NoRoomForMark
  <2> QED
    BY <2>1, <2>2, <1>r
<1>9. ASSUME ipgc > 0, JedemaBody, UNCHANGED <<table, limit, phase>> PROVE TypeOK'
  <2>1. kposma[ipgc] <= Len(desma)
    BY <1>9, DesmaRange DEF IInv, MarksOK, KposmaSorted
  <2> QED
    BY <2>1, <1>9, <1>g, <1>k, <1>o, <1>q, JedemaTypes DEF IInv
<1>10. CASE Jedema
  <2>1. CASE Fatal /\ UNCHANGED <<segments, marks, table, limit>>
    BY <2>1, <1>s, <1>m, <1>g, <1>f, <1>k, <1>q
  <2> QED
    BY <2>1, <1>9, <1>10 DEF Jedema
<1>11. ASSUME NEW o \in Objects, Jelibe(o) PROVE TypeOK'
  <2>1. CASE Exists(o)
    <3>1. ControlTypes'
      BY <2>1, <1>11, <1>k, <1>o DEF Jelibe
    <3>4. ClaimTypes'
      <4>1. Libere(o)
        BY <2>1, <1>11 DEF Jelibe
      <4>2. CASE holder' = [holder EXCEPT ![o] = "overruled"] /\ writers' = writers \ {o}
                 /\ UNCHANGED claim
        BY <4>2, <1>t DEF ClaimTypes, Holders
      <4> QED
        BY <4>1, <4>2, <1>t, DisclaimTypes DEF Libere
    <3>2. SegmentTypes'
      <4>1. CASE seg' = [seg EXCEPT ![o] = "X"] /\ UNCHANGED <<dirty, val, img>>
        BY <4>1, <1>t DEF SegmentTypes
      <4> QED
        BY <4>1, <2>1, <1>11, <1>s, <1>p DEF Jelibe
    <3>3. MarkTypes'
      <4>1. kposma' = kposma /\ (Forget({o}) \/ UNCHANGED <<mark, slot, desma>>)
        BY <2>1, <1>11 DEF Jelibe
      <4> QED
        BY <4>1, <2>1, <1>11, <1>t, <1>m, <1>g, ForgetTypes DEF marks, Jelibe
    <3> QED
      BY <3>1, <3>2, <3>3, <3>4, <1>q
  <2>2. CASE ~Exists(o)
    BY <2>2, <1>11, <1>s, <1>m, <1>g, <1>f, <1>k, <1>q DEF Jelibe
  <2> QED
    BY <2>1, <2>2
<1>12. ASSUME NEW o \in Objects, Jelibd(o) PROVE TypeOK'
  BY <1>12, <1>p, <1>m, <1>g, <1>c, <1>k, <1>o, <1>q DEF Jelibd
<1>13. ASSUME NEW o \in Objects, Jeimpo(o) PROVE TypeOK'
  <2>1. PICK evicted \in Evictions, max \in Limits :
           /\ seg' = [Freed(evicted) EXCEPT ![o] = "X"]
           /\ val' = [Cleared(evicted) EXCEPT ![o] = img[o]]
           /\ dirty' = Clean(evicted)
           /\ img' = Written(evicted)
           /\ limit' = max
    BY <1>13 DEF Jeimpo
  <2>2. img[o] \in Values
    BY <1>13, <1>t DEF Jeimpo, SegmentTypes
  <2>3. SegmentTypes'
    BY <2>1, <2>2, <1>t, JeveuxAssumption DEF SegmentTypes, Freed, Cleared, Clean, Written
  <2>4. ControlTypes'
    BY <2>1, <1>13, <1>t DEF Jeimpo, ControlTypes, table
  <2> QED
    BY <2>3, <2>4, <1>13, <1>m, <1>g, <1>c, <1>q DEF Jeimpo
<1>14. CASE Jjldyn
  <2>1. SegmentTypes' /\ MarkTypes' /\ ClaimTypes'
    BY <1>14, <1>p, <1>m, <1>g, <1>c DEF Jjldyn
  <2>2. ControlTypes'
    BY <1>14, <1>t DEF Jjldyn, ControlTypes, table, Jermxd
  <2> QED
    BY <2>1, <2>2, <1>q
<1>15. ASSUME NEW o \in Objects, Jedetr(o) PROVE TypeOK'
  BY <1>15, <1>g, <1>k, <1>o, <1>q, EraseTypes DEF IInv, Jedetr
<1>16. CASE StartCommand
  <2>1. ControlTypes'
    BY <1>16, <1>t DEF StartCommand, ControlTypes, table, Phases
  <2> QED
    BY <2>1, <1>16, <1>s, <1>m, <1>g, <1>c, <1>q DEF StartCommand
<1>17. ASSUME SupervAfter, UNCHANGED <<kposma, table, limit>>, phase' \in Phases
       PROVE  TypeOK'
  <2>1. SegmentTypes' /\ ClaimTypes' /\ MarkTypes'
    BY <1>17, <1>t, <1>g, SupervAfterTypes DEF IInv, MarkTypes, ipgc
  <2> QED
    BY <2>1, <1>17, <1>k, <1>q
<1>18. CASE EndCommand
  <2>1. CASE Fatal /\ UNCHANGED <<segments, marks, table, limit>>
    BY <2>1, <1>s, <1>m, <1>g, <1>f, <1>k, <1>q
  <2> QED
    BY <2>1, <1>17, <1>18 DEF EndCommand, Phases
<1>19. CASE RaiseError
  BY <1>19, <1>s, <1>m, <1>g, <1>f, <1>k, <1>q DEF RaiseError
<1>20. CASE Utmess
  <2>1. /\ SegmentTypes' /\ limit' \in Limits /\ lgp' \in Nat \ {0} /\ lgp <= lgp'
        /\ UNCHANGED <<mark, slot, desma, lgd, desmaLen, pending, idebug, claims>>
        /\ phase' \in Phases
    BY <1>20, <1>t, RoomTypes DEF Utmess, NoRoomForMark, Phases
  <2>2. kposma' \in Seq(Nat) /\ Len(kposma') < MaxMark /\ ipgc' <= lgp'
    BY <2>1, <1>20, <1>r DEF Utmess, NoRoomForMark
  <2> QED
    BY <2>1, <2>2, <1>r
<1>28. CASE Nettoyer
  BY <1>17, <1>28 DEF Nettoyer, Phases
<1>21. CASE Jedetc
  <2>1. PICK S : Erase(S)
    BY <1>21 DEF Jedetc
  <2>2. kposma' = kposma /\ UNCHANGED <<table, limit>> /\ phase' \in Phases
    BY <1>21 DEF Jedetc, Phases
  <2> QED
    BY <2>1, <2>2, <1>g, <1>k, <1>q, EraseTypes DEF IInv
<1>22. CASE Unwind
  <2>1. CASE UNCHANGED <<segments, marks, claims, table, limit>> /\ phase' = "after"
    BY <2>1, <1>s, <1>m, <1>g, <1>c, <1>k, <1>q DEF Phases
  <2> QED
    BY <2>1, <1>9, <1>22 DEF Unwind
<1>23. CASE BackToPython
  BY <1>17, <1>23 DEF BackToPython, Phases
<1>24. CASE Jelibf
  <2>1. SegmentTypes'
    BY <1>24, <1>t, JeveuxAssumption DEF Jelibf, SegmentTypes, Written, Cleared, Clean
  <2>2. MarkTypes'
    <3>1. lgp' \in Nat
      BY <1>24, <1>g, <1>t DEF Jelibf, ControlTypes
    <3> QED
      BY <3>1, <1>24, <1>t, JeveuxAssumption DEF Jelibf, MarkTypes, Unmarked, Slotless, ipgc
  <2>3. ClaimTypes' /\ ControlTypes'
    BY <1>24, <1>t, <1>k, LoseTypes DEF Jelibf, Phases
  <2> QED
    BY <2>1, <2>2, <2>3, <1>q
<1>25. CASE Poursuite
  <2>1. ControlTypes'
    BY <1>25, <1>t, JeveuxAssumption DEF Poursuite, ControlTypes, Phases
  <2>2. MarkTypes'
    <3>1. Len(kposma) = 0
      BY <1>25 DEF Poursuite, IInv, LevelZero, ipgc
    <3> QED
      BY <3>1, <1>25, <1>t, JeveuxAssumption DEF Poursuite, MarkTypes, marks, ipgc
  <2> QED
    BY <2>1, <2>2, <1>25, <1>s, <1>c, <1>q DEF Poursuite
<1>27. CASE Jedbg2
  <2>1. ControlTypes'
    BY <1>27, <1>t, JeveuxAssumption DEF Jedbg2, ControlTypes
  <2> QED
    BY <2>1, <1>27, <1>s, <1>m, <1>g, <1>c, <1>q DEF Jedbg2
<1>26. CASE UNCHANGED vars
  BY <1>26, <1>s, <1>m, <1>g, <1>c, <1>k, <1>o, <1>q DEF vars, segments, marks, claims, table
<1> QED
  BY <1>1, <1>2, <1>3, <1>4, <1>5, <1>6, <1>7, <1>8, <1>10, <1>11, <1>12, <1>13, <1>14,
     <1>15, <1>16, <1>18, <1>19, <1>20, <1>21, <1>22, <1>23, <1>24, <1>25, <1>26,
     <1>27, <1>28 DEF Next, ErrorPath, Stopped

(* The part of Releasing that concerns segments and marks, for actions that *)
(* take nothing out of use.                                                 *)
NothingReleased ==
    /\ UNCHANGED <<mark, slot, desma, lgd, desmaLen>>
    /\ \A p \in Objects : /\ seg'[p] = "U" <=> seg[p] = "U"
                          /\ seg[p] = "U" => dirty'[p] = dirty[p]

LEMMA NothingReleasedSuffices ==
    ASSUME IInv, TypeOK', NothingReleased,
           kposma' = kposma \/ kposma' = Append(kposma, Len(desma)),
           \/ UNCHANGED claims
           \/ \E D : Disclaim(D) /\ (Running' => \A p \in D : claim[p] # -1),
           phase # "agrandir", phase' \notin {"agrandir", "after", "closed"},
           phase' = "idle" => phase = "idle" /\ kposma' = kposma,
           phase' = "op" => Running
    PROVE  IInv'
<1>1. Forget({})
  BY DesmaRange DEF IInv, TypeOK, NothingReleased, Forget, Unmarked, Slotless, DesmaWithout
<1>2. /\ \A p \in Objects : claim'[p] \in {claim[p], Nobody} /\ holder'[p] = holder[p]
      /\ writers' \subseteq writers
      /\ lgd = desmaLen => \A p \in writers' : Relied(p)'
      /\ Running' => \A p \in Objects : mark[p] = -1 /\ claim[p] = -1 => claim'[p] = claim[p]
  <2>0. lgd = desmaLen => \A p \in writers : p \in Objects /\ Relied(p)
    BY DEF IInv, ClaimPinned, TypeOK
  <2>1. CASE UNCHANGED claims
    BY <2>0, <2>1 DEF claims, Relied, Nobody
  <2>2. ASSUME NEW D, Disclaim(D), Running' => \A p \in D : claim[p] # -1
        PROVE  /\ \A p \in Objects : claim'[p] \in {claim[p], Nobody} /\ holder'[p] = holder[p]
               /\ writers' \subseteq writers
               /\ lgd = desmaLen => \A p \in writers' : Relied(p)'
               /\ Running' => \A p \in Objects :
                                 mark[p] = -1 /\ claim[p] = -1 => claim'[p] = claim[p]
    <3>1. /\ \A p \in Objects : /\ claim'[p] = IF p \in D THEN Nobody ELSE claim[p]
                               /\ holder'[p] = holder[p]
          /\ \A p \in writers' : p \in writers /\ (p \in D => holder[p] = "kept")
      BY <2>2 DEF Disclaim, IInv, TypeOK
    <3> QED
      BY <2>0, <2>2, <3>1 DEF Relied, Nobody
  <2> QED
    BY <2>1, <2>2
<1>3. phase' \in {"idle", "after"} => ipgc' = 0
  BY DEF IInv, LevelZero, ipgc
<1>5. phase' \in {"idle", "op"} => Running /\ Running'
  BY DEF Running
<1>6. phase' \in {"idle", "op"} /\ lgd = desmaLen =>
          \A p \in Objects : mark[p] = -1 => claim'[p] = claim[p]
  <2>1. UnmarkedIdle
    BY DEF IInv, MarksOK
  <2> QED
    BY <2>1, <1>2, <1>5 DEF IInv, PermanentClaimed, UnmarkedIdle, Running
<1>4. Releasing({})
  BY <1>1, <1>2, <1>3, <1>5, <1>6 DEF Releasing, NothingReleased
<1> QED
  BY <1>4, ReleasingKeepsIInv

LEMMA FatalKeepsIInv ==
    ASSUME IInv, TypeOK', Fatal, NothingReleased, UNCHANGED kposma, phase # "agrandir"
    PROVE  IInv'
BY NothingReleasedSuffices DEF Fatal, Running

LEMMA UnchangedReleasesNothing ==
    ASSUME UNCHANGED <<segments, marks, table>> PROVE NothingReleased
BY DEF segments, marks, table, NothingReleased

LEMMA UnloadReleasesNothing ==
    ASSUME TypeOK, UNCHANGED <<mark, slot, desma, lgd, desmaLen>>,
           NEW S, \A p \in S : seg[p] # "U", Unload(S)
    PROVE  NothingReleased
BY UnloadKeepsUsed DEF NothingReleased

LEMMA EraseKeepsIInv ==
    ASSUME IInv, TypeOK', NEW S \in SUBSET Objects, Erase(S), UNCHANGED <<kposma, table>>,
           phase \notin {"agrandir", "closed"}, phase' = phase \/ phase' = "unwind"
    PROVE  IInv'
<1>1. /\ \A p \in Objects : /\ seg'[p] = "U" <=> seg[p] = "U" /\ p \notin S
                            /\ p \notin S => dirty'[p] = dirty[p]
                            /\ claim'[p] = IF p \in S THEN Nobody ELSE claim[p]
                            /\ holder'[p] = IF p \in S THEN "none" ELSE holder[p]
      /\ writers' = writers \ S
  BY DEF IInv, TypeOK, Erase, Clean, Lose
<1>2. phase' \in {"idle", "after"} => ipgc' = 0
  BY DEF IInv, LevelZero, ipgc
<1>3. lgd = desmaLen => \A p \in writers' : Relied(p)'
  BY <1>1 DEF IInv, TypeOK, ClaimPinned, Relied, Nobody
<1>4. Releasing(S)
  BY <1>1, <1>2, <1>3 DEF IInv, TypeOK, Releasing, Erase, table, Running
<1> QED
  BY <1>4, ReleasingKeepsIInv

LEMMA SupervAfterKeepsIInv ==
    ASSUME IInv, TypeOK', SupervAfter, UNCHANGED table,
           UNCHANGED kposma, phase \notin {"agrandir", "closed"},
           phase' = "detruire" \/ (phase' = "idle" /\ ipgc' = 0)
    PROVE  IInv'
<1> DEFINE S == Permanent \cup Volatile
<1>1. S \in SUBSET Objects
  BY JeveuxAssumption DEF Permanent
<1>2. /\ \A p \in Objects : /\ seg'[p] = "U" <=> seg[p] = "U" /\ p \notin S
                            /\ p \notin S => dirty'[p] = dirty[p]
                            /\ claim'[p] = IF p \in S THEN Nobody ELSE claim[p]
                            /\ holder'[p] = IF p \in Volatile THEN "none" ELSE holder[p]
      /\ writers' = writers \ S
  BY <1>1 DEF IInv, TypeOK, SupervAfter, Clean
<1>3. lgd = desmaLen => /\ \A p \in S : holder'[p] # "kept"
                        /\ \A p \in writers' : Relied(p)'
  <2>1. lgd = desmaLen => \A p \in Permanent : holder[p] # "kept"
    BY DEF IInv, ClaimPinned, Permanent
  <2>2. lgd = desmaLen => \A p \in writers : p \in Objects /\ Relied(p)
    BY DEF IInv, TypeOK, ClaimPinned
  <2> QED
    BY <1>1, <1>2, <2>1, <2>2 DEF Relied, Nobody
<1>4. Releasing(S)
  <2>1. Forget(S) /\ UNCHANGED <<kposma, lgd, desmaLen>>
    BY DEF SupervAfter, table
  <2>2. \A p \in Objects \ S : holder'[p] = holder[p]
    BY <1>2
  <2> QED
    BY <2>1, <2>2, <1>1, <1>2, <1>3 DEF Releasing
<1> QED
  BY <1>1, <1>4, ReleasingKeepsIInv

LEMMA JelibeKeepsIInv ==
    ASSUME IInv, TypeOK', NEW o \in Objects, Jelibe(o) PROVE IInv'
<1> phase = "op"
  BY DEF Jelibe
<1>1. CASE ~Exists(o)
  BY <1>1, UnchangedReleasesNothing, FatalKeepsIInv DEF Jelibe, marks
<1> DEFINE D == {p \in {o} : claim[p] = ipgc}
<1>2. /\ claim[o] \in Int /\ mark[o] \in Int /\ ipgc \in Nat /\ claim[o] # 0
      /\ lgd = desmaLen =>
            /\ claim[o] # Nobody => seg[o] = "U" /\ mark[o] <= claim[o] /\ claim[o] <= ipgc
            /\ holder[o] = "kept" => mark[o] = 0
            /\ \A p \in writers : p \in Objects /\ Relied(p)
            /\ \A p \in Objects : mark[p] = -1 => claim[p] = -1
  <2>1. ipgc \in Nat
    BY DesmaRange DEF IInv
  <2>2. claim[o] \in {-1} \cup 1..Nobody /\ mark[o] \in -1..MaxMark
    BY DEF IInv, TypeOK, Claims
  <2>3. claim[o] \in Int /\ mark[o] \in Int /\ claim[o] # 0
    BY <2>2, JeveuxAssumption DEF Nobody
  <2>4. lgd = desmaLen =>
            /\ claim[o] # Nobody => seg[o] = "U" /\ mark[o] <= claim[o] /\ claim[o] <= ipgc
            /\ holder[o] = "kept" => mark[o] = 0
            /\ \A p \in writers : p \in Objects /\ Relied(p)
    BY DEF IInv, TypeOK, ClaimPinned
  <2>5. lgd = desmaLen => \A p \in Objects : mark[p] = -1 => claim[p] = -1
    BY DEF IInv, PermanentClaimed, MarksOK, UnmarkedIdle
  <2> QED
    BY <2>1, <2>3, <2>4, <2>5
<1>3. ASSUME Disclaim(D)
      PROVE  /\ \A p \in Objects : /\ claim'[p] = IF p = o /\ claim[o] = ipgc
                                               THEN Nobody ELSE claim[p]
                                  /\ holder'[p] = holder[p]
             /\ \A p \in writers' : /\ p \in writers
                                   /\ p = o /\ claim[o] = ipgc => holder[o] = "kept"
  BY <1>3 DEF IInv, TypeOK, Disclaim
<1>4. CASE /\ Exists(o) /\ Libere(o) /\ seg[o] = "U" /\ mark[o] = ipgc
           /\ Forget({o}) /\ UNCHANGED <<kposma, table, phase>>
           /\ \A p \in Objects : /\ seg'[p] = "U" <=> seg[p] = "U" /\ p # o
                                 /\ p # o => dirty'[p] = dirty[p]
  <2>1. CASE ipgc = 0
    <3>1. /\ claim' = claim /\ holder' = [holder EXCEPT ![o] = "overruled"]
          /\ writers' = writers \ {o}
      BY <2>1, <1>4 DEF Libere
    <3>2. lgd = desmaLen => claim[o] = Nobody
      BY <2>1, <1>2, <1>4
    <3>3. /\ \A p \in Objects \ {o} : holder'[p] = holder[p]
          /\ holder'[o] = "overruled"
      BY <3>1 DEF IInv, TypeOK
    <3>4. lgd = desmaLen => \A p \in writers' : Relied(p)'
      BY <3>1, <3>3, <1>2 DEF Relied, Nobody
    <3>5. Releasing({o})
      BY <3>1, <3>2, <3>3, <3>4, <1>2, <1>4 DEF Releasing, Running, table
    <3> QED
      BY <3>5, ReleasingKeepsIInv
  <2>2. CASE ipgc # 0
    <3>1. Disclaim(D)
      BY <2>2, <1>4 DEF Libere
    <3>2. lgd = desmaLen => claim'[o] = Nobody /\ holder'[o] # "kept"
      BY <3>1, <2>2, <1>2, <1>3, <1>4
    <3>3. ASSUME lgd = desmaLen, NEW p \in writers' PROVE Relied(p)'
      <4>1. p \in writers /\ p \in Objects /\ Relied(p)
        <5>1. p \in writers
          BY <3>1, <3>3 DEF Disclaim
        <5> QED
          BY <5>1, <3>3, <1>2
      <4>2. CASE holder[p] = "kept"
        BY <4>1, <4>2, <3>1, <1>3 DEF Relied
      <4>3. CASE holder[p] # "kept"
        <5>1. claim[p] # Nobody /\ claim'[p] = claim[p]
          BY <4>1, <4>3, <3>1, <1>3 DEF Relied
        <5> QED
          BY <5>1 DEF Relied, Nobody
      <4> QED
        BY <4>2, <4>3
    <3>4. \A p \in Objects \ {o} : claim'[p] = claim[p] /\ holder'[p] = holder[p]
      BY <3>1, <1>3
    <3>5. claim'[o] \in {claim[o], Nobody}
      BY <3>1, <1>3
    <3>7. writers' \subseteq writers
      BY <3>1 DEF Disclaim
    <3>6. Releasing({o})
      BY <3>2, <3>3, <3>4, <3>5, <3>7, <1>4 DEF Releasing, Running, table
    <3> QED
      BY <3>6, ReleasingKeepsIInv
  <2> QED
    BY <2>1, <2>2
<1>5. CASE /\ Exists(o) /\ Disclaim(D) /\ NothingReleased
           /\ UNCHANGED <<kposma, table, phase>>
  <2>1. \A p \in D : claim[p] # -1
    BY <1>2
  <2> QED
    BY <2>1, <1>5, NothingReleasedSuffices DEF Running
<1>6. CASE Exists(o)
  <2>1. Libere(o) /\ UNCHANGED <<kposma, table, phase>>
    BY <1>6 DEF Jelibe
  <2>2. CASE seg[o] = "U" /\ mark[o] = ipgc /\ seg' = [seg EXCEPT ![o] = "X"]
             /\ Forget({o}) /\ dirty' = dirty
    BY <2>1, <2>2, <1>4, <1>6 DEF IInv, TypeOK
  <2>3. CASE seg[o] = "U" /\ mark[o] = ipgc /\ Unload({o}) /\ Forget({o})
    BY <2>1, <2>3, <1>4, <1>6 DEF IInv, TypeOK, Unload, Freed, Clean
  <2>4. CASE seg[o] = "X" /\ Unload({o}) /\ UNCHANGED <<mark, slot, desma>>
    <3>1. Disclaim(D)
      BY <2>1, <2>4 DEF Libere
    <3> QED
      BY <2>1, <2>4, <3>1, <1>5, <1>6, UnloadReleasesNothing DEF IInv, table
  <2>5. CASE ~(seg[o] = "U" /\ mark[o] = ipgc) /\ UNCHANGED <<segments, mark, slot, desma>>
    <3>1. Disclaim(D)
      BY <2>1, <2>5 DEF Libere
    <3> QED
      BY <2>1, <2>5, <3>1, <1>5, <1>6 DEF NothingReleased, segments, table
  <2> QED
    BY <2>2, <2>3, <2>4, <2>5, <1>6 DEF Jelibe
<1> QED
  BY <1>1, <1>6

LEMMA InitIInv == Init => IInv
<1> SUFFICES ASSUME Init PROVE IInv
  OBVIOUS
<1>1. TypeOK
  BY JeveuxAssumption DEF Init, TypeOK, Phases, Claims, Holders, Nobody, ipgc
<1>2. MarksOK
  BY DEF Init, MarksOK, KposmaSorted, SlotsAgree, UnmarkedIdle, ipgc
<1>3. TableOK
  BY JeveuxAssumption DEF Init, TableOK
<1>4. /\ PendingOK /\ LevelZero /\ MarkedHasSlot /\ ClosedEmpty
      /\ PermanentClaimed /\ ZeroHeld /\ ClaimPinned /\ NothingLeftInUse
  BY DEF Init, PendingOK, LevelZero, MarkedHasSlot, ClosedEmpty, PermanentClaimed, ZeroHeld,
         ClaimPinned, NothingLeftInUse, ipgc, Nobody
<1> QED
  BY <1>1, <1>2, <1>3, <1>4 DEF IInv

(* Every step of the memory manager and of its callers keeps the invariant. *)
LEMMA NextKeepsIInv == IInv /\ [Next]_vars => IInv'
<1> SUFFICES ASSUME IInv, [Next]_vars PROVE IInv'
  OBVIOUS
<1>t. TypeOK' /\ TypeOK /\ ipgc \in Nat
  BY TypeStep, DesmaRange DEF IInv
<1>f. ASSUME Fatal, UNCHANGED <<segments, marks, table>>, phase # "agrandir" PROVE IInv'
  BY <1>f, <1>t, UnchangedReleasesNothing, FatalKeepsIInv DEF marks
<1>1. ASSUME NEW o \in Objects, Jecreo(o) PROVE IInv'
  <2>1. CASE ~Exists(o)
    <3>1. NothingReleased
      BY <1>1, <2>1, <1>t DEF Jecreo, Exists, NothingReleased, marks, table, TypeOK
    <3> QED
      BY <3>1, <2>1, <1>1, <1>t, NothingReleasedSuffices DEF Jecreo, marks, Running
  <2>2. CASE Exists(o)
    BY <2>2, <1>1, <1>f DEF Jecreo, Running
  <2> QED
    BY <2>1, <2>2
<1>2. ASSUME NEW o \in Objects, NEW cel, Jeveuo(o, cel) \/ Jeveut(o, cel) PROVE IInv'
  <2>1. CASE Jeveuo(o, cel)
    <3>1. ipgc # -1
      BY <1>t
    <3> QED
      BY <2>1, <3>1, <1>t, BringKeepsIInv DEF Jeveuo
  <2>2. CASE Jeveut(o, cel)
    BY <2>2, <1>t, BringKeepsIInv DEF Jeveut, Running
  <2> QED
    BY <1>2, <2>1, <2>2
<1>3. ASSUME NEW o \in Objects, NEW cel, JeveuoRefused(o, cel) PROVE IInv'
  BY <1>3, <1>f DEF JeveuoRefused, Running
<1>4. ASSUME NEW o \in Objects, NEW cel, JeveuoNoMemory(o, cel) PROVE IInv'
  <2>1. PICK evicted \in Evictions : Unload(evicted)
    BY <1>4 DEF JeveuoNoMemory
  <2>2. NothingReleased
    BY <2>1, <1>4, <1>t, EvictionsAreIdle, UnloadReleasesNothing
       DEF JeveuoNoMemory, marks, table
  <2> QED
    BY <2>2, <1>4, <1>t, FatalKeepsIInv DEF JeveuoNoMemory, marks, Running
<1>7. ASSUME NEW o \in Objects, NEW v \in Values, Ecrire(o, v) PROVE IInv'
  <2>1. NothingReleased /\ kposma' = kposma
    BY <1>7 DEF Ecrire, NothingReleased, marks, table
  <2> QED
    BY <2>1, <1>7, <1>t, NothingReleasedSuffices DEF Ecrire, Running
<1>r. ASSUME RoomForMark \/ NoRoomForMark, UNCHANGED <<mark, slot, desma, lgd, desmaLen>>
      PROVE  NothingReleased
  <2>1. UNCHANGED segments \/ \E evicted \in Evictions : Unload(evicted)
    <3>1. CASE RoomForMark
      BY <3>1 DEF RoomForMark
    <3>2. CASE NoRoomForMark
      BY <3>2 DEF NoRoomForMark
    <3> QED
      BY <3>1, <3>2, <1>r
  <2>2. CASE UNCHANGED segments
    BY <2>2, <1>r DEF segments, NothingReleased
  <2>3. ASSUME NEW evicted \in Evictions, Unload(evicted) PROVE NothingReleased
    BY <2>3, <1>r, <1>t, EvictionsAreIdle, UnloadReleasesNothing
  <2> QED
    BY <2>1, <2>2, <2>3
<1>8. CASE Jemarq
  <2>1. \/ RoomForMark
        \/ NoRoomForMark /\ kposma' = kposma /\ phase' = "overrun"
    BY <1>8 DEF Jemarq, NoRoomForMark
  <2>2. NothingReleased /\ UNCHANGED claims
    BY <2>1, <1>8, <1>r DEF Jemarq
  <2>3. kposma' = kposma \/ kposma' = Append(kposma, Len(desma))
    BY <2>1, <1>8 DEF Jemarq, KposmaPushed, NoRoomForMark
  <2>4. phase' \in {"op", "aborted", "overrun"} /\ phase = "op"
    BY <2>1, <1>8 DEF Jemarq, NoRoomForMark
  <2> QED
    BY <2>2, <2>3, <2>4, <1>t, NothingReleasedSuffices DEF Running
<1>10. CASE Jedema
  BY <1>10, <1>f, <1>t, JedemaKeepsIInv DEF Jedema
<1>12. ASSUME NEW o \in Objects, Jelibd(o) PROVE IInv'
  <2>1. NothingReleased /\ kposma' = kposma
    BY <1>12, <1>t, UnloadReleasesNothing DEF Jelibd, marks, table
  <2> QED
    BY <2>1, <1>12, <1>t, NothingReleasedSuffices DEF Jelibd, Running
<1>13. ASSUME NEW o \in Objects, Jeimpo(o) PROVE IInv'
  <2>1. PICK evicted \in Evictions :
           seg' = [Freed(evicted) EXCEPT ![o] = "X"] /\ dirty' = Clean(evicted)
    BY <1>13 DEF Jeimpo
  <2>2. NothingReleased
    BY <2>1, <1>13, <1>t, EvictionsAreIdle
       DEF Jeimpo, Freed, Clean, NothingReleased, marks, table, TypeOK
  <2> QED
    BY <2>2, <1>13, <1>t, NothingReleasedSuffices DEF Jeimpo, marks, Running
<1>14. CASE Jjldyn
  <2>1. PICK S \in Evictions : Unload(S)
    BY <1>14 DEF Jjldyn, Evictions
  <2>2. NothingReleased
    BY <2>1, <1>14, <1>t, EvictionsAreIdle, UnloadReleasesNothing DEF Jjldyn, marks, table
  <2> QED
    BY <2>2, <1>14, <1>t, NothingReleasedSuffices DEF Jjldyn, marks, Running
<1>15. ASSUME NEW o \in Objects, Jedetr(o) PROVE IInv'
  BY <1>15, <1>t, EraseKeepsIInv DEF Jedetr, Running
<1>16. CASE StartCommand
  BY <1>16, <1>t, UnchangedReleasesNothing, NothingReleasedSuffices
     DEF StartCommand, marks, Running
<1>18. CASE EndCommand
  <2>1. CASE ipgc = 0 /\ SupervAfter /\ phase' = "idle" /\ UNCHANGED <<kposma, table>>
    <3>1. ipgc' = 0
      BY <2>1 DEF ipgc
    <3> QED
      BY <2>1, <3>1, <1>18, <1>t, SupervAfterKeepsIInv DEF EndCommand
  <2> QED
    BY <2>1, <1>18, <1>f DEF EndCommand
<1>19. CASE RaiseError
  BY <1>19, <1>f DEF RaiseError, Running
<1>20. CASE Utmess
  <2>1. RoomForMark \/ NoRoomForMark
    BY <1>20 DEF Utmess
  <2>2. NothingReleased /\ UNCHANGED claims
    BY <2>1, <1>20, <1>r DEF Utmess
  <2>3. kposma' = kposma \/ kposma' = Append(kposma, Len(desma))
    BY <1>20 DEF Utmess, KposmaPushed, NoRoomForMark
  <2>4. phase' \in {"nettoyer", "overrun"} /\ phase = "fatal"
    BY <1>20 DEF Utmess, NoRoomForMark
  <2> QED
    BY <2>2, <2>3, <2>4, <1>t, NothingReleasedSuffices DEF Running
<1>28. CASE Nettoyer
  BY <1>28, <1>t, SupervAfterKeepsIInv DEF Nettoyer
<1>21. CASE Jedetc
  <2>1. PICK S \in SUBSET {p \in Objects : Exists(p)} : Erase(S)
    BY <1>21 DEF Jedetc
  <2> QED
    BY <2>1, <1>21, <1>t, EraseKeepsIInv DEF Jedetc
<1>22. CASE Unwind
  <2>1. CASE ipgc > 0 /\ JedemaBody /\ UNCHANGED phase
    BY <2>1, <1>22, <1>t, JedemaKeepsIInv DEF Unwind
  <2>2. CASE ipgc = 0 /\ phase' = "after" /\ UNCHANGED <<segments, marks, claims>>
    <3>1. /\ UNCHANGED <<segments, mark, slot, desma, kposma, lgd, desmaLen,
                          claim, holder, writers>>
          /\ ipgc' = 0
      BY <2>2, <1>22 DEF Unwind, marks, claims, table, ipgc
    <3>2. Forget({}) /\ \A p \in Objects : seg'[p] = seg[p] /\ dirty'[p] = dirty[p]
      BY <3>1, <1>t, DesmaRange
         DEF segments, TypeOK, Forget, Unmarked, Slotless, DesmaWithout
    <3>4. lgd = desmaLen => \A p \in writers' : Relied(p)'
      BY <3>1, <1>t DEF IInv, TypeOK, ClaimPinned, Relied, Nobody
    <3>3. Releasing({})
      BY <2>2, <3>1, <3>2, <3>4, <1>22 DEF Releasing, Unwind
    <3> QED
      BY <3>3, <1>t, ReleasingKeepsIInv
  <2> QED
    BY <2>1, <2>2, <1>22 DEF Unwind
<1>23. CASE BackToPython
  <2>1. ipgc' = 0
    BY <1>23 DEF BackToPython, IInv, LevelZero, ipgc
  <2> QED
    BY <2>1, <1>23, <1>t, SupervAfterKeepsIInv DEF BackToPython
<1>27. CASE Jedbg2
  <2>1. NothingReleased
    BY <1>27 DEF Jedbg2, NothingReleased, segments, marks
  <2> QED
    BY <2>1, <1>27, <1>t, NothingReleasedSuffices DEF Jedbg2, marks, Running
<1>26. CASE UNCHANGED vars
  BY <1>26 DEF vars, IInv, TypeOK, MarksOK, KposmaSorted, SlotsAgree, UnmarkedIdle,
        TableOK, PendingOK, LevelZero, MarkedHasSlot, PermanentClaimed, ZeroHeld,
        ClosedEmpty, ClaimPinned, NothingLeftInUse, Relied, Interval, ipgc, Nobody
<1> QED
  BY <1>1, <1>2, <1>3, <1>4, <1>7, <1>8, <1>10, <1>12, <1>13, <1>14, <1>15, <1>16, <1>18,
     <1>19, <1>20, <1>21, <1>22, <1>23, <1>26, <1>27, <1>28, <1>t, AgrandirKeepsIInv,
     AgrandirNoMemoryKeepsIInv, JelibeKeepsIInv, JelibfKeepsIInv, PoursuiteKeepsIInv
     DEF Next, ErrorPath, Stopped

THEOREM InvariantHolds == Spec => []IInv
BY InitIInv, NextKeepsIInv, PTL DEF Spec

(* Types, for the whole of the code mapped to Jeveux.                       *)
THEOREM TypeCorrect == Spec => []TypeOK
<1>1. IInv => TypeOK
  BY DEF IInv
<1> QED
  BY <1>1, InvariantHolds, PTL

(* jemarq and jedema: DESMA and the marks of the objects agree.             *)
THEOREM SlotsAlwaysAgree == Spec => []SlotsAgree
<1>1. IInv => SlotsAgree
  BY DEF IInv, MarksOK
<1> QED
  BY <1>1, InvariantHolds, PTL

(* An address stays good until the level that asked for it ends; outside    *)
(* any jemarq, until a jeveut or a jelibe on the same object overrules the  *)
(* C++ object that has it, or the object is destroyed.                      *)
THEOREM ClaimsArePinned == Spec => []ClaimPinned
<1>1. IInv => ClaimPinned
  BY DEF IInv
<1> QED
  BY <1>1, InvariantHolds, PTL

(* The supervisor leaves nothing in use behind a command.                   *)
THEOREM NothingIsLeftInUse == Spec => []NothingLeftInUse
<1>1. IInv => NothingLeftInUse
  BY DEF IInv
<1> QED
  BY <1>1, InvariantHolds, PTL

-----------------------------------------------------------------------------
(* The words that a finite set of segments takes.                           *)

LEMMA SmallestSet ==
    ASSUME NEW S, IsFiniteSet(S), NEW F \in SUBSET SUBSET S, F # {}
    PROVE  \E T \in F : \A U \in F : U \subseteq T => U = T
<1>1. F \subseteq FiniteSubsetsOf(S)
  BY FS_Subset DEF FiniteSubsetsOf
<1>2. PICK T \in F : \A U \in F : ~(<<U, T>> \in StrictSubsetOrdering(S))
  BY <1>1, FS_StrictSubsetOrderingWellFounded, WFMin, Zenon
<1>3. ASSUME NEW U \in F, U \subseteq T, U # T PROVE FALSE
  <2>1. <<U, T>> \in StrictSubsetOrdering(S)
    BY <1>3 DEF StrictSubsetOrdering
  <2> QED
    BY <1>2, <2>1
<1> QED
  BY <1>3

(* Sums of sizes over the subsets of S, as the definition of Words takes    *)
(* them: an element is chosen in each set.                                  *)
Pick(T) == CHOOSE x \in T : TRUE
SumOf(g, T) == IF T = {} THEN 0 ELSE Size[Pick(T)] + g[T \ {Pick(T)}]
Sums(g, S) == g = [T \in SUBSET S |-> SumOf(g, T)]

LEMMA Picked == ASSUME NEW T, T # {} PROVE Pick(T) \in T
BY DEF Pick

LEMMA SumsAgree ==
    ASSUME NEW S, IsFiniteSet(S), NEW A, NEW B, S \subseteq A, S \subseteq B,
           NEW g, Sums(g, A), NEW h, Sums(h, B)
    PROVE  g[S] = h[S]
<1> DEFINE F == {U \in SUBSET S : g[U] # h[U]}
<1>1. SUFFICES ASSUME F # {} PROVE FALSE
  OBVIOUS
<1>2. PICK T \in F : \A U \in F : U \subseteq T => U = T
  <2>1. F \in SUBSET SUBSET S
    OBVIOUS
  <2> HIDE DEF F
  <2> QED
    BY <1>1, <2>1, SmallestSet
<1>3. T \subseteq S /\ g[T] # h[T]
  BY <1>2
<1>4. g[T] = SumOf(g, T) /\ h[T] = SumOf(h, T)
  BY <1>3 DEF Sums
<1>5. CASE T = {}
  BY <1>3, <1>4, <1>5 DEF SumOf
<1>6. CASE T # {}
  <2> DEFINE U == T \ {Pick(T)}
  <2>1. U \subseteq T /\ U # T /\ U \subseteq S
    BY <1>3, <1>6, Picked
  <2>2. g[U] = h[U]
    BY <1>2, <2>1
  <2> QED
    BY <1>3, <1>4, <1>6, <2>2 DEF SumOf
<1> QED
  BY <1>5, <1>6

LEMMA SumsExist ==
    ASSUME NEW S, IsFiniteSet(S) PROVE \E g : Sums(g, S)
<1> DEFINE F == {U \in SUBSET S : ~\E g : Sums(g, U)}
           G(U) == CHOOSE g : Sums(g, U)
<1>1. SUFFICES ASSUME F # {} PROVE FALSE
  OBVIOUS
<1>2. PICK T \in F : \A U \in F : U \subseteq T => U = T
  <2>1. F \in SUBSET SUBSET S
    OBVIOUS
  <2> HIDE DEF F
  <2> QED
    BY <1>1, <2>1, SmallestSet
<1>3. T \subseteq S /\ \A g : ~Sums(g, T)
  BY <1>2
<1>4. ASSUME NEW U, U \subseteq T, U # T PROVE Sums(G(U), U)
  BY <1>2, <1>3, <1>4
<1> DEFINE Part(U) == IF U = {} THEN 0 ELSE Size[Pick(U)] + G(U \ {Pick(U)})[U \ {Pick(U)}]
           f == [U \in SUBSET T |-> Part(U)]
<1>5. ASSUME NEW V, V \subseteq T, V # T PROVE f[V] = G(V)[V]
  <2>1. Sums(G(V), V) /\ f[V] = Part(V)
    BY <1>4, <1>5
  <2> HIDE DEF G, f
  <2>2. G(V)[V] = SumOf(G(V), V)
    BY <2>1 DEF Sums
  <2>3. CASE V = {}
    BY <2>1, <2>2, <2>3 DEF SumOf
  <2>4. CASE V # {}
    <3> DEFINE W == V \ {Pick(V)}
    <3>1. W \subseteq V /\ W \subseteq T /\ W # T
      BY <1>5, <2>4, Picked
    <3>2. Sums(G(W), W)
      BY <1>4, <3>1 DEF G
    <3>3. IsFiniteSet(W)
      BY <1>3, <3>1, FS_Subset
    <3>4. G(W)[W] = G(V)[W]
      BY <2>1, <3>1, <3>2, <3>3, SumsAgree
    <3> QED
      BY <2>1, <2>2, <2>4, <3>4 DEF SumOf
  <2> QED
    BY <2>3, <2>4
<1>6. ASSUME NEW U \in SUBSET T PROVE Part(U) = SumOf(f, U)
  <2>1. CASE U = {}
    BY <2>1 DEF SumOf
  <2>2. CASE U # {}
    <3> DEFINE V == U \ {Pick(U)}
    <3>1. V \subseteq T /\ V # T
      BY <2>2, Picked
    <3>2. f[V] = G(V)[V]
      BY <1>5, <3>1
    <3> HIDE DEF G, f
    <3> QED
      BY <2>2, <3>2 DEF SumOf
  <2> QED
    BY <2>1, <2>2
<1>7. Sums(f, T)
  <2> HIDE DEF Part
  <2> QED
    BY <1>6 DEF Sums
<1> QED
  BY <1>3, <1>7

LEMMA WordsAreSums ==
    ASSUME NEW S, IsFiniteSet(S) PROVE \E g : Sums(g, S) /\ Words(S) = g[S]
<1> DEFINE g == CHOOSE h : Sums(h, S)
<1>1. Sums(g, S)
  BY SumsExist
<1>2. Words(S) = g[S]
  BY DEF Words, MapThenSumSet, MapThenFoldSet, Sums, SumOf, Pick
<1> QED
  BY <1>1, <1>2

LEMMA WordsOf ==
    ASSUME NEW S, IsFiniteSet(S)
    PROVE  Words(S) = IF S = {} THEN 0 ELSE Size[Pick(S)] + Words(S \ {Pick(S)})
<1>1. PICK g : Sums(g, S) /\ Words(S) = g[S]
  BY WordsAreSums
<1>2. g[S] = SumOf(g, S)
  BY <1>1 DEF Sums
<1>3. CASE S = {}
  BY <1>1, <1>2, <1>3 DEF SumOf
<1>4. CASE S # {}
  <2> DEFINE T == S \ {Pick(S)}
  <2>1. IsFiniteSet(T) /\ T \subseteq S
    BY FS_Subset
  <2>2. PICK h : Sums(h, T) /\ Words(T) = h[T]
    BY <2>1, WordsAreSums
  <2>3. g[T] = h[T]
    BY <1>1, <2>1, <2>2, SumsAgree
  <2> QED
    BY <1>1, <1>2, <1>4, <2>2, <2>3 DEF SumOf
<1> QED
  BY <1>3, <1>4

LEMMA WordsAreNat ==
    ASSUME NEW S \in SUBSET Objects, IsFiniteSet(S) PROVE Words(S) \in Nat
<1> DEFINE F == {U \in SUBSET S : Words(U) \notin Nat}
<1>1. SUFFICES ASSUME F # {} PROVE FALSE
  OBVIOUS
<1>2. PICK T \in F : \A U \in F : U \subseteq T => U = T
  <2>1. F \in SUBSET SUBSET S
    OBVIOUS
  <2> HIDE DEF F
  <2> QED
    BY <1>1, <2>1, SmallestSet
<1>3. T \subseteq S /\ Words(T) \notin Nat /\ IsFiniteSet(T)
  BY <1>2, FS_Subset
<1>4. T # {}
  <2>1. ASSUME T = {} PROVE FALSE
    <3>1. Words(T) = 0
      BY <1>3, <2>1, WordsOf, Zenon
    <3> QED
      BY <1>3, <3>1
  <2> QED
    BY <2>1
<1> DEFINE U == T \ {Pick(T)}
<1>5. Pick(T) \in T /\ U \subseteq T /\ U # T /\ U \subseteq S
  BY <1>3, <1>4, Picked
<1>6. Words(U) \in Nat /\ Size[Pick(T)] \in Nat
  BY <1>2, <1>5, JeveuxAssumption
<1>7. Words(T) = Size[Pick(T)] + Words(U)
  BY <1>3, <1>4, WordsOf
<1> HIDE DEF U
<1> QED
  BY <1>3, <1>6, <1>7

(* The sum does not depend on the order in which elements are chosen.       *)
LEMMA WordsWithout ==
    ASSUME NEW S \in SUBSET Objects, IsFiniteSet(S), NEW e \in S
    PROVE  Words(S) = Size[e] + Words(S \ {e})
<1> DEFINE F == {U \in SUBSET S : \E x \in U : Words(U) # Size[x] + Words(U \ {x})}
<1>1. SUFFICES ASSUME F # {} PROVE FALSE
  OBVIOUS
<1>2. PICK T \in F : \A U \in F : U \subseteq T => U = T
  <2>1. F \in SUBSET SUBSET S
    OBVIOUS
  <2> HIDE DEF F
  <2> QED
    BY <1>1, <2>1, SmallestSet
<1>3. T \subseteq S /\ \E x \in T : Words(T) # Size[x] + Words(T \ {x})
  BY <1>2
<1>4. PICK x \in T : Words(T) # Size[x] + Words(T \ {x})
  BY <1>3
<1>5. \A U : U \subseteq T => IsFiniteSet(U) /\ U \in SUBSET Objects
  BY <1>3, FS_Subset
<1>6. ASSUME NEW U, U \subseteq T, U # T, NEW y \in U
      PROVE  Words(U) = Size[y] + Words(U \ {y})
  BY <1>2, <1>3, <1>6
<1> HIDE DEF F
<1> DEFINE c == Pick(T)
<1>7. c \in T /\ Words(T) = Size[c] + Words(T \ {c})
  BY <1>4, <1>5, WordsOf, Picked
<1>8. c # x
  BY <1>4, <1>7
<1> HIDE DEF c
<1> DEFINE R == (T \ {c}) \ {x}
<1>9. Words(T \ {c}) = Size[x] + Words(R)
  BY <1>6, <1>7, <1>8
<1>10. Words(T \ {x}) = Size[c] + Words(R)
  <2>1. R = (T \ {x}) \ {c}
    OBVIOUS
  <2> HIDE DEF R
  <2> QED
    BY <1>6, <1>7, <1>8, <2>1
<1>11. Words(R) \in Nat /\ Size[c] \in Nat /\ Size[x] \in Nat
  <2>1. R \subseteq T
    OBVIOUS
  <2> HIDE DEF R
  <2> QED
    BY <1>3, <1>5, <1>7, <2>1, WordsAreNat, JeveuxAssumption
<1> HIDE DEF R
<1>12. Words(T) = Size[x] + Words(T \ {x})
  BY <1>7, <1>9, <1>10, <1>11
<1> QED
  BY <1>4, <1>12

LEMMA WordsGrow ==
    ASSUME NEW B \in SUBSET Objects, IsFiniteSet(B), NEW A \in SUBSET B
    PROVE  Words(A) <= Words(B)
<1> DEFINE F == {U \in SUBSET B : A \subseteq U /\ ~(Words(A) <= Words(U))}
<1>1. SUFFICES ASSUME F # {} PROVE FALSE
  OBVIOUS
<1>2. PICK T \in F : \A U \in F : U \subseteq T => U = T
  <2>1. F \in SUBSET SUBSET B
    OBVIOUS
  <2> HIDE DEF F
  <2> QED
    BY <1>1, <2>1, SmallestSet
<1>3. T \subseteq B /\ A \subseteq T /\ ~(Words(A) <= Words(T))
  BY <1>2
<1>4. \A U : U \subseteq T => U \in SUBSET Objects /\ Words(U) \in Nat /\ IsFiniteSet(U)
  BY <1>3, FS_Subset, WordsAreNat
<1>5. PICK x \in T : x \notin A
  BY <1>3, <1>4
<1> DEFINE U == T \ {x}
<1>6. U \subseteq T /\ U # T /\ A \subseteq U /\ U \in SUBSET B
  BY <1>3, <1>5
<1>7. Words(A) <= Words(U)
  BY <1>2, <1>6
<1>8. Words(T) = Size[x] + Words(U) /\ Size[x] \in Nat
  BY <1>3, <1>4, WordsWithout, JeveuxAssumption
<1> HIDE DEF U, F
<1>9. Words(A) \in Nat /\ Words(U) \in Nat
  BY <1>3, <1>4, <1>6
<1> QED
  BY <1>3, <1>7, <1>8, <1>9

-----------------------------------------------------------------------------
(* What is allocated stays under the limit: a segment comes in only when it *)
(* fits, the limit goes down to what is allocated at least, and everything  *)
(* else takes segments away.                                                *)

MInv == MemoryBounded /\ (phase = "closed" => Loaded = {})

LEMMA LoadedWords ==
    ASSUME NEW S \in SUBSET Objects
    PROVE  /\ IsFiniteSet(S) /\ Words(S) \in Nat
           /\ \A T \in SUBSET S : Words(T) \in Nat /\ Words(T) <= Words(S)
<1>1. IsFiniteSet(S)
  BY JeveuxAssumption, FS_Subset
<1>2. \A T \in SUBSET S : T \in SUBSET Objects /\ IsFiniteSet(T)
  BY <1>1, FS_Subset
<1> QED
  BY <1>1, <1>2, WordsAreNat, WordsGrow

LEMMA WordsWith ==
    ASSUME NEW S \in SUBSET Objects, NEW o \in Objects
    PROVE  /\ Size[o] \in Nat
           /\ Words(S \cup {o}) <= Words(S) + Size[o]
<1>1. Size[o] \in Nat /\ Words(S) \in Nat
  BY LoadedWords, JeveuxAssumption
<1>2. CASE o \in S
  <2>1. S \cup {o} = S
    BY <1>2
  <2> QED
    BY <1>1, <2>1
<1>3. CASE o \notin S
  <2> DEFINE R == S \cup {o}
  <2>1. R \in SUBSET Objects /\ o \in R /\ S = R \ {o}
    BY <1>3
  <2> HIDE DEF R
  <2>2. Words(R) = Size[o] + Words(S)
    BY <2>1, LoadedWords, WordsWithout
  <2> QED
    BY <1>1, <2>2 DEF R
<1> QED
  BY <1>2, <1>3

LEMMA LoadedIsSet == Loaded \in SUBSET Objects
BY DEF Loaded

LEMMA TablesAreNat == ASSUME TypeOK PROVE Tables \in Nat /\ limit \in Nat
BY JeveuxAssumption DEF TypeOK, Tables

LEMMA TablesStay ==
    ASSUME desmaLen' = desmaLen, lgp' = lgp PROVE Tables' = Tables
BY DEF Tables

LEMMA WithinLimit ==
    ASSUME Words(Loaded') + Tables' <= limit' PROVE MemoryBounded'
BY DEF MemoryBounded, mcdyn

(* Segments that go, under a limit that stays or stays above.               *)
LEMMA FewerIsBounded ==
    ASSUME IInv, MInv, NEW S \in SUBSET Loaded, Loaded' \subseteq Loaded \ S,
           Tables' = Tables,
           limit' \in {limit} \cup {m \in Limits : Words(Loaded \ S) + Tables < m}
    PROVE  MemoryBounded'
<1>1. Tables \in Nat /\ limit \in Nat /\ limit' \in Nat
  BY TablesAreNat, JeveuxAssumption DEF IInv
<1>2. /\ Loaded \ S \in SUBSET Objects /\ Loaded \in SUBSET Objects
      /\ Loaded' \in SUBSET Objects
  BY LoadedIsSet
<1>3. Words(Loaded) + Tables <= limit
  BY DEF MInv, MemoryBounded, mcdyn
<1>4. /\ Words(Loaded) \in Nat /\ Words(Loaded \ S) \in Nat /\ Words(Loaded') \in Nat
      /\ Words(Loaded \ S) <= Words(Loaded) /\ Words(Loaded') <= Words(Loaded \ S)
  BY <1>2, LoadedWords
<1>5. Words(Loaded') + Tables' <= limit'
  BY <1>1, <1>3, <1>4
<1> QED
  BY <1>5, WithinLimit

LEMMA UnloadLoaded ==
    ASSUME TypeOK, NEW S, Unload(S) PROVE Loaded' = Loaded \ S
BY DEF TypeOK, Unload, Freed, Loaded

LEMMA EvictionsAreLoaded ==
    ASSUME NEW evicted \in Evictions PROVE evicted \in SUBSET Loaded
BY DEF Evictions, IdleClean, Idle, Loaded

(* What jjalls has found room for.                                          *)
LEMMA RoomIsFound ==
    ASSUME IInv, MInv, NEW need \in Nat, NEW evicted \in Evictions, NEW max \in Limits,
           Jjalls(need, evicted, max)
    PROVE  Words(Loaded \ evicted) + Tables + need <= max
<1>1. /\ Tables \in Nat /\ limit \in Nat /\ max \in Nat
      /\ Words(Loaded) \in Nat /\ Words(Loaded \ evicted) \in Nat
      /\ Words(Loaded \ evicted) <= Words(Loaded)
  BY LoadedIsSet, LoadedWords, TablesAreNat, JeveuxAssumption DEF IInv
<1>2. Loaded \ {} = Loaded
  OBVIOUS
<1>3. CASE Fits(need, {}, limit) /\ max = limit
  <2>1. Words(Loaded) + Tables + need <= limit
    BY <1>2, <1>3 DEF Fits
  <2> QED
    BY <1>1, <1>3, <2>1
<1>4. CASE Fits(need, evicted, max)
  BY <1>4 DEF Fits
<1> QED
  BY <1>3, <1>4 DEF Jjalls

LEMMA NoRoomIsBounded ==
    ASSUME IInv, MInv, NEW need, NEW evicted \in Evictions, NEW max \in Limits,
           JjallsFails(need, evicted, max), Unload(evicted), limit' = max,
           Tables' = Tables
    PROVE  MemoryBounded'
<1>1. Loaded' = Loaded \ evicted /\ evicted \in SUBSET Loaded
  BY UnloadLoaded, EvictionsAreLoaded DEF IInv
<1>2. limit' \in {limit} \cup {m \in Limits : Words(Loaded \ evicted) + Tables < m}
  BY DEF JjallsFails, Jermxd
<1> QED
  BY <1>1, <1>2, FewerIsBounded

LEMMA BringIsBounded ==
    ASSUME IInv, MInv, NEW o \in Objects, NEW n, NEW cel, Bring(o, n, cel)
    PROVE  MemoryBounded'
<1>1. PICK evicted \in Evictions, max \in Limits :
         /\ IF o \in Loaded THEN evicted = {} /\ max = limit
                            ELSE Jjalls(Size[o], evicted, max)
         /\ seg' = [Freed(evicted) EXCEPT ![o] = "U"]
         /\ limit' = max
         /\ Tables' = Tables
  BY TablesStay DEF Bring, Jjecrs
<1>2. Loaded' = (Loaded \ evicted) \cup {o}
  BY <1>1 DEF IInv, TypeOK, Freed, Loaded
<1>3. CASE o \in Loaded
  <2>1. Loaded' \subseteq Loaded \ {}
    BY <1>1, <1>2, <1>3
  <2> QED
    BY <1>1, <1>3, <2>1, FewerIsBounded
<1>4. CASE o \notin Loaded
  <2>1. Size[o] \in Nat /\ Loaded \ evicted \in SUBSET Objects
    BY LoadedIsSet, JeveuxAssumption
  <2>2. Words(Loaded \ evicted) + Tables + Size[o] <= max
    BY <1>1, <1>4, <2>1, RoomIsFound
  <2>3. Words(Loaded') <= Words(Loaded \ evicted) + Size[o]
    BY <1>2, <2>1, WordsWith
  <2>4. /\ Tables \in Nat /\ max \in Nat /\ Words(Loaded \ evicted) \in Nat
        /\ Words(Loaded') \in Nat
    BY <1>1, <1>2, <2>1, LoadedWords, TablesAreNat, JeveuxAssumption DEF IInv
  <2>5. Words(Loaded') + Tables' <= limit'
    BY <1>1, <2>1, <2>2, <2>3, <2>4
  <2> QED
    BY <2>5, WithinLimit
<1> QED
  BY <1>3, <1>4

LEMMA AgrandirIsBounded ==
    ASSUME IInv, MInv, Agrandir PROVE MemoryBounded'
<1>1. PICK evicted \in Evictions, max \in Limits :
         Jjalls(2 * lgd, evicted, max) /\ Unload(evicted) /\ limit' = max
  BY DEF Agrandir
<1>2. /\ lgd \in Nat /\ desmaLen \in Nat /\ lgp \in Nat /\ max \in Nat
      /\ desmaLen' = 2 * lgd /\ lgp' = lgp
  BY JeveuxAssumption DEF IInv, TypeOK, Agrandir
<1> DEFINE need == 2 * lgd
<1>3. Words(Loaded \ evicted) + Tables + need <= max
  <2>1. need \in Nat /\ Jjalls(need, evicted, max)
    BY <1>1, <1>2
  <2> HIDE DEF need
  <2> QED
    BY <2>1, RoomIsFound
<1>4. Loaded' = Loaded \ evicted /\ Words(Loaded \ evicted) \in Nat
  BY <1>1, UnloadLoaded, LoadedIsSet, LoadedWords DEF IInv
<1>5. Words(Loaded') + Tables' <= limit'
  <2> DEFINE w == Words(Loaded \ evicted)
  <2>1. w \in Nat /\ w + (desmaLen + lgp) + 2 * lgd <= max /\ Words(Loaded') = w
    BY <1>3, <1>4 DEF Tables
  <2> HIDE DEF w
  <2>2. w + (2 * lgd + lgp) <= max
    BY <1>2, <2>1
  <2> QED
    BY <1>1, <1>2, <2>1, <2>2 DEF Tables
<1> QED
  BY <1>5, WithinLimit

(* A longer KPOSMA, or the failure of jemarq.                               *)
LEMMA RoomIsBounded ==
    ASSUME IInv, MInv, RoomForMark, desmaLen' = desmaLen PROVE MemoryBounded'
<1>1. CASE UNCHANGED <<segments, limit, lgp>>
  <2>1. Loaded' \subseteq Loaded \ {} /\ Tables' = Tables /\ limit' = limit
    BY <1>1, TablesStay DEF segments, Loaded
  <2> QED
    BY <2>1, FewerIsBounded
<1>2. ASSUME NEW evicted \in Evictions, NEW max \in Limits,
             Jjalls(2 * lgp, evicted, max), Unload(evicted), limit' = max, lgp' = 2 * lgp
      PROVE  MemoryBounded'
  <2> DEFINE need == 2 * lgp
  <2>1. /\ lgp \in Nat /\ desmaLen \in Nat /\ max \in Nat
        /\ need \in Nat /\ Jjalls(need, evicted, max)
    BY <1>2, JeveuxAssumption DEF IInv, TypeOK
  <2>2. Words(Loaded \ evicted) + Tables + need <= max
    <3> HIDE DEF need
    <3> QED
      BY <2>1, RoomIsFound
  <2>3. Loaded' = Loaded \ evicted /\ Words(Loaded \ evicted) \in Nat
    BY <1>2, UnloadLoaded, LoadedIsSet, LoadedWords DEF IInv
  <2>4. Words(Loaded') + Tables' <= limit'
    <3> DEFINE w == Words(Loaded \ evicted)
    <3>1. w \in Nat /\ w + (desmaLen + lgp) + 2 * lgp <= max /\ Words(Loaded') = w
      BY <2>2, <2>3 DEF Tables
    <3> HIDE DEF w, need
    <3>2. w + (desmaLen + 2 * lgp) <= max
      BY <2>1, <3>1
    <3> QED
      BY <1>2, <3>1, <3>2 DEF Tables
  <2> QED
    BY <2>4, WithinLimit
<1> QED
  BY <1>1, <1>2 DEF RoomForMark

LEMMA NoRoomForMarkIsBounded ==
    ASSUME IInv, MInv, NoRoomForMark, desmaLen' = desmaLen PROVE MemoryBounded'
<1>1. PICK evicted \in Evictions, max \in Limits :
         /\ \/ JjallsFails(2 * lgp, evicted, max)
            \/ Jjalls(2 * lgp, evicted, max) /\ max # limit
         /\ Unload(evicted) /\ limit' = max
  BY DEF NoRoomForMark
<1>2. Tables' = Tables
  BY TablesStay DEF NoRoomForMark
<1>3. CASE JjallsFails(2 * lgp, evicted, max)
  BY <1>1, <1>2, <1>3, NoRoomIsBounded
<1>4. CASE Jjalls(2 * lgp, evicted, max) /\ max # limit
  <2>1. Loaded' = Loaded \ evicted /\ evicted \in SUBSET Loaded
    BY <1>1, UnloadLoaded, EvictionsAreLoaded DEF IInv
  <2>2. limit' \in {limit} \cup {m \in Limits : Words(Loaded \ evicted) + Tables < m}
    BY <1>1, <1>4 DEF Jjalls, Jermxd
  <2> QED
    BY <1>2, <2>1, <2>2, FewerIsBounded
<1> QED
  BY <1>1, <1>3, <1>4

LEMMA JedemaLoaded ==
    ASSUME IInv, ipgc > 0, JedemaBody PROVE Loaded' \subseteq Loaded
<1>1. Marked = {p \in Objects : slot[p] # 0 /\ mark[p] = ipgc}
  BY MarkedAreOfLevel DEF IInv
<1>2. \A p \in Marked : p \in Objects /\ seg[p] = "U"
  BY <1>1 DEF IInv, MarksOK, SlotsAgree
<1>3. CASE ~idebug
  BY <1>2, <1>3 DEF JedemaBody, Loaded
<1>4. CASE idebug
  <2>1. Unload({p \in Marked : mark[p] = ipgc})
    BY <1>4 DEF JedemaBody
  <2> HIDE DEF Marked
  <2> QED
    BY <2>1, UnloadLoaded DEF IInv
<1> QED
  BY <1>3, <1>4

LEMMA SupervAfterLoaded ==
    ASSUME TypeOK, SupervAfter PROVE Loaded' \subseteq Loaded
BY DEF TypeOK, SupervAfter, Permanent, Loaded

(* The steps that allocate nothing.                                         *)
Fewer == Loaded' \subseteq Loaded /\ Tables' = Tables /\ limit' = limit

LEMMA FewerStep == ASSUME IInv, MInv, Fewer PROVE MemoryBounded'
<1>1. Loaded' \subseteq Loaded \ {}
  BY DEF Fewer
<1> QED
  BY <1>1, FewerIsBounded DEF Fewer

LEMMA NextIsBounded == ASSUME IInv, MInv, [Next]_vars PROVE MemoryBounded'
<1>t. TypeOK /\ seg \in [Objects -> {"none", "out", "X", "U"}]
  BY DEF IInv, TypeOK
<1>s. ASSUME UNCHANGED <<segments, table, limit>> PROVE Fewer
  BY <1>s DEF segments, table, Tables, Fewer, Loaded
<1>1. ASSUME NEW o \in Objects, Jecreo(o) PROVE Fewer
  BY <1>1, <1>t DEF Jecreo, segments, table, Tables, Fewer, Loaded, Exists
<1>2. ASSUME NEW o \in Objects, NEW cel, Jeveuo(o, cel) \/ Jeveut(o, cel)
      PROVE  MemoryBounded'
  BY <1>2, BringIsBounded DEF Jeveuo, Jeveut
<1>3. ASSUME NEW o \in Objects, NEW cel, JeveuoRefused(o, cel) PROVE Fewer
  BY <1>3, <1>s DEF JeveuoRefused
<1>4. ASSUME NEW o \in Objects, NEW cel, JeveuoNoMemory(o, cel) PROVE MemoryBounded'
  <2>1. PICK evicted \in Evictions, max \in Limits :
           JjallsFails(Size[o], evicted, max) /\ Unload(evicted) /\ limit' = max
    BY <1>4 DEF JeveuoNoMemory
  <2> QED
    BY <1>4, <2>1, NoRoomIsBounded DEF JeveuoNoMemory, table, Tables
<1>5. CASE AgrandirNoMemory
  <2>1. PICK evicted \in Evictions, max \in Limits :
           JjallsFails(2 * lgd, evicted, max) /\ Unload(evicted) /\ limit' = max
    BY <1>5 DEF AgrandirNoMemory
  <2> QED
    BY <1>5, <2>1, NoRoomIsBounded, TablesStay DEF AgrandirNoMemory
<1>6. ASSUME NEW o \in Objects, NEW v \in Values, Ecrire(o, v) PROVE Fewer
  BY <1>6 DEF Ecrire, table, Tables, Fewer, Loaded
<1>7. CASE Jemarq
  BY <1>7, RoomIsBounded, NoRoomForMarkIsBounded DEF Jemarq
<1>8. CASE Jedema
  <2>1. CASE ipgc > 0 /\ JedemaBody /\ UNCHANGED <<table, limit, phase>>
    BY <2>1, JedemaLoaded, FewerStep DEF table, Tables, Fewer
  <2> QED
    BY <1>8, <1>s, <2>1, FewerStep DEF Jedema
<1>9. ASSUME NEW o \in Objects, Jelibe(o) PROVE Fewer
  <2>1. CASE UNCHANGED <<segments, table, limit>>
    BY <1>s, <2>1
  <2>2. CASE Unload({o}) /\ UNCHANGED <<table, limit>>
    BY <1>t, <2>2, UnloadLoaded DEF table, Tables, Fewer
  <2>3. CASE seg[o] = "U" /\ seg' = [seg EXCEPT ![o] = "X"] /\ UNCHANGED <<table, limit>>
    BY <1>t, <2>3 DEF table, Tables, Fewer, Loaded
  <2> QED
    BY <1>9, <2>1, <2>2, <2>3 DEF Jelibe
<1>10. ASSUME NEW o \in Objects, Jelibd(o) PROVE Fewer
  BY <1>10, <1>t, UnloadLoaded DEF Jelibd, table, Tables, Fewer
<1>11. ASSUME NEW o \in Objects, Jeimpo(o) PROVE MemoryBounded'
  <2>1. PICK evicted \in Evictions, max \in Limits :
          /\ Jjalls(Size[o], evicted, max)
          /\ seg' = [Freed(evicted) EXCEPT ![o] = "X"]
          /\ limit' = max /\ Tables' = Tables
    BY <1>11, TablesStay DEF Jeimpo, table
  <2>2. Loaded' = (Loaded \ evicted) \cup {o}
    BY <1>t, <2>1 DEF Freed, Loaded
  <2>3. Size[o] \in Nat /\ Loaded \ evicted \in SUBSET Objects
    BY LoadedIsSet, JeveuxAssumption
  <2>4. Words(Loaded \ evicted) + Tables + Size[o] <= max
    BY <2>1, <2>3, RoomIsFound
  <2>5. Words(Loaded') <= Words(Loaded \ evicted) + Size[o]
    BY <2>2, <2>3, WordsWith
  <2>6. /\ Tables \in Nat /\ max \in Nat /\ Words(Loaded \ evicted) \in Nat
        /\ Words(Loaded') \in Nat
    BY <1>t, <2>1, <2>2, <2>3, LoadedWords, TablesAreNat, JeveuxAssumption
  <2>7. Words(Loaded') + Tables' <= limit'
    BY <2>1, <2>3, <2>4, <2>5, <2>6
  <2> QED
    BY <2>7, WithinLimit
<1>12. CASE Jjldyn
  <2>1. CASE Unload(IdleClean) /\ UNCHANGED <<limit, table>>
    BY <1>t, <2>1, UnloadLoaded, FewerStep DEF table, Tables, Fewer
  <2>2. CASE /\ Unload(Idle) /\ UNCHANGED table
             /\ limit' \in Jermxd(Words(Loaded \ Idle) + Tables)
    <3>1. Loaded' = Loaded \ Idle /\ Idle \in SUBSET Loaded
      BY <1>t, <2>2, UnloadLoaded DEF Idle, Loaded
    <3>2. limit' \in {limit} \cup {m \in Limits : Words(Loaded \ Idle) + Tables < m}
      BY <2>2 DEF Jermxd
    <3> QED
      BY <2>2, <3>1, <3>2, FewerIsBounded, TablesStay DEF table
  <2> QED
    BY <1>12, <2>1, <2>2 DEF Jjldyn
<1>13. ASSUME NEW o \in Objects, Jedetr(o) PROVE Fewer
  BY <1>13, <1>t DEF Jedetr, Erase, table, Tables, Fewer, Loaded
<1>14. CASE StartCommand
  <2>1. Loaded' = Loaded /\ Tables' = Tables
    BY <1>14, TablesStay DEF StartCommand, segments, table, Loaded
  <2>2. limit' \in {limit} \cup {m \in Limits : Words(Loaded \ {}) + Tables < m}
    <3>1. Loaded \ {} = Loaded
      OBVIOUS
    <3>2. ASSUME NEW m \in Limits, m > mcdyn PROVE Words(Loaded) + Tables < m
      <4>1. m \in Nat /\ Words(Loaded) \in Nat /\ Tables \in Nat
        BY <1>t, LoadedIsSet, LoadedWords, TablesAreNat, JeveuxAssumption
      <4> QED
        BY <3>2, <4>1 DEF mcdyn
    <3> QED
      BY <1>14, <3>1, <3>2 DEF StartCommand
  <2>3. Loaded' \subseteq Loaded \ {}
    BY <2>1
  <2> QED
    BY <2>1, <2>2, <2>3, FewerIsBounded
<1>15. CASE EndCommand
  <2>1. CASE SupervAfter /\ UNCHANGED <<table, limit>>
    BY <1>t, <2>1, SupervAfterLoaded, FewerStep DEF table, Tables, Fewer
  <2> QED
    BY <1>15, <1>s, <2>1, FewerStep DEF EndCommand
<1>16. CASE Jedbg2
  BY <1>16, FewerStep DEF Jedbg2, segments, Tables, Fewer, Loaded
<1>17. CASE RaiseError
  BY <1>17, <1>s, FewerStep DEF RaiseError
<1>18. CASE Utmess
  BY <1>18, RoomIsBounded, NoRoomForMarkIsBounded DEF Utmess
<1>25. CASE Nettoyer
  BY <1>25, <1>t, SupervAfterLoaded, FewerStep DEF Nettoyer, table, Tables, Fewer
<1>19. CASE Jedetc
  BY <1>19, <1>t, FewerStep DEF Jedetc, Erase, table, Tables, Fewer, Loaded
<1>20. CASE Unwind
  <2>1. CASE ipgc > 0 /\ JedemaBody /\ UNCHANGED <<table, limit>>
    BY <2>1, JedemaLoaded, FewerStep DEF table, Tables, Fewer
  <2> QED
    BY <1>20, <1>s, <2>1, FewerStep DEF Unwind
<1>21. CASE BackToPython
  BY <1>21, <1>t, SupervAfterLoaded, FewerStep DEF BackToPython, table, Tables, Fewer
<1>22. CASE Jelibf
  BY <1>22, <1>t, FewerStep DEF Jelibf, table, Tables, Fewer, Loaded
<1>23. CASE Poursuite
  <2>1. /\ Loaded' = {} /\ Tables' = LgdInit + LgpInit
        /\ limit' \in Limits /\ limit' >= LgdInit + LgpInit
    BY <1>23 DEF Poursuite, segments, Tables, MInv, Loaded
  <2>2. Words({}) = 0
    BY FS_EmptySet, WordsOf, Zenon
  <2>3. limit' \in Nat /\ LgdInit \in Nat /\ LgpInit \in Nat
    BY <2>1, JeveuxAssumption
  <2>4. Words(Loaded') + Tables' <= limit'
    BY <2>1, <2>2, <2>3
  <2> QED
    BY <2>4, WithinLimit
<1>24. CASE UNCHANGED vars
  BY <1>24, <1>s, FewerStep DEF vars, segments, table
<1> QED
  BY <1>1, <1>2, <1>3, <1>4, <1>5, <1>6, <1>7, <1>8, <1>9, <1>10, <1>11, <1>12, <1>13,
     <1>14, <1>15, <1>16, <1>17, <1>18, <1>19, <1>20, <1>21, <1>22, <1>23, <1>24, <1>25,
     FewerStep, AgrandirIsBounded
     DEF Next, ErrorPath, Stopped

LEMMA NextKeepsMInv == ASSUME IInv, MInv, [Next]_vars PROVE MInv'
<1>1. ASSUME phase' = "closed" PROVE Loaded' = {}
  <2>1. CASE Jelibf
    BY <2>1 DEF Jelibf, IInv, TypeOK, Loaded
  <2>2. CASE phase = "closed"
    <3>1. UNCHANGED vars
      BY <1>1, <2>2 DEF Next, ErrorPath, Stopped, vars, Jecreo, Jelibe, Jelibd, Jeimpo,
         Jedetr, Jeveuo, Jeveut, JeveuoRefused, JeveuoNoMemory, Ecrire, Jemarq, Jedema,
         Jjldyn, Jedbg2, StartCommand, EndCommand, RaiseError, Agrandir, AgrandirNoMemory,
         Utmess, Nettoyer, NoRoomForMark, Jedetc, Unwind, BackToPython, Jelibf, Poursuite,
         Running
    <3> QED
      BY <2>2, <3>1 DEF MInv, vars, Loaded
  <2>3. CASE ~Jelibf /\ phase # "closed"
    <3>1. \A o \in Objects : ~(Jecreo(o) \/ Jelibe(o) \/ Jelibd(o) \/ Jeimpo(o) \/ Jedetr(o))
      BY <1>1, <2>3 DEF Jecreo, Jelibe, Jelibd, Jeimpo, Jedetr, Fatal
    <3>2. \A o \in Objects : \A cel : ~(Jeveuo(o, cel) \/ Jeveut(o, cel))
      BY <1>1, <2>3 DEF Jeveuo, Jeveut, Bring, Jjecrs
    <3>3. \A o \in Objects : \A cel : ~(JeveuoRefused(o, cel) \/ JeveuoNoMemory(o, cel))
      BY <1>1, <2>3 DEF JeveuoRefused, JeveuoNoMemory, Fatal
    <3>4. \A o \in Objects, v \in Values : ~Ecrire(o, v)
      BY <1>1, <2>3 DEF Ecrire
    <3>5. ~(Jemarq \/ Jedema \/ Jjldyn \/ Jedbg2)
      BY <1>1, <2>3 DEF Jemarq, NoRoomForMark, Jedema, Jjldyn, Jedbg2, Fatal
    <3>6. ~(StartCommand \/ EndCommand \/ RaiseError \/ Poursuite)
      BY <1>1, <2>3 DEF StartCommand, EndCommand, RaiseError, Poursuite, Fatal
    <3>7. ~ErrorPath
      BY <1>1, <2>3 DEF ErrorPath, Agrandir, AgrandirNoMemory, Utmess, NoRoomForMark, Nettoyer,
         Jedetc, Unwind, BackToPython, Fatal
    <3>8. ~UNCHANGED vars
      BY <1>1, <2>3 DEF vars
    <3> QED
      BY <2>3, <3>1, <3>2, <3>3, <3>4, <3>5, <3>6, <3>7, <3>8 DEF Next, Stopped
  <2> QED
    BY <2>1, <2>2, <2>3
<1> QED
  BY <1>1, NextIsBounded DEF MInv

LEMMA InitMInv == Init => MInv
<1> SUFFICES ASSUME Init PROVE MInv
  OBVIOUS
<1>1. /\ Loaded = {} /\ Tables = LgdInit + LgpInit
      /\ limit \in Limits /\ limit >= LgdInit + LgpInit
  BY DEF Init, Tables, Loaded
<1>2. Words({}) = 0
  BY FS_EmptySet, WordsOf, Zenon
<1>3. limit \in Nat /\ LgdInit \in Nat /\ LgpInit \in Nat
  BY <1>1, JeveuxAssumption
<1> QED
  BY <1>1, <1>2, <1>3 DEF MInv, MemoryBounded, mcdyn

(* jjalls, jjldyn, jermxd: what JEVEUX has allocated stays under its limit, *)
(* whichever way segments come and go and the limit is changed.             *)
THEOREM MemoryIsBounded == Spec => []MemoryBounded
<1>1. IInv /\ MInv /\ [Next]_vars => MInv'
  BY NextKeepsMInv
<1>2. MInv => MemoryBounded
  BY DEF MInv
<1> QED
  BY <1>1, <1>2, InitMInv, InvariantHolds, PTL DEF Spec

-----------------------------------------------------------------------------
(* Jeveux implements JvStore, for every value of the constants, as long as  *)
(* no enlargement of DESMA fails; and no allocation takes away an object in *)
(* use.                                                                     *)
Saved == \A o \in Loaded : dirty[o] \/ img[o] = val[o]

NoneNoImage == \A o \in Objects : seg[o] = "none" => img[o] = NoImage

ClosedUnloaded == phase = "closed" => Loaded = {}

SInv == IInv /\ NoneNoImage /\ ClosedUnloaded /\ CleanIsSaved

(* What is to be shown of a step: it keeps the three facts above, and it is *)
(* a step of JvStore or changes nothing there.                              *)
StoreStep == [Store!Next]_(Store!vars)

SavedStep == /\ NoneNoImage' /\ ClosedUnloaded'
             /\ lgd = desmaLen => Saved' /\ StoreStep

(* The content of one object.                                               *)
ContentOf(o) == IF seg[o] = "none" THEN Absent
                ELSE IF o \in Loaded THEN val[o]
                ELSE IF img[o] # NoImage THEN img[o] ELSE Empty

LEMMA ContentsOf == /\ Contents = [o \in Objects |-> ContentOf(o)]
                    /\ Contents' = [o \in Objects |-> ContentOf(o)']
BY DEF Contents, ContentOf, Loaded

(* Two ways in which a step can be one of JvStore.                          *)
LEMMA ReleaseStep ==
    ASSUME NEW S \in SUBSET Objects, phase # "closed", phase' # "closed",
           \A p \in Objects : ContentOf(p)' = IF p \in S THEN Absent ELSE ContentOf(p),
           writers' \in SUBSET (writers \ S)
    PROVE  StoreStep
<1>1. Contents' = [p \in Objects |-> IF p \in S THEN Absent ELSE Contents[p]]
  BY ContentsOf
<1>2. Store!Release(S)
  BY <1>1 DEF Store!Release
<1> QED
  BY <1>2 DEF StoreStep, Store!Next

LEMMA QuietStep ==
    ASSUME phase # "closed", phase' # "closed", writers' \subseteq writers,
           \A p \in Objects : ContentOf(p)' = ContentOf(p)
    PROVE  StoreStep
<1>1. Contents' = [p \in Objects |-> IF p \in {} THEN Absent ELSE Contents[p]]
  BY ContentsOf
<1>2. Store!Release({})
  BY <1>1 DEF Store!Release
<1> QED
  BY <1>2 DEF StoreStep, Store!Next

LEMMA StutterStep ==
    ASSUME phase = "closed" <=> phase' = "closed", writers' = writers,
           \A p \in Objects : ContentOf(p)' = ContentOf(p)
    PROVE  StoreStep
<1>1. Contents' = Contents
  BY ContentsOf
<1> QED
  BY <1>1 DEF StoreStep, Store!vars

(* Unloading keeps every content, and what stays loaded stays saved.        *)
LEMMA UnloadKeepsContents ==
    ASSUME TypeOK, NEW S \in SUBSET Loaded, Unload(S), NoneNoImage
    PROVE  /\ NoneNoImage'
           /\ Saved => /\ Saved'
                       /\ \A p \in Objects : ContentOf(p)' = ContentOf(p)
<1>1. \A p \in Objects :
         /\ seg'[p] = IF p \in S THEN "out" ELSE seg[p]
         /\ val'[p] = IF p \in S THEN Zero ELSE val[p]
         /\ dirty'[p] <=> (dirty[p] /\ p \notin S)
         /\ img'[p] = IF p \in S /\ dirty[p] THEN val[p] ELSE img[p]
  BY DEF Unload, Freed, Cleared, Clean, Written
<1>2. \A p \in Objects : p \in Loaded' <=> p \in Loaded /\ p \notin S
  BY <1>1 DEF Loaded
<1>3. NoneNoImage'
  BY <1>1, <1>2 DEF NoneNoImage, Loaded
<1>4. ASSUME Saved PROVE Saved'
  BY <1>1, <1>2, <1>4 DEF Saved, Loaded
<1>5. ASSUME Saved, NEW p \in Objects PROVE ContentOf(p)' = ContentOf(p)
  <2>1. val[p] \in Values /\ NoImage \notin Values
    BY JeveuxAssumption DEF TypeOK
  <2>2. CASE p \in S
    <3>1. seg[p] # "none" /\ p \in Loaded /\ img'[p] = val[p]
      BY <1>1, <1>5, <2>2 DEF Saved, Loaded
    <3> QED
      BY <2>1, <2>2, <3>1, <1>1, <1>2 DEF ContentOf
  <2>3. CASE p \notin S
    BY <2>3, <1>1, <1>2 DEF ContentOf
  <2> QED
    BY <2>2, <2>3
<1> QED
  BY <1>3, <1>4, <1>5

(* Steps that leave the segments alone.                                     *)
LEMMA SameSegments ==
    ASSUME SInv, UNCHANGED segments, writers' \subseteq writers,
           phase # "closed", phase' # "closed"
    PROVE  SavedStep
<1>1. \A p \in Objects : ContentOf(p)' = ContentOf(p)
  BY DEF segments, ContentOf, Loaded
<1>2. NoneNoImage' /\ ClosedUnloaded' /\ (Saved => Saved')
  BY DEF SInv, segments, NoneNoImage, ClosedUnloaded, Saved, Loaded
<1>3. StoreStep
  BY <1>1, QuietStep
<1> QED
  BY <1>2, <1>3 DEF SavedStep, SInv, CleanIsSaved, Saved

(* Steps that only unload.                                                  *)
LEMMA UnloadingStep ==
    ASSUME SInv, NEW S \in SUBSET Loaded, Unload(S), writers' \subseteq writers,
           phase # "closed", phase' # "closed"
    PROVE  SavedStep
<1>1. /\ NoneNoImage'
      /\ Saved => Saved' /\ \A p \in Objects : ContentOf(p)' = ContentOf(p)
  BY UnloadKeepsContents DEF SInv, IInv
<1>2. ASSUME lgd = desmaLen PROVE Saved' /\ StoreStep
  <2>1. Saved
    BY <1>2 DEF SInv, CleanIsSaved, Saved
  <2> QED
    BY <1>1, <2>1, QuietStep
<1> QED
  BY <1>1, <1>2 DEF SavedStep, ClosedUnloaded

(* Destruction, and release of objects in use.                              *)
LEMMA DestroyingStep ==
    ASSUME SInv, NEW S \in SUBSET Objects,
           \A p \in Objects :
              /\ p \in S => seg'[p] = "none" /\ img'[p] = NoImage
              /\ p \notin S => /\ img'[p] = img[p] /\ val'[p] = val[p]
                               /\ dirty'[p] = dirty[p]
                               /\ seg'[p] = seg[p] \/ (seg[p] = "U" /\ seg'[p] = "X"),
           writers' \subseteq writers \ S, phase # "closed", phase' # "closed"
    PROVE  SavedStep
<1>1. \A p \in Objects : p \in Loaded' <=> p \in Loaded /\ p \notin S
  BY DEF Loaded
<1>2. NoneNoImage' /\ ClosedUnloaded'
  BY DEF SInv, NoneNoImage, ClosedUnloaded
<1>3. Saved => Saved'
  BY <1>1 DEF Saved, Loaded
<1>4. \A p \in Objects : ContentOf(p)' = IF p \in S THEN Absent ELSE ContentOf(p)
  BY <1>1 DEF ContentOf
<1>5. StoreStep
  BY <1>4, ReleaseStep
<1> QED
  BY <1>2, <1>3, <1>5 DEF SavedStep, SInv, CleanIsSaved, Saved

(* A segment that comes in, after some evictions.                           *)
LEMMA BringingStep ==
    ASSUME SInv, NEW o \in Objects, NEW evicted \in SUBSET Loaded, NEW used \in {"X", "U"},
           o \in Loaded => evicted = {}, o \notin evicted,
           Exists(o),
           seg' = [Freed(evicted) EXCEPT ![o] = used],
           val' = [Cleared(evicted) EXCEPT ![o] = Content(o)],
           img' = Written(evicted),
           \A p \in Objects : p # o => dirty'[p] = Clean(evicted)[p],
           dirty'[o] \/ (HasContent(o, "L") /\ dirty'[o] = dirty[o]),
           phase # "closed", phase' # "closed",
           \/ HasContent(o, "L") /\ writers' = writers
           \/ writers' \in {writers, writers \cup {o}}
    PROVE  SavedStep
<1>1. \A p \in Objects :
         /\ p # o => /\ seg'[p] = IF p \in evicted THEN "out" ELSE seg[p]
                     /\ val'[p] = IF p \in evicted THEN Zero ELSE val[p]
                     /\ dirty'[p] <=> (dirty[p] /\ p \notin evicted)
         /\ img'[p] = IF p \in evicted /\ dirty[p] THEN val[p] ELSE img[p]
  BY DEF Freed, Cleared, Clean, Written, SInv, IInv, TypeOK
<1>2. /\ seg'[o] = used /\ val'[o] = Content(o) /\ img'[o] = img[o]
      /\ o \in Loaded'
  BY <1>1 DEF Freed, Cleared, SInv, IInv, TypeOK, Loaded
<1>3. \A p \in Objects : p # o => (p \in Loaded' <=> p \in Loaded /\ p \notin evicted)
  BY <1>1 DEF Loaded
<1>4. NoneNoImage' /\ ClosedUnloaded'
  BY <1>1, <1>2 DEF SInv, NoneNoImage, ClosedUnloaded, Loaded
<1>5. ASSUME Saved PROVE Saved' /\ StoreStep
  <2>1. \A p \in Objects : val[p] \in Values /\ NoImage \notin Values
    BY JeveuxAssumption DEF SInv, IInv, TypeOK
  <2>2. ASSUME NEW p \in Objects, p # o PROVE ContentOf(p)' = ContentOf(p)
    <3>1. CASE p \in evicted
      <4>1. seg[p] # "none" /\ p \in Loaded /\ img'[p] = val[p]
        BY <1>1, <1>5, <3>1 DEF Saved, Loaded
      <4> QED
        BY <2>1, <2>2, <3>1, <4>1, <1>1, <1>3 DEF ContentOf
    <3>2. CASE p \notin evicted
      BY <2>2, <3>2, <1>1, <1>3 DEF ContentOf
    <3> QED
      BY <3>1, <3>2
  <2>3. /\ ContentOf(o)' = Content(o)
        /\ HasContent(o, "L") => Content(o) = ContentOf(o)
        /\ ~HasContent(o, "L") => Content(o) = Zero /\ ContentOf(o) = Empty
        /\ ContentOf(o) # Absent
        /\ ContentOf(o) = Empty => Content(o) = Zero
    <3>1. ContentOf(o)' = Content(o)
      BY <1>2 DEF ContentOf
    <3>2. CASE HasContent(o, "L")
      <4>1. Content(o) = ContentOf(o) /\ Content(o) \in Values
        BY <3>2, <2>1 DEF Content, ContentOf, HasContent, Exists, Loaded, SInv, IInv, TypeOK
      <4> QED
        BY <3>1, <3>2, <4>1, JeveuxAssumption
    <3>3. CASE ~HasContent(o, "L")
      BY <3>1, <3>3, JeveuxAssumption DEF Content, ContentOf, HasContent, Exists, Loaded
    <3> QED
      BY <3>2, <3>3
  <2>4. Saved'
    <3>1. dirty'[o] \/ img'[o] = val'[o]
      <4>1. CASE o \in Loaded
        BY <4>1, <1>2, <1>5 DEF Saved, Loaded, Content
      <4>2. CASE o \notin Loaded /\ HasContent(o, "L")
        BY <4>2, <1>2 DEF Content, HasContent, Loaded
      <4> QED
        BY <4>1, <4>2
    <3> QED
      BY <3>1, <1>1, <1>3, <1>5 DEF Saved, Loaded
  <2>5. CASE HasContent(o, "L") /\ writers' = writers
    <3>1. \A p \in Objects : ContentOf(p)' = ContentOf(p)
      BY <2>2, <2>3, <2>5
    <3> QED
      BY <2>4, <2>5, <3>1, StutterStep
  <2>6. CASE writers' \in {writers, writers \cup {o}}
    <3>1. Contents' = [Contents EXCEPT ![o] = IF @ = Empty THEN Zero ELSE @]
      BY <2>2, <2>3, ContentsOf
    <3>2. Store!Edit(o)
      BY <2>3, <2>6, <3>1, ContentsOf DEF Store!Edit
    <3> QED
      BY <2>4, <3>2 DEF StoreStep, Store!Next
  <2> QED
    BY <2>5, <2>6
<1> QED
  BY <1>4, <1>5 DEF SavedStep, SInv, CleanIsSaved, Saved

LEMMA JjecrsStep ==
    ASSUME TypeOK, NEW o \in Objects, NEW n, NEW cel, Jjecrs(o, n, cel), Running
    PROVE  /\ phase # "closed" /\ phase' # "closed"
           /\ cel # "E" => writers' = writers
           /\ writers' \in {writers, writers \cup {o}}
<1>1. UNCHANGED claims \/ Claim(o, n, cel)
  BY DEF Jjecrs
<1>2. phase' \in {phase, "overrun", "agrandir"}
  BY DEF Jjecrs
<1> QED
  BY <1>1, <1>2 DEF Claim, claims, Running

LEMMA BringSaved ==
    ASSUME SInv, Running, NEW o \in Objects, NEW n, NEW cel \in {"L", "E"},
           Exists(o), HasContent(o, cel), Bring(o, n, cel)
    PROVE  SavedStep
<1>1. PICK evicted \in Evictions :
         /\ o \in Loaded => evicted = {}
         /\ seg' = [Freed(evicted) EXCEPT ![o] = "U"]
         /\ val' = [Cleared(evicted) EXCEPT ![o] = Content(o)]
         /\ dirty' = [Clean(evicted) EXCEPT ![o] = Status(o, cel)]
         /\ img' = Written(evicted)
         /\ Jjecrs(o, n, cel)
  BY DEF Bring
<1>2. evicted \in SUBSET Loaded /\ o \notin evicted
  BY <1>1, EvictionsAreLoaded
<1>3. /\ \A p \in Objects : p # o => dirty'[p] = Clean(evicted)[p]
      /\ dirty'[o] = (cel = "E" \/ dirty[o])
  BY <1>1 DEF Clean, Status
<1>4. /\ phase # "closed" /\ phase' # "closed"
      /\ cel # "E" => writers' = writers
      /\ writers' \in {writers, writers \cup {o}}
  BY <1>1, JjecrsStep DEF SInv, IInv
<1>5. dirty[o] \in BOOLEAN
  BY DEF SInv, IInv, TypeOK
<1>6. CASE cel = "E"
  BY <1>1, <1>2, <1>3, <1>4, <1>6, BringingStep
<1>7. CASE cel = "L"
  <2>1. dirty'[o] = dirty[o]
    BY <1>3, <1>5, <1>7
  <2> QED
    BY <1>1, <1>2, <1>3, <1>4, <1>7, <2>1, BringingStep
<1> QED
  BY <1>6, <1>7

LEMMA EcrireSaved ==
    ASSUME SInv, NEW o \in Objects, NEW v \in Values, Ecrire(o, v) PROVE SavedStep
<1>1. /\ seg' = seg /\ dirty' = dirty /\ img' = img /\ writers' = writers
      /\ val' = [val EXCEPT ![o] = v] /\ o \in writers
      /\ phase # "closed" /\ phase' = phase
  BY DEF Ecrire, claims, Running
<1>2. NoneNoImage' /\ ClosedUnloaded' /\ Loaded' = Loaded
  BY <1>1 DEF SInv, NoneNoImage, ClosedUnloaded, Loaded
<1>3. ASSUME lgd = desmaLen PROVE Saved' /\ StoreStep
  <2>1. seg[o] = "U" /\ dirty[o]
    BY <1>1, <1>3 DEF SInv, IInv, ClaimPinned, Relied
  <2>2. \A p \in Objects : val'[p] = IF p = o THEN v ELSE val[p]
    BY <1>1 DEF SInv, IInv, TypeOK
  <2>3. Saved'
    BY <2>1, <2>2, <1>1, <1>2, <1>3 DEF SInv, CleanIsSaved, Saved, Loaded
  <2>4. \A p \in Objects : ContentOf(p)' = IF p = o THEN v ELSE ContentOf(p)
    BY <2>1, <2>2, <1>1, <1>2 DEF ContentOf, Loaded
  <2>5. Contents' = [Contents EXCEPT ![o] = v]
    BY <2>4, ContentsOf
  <2>6. Store!Write(o, v)
    BY <1>1, <2>5 DEF Store!Write
  <2> QED
    BY <2>3, <2>6 DEF StoreStep, Store!Next
<1> QED
  BY <1>2, <1>3 DEF SavedStep

LEMMA JecreoSaved ==
    ASSUME SInv, NEW o \in Objects, Jecreo(o), ~Exists(o) PROVE SavedStep
<1>1. /\ \A p \in Objects : seg'[p] = IF p = o THEN "out" ELSE seg[p]
      /\ dirty' = dirty /\ val' = val /\ img' = img /\ writers' = writers
      /\ seg[o] = "none" /\ img[o] = NoImage /\ phase # "closed" /\ phase' = phase
  BY DEF Jecreo, Exists, claims, SInv, IInv, TypeOK, NoneNoImage, Running
<1>2. /\ NoneNoImage' /\ ClosedUnloaded'
      /\ \A p \in Objects : p \in Loaded' <=> p \in Loaded
  BY <1>1 DEF SInv, NoneNoImage, ClosedUnloaded, Loaded
<1>3. \A p \in Objects : ContentOf(p)' = IF p = o THEN Empty ELSE ContentOf(p)
  BY <1>1, <1>2 DEF ContentOf, Loaded
<1>4. Contents' = [Contents EXCEPT ![o] = Empty]
  BY <1>3, ContentsOf
<1>5. Store!Create(o)
  BY <1>1, <1>4, ContentsOf DEF Store!Create, ContentOf
<1>6. Saved => Saved'
  BY <1>1, <1>2 DEF Saved, Loaded
<1> QED
  BY <1>2, <1>5, <1>6 DEF SavedStep, StoreStep, Store!Next, SInv, CleanIsSaved, Saved

LEMMA JelibfSaved == ASSUME SInv, Jelibf PROVE SavedStep
<1>1. /\ \A p \in Objects :
            /\ seg'[p] = IF p \in Volatile \/ seg[p] = "none" THEN "none" ELSE "out"
            /\ img'[p] = IF p \in Volatile THEN NoImage
                         ELSE IF p \in Loaded /\ dirty[p] THEN val[p] ELSE img[p]
      /\ writers' = {} /\ phase # "closed" /\ phase' = "closed"
  BY DEF Jelibf, Exists, Written, Lose, SInv, IInv, TypeOK
<1>2. Loaded' = {}
  BY <1>1 DEF Loaded
<1>3. NoneNoImage' /\ ClosedUnloaded' /\ Saved'
  BY <1>1, <1>2 DEF SInv, NoneNoImage, ClosedUnloaded, Saved, Loaded
<1>4. ASSUME lgd = desmaLen PROVE StoreStep
  <2>1. Saved /\ NoImage \notin Values /\ \A p \in Objects : val[p] \in Values
    BY <1>4, JeveuxAssumption DEF SInv, CleanIsSaved, Saved, IInv, TypeOK
  <2>2. \A p \in Objects : ContentOf(p)' = IF p \in Volatile THEN Absent ELSE ContentOf(p)
    BY <1>1, <1>2, <2>1 DEF ContentOf, Saved, Loaded
  <2>3. Store!Close
    BY <1>1, <2>2, ContentsOf DEF Store!Close
  <2> QED
    BY <2>3 DEF StoreStep, Store!Next
<1> QED
  BY <1>3, <1>4 DEF SavedStep

LEMMA PoursuiteSaved == ASSUME SInv, Poursuite PROVE SavedStep
<1>1. /\ UNCHANGED segments /\ writers' = writers
      /\ phase = "closed" /\ phase' = "idle" /\ Loaded = {} /\ Loaded' = {}
  BY DEF Poursuite, claims, segments, SInv, ClosedUnloaded, Loaded
<1>2. NoneNoImage' /\ ClosedUnloaded' /\ Saved'
  BY <1>1 DEF SInv, segments, NoneNoImage, ClosedUnloaded, Saved
<1>3. Contents' = Contents
  BY <1>1 DEF segments, Contents
<1>4. Store!Reopen
  BY <1>1, <1>3 DEF Store!Reopen
<1> QED
  BY <1>2, <1>4 DEF SavedStep, StoreStep, Store!Next

LEMMA JedemaSaved ==
    ASSUME SInv, phase \in {"op", "unwind"}, ipgc > 0, JedemaBody, phase' = phase
    PROVE  SavedStep
<1>1. writers' \subseteq writers
  BY DEF JedemaBody, Disclaim
<1>2. Marked \subseteq Objects /\ \A p \in Marked : seg[p] = "U" /\ mark[p] = ipgc
  BY MarkedAreOfLevel DEF SInv, IInv, MarksOK, SlotsAgree
<1>3. CASE ~idebug
  <2>1. /\ \A p \in Objects : seg'[p] = seg[p] \/ (seg[p] = "U" /\ seg'[p] = "X")
        /\ UNCHANGED <<dirty, val, img>>
    BY <1>2, <1>3 DEF JedemaBody
  <2>2. PICK S \in SUBSET Objects : S = {}
    OBVIOUS
  <2>3. \A p \in Objects :
           /\ p \in S => seg'[p] = "none" /\ img'[p] = NoImage
           /\ p \notin S => /\ img'[p] = img[p] /\ val'[p] = val[p]
                            /\ dirty'[p] = dirty[p]
                            /\ seg'[p] = seg[p] \/ (seg[p] = "U" /\ seg'[p] = "X")
    BY <2>1, <2>2
  <2>4. writers' \subseteq writers \ S
    BY <1>1, <2>2
  <2>5. phase # "closed" /\ phase' # "closed"
    OBVIOUS
  <2> QED
    BY <2>3, <2>4, <2>5, DestroyingStep
<1>4. CASE idebug
  <2>1. {p \in Marked : mark[p] = ipgc} \in SUBSET Loaded
    BY <1>2 DEF Loaded
  <2> QED
    BY <2>1, <1>1, <1>4, UnloadingStep DEF JedemaBody
<1> QED
  BY <1>3, <1>4

LEMMA SupervAfterSaved ==
    ASSUME SInv, SupervAfter, phase # "closed", phase' # "closed" PROVE SavedStep
<1>1. \A p \in Objects :
         /\ p \in Volatile => seg'[p] = "none" /\ img'[p] = NoImage
         /\ p \notin Volatile => /\ img'[p] = img[p] /\ val'[p] = val[p]
                                 /\ dirty'[p] = dirty[p]
                                 /\ seg'[p] = seg[p] \/ (seg[p] = "U" /\ seg'[p] = "X")
  BY DEF SupervAfter, Permanent, Cleared, Clean, SInv, IInv, TypeOK
<1>2. writers' \subseteq writers \ Volatile
  BY DEF SupervAfter
<1>3. Volatile \in SUBSET Objects
  BY JeveuxAssumption
<1> QED
  BY <1>1, <1>2, <1>3, DestroyingStep

LEMMA EraseSaved ==
    ASSUME SInv, NEW S \in SUBSET Objects, Erase(S), phase # "closed", phase' # "closed"
    PROVE  SavedStep
<1>1. \A p \in Objects :
         /\ p \in S => seg'[p] = "none" /\ img'[p] = NoImage
         /\ p \notin S => /\ img'[p] = img[p] /\ val'[p] = val[p]
                          /\ dirty'[p] = dirty[p] /\ seg'[p] = seg[p]
  BY DEF Erase, Cleared, Clean, SInv, IInv, TypeOK
<1>2. writers' \subseteq writers \ S
  BY DEF Erase, Lose
<1> QED
  BY <1>1, <1>2, DestroyingStep

LEMMA JelibeSaved == ASSUME SInv, NEW o \in Objects, Jelibe(o) PROVE SavedStep
<1>1. phase # "closed" /\ phase' # "closed"
  BY DEF Jelibe, Fatal
<1>2. writers' \subseteq writers
  BY DEF Jelibe, Libere, Fatal, Disclaim
<1>3. CASE UNCHANGED segments
  BY <1>1, <1>2, <1>3, SameSegments
<1>4. CASE Unload({o}) /\ seg[o] \in {"X", "U"}
  <2>1. {o} \in SUBSET Loaded
    BY <1>4 DEF Loaded
  <2> QED
    BY <1>1, <1>2, <1>4, <2>1, UnloadingStep
<1>5. CASE seg[o] = "U" /\ seg' = [seg EXCEPT ![o] = "X"] /\ UNCHANGED <<dirty, val, img>>
  <2>1. PICK S \in SUBSET Objects : S = {}
    OBVIOUS
  <2>2. \A p \in Objects :
           /\ p \in S => seg'[p] = "none" /\ img'[p] = NoImage
           /\ p \notin S => /\ img'[p] = img[p] /\ val'[p] = val[p]
                            /\ dirty'[p] = dirty[p]
                            /\ seg'[p] = seg[p] \/ (seg[p] = "U" /\ seg'[p] = "X")
    BY <1>5, <2>1 DEF SInv, IInv, TypeOK
  <2>3. writers' \subseteq writers \ S
    BY <1>2, <2>1
  <2> QED
    BY <1>1, <2>2, <2>3, DestroyingStep
<1> QED
  BY <1>3, <1>4, <1>5 DEF Jelibe, segments

LEMMA JeimpoSaved == ASSUME SInv, NEW o \in Objects, Jeimpo(o) PROVE SavedStep
<1>1. PICK evicted \in Evictions :
         /\ seg' = [Freed(evicted) EXCEPT ![o] = "X"]
         /\ val' = [Cleared(evicted) EXCEPT ![o] = img[o]]
         /\ dirty' = Clean(evicted)
         /\ img' = Written(evicted)
  BY DEF Jeimpo
<1>2. evicted \in SUBSET Loaded /\ o \notin Loaded /\ o \notin evicted
  BY EvictionsAreLoaded DEF Jeimpo, Loaded
<1>3. /\ Exists(o) /\ HasContent(o, "L") /\ Content(o) = img[o]
      /\ phase # "closed" /\ phase' # "closed" /\ writers' = writers
  BY DEF Jeimpo, Exists, HasContent, Content, claims
<1>4. /\ \A p \in Objects : p # o => dirty'[p] = Clean(evicted)[p]
      /\ dirty'[o] = dirty[o]
  BY <1>1, <1>2 DEF Clean, SInv, IInv, TypeOK
<1> QED
  BY <1>1, <1>2, <1>3, <1>4, BringingStep

(* jemarq, with or without room for one more mark.                          *)
LEMMA RoomSaved ==
    ASSUME SInv, RoomForMark \/ NoRoomForMark, UNCHANGED claims,
           phase # "closed", phase' # "closed"
    PROVE  SavedStep
<1>1. \/ UNCHANGED segments
      \/ \E evicted \in Evictions : Unload(evicted)
  BY DEF RoomForMark, NoRoomForMark
<1>2. writers' \subseteq writers
  BY DEF claims
<1>3. CASE UNCHANGED segments
  BY <1>2, <1>3, SameSegments
<1>4. ASSUME NEW evicted \in Evictions, Unload(evicted) PROVE SavedStep
  BY <1>2, <1>4, EvictionsAreLoaded, UnloadingStep
<1> QED
  BY <1>1, <1>3, <1>4

LEMMA FatalSaved ==
    ASSUME SInv, Fatal, UNCHANGED segments, phase # "closed" PROVE SavedStep
BY SameSegments DEF Fatal, Disclaim

(* Every step of Jeveux is one of JvStore.                                  *)
LEMMA NextSaved == ASSUME SInv, [Next]_vars PROVE SavedStep
<1>1. ASSUME NEW o \in Objects, Jecreo(o) PROVE SavedStep
  BY <1>1, JecreoSaved, FatalSaved DEF Jecreo, Running
<1>2. ASSUME NEW o \in Objects, NEW cel \in {"L", "E"}, Jeveuo(o, cel) \/ Jeveut(o, cel)
      PROVE  SavedStep
  BY <1>2, BringSaved DEF Jeveuo, Jeveut, Running
<1>3. ASSUME NEW o \in Objects, NEW cel, JeveuoRefused(o, cel) PROVE SavedStep
  BY <1>3, FatalSaved DEF JeveuoRefused, Running
<1>4. ASSUME NEW evicted \in Evictions, Unload(evicted), writers' \subseteq writers,
             phase # "closed", phase' # "closed"
      PROVE  SavedStep
  BY <1>4, EvictionsAreLoaded, UnloadingStep
<1>5. ASSUME NEW o \in Objects, NEW cel, JeveuoNoMemory(o, cel) PROVE SavedStep
  BY <1>4, <1>5 DEF JeveuoNoMemory, Running, Fatal, Disclaim
<1>6. CASE Agrandir
  BY <1>4, <1>6 DEF Agrandir, claims
<1>7. CASE AgrandirNoMemory
  BY <1>4, <1>7 DEF AgrandirNoMemory, Fatal, Disclaim
<1>8. CASE Jemarq
  <2>1. phase # "closed" /\ phase' # "closed"
    BY <1>8 DEF Jemarq, NoRoomForMark
  <2> QED
    BY <1>8, <2>1, RoomSaved DEF Jemarq
<1>9. CASE Jedema
  BY <1>9, JedemaSaved, FatalSaved DEF Jedema
<1>10. ASSUME NEW o \in Objects, Jelibd(o) PROVE SavedStep
  <2>1. {o} \in SUBSET Loaded
    BY <1>10 DEF Jelibd, Loaded
  <2> QED
    BY <1>10, <2>1, UnloadingStep DEF Jelibd, claims
<1>11. CASE Jjldyn
  BY <1>4, <1>11 DEF Jjldyn, Evictions, claims
<1>12. ASSUME NEW o \in Objects, Jedetr(o) PROVE SavedStep
  BY <1>12, EraseSaved DEF Jedetr, Running
<1>13. CASE StartCommand
  BY <1>13, SameSegments DEF StartCommand, claims
<1>14. CASE EndCommand
  BY <1>14, SupervAfterSaved, FatalSaved DEF EndCommand
<1>15. CASE RaiseError
  BY <1>15, FatalSaved DEF RaiseError, Running
<1>16. CASE Utmess
  <2>1. phase # "closed" /\ phase' # "closed"
    BY <1>16 DEF Utmess, NoRoomForMark
  <2> QED
    BY <1>16, <2>1, RoomSaved DEF Utmess
<1>21. CASE Nettoyer \/ BackToPython
  BY <1>21, SupervAfterSaved DEF Nettoyer, BackToPython
<1>17. CASE Jedetc
  <2>1. PICK S \in SUBSET {p \in Objects : Exists(p)} : Erase(S)
    BY <1>17 DEF Jedetc
  <2> QED
    BY <1>17, <2>1, EraseSaved DEF Jedetc
<1>18. CASE Unwind
  BY <1>18, JedemaSaved, SameSegments DEF Unwind, claims
<1>20. CASE Jedbg2
  BY <1>20, SameSegments DEF Jedbg2, claims
<1>19. CASE UNCHANGED vars
  <2>1. \A p \in Objects : ContentOf(p)' = ContentOf(p)
    BY <1>19 DEF vars, ContentOf, Loaded
  <2>2. StoreStep
    BY <1>19, <2>1, StutterStep DEF vars
  <2> QED
    BY <1>19, <2>2
       DEF vars, SavedStep, SInv, NoneNoImage, ClosedUnloaded, CleanIsSaved, Saved, Loaded
<1> QED
  BY <1>1, <1>2, <1>3, <1>5, <1>6, <1>7, <1>8, <1>9, <1>10, <1>11, <1>12, <1>13, <1>14,
     <1>15, <1>16, <1>17, <1>18, <1>19, <1>20, <1>21, EcrireSaved, JelibeSaved, JeimpoSaved,
     JelibfSaved, PoursuiteSaved
     DEF Next, ErrorPath, Stopped

(* The two lengths of DESMA agree again only when the bases are reopened.   *)
LEMMA LengthsStep ==
    ASSUME SInv, [Next]_vars, lgd' = desmaLen', lgd # desmaLen PROVE Saved'
<1>1. phase = "agrandir" => lgd = desmaLen
  BY DEF SInv, IInv, PendingOK
<1>2. phase # "agrandir" /\ ~(UNCHANGED <<lgd, desmaLen>>)
  BY <1>1
<1>3. ASSUME NEW o \in Objects, NEW n, NEW cel, Bring(o, n, cel)
      PROVE  UNCHANGED <<lgd, desmaLen>>
  BY <1>3 DEF Bring, Jjecrs
<1>4. ASSUME NEW o \in Objects, NEW cel,
             \/ Jeveuo(o, cel) \/ Jeveut(o, cel) \/ JeveuoRefused(o, cel)
             \/ JeveuoNoMemory(o, cel)
      PROVE  UNCHANGED <<lgd, desmaLen>>
  BY <1>3, <1>4 DEF Jeveuo, Jeveut, JeveuoRefused, JeveuoNoMemory, table
<1>5. ASSUME NEW o \in Objects,
             \/ Jecreo(o) \/ Jelibe(o) \/ Jelibd(o) \/ Jeimpo(o) \/ Jedetr(o)
             \/ \E v \in Values : Ecrire(o, v)
      PROVE  UNCHANGED <<lgd, desmaLen>>
  BY <1>5 DEF Jecreo, Jelibe, Jelibd, Jeimpo, Jedetr, Ecrire, table
<1>6. ~(Jemarq \/ Jedema \/ Jjldyn \/ Jedbg2 \/ StartCommand \/ EndCommand \/ RaiseError)
  BY <1>2 DEF Jemarq, Jedema, Jjldyn, Jedbg2, StartCommand, EndCommand, RaiseError, table
<1>7. ~(ErrorPath \/ Jelibf \/ Stopped \/ UNCHANGED vars)
  BY <1>2 DEF ErrorPath, Agrandir, AgrandirNoMemory, Utmess, Nettoyer, Jedetc, Unwind,
     BackToPython, Jelibf, Stopped, vars, table
<1>8. Poursuite
  BY <1>2, <1>4, <1>5, <1>6, <1>7 DEF Next
<1> QED
  BY <1>8 DEF Poursuite, segments, SInv, ClosedUnloaded, Saved, Loaded

LEMMA InitSInv == Init => SInv
<1> SUFFICES ASSUME Init PROVE SInv
  OBVIOUS
<1>1. IInv
  BY InitIInv
<1>2. NoneNoImage /\ ClosedUnloaded /\ CleanIsSaved
  BY DEF Init, NoneNoImage, ClosedUnloaded, CleanIsSaved, Loaded
<1> QED
  BY <1>1, <1>2 DEF SInv

LEMMA NextKeepsSInv == SInv /\ [Next]_vars => SInv'
<1> SUFFICES ASSUME SInv, [Next]_vars PROVE SInv'
  OBVIOUS
<1>1. IInv'
  BY NextKeepsIInv DEF SInv
<1>2. SavedStep
  BY NextSaved
<1>3. CleanIsSaved'
  BY <1>2, LengthsStep DEF SavedStep, CleanIsSaved, Saved
<1> QED
  BY <1>1, <1>2, <1>3 DEF SavedStep, SInv

THEOREM StoreInvariant == Spec => []SInv
BY InitSInv, NextKeepsSInv, PTL DEF Spec

(* A segment jjldyn may free without writing is the same on disk.           *)
THEOREM CleanSegmentsAreSaved == Spec => []CleanIsSaved
<1>1. SInv => CleanIsSaved
  BY DEF SInv
<1> QED
  BY <1>1, StoreInvariant, PTL

(* As long as DESMA is never cut short by a failed enlargement, the memory  *)
(* manager is a store: what a command reads is what was last written,       *)
(* whatever was unloaded, reloaded, released or closed in between.          *)
THEOREM ImplementsStore == Spec /\ [](lgd = desmaLen) => StoreSpec
<1>1. Init => Store!Init
  BY DEF Init, Store!Init, Contents
<1>2. SInv /\ lgd = desmaLen /\ [Next]_vars => StoreStep
  BY NextSaved DEF SavedStep
<1> QED
  BY <1>1, <1>2, StoreInvariant, PTL DEF Spec, StoreSpec, Store!Spec, StoreStep

(* No allocation takes away a segment in use: it leaves memory by its       *)
(* destruction, by the closing of the bases, or in debug mode.              *)
THEOREM InUseIsNotEvicted == Spec => InUseStays
<1> DEFINE Stays == \A o \in Objects :
                       (seg[o] = "U" /\ seg'[o] = "out") => idebug \/ phase' = "closed"
<1>1. ASSUME IInv, [Next]_vars PROVE Stays
  <2>1. ASSUME NEW S \in Evictions, Unload(S) PROVE Stays
    BY <1>1, <2>1, EvictionsAreIdle, UnloadKeepsUsed DEF IInv
  <2>2. ASSUME NEW o \in Objects, NEW n, NEW cel, Bring(o, n, cel) PROVE Stays
    BY <1>1, <2>2, BringSegments DEF IInv
  <2>3. ASSUME NEW o \in Objects, NEW cel,
               \/ Jeveuo(o, cel) \/ Jeveut(o, cel) \/ JeveuoRefused(o, cel)
               \/ JeveuoNoMemory(o, cel)
        PROVE  Stays
    BY <2>1, <2>2, <2>3 DEF Jeveuo, Jeveut, JeveuoRefused, JeveuoNoMemory, segments
  <2>4. ASSUME UNCHANGED segments PROVE Stays
    BY <2>4 DEF segments
  <2>5. ASSUME NEW o \in Objects, Jecreo(o) \/ Jedetr(o) \/ \E v \in Values : Ecrire(o, v)
        PROVE  Stays
    BY <1>1, <2>5 DEF Jecreo, Jedetr, Ecrire, Erase, IInv, TypeOK, segments, Exists
  <2>6. ASSUME NEW o \in Objects, Jelibd(o) \/ Jelibe(o) PROVE Stays
    BY <1>1, <2>6 DEF Jelibd, Jelibe, Unload, Freed, IInv, TypeOK, segments
  <2>7. ASSUME NEW o \in Objects, Jeimpo(o) PROVE Stays
    <3>1. PICK S \in Evictions : seg' = [Freed(S) EXCEPT ![o] = "X"]
      BY <2>7 DEF Jeimpo
    <3> QED
      BY <1>1, <3>1, EvictionsAreIdle DEF Freed, IInv, TypeOK
  <2>8. ASSUME SupervAfter PROVE Stays
    BY <2>8 DEF SupervAfter
  <2>9. ASSUME JedemaBody PROVE Stays
    BY <2>9 DEF JedemaBody
  <2>15. CASE Jemarq \/ Utmess
    <3>1. \/ UNCHANGED segments
          \/ \E evicted \in Evictions : Unload(evicted)
      BY <2>15 DEF Jemarq, Utmess, RoomForMark, NoRoomForMark
    <3> QED
      BY <2>1, <2>4, <3>1
  <2>10. CASE Jedema \/ Jjldyn \/ Jedbg2 \/ StartCommand \/ EndCommand \/ RaiseError
    BY <2>1, <2>4, <2>8, <2>9, <2>10
       DEF Jedema, Jjldyn, Jedbg2, StartCommand, EndCommand, RaiseError, Evictions
  <2>11. CASE Nettoyer \/ Unwind \/ BackToPython \/ Jelibf \/ Poursuite
    BY <2>4, <2>8, <2>9, <2>11 DEF Nettoyer, Unwind, BackToPython, Jelibf, Poursuite
  <2>12. CASE Jedetc
    BY <2>12 DEF Jedetc, Erase
  <2>13. CASE Agrandir \/ AgrandirNoMemory
    BY <2>1, <2>13 DEF Agrandir, AgrandirNoMemory
  <2>14. CASE UNCHANGED vars
    BY <2>4, <2>14 DEF vars, segments
  <2> QED
    BY <1>1, <2>3, <2>5, <2>6, <2>7, <2>10, <2>11, <2>12, <2>13, <2>14, <2>15
       DEF Next, ErrorPath, Stopped
<1>2. IInv /\ [Next]_vars => [Stays]_vars
  BY <1>1
<1> QED
  BY <1>2, InvariantHolds, PTL DEF Spec, InUseStays
=============================================================================
