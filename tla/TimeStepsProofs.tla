-------------------------- MODULE TimeStepsProofs --------------------------
(***************************************************************************)
(* Proofs about TimeSteps, for any studies (lists of instants, occurrences *)
(* of ECHEC) and any numbers of iterations: each step starts from the last *)
(* accepted one, what is accepted has converged, what is stored is what    *)
(* was accepted, and no instant that the user asked for is passed over.    *)
(***************************************************************************)
EXTENDS TimeSteps, WellFoundedInduction, SequenceTheorems, TLAPS

-----------------------------------------------------------------------------
(* The inductive invariant, by parts.                                      *)

Fields == [inst : Nat, from : Nat, how : {"conv", "open"}]
Lists  == [ditr : Seq(Nat), dini : Seq(Nat), dtm : Nat, itersup : BOOLEAN, piless : {1, 2}]
Phases == {"pas", "iteration", "correction", "temps", "newton", "fixe", "inst", "calc",
           "arret", "plantage", "fin"}
States == {"CONT", "CONV", "EVEN", "ERRE", "STOP"}

Typed == /\ study \in Studies
         /\ moi \in Fields /\ plu \in Fields
         /\ accepted \in Seq(Fields) /\ archive \in Seq([inst : Nat, fields : Fields])
         /\ pc \in Phases

(* The loops: their states, the active events and the counters.            *)
Loop == /\ etat \in [Loops -> States] /\ flags \subseteq Events
        /\ echec \in 0..Len(study.echec)
        /\ iterat \in 0..NbIter /\ tours \in 0..MaxTours

(* A list d of instants when the step n is computed: the step is not empty *)
(* and no instant of the user's list is inside it.                         *)
ListOK(d, n) ==
    /\ d \in Lists /\ d.dtm > 0 /\ n \in 1..Len(d.ditr) - 1
    /\ d.ditr[n] < d.ditr[n + 1]
    /\ d.ditr[n + 1] <= Last(study.list)
    /\ \A i \in DOMAIN study.list :
          study.list[i] <= d.ditr[n] \/ study.list[i] >= d.ditr[n + 1]
    /\ AUTO /\ n = Len(d.ditr) - 1 => d.ditr[n + 1] = Last(study.list)
    /\ ~AUTO => /\ DOMAIN d.dini = DOMAIN d.ditr
                /\ \A i \in 1..Len(d.ditr) - 1 : d.ditr[i] < d.ditr[i + 1]
                /\ \A i \in DOMAIN study.list : \E k \in DOMAIN d.ditr :
                      d.ditr[k] = study.list[i]
                /\ d.ditr[Len(d.ditr)] = Last(study.list)

(* The step numins is not accepted, and will perhaps be done again.        *)
Before == pc # "fin" /\ ~(pc = "arret" /\ etat["CALC"] = "STOP")

Past ==
    /\ Len(accepted) >= 1 /\ Len(accepted) <= Len(sddisc.ditr)
    /\ Before => moi = Last(accepted) /\ numins = Len(accepted)
    /\ \A i \in DOMAIN accepted :
          /\ accepted[i].inst = sddisc.ditr[i]
          /\ i > 1 => /\ accepted[i].from = accepted[i - 1].inst
                      /\ accepted[i].inst > accepted[i - 1].inst
    /\ \A i \in DOMAIN study.list :
          study.list[i] <= Last(accepted).inst => study.list[i] \in AcceptedAt

(* The fields of the end of the step are those of this try.                *)
Fresh == plu.inst = At(numins) /\ plu.from = moi.inst
Computed == \/ pc \in {"correction", "temps", "newton", "calc"}
            \/ pc = "fixe" /\ etat["NEWT"] # "ERRE"
            \/ pc = "inst" /\ etat["FIXE"] = "CONV"
Tries ==
    /\ Computed => Fresh
    /\ pc \in {"temps", "newton", "fixe", "inst", "calc"} /\ etat["NEWT"] = "CONV" =>
          /\ etat["RESI"] = "CONV"
          /\ study.arret => plu.how = "conv"
    /\ (pc = "inst" /\ etat["FIXE"] = "CONV") \/ pc = "calc" => etat["NEWT"] = "CONV"
    /\ pc \in {"iteration", "correction", "temps", "newton", "fixe", "inst"} =>
          "CRIT_STAB" \notin flags
    /\ pc \in {"temps", "newton"} /\ etat["NEWT"] = "EVEN" =>
          echec \in DOMAIN study.echec /\ study.echec[echec].evt # "INSTABILITE"
    /\ pc = "correction" => iterat < NbIter /\ etat["NEWT"] = "CONT"

Converged == study.arret => \A i \in DOMAIN accepted : accepted[i].how = "conv"

Kept ==
    /\ Len(archive) >= 1
    /\ \A i \in DOMAIN archive : /\ archive[i].fields.inst = archive[i].inst
                                 /\ archive[i].fields \in ToSet(accepted)
    /\ \A i \in 1..Len(archive) - 1 : archive[i].inst < archive[i + 1].inst
    /\ Before => /\ Last(archive).inst <= At(numins - 1)
                 /\ numins > 1 /\ (numins - 1) % study.pasarch = 0 =>
                       Len(archive) > 1 /\ Last(archive).inst = At(numins - 1)

Ended ==
    /\ etat["CALC"] = "STOP" => /\ pc \in {"arret", "fin"} /\ Len(archive) > 1
                                /\ Last(archive).inst = At(numins)
    /\ etat["CALC"] = "CONV" => /\ pc = "fin" /\ Last(accepted).inst = Last(study.list)
                                /\ Last(archive).fields = Last(accepted)

IInv == /\ Typed /\ Loop /\ ListOK(sddisc, numins) /\ Past /\ Tries /\ Converged
        /\ Kept /\ Ended

-----------------------------------------------------------------------------
(* Numbers and sequences.                                                  *)

(* A set of natural numbers has a first one.                               *)
LEMMA FirstNat ==
    ASSUME NEW S \in SUBSET Nat, S # {}
    PROVE  Min(S) \in S /\ \A y \in S : Min(S) <= y
<1>1. PICK x \in S : \A y \in S : ~(<<y, x>> \in OpToRel(<, Nat))
    BY NatLessThanWellFounded, WFMin
<1>2. \A y \in S : x <= y
  <2>1. SUFFICES ASSUME NEW y \in S, y < x PROVE FALSE
      OBVIOUS
  <2>2. <<y, x>> \in OpToRel(<, Nat)
      BY <2>1 DEF OpToRel
  <2> QED BY <1>1, <2>2
<1> QED BY <1>2 DEF Min

(* What increases from each place to the next does so from any to any.     *)
LEMMA Increasing ==
    ASSUME NEW n \in Nat, NEW s, \A i \in 1..n : s[i] \in Int,
           \A i \in 1..n - 1 : s[i] < s[i + 1]
    PROVE  \A i, j \in 1..n : i < j => s[i] < s[j]
<1> DEFINE B == {j \in 1..n : \E i \in 1..n : i < j /\ ~(s[i] < s[j])}
<1>1. SUFFICES ASSUME B # {} PROVE FALSE
    OBVIOUS
<1>2. B \in SUBSET Nat
    OBVIOUS
<1> DEFINE j == Min(B)
<1>3. j \in B /\ \A y \in B : j <= y
  <2> HIDE DEF B
  <2> QED BY <1>1, <1>2, FirstNat
<1> HIDE DEF j
<1>4. PICK i \in 1..n : i < j /\ ~(s[i] < s[j])
    BY <1>3
<1>5. j \in 1..n /\ j - 1 \in 1..n - 1 /\ j - 1 \in 1..n /\ j - 1 + 1 = j
    BY <1>3, <1>4
<1>6. s[j - 1] < s[j]
    BY <1>5
<1>7. j - 1 \notin B
    BY <1>3, <1>5
<1>8. i = j - 1 \/ s[i] < s[j - 1]
    BY <1>4, <1>5, <1>7
<1> QED BY <1>4, <1>5, <1>6, <1>8

LEMMA Multiple ==
    ASSUME NEW n \in Nat \ {0}, NEW m \in Nat
    PROVE  (n * m) \div n = m
OBVIOUS

LEMMA QuotientTyped ==
    ASSUME NEW n \in Nat \ {0}, NEW m \in Int
    PROVE  m \div n \in Int
OBVIOUS

-----------------------------------------------------------------------------
(* The list of instants.                                                   *)

LEMMA Parameters ==
    /\ IterMaxi \in Nat \ {0} /\ NbIter \in Nat /\ IterMaxi < NbIter
    /\ PasMini \in Nat \ {0} /\ MaxTours \in Nat
BY StudyAssumption

(* The list that the user gives, and what fails.                           *)
LEMMA StudyFacts ==
    ASSUME study \in Studies
    PROVE  /\ study.list \in Seq(Nat) /\ Len(study.list) > 1
           /\ \A i \in 1..Len(study.list) - 1 : study.list[i] < study.list[i + 1]
           /\ study.pasmaxi \in Nat \ {0} /\ study.pasarch \in Nat \ {0}
           /\ study.echec \in Seq(Occurrences)
           /\ \E i \in DOMAIN study.echec : study.echec[i].evt = "ERREUR"
           /\ \A i \in DOMAIN study.echec :
                 study.echec[i].act = "CONTINUE" => study.echec[i].evt = "INSTABILITE"
           /\ study.arret \in BOOLEAN /\ study.methode \in {"MANUEL", "AUTO"}
BY StudyAssumption

LEMMA ListFacts ==
    ASSUME NEW d, NEW n, ListOK(d, n)
    PROVE  /\ d.ditr \in Seq(Nat) /\ d.dini \in Seq(Nat) /\ Len(d.ditr) \in Nat
           /\ DOMAIN d.ditr = 1..Len(d.ditr) /\ n \in Nat /\ n >= 1 /\ n + 1 <= Len(d.ditr)
           /\ n \in DOMAIN d.ditr /\ n + 1 \in DOMAIN d.ditr
           /\ d.ditr[n] \in Nat /\ d.ditr[n + 1] \in Nat
           /\ d.dtm \in Nat /\ d.dtm > 0
<1>1. d \in Lists /\ n \in 1..Len(d.ditr) - 1 /\ d.dtm > 0
    BY DEF ListOK
<1>2. d.ditr \in Seq(Nat) /\ d.dini \in Seq(Nat) /\ d.dtm \in Nat
    BY <1>1 DEF Lists
<1>3. Len(d.ditr) \in Nat /\ DOMAIN d.ditr = 1..Len(d.ditr)
    BY <1>2
<1>4. n \in Nat /\ n >= 1 /\ n + 1 <= Len(d.ditr)
    BY <1>1, <1>3
<1>5. n \in DOMAIN d.ditr /\ n + 1 \in DOMAIN d.ditr
    BY <1>3, <1>4
<1> QED BY <1>1, <1>2, <1>3, <1>4, <1>5

(* The instants of a cut, when it is accepted: they go up from that of the *)
(* beginning of the step, excluded, to that of its end.                    *)
Between(s, a, b) ==
    /\ s \in Seq(Nat) /\ Len(s) > 1 /\ a < s[1] /\ s[1] < b
    /\ \A i \in 1..Len(s) - 1 : s[i] < s[i + 1]
    /\ s[Len(s)] = b

LEMMA CutIsBetween ==
    ASSUME study \in Studies, ListOK(sddisc, numins), NEW f \in Occurrences,
           NEW s \in NewInstants(f), CanCut(f, s)
    PROVE  Between(s, At(numins - 1), At(numins))
<1> DEFINE a == At(numins - 1)
           b == At(numins)
<1>1. a \in Nat /\ b \in Nat /\ a < b
  <2>1. numins - 1 + 1 = numins
      BY ListFacts
  <2> QED BY <2>1, ListFacts DEF ListOK, At
<1>2. f.pas \in Nat /\ f.pas > 1 /\ f.mini \in Nat /\ f.mini > 0
    BY DEF Occurrences
<1> HIDE DEF a, b
<1>3. \E n \in Nat : n > 1 /\ DOMAIN s = 1..n /\ Len(s) = n /\ s[n] = b
                     /\ \A i \in 1..n : s[i] \in Int
  <2>1. ASSUME NEW n \in Nat \ {0, 1}, s = Uniform(a, b - a, n)
        PROVE  /\ DOMAIN s = 1..n /\ Len(s) = n /\ s[n] = b
               /\ \A i \in 1..n : s[i] \in Int
    <3>1. s = [i \in 1..n |-> a + (i * (b - a)) \div n]
        BY <2>1 DEF Uniform
    <3>2. (n * (b - a)) \div n = b - a
        BY <1>1, Multiple
    <3>3. s[n] = b
        BY <1>1, <3>1, <3>2
    <3>4. \A i \in 1..n : (i * (b - a)) \div n \in Int
        BY <1>1, QuotientTyped
    <3>5. \A i \in 1..n : s[i] \in Int
        BY <1>1, <3>1, <3>4
    <3> QED BY <3>1, <3>3, <3>5
  <2>2. ASSUME NEW n \in 2..4, NEW first \in Nat, first <= b - a,
               s = Progressive(a, b - a, first, n)
        PROVE  /\ DOMAIN s = 1..n /\ Len(s) = n /\ s[n] = b
               /\ \A i \in 1..n : s[i] \in Int
    <3>1. s = [i \in 1..n |-> a + first + ((i - 1) * (b - a - first)) \div (n - 1)]
        BY <2>2 DEF Progressive
    <3>2. ((n - 1) * (b - a - first)) \div (n - 1) = b - a - first
        BY <1>1, <2>2, Multiple
    <3>3. s[n] = b
      <4>1. n \in 1..n /\ n \in Nat
          BY <2>2
      <4>2. s[n] = a + first + ((n - 1) * (b - a - first)) \div (n - 1)
          BY <3>1, <4>1
      <4>3. s[n] = a + first + (b - a - first)
          BY <3>2, <4>2
      <4> QED BY <1>1, <4>3
    <3>4. \A i \in 1..n : ((i - 1) * (b - a - first)) \div (n - 1) \in Int
        BY <1>1, <2>2, QuotientTyped
    <3>5. \A i \in 1..n : s[i] \in Int
        BY <1>1, <2>2, <3>1, <3>4
    <3> QED BY <3>1, <3>3, <3>5
  <2>3. \/ s = Uniform(a, b - a, f.pas)
        \/ s = Uniform(a, b - a, 4)
        \/ \E p \in (1..b - a) \X (2..4) : s = Progressive(a, b - a, p[1], p[2])
      BY DEF NewInstants, a, b
  <2>4. CASE s = Uniform(a, b - a, f.pas)
      BY <1>2, <2>1, <2>4
  <2>5. CASE s = Uniform(a, b - a, 4)
      BY <2>1, <2>5
  <2>6. CASE \E p \in (1..b - a) \X (2..4) : s = Progressive(a, b - a, p[1], p[2])
    <3>1. PICK p \in (1..b - a) \X (2..4) : s = Progressive(a, b - a, p[1], p[2])
        BY <2>6
    <3>2. p[1] \in Nat /\ p[1] <= b - a /\ p[2] \in 2..4
        BY <1>1
    <3>3. PICK n \in 2..4 : n = p[2]
        BY <3>2
    <3>4. s = Progressive(a, b - a, p[1], n)
        BY <3>1, <3>3
    <3>5. DOMAIN s = 1..n /\ Len(s) = n /\ s[n] = b /\ \A i \in 1..n : s[i] \in Int
        BY <2>2, <3>2, <3>4
    <3> QED BY <3>5
  <2> QED BY <2>3, <2>4, <2>5, <2>6
<1>4. PICK n \in Nat : n > 1 /\ DOMAIN s = 1..n /\ Len(s) = n /\ s[n] = b
                       /\ \A i \in 1..n : s[i] \in Int
    BY <1>3
<1>5. \A i \in 1..n : s[i] - (IF i = 1 THEN a ELSE s[i - 1]) >= f.mini
    BY <1>4 DEF CanCut, Steps, a
<1>6. a < s[1]
    BY <1>1, <1>2, <1>4, <1>5
<1>7. \A i \in 1..n - 1 : s[i] < s[i + 1]
  <2>1. ASSUME NEW i \in 1..n - 1 PROVE s[i] < s[i + 1]
    <3>1. i \in 1..n /\ i + 1 \in 1..n /\ i + 1 # 1 /\ i + 1 - 1 = i
        BY <1>4
    <3>2. s[i + 1] - s[i] >= f.mini
        BY <1>5, <3>1
    <3> QED BY <1>2, <1>4, <3>1, <3>2
  <2> QED BY <2>1
<1>8. \A i, j \in 1..n : i < j => s[i] < s[j]
    BY <1>4, <1>7, Increasing
<1>9. s \in Seq(Nat)
  <2>1. \A i \in 1..n : s[i] \in Nat
    <3>1. ASSUME NEW i \in 1..n PROVE s[i] >= s[1]
        BY <1>4, <1>8
    <3> QED BY <1>1, <1>4, <1>6, <3>1
  <2>2. s = [i \in 1..n |-> s[i]]
    <3>1. CASE f.subd = "MANUEL" \/ f.subd # "MANUEL"
        BY <1>4 DEF NewInstants, Uniform, Progressive
    <3> QED BY <3>1
  <2> QED BY <2>1, <2>2
<1>10. s[1] < b
    BY <1>4, <1>8
<1> QED BY <1>4, <1>6, <1>7, <1>9, <1>10 DEF Between, a, b

LEMMA Joined ==
    ASSUME NEW a \in Seq(Nat), NEW b \in Seq(Nat), NEW r, r = a \o b
    PROVE  /\ r \in Seq(Nat) /\ Len(r) = Len(a) + Len(b)
           /\ \A i \in 1..Len(a) : r[i] = a[i]
           /\ \A i \in 1..Len(b) : r[Len(a) + i] = b[i]
<1>1. Len(a) \in Nat /\ Len(b) \in Nat
    OBVIOUS
<1>2. /\ r \in Seq(Nat) /\ Len(r) = Len(a) + Len(b)
      /\ \A i \in 1..Len(a) + Len(b) :
            r[i] = IF i <= Len(a) THEN a[i] ELSE b[i - Len(a)]
    BY ConcatProperties
<1>3. ASSUME NEW i \in 1..Len(a) PROVE r[i] = a[i]
  <2>1. i \in 1..Len(a) + Len(b) /\ i <= Len(a)
      BY <1>1
  <2> QED BY <1>2, <2>1
<1>4. ASSUME NEW i \in 1..Len(b) PROVE r[Len(a) + i] = b[i]
  <2>1. /\ Len(a) + i \in 1..Len(a) + Len(b) /\ ~(Len(a) + i <= Len(a))
        /\ Len(a) + i - Len(a) = i
      BY <1>1
  <2> QED BY <1>2, <2>1
<1> QED BY <1>2, <1>3, <1>4

(* Instants s are put behind the place n of a list t.                      *)
Inserted(r, t, n, s) ==
    /\ r \in Seq(Nat) /\ Len(r) = Len(t) + Len(s)
    /\ DOMAIN r = 1..Len(t) + Len(s)
    /\ \A i \in 1..n : r[i] = t[i]
    /\ \A i \in 1..Len(s) : r[n + i] = s[i]
    /\ \A i \in n + 1..Len(t) : r[i + Len(s)] = t[i]

LEMMA InsertInstantsInserts ==
    ASSUME NEW t \in Seq(Nat), NEW n \in 1..Len(t), NEW s \in Seq(Nat)
    PROVE  Inserted(InsertInstants(t, n, s), t, n, s)
<1> DEFINE r == InsertInstants(t, n, s)
<1>1. Len(t) \in Nat /\ Len(s) \in Nat /\ n \in Nat /\ n >= 1 /\ n <= Len(t)
    OBVIOUS
<1> DEFINE u == SubSeq(t, 1, n)
           v == SubSeq(t, n + 1, Len(t))
<1>2. u \in Seq(Nat) /\ Len(u) = n /\ \A i \in 1..n : u[i] = t[i]
    BY <1>1, SubSeqProperties
<1>3. /\ v \in Seq(Nat) /\ Len(v) = Len(t) - n
      /\ \A i \in 1..Len(t) - n : v[i] = t[n + i]
  <2>1. n + 1 \in 1..Len(t) + 1 /\ Len(t) \in n..Len(t)
      BY <1>1
  <2>2. CASE n < Len(t)
    <3>1. v \in Seq(Nat) /\ Len(v) = Len(t) - (n + 1) + 1
        BY <1>1, <2>2, SubSeqProperties
    <3>2. \A i \in 1..Len(t) - n : v[i] = t[n + 1 + i - 1]
        BY <1>1, <2>2, SubSeqProperties
    <3>3. Len(t) - (n + 1) + 1 = Len(t) - n
        BY <1>1
    <3>4. \A i \in 1..Len(t) - n : n + 1 + i - 1 = n + i
        BY <1>1
    <3> HIDE DEF v, r
    <3> QED BY <3>1, <3>2, <3>3, <3>4
  <2>3. CASE n = Len(t)
    <3>1. v = <<>>
        BY <1>1, <2>3
    <3> QED BY <1>1, <2>3, <3>1
  <2> QED BY <1>1, <2>2, <2>3
<1> HIDE DEF u, v, r
<1> DEFINE w == u \o s
<1>5. /\ w \in Seq(Nat) /\ Len(w) = n + Len(s)
      /\ \A i \in 1..n : w[i] = u[i]
      /\ \A i \in 1..Len(s) : w[n + i] = s[i]
  <2>1. u \in Seq(Nat) /\ s \in Seq(Nat)
      BY <1>2
  <2>2. /\ w \in Seq(Nat) /\ Len(w) = Len(u) + Len(s)
        /\ \A i \in 1..Len(u) : w[i] = u[i]
        /\ \A i \in 1..Len(s) : w[Len(u) + i] = s[i]
      BY <2>1, Joined
  <2> QED BY <1>2, <2>2
<1>6. r = w \o v
    BY DEF InsertInstants, u, v, r
<1> HIDE DEF w
<1>7. /\ r \in Seq(Nat) /\ Len(r) = n + Len(s) + (Len(t) - n)
      /\ \A i \in 1..n + Len(s) : r[i] = w[i]
      /\ \A i \in 1..Len(t) - n : r[n + Len(s) + i] = v[i]
  <2>1. w \in Seq(Nat) /\ v \in Seq(Nat)
      BY <1>3, <1>5
  <2>2. /\ r \in Seq(Nat) /\ Len(r) = Len(w) + Len(v)
        /\ \A i \in 1..Len(w) : r[i] = w[i]
        /\ \A i \in 1..Len(v) : r[Len(w) + i] = v[i]
      BY <1>6, <2>1, Joined
  <2> QED BY <1>3, <1>5, <2>2
<1>8. n + Len(s) + (Len(t) - n) = Len(t) + Len(s)
    BY <1>1
<1>9. ASSUME NEW i \in 1..n PROVE r[i] = t[i]
  <2>1. i \in 1..n + Len(s)
      BY <1>1
  <2> QED BY <1>2, <1>5, <1>7, <2>1
<1>10. ASSUME NEW i \in 1..Len(s) PROVE r[n + i] = s[i]
  <2>1. n + i \in 1..n + Len(s)
      BY <1>1
  <2> QED BY <1>5, <1>7, <2>1
<1>11. ASSUME NEW i \in n + 1..Len(t) PROVE r[i + Len(s)] = t[i]
  <2>1. i - n \in 1..Len(t) - n /\ n + (i - n) = i /\ n + Len(s) + (i - n) = i + Len(s)
      BY <1>1
  <2>2. r[n + Len(s) + (i - n)] = v[i - n] /\ v[i - n] = t[n + (i - n)]
      BY <1>3, <1>7, <2>1
  <2> QED BY <2>1, <2>2
<1>12. DOMAIN r = 1..Len(t) + Len(s)
    BY <1>7, <1>8
<1>13. Inserted(r, t, n, s)
    BY <1>7, <1>8, <1>9, <1>10, <1>11, <1>12 DEF Inserted
<1> QED BY <1>13 DEF r

Shifted(g, m) == g \in Seq(Nat) /\ DOMAIN g = 1..m

LEMMA LevelsShifted ==
    ASSUME NEW t \in Seq(Nat), NEW n \in Nat \ {0}, NEW k \in Nat
    PROVE  Shifted(ShiftLevels(t, n, k), Len(t) + k)
<1>1. Len(t) \in Nat /\ \A i \in 1..Len(t) : t[i] \in Nat
    OBVIOUS
<1>2. ASSUME NEW i \in 1..Len(t) + k
      PROVE  (IF i >= n + k THEN t[i - k]
              ELSE (IF i <= Len(t) THEN t[i] ELSE 0) + (IF i >= n THEN 1 ELSE 0)) \in Nat
  <2>1. CASE i >= n + k
    <3>1. i - k \in 1..Len(t)
        BY <1>1, <2>1
    <3> QED BY <1>1, <2>1, <3>1
  <2>2. CASE ~(i >= n + k)
    <3>1. (IF i <= Len(t) THEN t[i] ELSE 0) \in Nat
        BY <1>1
    <3>2. (IF i >= n THEN 1 ELSE 0) \in Nat
        OBVIOUS
    <3> QED BY <2>2, <3>1, <3>2
  <2> QED BY <2>1, <2>2
<1>3. Len(t) + k \in Nat
    BY <1>1
<1> DEFINE g == ShiftLevels(t, n, k)
           m == Len(t) + k
<1>4. g \in [1..m -> Nat]
    BY <1>2 DEF ShiftLevels
<1> HIDE DEF g, m
<1>5. m \in Nat
    BY <1>3 DEF m
<1>6. g \in Seq(Nat) /\ DOMAIN g = 1..m
    BY <1>4, <1>5
<1>7. Shifted(g, m)
    BY <1>6 DEF Shifted
<1> QED BY <1>7 DEF g, m

(* The list after an action: right for the step, which begins where it did. *)
Follows(c, d, n) == /\ ListOK(c, n) /\ Len(c.ditr) >= Len(d.ditr)
                    /\ \A i \in 1..n : c.ditr[i] = d.ditr[i]

LEMMA CutFollows ==
    ASSUME study \in Studies, NEW d, ListOK(d, numins),
           At(numins - 1) = d.ditr[numins], NEW s,
           Between(s, d.ditr[numins], d.ditr[numins + 1])
    PROVE  Follows(CutInto(d, s), d, numins)
<1> DEFINE n == numins
           t == d.ditr
           c == CutInto(d, s)
           k == IF AUTO THEN 1 ELSE Len(s) - 1
           ins == SubSeq(s, 1, k)
<1>1. /\ t \in Seq(Nat) /\ d.dini \in Seq(Nat) /\ Len(t) \in Nat /\ DOMAIN t = 1..Len(t)
      /\ n \in Nat /\ n >= 1 /\ n + 1 <= Len(t) /\ t[n] \in Nat /\ t[n + 1] \in Nat
    BY ListFacts
<1>2. /\ s \in Seq(Nat) /\ Len(s) \in Nat /\ Len(s) > 1 /\ s[1] \in Nat /\ t[n] < s[1]
      /\ s[1] < t[n + 1] /\ \A i \in 1..Len(s) - 1 : s[i] < s[i + 1]
      /\ s[Len(s)] = t[n + 1]
    BY DEF Between
<1>3. k \in Nat /\ k >= 1 /\ k < Len(s) /\ (~AUTO => k = Len(s) - 1)
    BY <1>2
<1>4. ins \in Seq(Nat) /\ Len(ins) = k /\ \A i \in 1..k : ins[i] = s[i]
  <2> HIDE DEF k
  <2>1. \A i \in 1..k : s[i] \in Nat
      BY <1>2, <1>3
  <2> QED BY <1>3, <2>1, SubSeqProperties
<1>5. d \in Lists
    BY DEF ListOK
<1>6. /\ c.ditr = InsertInstants(t, n, ins)
      /\ c.dini = IF AUTO THEN d.dini ELSE ShiftLevels(d.dini, n, Len(ins))
      /\ c.dtm = s[1] - t[n]
      /\ c.itersup = d.itersup /\ c.piless = d.piless
      /\ c = [ditr |-> c.ditr, dini |-> c.dini, dtm |-> c.dtm, itersup |-> c.itersup,
              piless |-> c.piless]
  <2> HIDE DEF ins, k
  <2>1. c = [d EXCEPT !.ditr = InsertInstants(@, n, ins),
                      !.dini = IF AUTO THEN @ ELSE ShiftLevels(@, n, Len(ins)),
                      !.dtm  = s[1] - At(n - 1)]
      BY DEF CutInto, ins, k
  <2> HIDE DEF c
  <2> QED BY <1>5, <2>1 DEF Lists
<1> HIDE DEF c, ins, k, n, t
<1> DEFINE r == c.ditr
<1>7. /\ r \in Seq(Nat) /\ Len(r) = Len(t) + k /\ DOMAIN r = 1..Len(t) + k
      /\ \A i \in 1..n : r[i] = t[i]
      /\ \A i \in 1..k : r[n + i] = s[i]
      /\ \A i \in n + 1..Len(t) : r[i + k] = t[i]
  <2>1. n \in 1..Len(t)
      BY <1>1
  <2>2. t \in Seq(Nat) /\ ins \in Seq(Nat) /\ r = InsertInstants(t, n, ins)
      BY <1>1, <1>4, <1>6
  <2> HIDE DEF r
  <2>3. Inserted(r, t, n, ins)
      BY <2>1, <2>2, InsertInstantsInserts
  <2> QED BY <1>4, <2>3 DEF Inserted
<1> HIDE DEF r
<1>8. r[n] = t[n] /\ r[n + 1] = s[1]
  <2>1. n \in 1..n /\ 1 \in 1..k
      BY <1>1, <1>3
  <2> QED BY <1>7, <2>1
<1>9. c.dini \in Seq(Nat) /\ (~AUTO => DOMAIN c.dini = DOMAIN r)
  <2>1. CASE AUTO
      BY <1>1, <1>6, <2>1
  <2>2. CASE ~AUTO
    <3>1. c.dini = ShiftLevels(d.dini, n, k) /\ DOMAIN d.dini = DOMAIN t
        BY <1>4, <1>6, <2>2 DEF ListOK, t
    <3>2. n \in Nat \ {0} /\ Len(d.dini) = Len(t)
        BY <1>1, <3>1
    <3>3. Shifted(c.dini, Len(d.dini) + k)
      <4>1. d.dini \in Seq(Nat) /\ k \in Nat
          BY <1>1, <1>3
      <4> QED BY <3>1, <3>2, <4>1, LevelsShifted
    <3> QED BY <1>7, <3>2, <3>3 DEF Shifted
  <2> QED BY <2>1, <2>2
<1>10. c \in Lists /\ c.dtm > 0
  <2>1. c.dtm \in Nat /\ c.dtm > 0
      BY <1>1, <1>2, <1>6, SMTT(30)
  <2> QED BY <1>5, <1>6, <1>7, <1>9, <2>1 DEF Lists, r
<1>11. n \in 1..Len(r) - 1 /\ ~(n = Len(r) - 1) /\ Len(r) >= Len(t)
  <2>1. Len(t) \in Nat /\ n \in Nat /\ n >= 1 /\ n + 1 <= Len(t)
      BY <1>1
  <2>2. k \in Nat /\ k >= 1
      BY <1>3
  <2>3. Len(r) = Len(t) + k
      BY <1>7
  <2> HIDE DEF r, t, n, k
  <2> QED BY <2>1, <2>2, <2>3
<1>12. ASSUME ~AUTO, NEW i \in 1..Len(r) - 1 PROVE r[i] < r[i + 1]
  <2>1. k = Len(s) - 1 /\ \A j \in 1..Len(t) - 1 : t[j] < t[j + 1]
      BY <1>3, <1>12 DEF ListOK, t
  <2>2. CASE i < n
    <3>1. i \in 1..n /\ i + 1 \in 1..n /\ i \in 1..Len(t) - 1
        BY <1>1, <2>2
    <3> QED BY <1>7, <2>1, <3>1
  <2>3. CASE i = n
      BY <1>2, <1>8, <2>3
  <2>4. CASE n < i /\ i < n + k
    <3>1. PICK j \in 1..k - 1 : i = n + j /\ i + 1 = n + (j + 1)
      <4>1. i - n \in 1..k - 1 /\ i = n + (i - n) /\ i + 1 = n + (i - n + 1)
          BY <1>1, <1>3, <2>4
      <4> QED BY <4>1
    <3>2. j \in 1..k /\ j + 1 \in 1..k /\ j \in 1..Len(s) - 1
        BY <1>2, <1>3
    <3> QED BY <1>2, <1>7, <3>1, <3>2
  <2>5. CASE i = n + k
    <3>1. k \in 1..k /\ n + 1 \in n + 1..Len(t) /\ i + 1 = n + 1 + k
        BY <1>1, <1>3, <2>5
    <3>2. r[i] = s[k] /\ r[i + 1] = t[n + 1]
        BY <1>7, <2>5, <3>1
    <3>3. s[k] < s[k + 1] /\ k + 1 = Len(s)
        BY <1>2, <1>3, <2>1
    <3> QED BY <1>2, <3>2, <3>3
  <2>6. CASE i > n + k
    <3>1. PICK j \in n + 1..Len(t) - 1 : i = j + k /\ i + 1 = j + 1 + k
      <4>1. i - k \in n + 1..Len(t) - 1 /\ i = i - k + k /\ i + 1 = i - k + 1 + k
          BY <1>1, <1>3, <1>7, <2>6
      <4> QED BY <4>1
    <3>2. j \in n + 1..Len(t) /\ j + 1 \in n + 1..Len(t) /\ j \in 1..Len(t) - 1
        BY <1>1, SMTT(30)
    <3> QED BY <1>7, <2>1, <3>1, <3>2
  <2>7. i \in Nat /\ n \in Nat /\ k \in Nat
      BY <1>1, <1>3
  <2> QED BY <2>2, <2>3, <2>4, <2>5, <2>6, <2>7
<1>13. ASSUME ~AUTO, NEW i \in DOMAIN study.list
       PROVE  \E j \in DOMAIN r : r[j] = study.list[i]
  <2>1. PICK j \in 1..Len(t) : t[j] = study.list[i]
      BY <1>1, <1>13 DEF ListOK, t
  <2>2. CASE j <= n
    <3>1. j \in 1..n /\ j \in 1..Len(t) + k
        BY <1>1, <1>3, <2>2
    <3> QED BY <1>7, <2>1, <3>1
  <2>3. CASE j > n
    <3>1. j \in n + 1..Len(t) /\ j + k \in 1..Len(t) + k
        BY <1>1, <1>3, <2>3, SMTT(30)
    <3> QED BY <1>7, <2>1, <3>1
  <2> QED BY <1>1, <2>2, <2>3
<1>14. ~AUTO => r[Len(r)] = Last(study.list)
  <2>1. Len(t) \in n + 1..Len(t)
      BY <1>1
  <2>2. r[Len(r)] = t[Len(t)]
      BY <1>7, <2>1
  <2> QED BY <2>2 DEF ListOK, t
<1>15. \A i \in DOMAIN study.list : study.list[i] <= r[n] \/ study.list[i] >= r[n + 1]
  <2>1. ASSUME NEW i \in DOMAIN study.list
        PROVE  study.list[i] <= r[n] \/ study.list[i] >= r[n + 1]
    <3>1. study.list[i] \in Nat
        BY StudyFacts
    <3>2. study.list[i] <= t[n] \/ study.list[i] >= t[n + 1]
        BY DEF ListOK, n, t
    <3> QED BY <1>1, <1>2, <1>8, <3>1, <3>2
  <2> QED BY <2>1
<1>16. r[n] < r[n + 1] /\ r[n + 1] <= Last(study.list)
  <2>1. t[n + 1] <= Last(study.list) /\ Last(study.list) \in Nat
      BY StudyFacts DEF ListOK, Last, n, t
  <2> QED BY <1>1, <1>2, <1>8, <2>1
<1>17. ListOK(c, n)
    BY <1>9, <1>10, <1>11, <1>12, <1>13, <1>14, <1>15, <1>16 DEF ListOK, r
<1> QED BY <1>7, <1>11, <1>17 DEF Follows, r, n, t, c

(* The marks that are not the instants.                                    *)
Marked(c, d) == c.ditr = d.ditr /\ c.dini = d.dini /\ c.dtm = d.dtm /\ c \in Lists

LEMMA MarkedFollows ==
    ASSUME NEW d, NEW n, ListOK(d, n), NEW c, Marked(c, d)
    PROVE  Follows(c, d, n)
<1>1. ListOK(c, n)
    BY DEF ListOK, Marked
<1>2. c.ditr = d.ditr /\ Len(d.ditr) \in Nat
    BY ListFacts DEF Marked
<1> QED BY <1>1, <1>2 DEF Follows

LEMMA Marks ==
    ASSUME NEW d \in Lists
    PROVE  /\ \A b \in BOOLEAN : Marked([d EXCEPT !.itersup = b], d)
           /\ \A p \in {1, 2} : Marked([d EXCEPT !.piless = p], d)
           /\ Marked(d, d)
BY DEF Lists, Marked

LEMMA FollowsTwice ==
    ASSUME NEW b, NEW c, NEW d, NEW n, Follows(b, c, n), Marked(c, d)
    PROVE  Follows(b, d, n)
BY DEF Follows, Marked

LEMMA Backs == \A n, d : Back(n, d).ret = n /\ Back(n, d).disc = d
BY DEF Back

(* What an action may return when it is f that is asked for.               *)
Answer(r, f) ==
    /\ r.ret \in 0..3 /\ Follows(r.disc, sddisc, numins)
    /\ r.ret # 1 => r.disc.ditr = sddisc.ditr
    /\ r.ret = 2 => iterat < NbIter
    /\ r.ret = 0 => f.act = "CONTINUE"

LEMMA MarkedAnswers ==
    ASSUME ListOK(sddisc, numins), NEW d, Marked(d, sddisc), NEW f, NEW k \in 0..3,
           k = 2 => iterat < NbIter, k = 0 => f.act = "CONTINUE"
    PROVE  Answer(Back(k, d), f)
<1>1. Follows(d, sddisc, numins) /\ d.ditr = sddisc.ditr
    BY MarkedFollows DEF Marked
<1> QED BY <1>1, Backs DEF Answer

LEMMA CutAnswers ==
    ASSUME study \in Studies, ListOK(sddisc, numins), NEW f \in Occurrences,
           NEW d, Marked(d, sddisc), NEW r \in nmdeco(f, d)
    PROVE  Answer(r, f)
<1>1. PICK s \in NewInstants(f) :
          r = IF CanCut(f, s) THEN Back(1, CutInto(d, s)) ELSE Back(3, d)
    BY DEF nmdeco
<1>2. CASE CanCut(f, s)
  <2>1. r = Back(1, CutInto(d, s))
      BY <1>1, <1>2
  <2>2. ListOK(d, numins) /\ d.ditr = sddisc.ditr
      BY MarkedFollows DEF Follows, Marked
  <2>3. At(numins - 1) = d.ditr[numins] /\ At(numins) = d.ditr[numins + 1]
    <3>1. numins - 1 + 1 = numins
        BY ListFacts
    <3> QED BY <2>2, <3>1 DEF At
  <2>4. Between(s, d.ditr[numins], d.ditr[numins + 1])
      BY <1>2, <2>3, CutIsBetween
  <2>5. Follows(CutInto(d, s), d, numins)
      BY <2>2, <2>3, <2>4, CutFollows
  <2>6. Follows(CutInto(d, s), sddisc, numins)
      BY <2>5, FollowsTwice
  <2>7. r.ret = 1 /\ r.disc = CutInto(d, s)
      BY <2>1, Backs
  <2> QED BY <2>6, <2>7 DEF Answer
<1>3. CASE ~CanCut(f, s)
    BY <1>1, <1>3, MarkedAnswers
<1> QED BY <1>2, <1>3

(* nmevac: the action of an occurrence of ECHEC.                           *)
LEMMA ActionAnswers ==
    ASSUME study \in Studies, ListOK(sddisc, numins), NEW i \in DOMAIN study.echec,
           NEW fl, NEW r \in nmevac(i, fl)
    PROVE  Answer(r, study.echec[i])
<1> DEFINE f == study.echec[i]
<1>1. f \in Occurrences
  <2>1. study.echec \in Seq(Occurrences)
      BY StudyFacts
  <2> QED BY <2>1
<1>2. sddisc \in Lists
    BY DEF ListOK
<1> HIDE DEF f
<1>3. Marked(sddisc, sddisc)
    BY <1>2, Marks
<1>4. \A d : Marked(d, sddisc) => \A q \in nmdeco(f, d) : Answer(q, f)
    BY <1>1, CutAnswers
<1>5. ASSUME r \in nmitsp(f) PROVE Answer(r, f)
  <2>1. /\ Marked([sddisc EXCEPT !.itersup = FALSE], sddisc)
        /\ Marked([sddisc EXCEPT !.itersup = TRUE], sddisc)
      BY <1>2, Marks
  <2>2. \/ r \in nmdeco(f, [sddisc EXCEPT !.itersup = FALSE])
        \/ iterat < NbIter /\ r = Back(2, [sddisc EXCEPT !.itersup = TRUE])
      BY <1>5 DEF nmitsp
  <2> QED BY <1>4, <2>1, <2>2, MarkedAnswers
<1>6. ASSUME r \in nmevdp(f) PROVE Answer(r, f)
  <2>1. /\ Marked([sddisc EXCEPT !.piless = 1], sddisc)
        /\ Marked([sddisc EXCEPT !.piless = 2], sddisc)
      BY <1>2, Marks
  <2>2. \/ r \in nmdeco(f, [sddisc EXCEPT !.piless = 1])
        \/ r = Back(1, [sddisc EXCEPT !.piless = 2])
      BY <1>6 DEF nmevdp
  <2> QED BY <1>4, <2>1, <2>2, MarkedAnswers
<1>7. \/ r = Back(3, sddisc)
      \/ f.act = "CONTINUE" /\ r = Back(0, sddisc)
      \/ r \in nmitsp(f) \/ r \in nmevdp(f) \/ r \in nmdeco(f, sddisc)
    BY DEF nmevac, f
<1>8. Answer(r, f)
    BY <1>3, <1>4, <1>5, <1>6, <1>7, MarkedAnswers
<1> QED BY <1>8 DEF f

-----------------------------------------------------------------------------
(* Events.                                                                 *)

(* nmevel: the occurrence that is found is raised, and an error raises one. *)
LEMMA FirstOccurrence ==
    ASSUME study \in Studies, NEW e, NEW c, NEW g, NEW fl, NEW k,
           k = FirstRaised(e, c, g, fl)
    PROVE  /\ k \in 0..Len(study.echec)
           /\ k > 0 => k \in DOMAIN study.echec /\ Raised(study.echec[k], e, c, g, fl)
           /\ e => k > 0
<1> DEFINE S == {i \in DOMAIN study.echec : Raised(study.echec[i], e, c, g, fl)}
<1>1. /\ study.echec \in Seq(Occurrences) /\ Len(study.echec) \in Nat
      /\ DOMAIN study.echec = 1..Len(study.echec)
    BY StudyFacts
<1>2. S \in SUBSET Nat /\ S \subseteq 1..Len(study.echec)
    BY <1>1
<1>3. k = IF S = {} THEN 0 ELSE Min(S)
    BY DEF FirstRaised
<1>4. \A i \in S : i \in DOMAIN study.echec /\ Raised(study.echec[i], e, c, g, fl)
    OBVIOUS
<1>5. e => S # {}
  <2>1. PICK i \in DOMAIN study.echec : study.echec[i].evt = "ERREUR"
      BY StudyFacts
  <2>2. e => Raised(study.echec[i], e, c, g, fl)
      BY <2>1 DEF Raised
  <2> QED BY <2>2
<1> HIDE DEF S
<1>6. CASE S = {}
    BY <1>1, <1>3, <1>5, <1>6
<1>7. CASE S # {}
  <2>1. k \in S
      BY <1>2, <1>3, <1>7, FirstNat
  <2> QED BY <1>1, <1>2, <1>4, <2>1
<1> QED BY <1>6, <1>7

(* nmevev: what a loop observes.                                           *)
Noticed(o, now, loop) ==
    /\ o.etat \in [Loops -> States] /\ o.flags \subseteq Events
    /\ o.echec \in 0..Len(study.echec)
    /\ \A l \in Loops : l # loop => o.etat[l] = now.etat[l]
    /\ o.echec = 0 => o.etat = now.etat
    /\ o.echec > 0 => o.etat[loop] = "EVEN" /\ o.echec \in DOMAIN study.echec
    /\ "CRIT_STAB" \notin now.flags =>
          /\ "CRIT_STAB" \notin o.flags
          /\ o.echec > 0 => study.echec[o.echec].evt # "INSTABILITE"
    /\ loop = "NEWT" /\ now.flags \cap ERRI_NEWT # {} => o.echec > 0

LEMMA ObservedNotices ==
    ASSUME study \in Studies, NEW loop \in {"NEWT", "FIXE", "INST"}, NEW now,
           now.etat \in [Loops -> States], now.flags \subseteq Events, NEW g
    PROVE  Noticed(Observed(loop, now, g), now, loop)
<1> DEFINE conver == now.etat[loop] = "CONV"
           nphy   == loop = "NEWT" /\ conver /\ "INTE_NPHY" \in now.flags
           fl     == IF nphy THEN (now.flags \ {"INTE_NPHY"}) \cup {"ERRE_NPHY"} ELSE now.flags
           errors == nphy \/ (loop = "NEWT" /\ fl \cap ERRI_NEWT # {})
                          \/ (loop = "FIXE" /\ "ERRE_CTC" \in fl)
           k == FirstRaised(errors, conver, g, fl)
           o == Observed(loop, now, g)
<1>1. /\ k \in 0..Len(study.echec)
      /\ k > 0 => k \in DOMAIN study.echec /\ Raised(study.echec[k], errors, conver, g, fl)
      /\ errors => k > 0
  <2> HIDE DEF errors, conver, fl
  <2> QED BY FirstOccurrence
<1>2. fl \subseteq Events /\ ("CRIT_STAB" \in fl => "CRIT_STAB" \in now.flags)
    BY DEF Events, ERRI_NEWT
<1>3. loop = "NEWT" /\ now.flags \cap ERRI_NEWT # {} => errors
    BY DEF ERRI_NEWT
<1>4. /\ o.flags = fl /\ o.echec = k
      /\ o.etat = IF k > 0 THEN [now.etat EXCEPT ![loop] = "EVEN"] ELSE now.etat
    BY DEF Observed
<1>5. Raised(study.echec[k], errors, conver, g, fl) /\ study.echec[k].evt = "INSTABILITE"
      => "CRIT_STAB" \in fl
  <2> HIDE DEF errors, conver, fl, k
  <2> QED BY DEF Raised
<1>6. loop \in Loops /\ "EVEN" \in States
    BY DEF Loops, States
<1> HIDE DEF fl, k, errors, conver, o
<1>7. Len(study.echec) \in Nat
    BY StudyFacts
<1>8. Noticed(o, now, loop)
  <2>1. CASE k > 0
      BY <1>1, <1>2, <1>4, <1>5, <1>6, <2>1 DEF Noticed
  <2>2. CASE k = 0
      BY <1>1, <1>2, <1>3, <1>4, <1>6, <1>7, <2>2 DEF Noticed
  <2> QED BY <1>1, <1>7, <2>1, <2>2
<1> QED BY <1>8 DEF o

(* nmconv: Newton goes on or has converged only without an error, and goes *)
(* on only when an iteration is left.                                      *)
Concluded(now, resi) ==
    /\ now.etat \in [Loops -> States] /\ now.flags \subseteq Events
    /\ \A l \in Loops \ {"RESI", "NEWT"} : now.etat[l] = etat[l]
    /\ "CRIT_STAB" \notin flags => "CRIT_STAB" \notin now.flags
    /\ now.flags \cap ERRI_NEWT = {} =>
          /\ now.etat["NEWT"] = IF resi THEN "CONV" ELSE "CONT"
          /\ now.etat["RESI"] = IF resi THEN "CONV" ELSE "CONT"
          /\ ~resi => iterat < NbIter

LEMMA nmconvConcludes ==
    ASSUME Loop, NEW errs \in Errors, NEW resi \in BOOLEAN, NEW dive \in BOOLEAN
    PROVE  Concluded(nmconv(errs, resi, dive), resi)
<1> DEFINE after  == (flags \ Returned) \cup errs
           bound  == IF sddisc.itersup THEN NbIter ELSE IterMaxi
           itemax == ~resi /\ iterat + 1 >= bound
           now    == nmconv(errs, resi, dive)
<1>1. etat \in [Loops -> States] /\ flags \subseteq Events /\ iterat \in 0..NbIter
    BY DEF Loop
<1>2. after \subseteq Events /\ ("CRIT_STAB" \in after => "CRIT_STAB" \in flags)
    BY <1>1 DEF Events, Errors, ERRI_NEWT
<1>3. ~itemax /\ ~resi => iterat < NbIter
    BY <1>1, Parameters
<1>4. CASE after \cap ERRI_NEWT # {}
  <2>1. /\ now.flags = after
        /\ now.etat = IF errs \cap ERRI_NEWT # {} THEN [etat EXCEPT !["NEWT"] = "ERRE"] ELSE etat
      BY <1>4 DEF nmconv
  <2> HIDE DEF now, after
  <2>2. now.etat \in [Loops -> States]
        /\ \A l \in Loops \ {"RESI", "NEWT"} : now.etat[l] = etat[l]
      BY <1>1, <2>1 DEF Loops, States
  <2>3. now.flags \cap ERRI_NEWT # {}
      BY <1>4, <2>1
  <2>4. now.flags \subseteq Events /\ ("CRIT_STAB" \notin flags => "CRIT_STAB" \notin now.flags)
      BY <1>2, <2>1
  <2>5. Concluded(now, resi)
      BY <2>2, <2>3, <2>4 DEF Concluded
  <2> QED BY <2>5 DEF now
<1>5. CASE after \cap ERRI_NEWT = {}
  <2>1. /\ now.flags = (after \ {"DIVE_RESI"}) \cup {x \in {"DIVE_RESI"} : dive}
                          \cup {x \in {"ITER_MAXI"} : itemax}
        /\ now.etat = [etat EXCEPT !["RESI"] = IF resi THEN "CONV" ELSE "CONT",
                                   !["NEWT"] = IF itemax THEN "ERRE"
                                               ELSE IF resi THEN "CONV" ELSE "CONT"]
      BY <1>5 DEF nmconv
  <2> HIDE DEF now, after, itemax
  <2>2. now.etat \in [Loops -> States]
        /\ \A l \in Loops \ {"RESI", "NEWT"} : now.etat[l] = etat[l]
      BY <1>1, <2>1 DEF Loops, States
  <2>3. now.flags \subseteq Events /\ ("CRIT_STAB" \notin flags => "CRIT_STAB" \notin now.flags)
      BY <1>2, <2>1 DEF Events, ERRI_NEWT, EVEN
  <2>4. now.flags \cap ERRI_NEWT = {} => ~itemax
      BY <2>1 DEF ERRI_NEWT
  <2>5. ~itemax => /\ now.etat["NEWT"] = IF resi THEN "CONV" ELSE "CONT"
                   /\ now.etat["RESI"] = IF resi THEN "CONV" ELSE "CONT"
      BY <1>1, <2>1 DEF Loops
  <2>6. now.flags \cap ERRI_NEWT = {} =>
           /\ now.etat["NEWT"] = IF resi THEN "CONV" ELSE "CONT"
           /\ now.etat["RESI"] = IF resi THEN "CONV" ELSE "CONT"
           /\ ~resi => iterat < NbIter
      BY <1>3, <2>4, <2>5
  <2>7. Concluded(now, resi)
      BY <2>2, <2>3, <2>6 DEF Concluded
  <2> QED BY <2>7 DEF now
<1> QED BY <1>4, <1>5

-----------------------------------------------------------------------------
(* Steps that accept nothing.                                              *)

(* What was accepted and stored, and the list, when the step is the same.  *)
Rest == ListOK(sddisc, numins) /\ Past /\ Converged /\ Kept /\ Ended

LEMMA RestIsKept ==
    ASSUME IInv, Before, study' = study, numins' = numins, moi' = moi,
           accepted' = accepted, archive' = archive,
           Follows(sddisc', sddisc, numins), etat'["CALC"] \in {etat["CALC"], "ERRE"}
    PROVE  Rest'
<1>1. /\ study \in Studies /\ ListOK(sddisc, numins) /\ Past /\ Converged /\ Kept /\ Ended
    BY DEF IInv, Typed
<1>2. ListOK(sddisc, numins)'
    BY DEF Follows, ListOK, AUTO
<1>3. /\ numins - 1 + 1 = numins /\ numins \in 1..numins /\ numins \in Nat
      /\ Len(sddisc.ditr) \in Nat /\ Len(sddisc'.ditr) \in Nat
  <2>1. numins \in Nat /\ numins >= 1 /\ Len(sddisc.ditr) \in Nat
      BY <1>1, ListFacts
  <2>2. Len(sddisc'.ditr) \in Nat
      BY ListFacts DEF Follows
  <2> QED BY <2>1, <2>2
<1>4. /\ Len(sddisc'.ditr) >= Len(sddisc.ditr)
      /\ \A i \in 1..numins : sddisc'.ditr[i] = sddisc.ditr[i]
    BY DEF Follows
<1>5. At(numins - 1)' = At(numins - 1)
    BY <1>3, <1>4 DEF At
<1>6. Len(accepted) = numins /\ DOMAIN accepted = 1..numins /\ moi = Last(accepted)
  <2>1. accepted \in Seq(Fields)
      BY DEF IInv, Typed
  <2> QED BY <1>1, <2>1 DEF Past
<1>7. Past'
  <2>1. Len(accepted) >= 1 /\ Len(accepted) <= Len(sddisc'.ditr)
    <3>1. Len(accepted) >= 1 /\ Len(accepted) <= Len(sddisc.ditr)
        BY <1>1 DEF Past
    <3> QED BY <1>3, <1>4, <1>6, <3>1
  <2>2. \A i \in DOMAIN accepted :
          /\ accepted[i].inst = sddisc'.ditr[i]
          /\ i > 1 => /\ accepted[i].from = accepted[i - 1].inst
                      /\ accepted[i].inst > accepted[i - 1].inst
      BY <1>1, <1>4, <1>6 DEF Past
  <2>3. \A i \in DOMAIN study.list :
          study.list[i] <= Last(accepted).inst => study.list[i] \in AcceptedAt
      BY <1>1 DEF Past
  <2> QED BY <1>6, <2>1, <2>2, <2>3 DEF Past, AcceptedAt
<1>8. Converged'
    BY <1>1 DEF Converged
<1>9. Kept'
    BY <1>1, <1>5 DEF Kept
<1>10. Ended'
  <2>1. etat["CALC"] \notin {"STOP", "CONV"}
      BY <1>1 DEF Ended, Before
  <2> QED BY <2>1 DEF Ended
<1> QED BY <1>2, <1>7, <1>8, <1>9, <1>10 DEF Rest

LEMMA Untouched ==
    ASSUME IInv PROVE Follows(sddisc, sddisc, numins) /\ study \in Studies
<1>1. ListOK(sddisc, numins) /\ study \in Studies
    BY DEF IInv, Typed
<1>2. sddisc \in Lists
    BY <1>1 DEF ListOK
<1> QED BY <1>1, <1>2, Marks, MarkedFollows

LEMMA InvIs == Typed /\ Loop /\ Tries /\ Rest => IInv
BY DEF IInv, Rest

LEMMA InvIsNext == Typed' /\ Loop' /\ Tries' /\ Rest' => IInv'
BY DEF IInv, Rest

LEMMA BeginStepKeeps ==
    ASSUME IInv, BeginStep PROVE IInv'
<1>1. Typed /\ Loop /\ sddisc \in Lists
    BY DEF IInv, ListOK
<1>2. Typed' /\ Loop'
  <2>1. etat' \in [Loops -> States]
      BY <1>1 DEF BeginStep, Loop, States
  <2>2. flags' \subseteq Events /\ echec' = echec /\ iterat' \in 0..NbIter /\ tours' \in 0..MaxTours
      BY Parameters DEF BeginStep
  <2>3. study' = study
      BY DEF BeginStep
  <2>4. Typed'
      BY <1>1 DEF BeginStep, Typed, Phases
  <2> QED BY <1>1, <2>1, <2>2, <2>3, <2>4 DEF Loop
<1>3. Tries'
    BY DEF BeginStep, Tries, Computed
<1>4. Rest'
  <2>1. Marked(sddisc', sddisc)
      BY <1>1, Marks DEF BeginStep
  <2>2. Follows(sddisc', sddisc, numins)
      BY <2>1, MarkedFollows DEF IInv
  <2>3. etat'["CALC"] = etat["CALC"]
      BY DEF BeginStep, Loops
  <2>4. Before
      BY DEF BeginStep, Before
  <2> QED BY <2>2, <2>3, <2>4, RestIsKept DEF BeginStep
<1> QED BY <1>2, <1>3, <1>4, InvIsNext

(* An iteration of Newton, observed: an event, the end or another one.     *)
Attempt(o, now, resi) ==
    /\ o.etat \in [Loops -> States] /\ o.flags \subseteq Events
    /\ o.echec \in 0..Len(study.echec)
    /\ "CRIT_STAB" \notin o.flags /\ o.etat["CALC"] = etat["CALC"]
    /\ \/ /\ o.etat["NEWT"] = "EVEN" /\ o.echec \in DOMAIN study.echec
          /\ study.echec[o.echec].evt # "INSTABILITE"
       \/ /\ now.flags \cap ERRI_NEWT = {}
          /\ o.etat["NEWT"] = IF resi THEN "CONV" ELSE "CONT"
          /\ o.etat["RESI"] = IF resi THEN "CONV" ELSE "CONT"
          /\ ~resi => iterat < NbIter

LEMMA AttemptObserved ==
    ASSUME Loop, study \in Studies, "CRIT_STAB" \notin flags, NEW errs \in Errors,
           NEW resi \in BOOLEAN, NEW dive \in BOOLEAN, NEW g,
           NEW now, now = nmconv(errs, resi, dive), NEW o, o = Observed("NEWT", now, g)
    PROVE  Attempt(o, now, resi)
<1>1. Concluded(now, resi)
    BY nmconvConcludes
<1>2. now.etat \in [Loops -> States] /\ now.flags \subseteq Events
    BY <1>1 DEF Concluded
<1>3. Noticed(o, now, "NEWT")
    BY <1>2, ObservedNotices
<1>4. /\ o.etat \in [Loops -> States] /\ o.flags \subseteq Events
      /\ o.echec \in 0..Len(study.echec) /\ "CRIT_STAB" \notin o.flags
      /\ o.etat["CALC"] = etat["CALC"]
    BY <1>1, <1>3 DEF Concluded, Noticed, Loops
<1>5. Len(study.echec) \in Nat
    BY StudyFacts
<1>6. CASE o.echec > 0
    BY <1>1, <1>3, <1>4, <1>6 DEF Concluded, Noticed, Attempt
<1>7. CASE o.echec = 0
  <2>1. now.flags \cap ERRI_NEWT = {} /\ o.etat = now.etat
      BY <1>3, <1>7 DEF Noticed
  <2> QED BY <1>1, <1>4, <2>1 DEF Concluded, Attempt
<1> QED BY <1>4, <1>5, <1>6, <1>7

LEMMA IterateKeeps ==
    ASSUME IInv, Iterate PROVE IInv'
<1>1. Typed /\ Loop /\ Tries /\ study \in Studies
    BY DEF IInv, Typed
<1>2. PICK errs \in Errors, resi \in BOOLEAN, dive \in Dive, grown \in Grown :
          LET now == nmconv(errs, resi, dive)
          IN /\ Observe(Observed("NEWT", now, grown))
             /\ plu' = [inst |-> At(numins), from |-> moi.inst,
                        how |-> IF now.flags \cap ERRI_NEWT = {} /\ resi THEN "conv" ELSE "open"]
             /\ pc' = IF etat'["NEWT"] = "CONT" THEN "correction" ELSE "temps"
    BY DEF Iterate
<1>3. PICK now : now = nmconv(errs, resi, dive)
    OBVIOUS
<1>4. PICK o : o = Observed("NEWT", now, grown)
    OBVIOUS
<1>5. /\ flags' = o.flags /\ etat' = o.etat /\ echec' = o.echec
      /\ plu' = [inst |-> At(numins), from |-> moi.inst,
                 how |-> IF now.flags \cap ERRI_NEWT = {} /\ resi THEN "conv" ELSE "open"]
      /\ pc' = IF etat'["NEWT"] = "CONT" THEN "correction" ELSE "temps"
    BY <1>2, <1>3, <1>4 DEF Observe
<1>6. pc = "iteration" /\ UNCHANGED <<study, sddisc, numins, iterat, tours, moi, accepted, archive>>
    BY DEF Iterate
<1>7. Attempt(o, now, resi)
  <2>1. dive \in BOOLEAN
      BY DEF Dive
  <2>2. "CRIT_STAB" \notin flags
      BY <1>1, <1>6 DEF Tries
  <2> QED BY <1>1, <1>3, <1>4, <2>1, <2>2, AttemptObserved
<1>8. Typed'
  <2>1. moi.inst \in Nat /\ At(numins) \in Nat
    <3>1. At(numins) \in Nat
        BY ListFacts DEF IInv, At
    <3> QED BY <1>1, <3>1 DEF Typed, Fields
  <2>2. plu' \in Fields
      BY <1>5, <2>1 DEF Fields
  <2>3. pc' \in Phases
      BY <1>5 DEF Phases
  <2> QED BY <1>1, <1>6, <2>2, <2>3 DEF Typed
<1>9. Loop'
    BY <1>1, <1>5, <1>6, <1>7 DEF Loop, Attempt
<1>10. Rest'
    BY <1>5, <1>6, <1>7, Untouched, RestIsKept DEF Attempt, Before
<1>11. Tries'
  <2>1. Fresh'
      BY <1>5, <1>6 DEF Fresh, At
  <2>2. CASE etat'["NEWT"] = "EVEN"
      BY <1>5, <1>6, <1>7, <2>1, <2>2 DEF Tries, Attempt
  <2>3. CASE etat'["NEWT"] # "EVEN"
    <3>1. /\ now.flags \cap ERRI_NEWT = {} /\ "CRIT_STAB" \notin flags'
          /\ etat'["NEWT"] = IF resi THEN "CONV" ELSE "CONT"
          /\ etat'["RESI"] = IF resi THEN "CONV" ELSE "CONT"
          /\ ~resi => iterat' < NbIter
        BY <1>5, <1>6, <1>7, <2>3 DEF Attempt
    <3>2. CASE resi
        BY <1>5, <2>1, <3>1, <3>2 DEF Tries
    <3>3. CASE ~resi
        BY <1>5, <2>1, <3>1, <3>3 DEF Tries
    <3> QED BY <3>2, <3>3
  <2> QED BY <2>2, <2>3
<1> QED BY <1>8, <1>9, <1>10, <1>11, InvIsNext

LEMMA CorrectKeeps ==
    ASSUME IInv, Correct PROVE IInv'
<1>1. Typed /\ Loop /\ Tries /\ study \in Studies
    BY DEF IInv, Typed
<1>2. /\ pc = "correction" /\ pc' = "temps"
      /\ UNCHANGED <<study, sddisc, numins, tours, moi, plu, accepted, archive>>
    BY DEF Correct
<1>3. Fresh /\ "CRIT_STAB" \notin flags /\ iterat < NbIter /\ etat["NEWT"] = "CONT"
    BY <1>1, <1>2 DEF Tries, Computed
<1>4. Fresh' /\ Typed'
    BY <1>1, <1>2, <1>3 DEF Fresh, At, Typed, Phases
<1>5. CASE iterat' = iterat + 1 /\ UNCHANGED <<flags, etat, echec>>
  <2>1. iterat' \in 0..NbIter
      BY <1>1, <1>3, <1>5, Parameters DEF Loop
  <2>2. Loop'
      BY <1>1, <1>2, <1>5, <2>1 DEF Loop
  <2>3. Tries'
      BY <1>2, <1>3, <1>4, <1>5 DEF Tries
  <2>4. Rest'
      BY <1>2, <1>5, Untouched, RestIsKept DEF Before
  <2> QED BY <1>4, <2>2, <2>3, <2>4, InvIsNext
<1>6. CASE Observe(Observed("NEWT", nmconv({"SOLV_ITMX"}, FALSE, FALSE), FALSE)) /\ iterat' = iterat
  <2>1. PICK now : now = nmconv({"SOLV_ITMX"}, FALSE, FALSE)
      OBVIOUS
  <2>2. PICK o : o = Observed("NEWT", now, FALSE)
      OBVIOUS
  <2>3. flags' = o.flags /\ etat' = o.etat /\ echec' = o.echec
      BY <1>6, <2>1, <2>2 DEF Observe
  <2>4. Attempt(o, now, FALSE)
      BY <1>1, <1>3, <2>1, <2>2, AttemptObserved DEF Errors
  <2>5. Loop'
      BY <1>1, <1>2, <1>6, <2>3, <2>4 DEF Loop, Attempt
  <2>6. Tries'
      BY <1>2, <1>4, <2>3, <2>4 DEF Tries, Attempt
  <2>7. Rest'
      BY <1>2, <2>3, <2>4, Untouched, RestIsKept DEF Before, Attempt
  <2> QED BY <1>4, <2>5, <2>6, <2>7, InvIsNext
<1> QED BY <1>5, <1>6 DEF Correct

LEMMA WatchKeeps ==
    ASSUME IInv, Watch PROVE IInv'
<1>1. Typed /\ Loop /\ Tries /\ study \in Studies
    BY DEF IInv, Typed
<1>2. /\ pc = "temps" /\ pc' = IF etat'["NEWT"] = "CONT" THEN "iteration" ELSE "newton"
      /\ UNCHANGED <<study, sddisc, numins, iterat, tours, echec, moi, plu, accepted, archive>>
    BY DEF Watch
<1>3. PICK why \in SUBSET ERRI_CALC : /\ flags' = (flags \ ERRI_CALC) \cup why
                                      /\ etat' = Stopped(why, etat)
  <2>1. PICK why \in {{}, {"ERRE_EXCP"}} \cup
                  (IF etat["NEWT"] = "CONV" THEN {} ELSE {{"ERRE_TIMN"}}) :
               /\ flags' = (flags \ ERRI_CALC) \cup why /\ etat' = Stopped(why, etat)
      BY DEF Watch
  <2>2. why \in SUBSET ERRI_CALC
      BY DEF ERRI_CALC
  <2> QED BY <2>1, <2>2
<1>4. /\ etat' \in [Loops -> States] /\ etat'["CALC"] \in {etat["CALC"], "ERRE"}
      /\ etat'["RESI"] = etat["RESI"] /\ etat'["NEWT"] \in {etat["NEWT"], "STOP"}
    BY <1>1, <1>3 DEF Stopped, Loop, Loops, States
<1>5. flags' \subseteq Events /\ ("CRIT_STAB" \notin flags => "CRIT_STAB" \notin flags')
    BY <1>1, <1>3 DEF Loop, Events, ERRI_CALC
<1>6. Typed'
    BY <1>1, <1>2 DEF Typed, Phases
<1>7. Loop'
    BY <1>1, <1>2, <1>4, <1>5 DEF Loop
<1>8. Tries'
    BY <1>1, <1>2, <1>4, <1>5 DEF Tries, Computed, Fresh, At
<1>9. Rest'
    BY <1>2, <1>4, Untouched, RestIsKept DEF Before
<1> QED BY <1>6, <1>7, <1>8, <1>9, InvIsNext

LEMMA LoopStates ==
    ASSUME NEW r, r.ret \in Nat
    PROVE  /\ LoopState(r) \in States
           /\ LoopState(r) # "EVEN"
           /\ LoopState(r) = "ERRE" <=> r.ret = 1
           /\ LoopState(r) = "CONT" <=> r.ret = 2
           /\ LoopState(r) = "CONV" <=> r.ret = 0 \/ PassedOver(r)
           /\ PassedOver(r) => r.ret = 3 /\ ~study.arret
BY DEF LoopState, PassedOver, States

LEMMA EndNewtonKeeps ==
    ASSUME IInv, EndNewton PROVE IInv'
<1>1. Typed /\ Loop /\ Tries /\ study \in Studies /\ ListOK(sddisc, numins)
    BY DEF IInv, Typed
<1>2. /\ pc = "newton" /\ etat["NEWT"] \in {"CONV", "EVEN", "STOP"}
      /\ UNCHANGED <<study, numins, iterat, tours, echec, moi, plu, accepted, archive>>
    BY DEF EndNewton
<1>3. PICK r \in (CASE etat["NEWT"] = "EVEN" -> nmevac(echec, flags)
                   [] etat["NEWT"] = "CONV" -> {Back(0, sddisc)}
                   [] OTHER                 -> {Back(4, sddisc)}) :
          /\ etat' = [etat EXCEPT !["NEWT"] = LoopState(r),
                                  !["RESI"] = IF PassedOver(r) THEN "CONV" ELSE @]
          /\ flags' = flags \ ({x \in EVEN : etat["NEWT"] = "EVEN"}
                         \cup {x \in {"ITER_MAXI"} : PassedOver(r) \/ r.ret = 2})
          /\ sddisc' = r.disc
          /\ pc' = IF r.ret = 2 THEN "correction" ELSE "fixe"
    BY DEF EndNewton
<1>4. /\ r.ret \in 0..4 /\ Follows(r.disc, sddisc, numins)
      /\ r.ret # 1 => r.disc.ditr = sddisc.ditr
      /\ r.ret = 2 => iterat < NbIter
      /\ r.ret = 0 => etat["NEWT"] = "CONV"
  <2>1. CASE etat["NEWT"] = "EVEN"
    <3>1. PICK i \in DOMAIN study.echec : i = echec /\ study.echec[i].evt # "INSTABILITE"
        BY <1>1, <1>2, <2>1 DEF Tries
    <3>2. r \in nmevac(i, flags)
        BY <1>3, <2>1, <3>1
    <3>3. Answer(r, study.echec[i])
        BY <1>1, <3>2, ActionAnswers
    <3>4. study.echec[i].act # "CONTINUE"
        BY <1>1, <3>1, StudyFacts
    <3> QED BY <3>3, <3>4 DEF Answer
  <2>2. CASE etat["NEWT"] = "CONV"
    <3>1. r = Back(0, sddisc)
        BY <1>3, <2>2
    <3>2. r.ret = 0 /\ r.disc = sddisc
        BY <3>1, Backs
    <3> QED BY <2>2, <3>2, Untouched
  <2>3. CASE etat["NEWT"] = "STOP"
    <3>1. r = Back(4, sddisc)
        BY <1>3, <2>3
    <3>2. r.ret = 4 /\ r.disc = sddisc
        BY <3>1, Backs
    <3> QED BY <3>2, Untouched
  <2> QED BY <1>2, <2>1, <2>2, <2>3
<1>5. /\ LoopState(r) \in States /\ LoopState(r) # "EVEN"
      /\ LoopState(r) = "ERRE" <=> r.ret = 1
      /\ LoopState(r) = "CONT" <=> r.ret = 2
      /\ LoopState(r) = "CONV" <=> r.ret = 0 \/ PassedOver(r)
      /\ PassedOver(r) => r.ret = 3 /\ ~study.arret
    BY <1>4, LoopStates
<1>6. /\ etat' \in [Loops -> States] /\ etat'["CALC"] = etat["CALC"]
      /\ etat'["NEWT"] = LoopState(r)
      /\ etat'["RESI"] = IF PassedOver(r) THEN "CONV" ELSE etat["RESI"]
    BY <1>1, <1>3, <1>5 DEF Loop, Loops, States
<1>7. flags' \subseteq flags /\ "CRIT_STAB" \notin flags
    BY <1>1, <1>2, <1>3 DEF Tries
<1>8. Typed'
    BY <1>1, <1>2, <1>3 DEF Typed, Phases
<1>9. Loop'
    BY <1>1, <1>2, <1>6, <1>7 DEF Loop
<1>10. Tries'
  <2>1. r.ret # 1 => Fresh'
      BY <1>1, <1>2, <1>3, <1>4 DEF Tries, Computed, Fresh, At
  <2>2. CASE r.ret = 2
      BY <1>2, <1>3, <1>4, <1>5, <1>6, <1>7, <2>1, <2>2 DEF Tries
  <2>3. CASE r.ret # 2
    <3>1. etat'["NEWT"] = "CONV" => etat'["RESI"] = "CONV" /\ (study.arret => plu.how = "conv")
      <4>1. CASE r.ret = 0
        <5>1. etat["NEWT"] = "CONV" /\ ~PassedOver(r)
            BY <1>4, <1>5, <4>1
        <5> QED BY <1>1, <1>2, <1>6, <5>1 DEF Tries
      <4>2. CASE r.ret # 0
          BY <1>5, <1>6, <4>2
      <4> QED BY <4>1, <4>2
    <3>2. pc' = "fixe"
        BY <1>3, <2>3
    <3>3. etat'["NEWT"] # "ERRE" => Fresh'
        BY <1>5, <1>6, <2>1
    <3> QED BY <1>2, <1>7, <3>1, <3>2, <3>3 DEF Tries, Computed
  <2> QED BY <2>2, <2>3
<1>11. Rest'
    BY <1>2, <1>3, <1>4, <1>6, RestIsKept DEF Before
<1> QED BY <1>8, <1>9, <1>10, <1>11, InvIsNext

LEMMA EndFixedPointKeeps ==
    ASSUME IInv, EndFixedPoint PROVE IInv'
<1>1. Typed /\ Loop /\ Tries /\ study \in Studies /\ ListOK(sddisc, numins)
    BY DEF IInv, Typed
<1>2. /\ pc = "fixe" /\ etat["NEWT"] \in {"CONV", "ERRE", "STOP"}
      /\ UNCHANGED <<study, numins, moi, plu, accepted, archive>>
    BY DEF EndFixedPoint
<1>3. "CRIT_STAB" \notin flags
    BY <1>1, <1>2 DEF Tries
<1>4. CASE etat["NEWT"] # "CONV"
  <2>1. /\ etat' = [etat EXCEPT !["FIXE"] = etat["NEWT"]]
        /\ pc' = "inst" /\ UNCHANGED <<sddisc, flags, echec, iterat, tours>>
      BY <1>4 DEF EndFixedPoint
  <2>2. /\ etat' \in [Loops -> States] /\ etat'["CALC"] = etat["CALC"]
        /\ etat'["FIXE"] # "CONV" /\ etat'["NEWT"] # "CONV"
      BY <1>1, <1>2, <1>4, <2>1 DEF Loop, Loops, States
  <2>3. Typed' /\ Loop'
      BY <1>1, <1>2, <2>1, <2>2 DEF Typed, Phases, Loop
  <2>4. Tries'
      BY <1>3, <2>1, <2>2 DEF Tries, Computed
  <2>5. Rest'
      BY <1>2, <2>1, <2>2, Untouched, RestIsKept DEF Before
  <2> QED BY <2>3, <2>4, <2>5, InvIsNext
<1>5. CASE etat["NEWT"] = "CONV"
  <2>1. PICK turn \in Turns, grown \in Grown :
            LET o == Observed("FIXE", nmtble(turn), grown)
            IN /\ echec' = o.echec
               /\ IF o.etat["FIXE"] = "EVEN"
                  THEN \E r \in nmevac(o.echec, o.flags) :
                         /\ etat' = [o.etat EXCEPT !["FIXE"] = LoopState(r)]
                         /\ flags' = o.flags \ EVEN /\ sddisc' = r.disc
                         /\ pc' = IF r.ret = 2 THEN "plantage" ELSE "inst"
                         /\ UNCHANGED <<iterat, tours>>
                  ELSE /\ flags' = o.flags /\ UNCHANGED sddisc
                       /\ IF o.etat["FIXE"] = "CONT" /\ study.boucle
                          THEN /\ etat' = o.etat /\ tours' = tours + 1 /\ iterat' = 0
                               /\ pc' = "iteration"
                          ELSE /\ etat' = [o.etat EXCEPT !["FIXE"] = "CONV"]
                               /\ pc' = "inst" /\ UNCHANGED <<iterat, tours>>
      BY <1>5 DEF EndFixedPoint
  <2>2. PICK now : now = nmtble(turn)
      OBVIOUS
  <2>3. PICK o : o = Observed("FIXE", now, grown)
      OBVIOUS
  <2>4. Fresh /\ etat["RESI"] = "CONV" /\ (study.arret => plu.how = "conv")
      BY <1>1, <1>2, <1>5 DEF Tries, Computed
  <2>5. turn \subseteq {"ERRE_CTC", "DIVE_FIX"} /\ ("DIVE_FIX" \in turn => tours < MaxTours)
      BY <2>1 DEF Turns
  <2>6. /\ now.flags = (flags \ {"DIVE_FIX", "ERRE_CTC"}) \cup turn
        /\ now.etat = [etat EXCEPT !["FIXE"] = IF "DIVE_FIX" \notin turn THEN "CONV" ELSE "CONT"]
      BY <1>5, <2>2, <2>4 DEF nmtble
  <2>7. /\ now.flags \subseteq Events /\ "CRIT_STAB" \notin now.flags
        /\ now.etat \in [Loops -> States]
        /\ now.etat["FIXE"] = IF "DIVE_FIX" \notin turn THEN "CONV" ELSE "CONT"
        /\ now.etat["NEWT"] = "CONV" /\ now.etat["RESI"] = "CONV"
        /\ now.etat["CALC"] = etat["CALC"]
    <3>1. now.flags \subseteq Events /\ "CRIT_STAB" \notin now.flags
      <4>1. flags \subseteq Events /\ {"ERRE_CTC", "DIVE_FIX"} \subseteq Events
          BY <1>1 DEF Loop, Events
      <4> QED BY <1>3, <2>5, <2>6, <4>1
    <3>2. /\ now.etat \in [Loops -> States]
          /\ now.etat["FIXE"] = IF "DIVE_FIX" \notin turn THEN "CONV" ELSE "CONT"
          /\ now.etat["NEWT"] = "CONV" /\ now.etat["RESI"] = "CONV"
          /\ now.etat["CALC"] = etat["CALC"]
      <4>1. etat \in [Loops -> States]
          BY <1>1 DEF Loop
      <4> QED BY <1>5, <2>4, <2>6, <4>1 DEF Loops, States
    <3> QED BY <3>1, <3>2
  <2>8. Noticed(o, now, "FIXE")
      BY <1>1, <2>3, <2>7, ObservedNotices
  <2>9. /\ o.etat \in [Loops -> States] /\ o.flags \subseteq Events /\ "CRIT_STAB" \notin o.flags
        /\ o.echec \in 0..Len(study.echec)
        /\ o.etat["NEWT"] = "CONV" /\ o.etat["RESI"] = "CONV" /\ o.etat["CALC"] = etat["CALC"]
      BY <2>7, <2>8 DEF Noticed, Loops
  <2>10. CASE o.etat["FIXE"] = "EVEN"
    <3>1. PICK r \in nmevac(o.echec, o.flags) :
             /\ etat' = [o.etat EXCEPT !["FIXE"] = LoopState(r)]
             /\ flags' = o.flags \ EVEN /\ sddisc' = r.disc
             /\ pc' = IF r.ret = 2 THEN "plantage" ELSE "inst"
             /\ UNCHANGED <<iterat, tours>> /\ echec' = o.echec
        BY <2>1, <2>2, <2>3, <2>10
    <3>2. PICK i \in DOMAIN study.echec : i = o.echec
      <4>1. o.echec # 0
          BY <2>7, <2>8, <2>10 DEF Noticed
      <4>2. Len(study.echec) \in Nat
          BY <1>1, StudyFacts
      <4>3. o.echec > 0
          BY <2>9, <4>1, <4>2
      <4> QED BY <2>8, <4>3 DEF Noticed
    <3>3. r \in nmevac(i, o.flags)
        BY <3>1, <3>2
    <3>4. Answer(r, study.echec[i])
        BY <1>1, <3>3, ActionAnswers
    <3>5. /\ r.ret \in Nat /\ Follows(r.disc, sddisc, numins)
          /\ r.ret # 1 => r.disc.ditr = sddisc.ditr
        BY <3>4 DEF Answer
    <3>6. LoopState(r) \in States /\ (LoopState(r) = "CONV" => r.ret # 1)
        BY <3>5, LoopStates
    <3>7. /\ etat' \in [Loops -> States] /\ etat'["FIXE"] = LoopState(r)
          /\ etat'["NEWT"] = "CONV" /\ etat'["RESI"] = "CONV" /\ etat'["CALC"] = etat["CALC"]
        BY <2>9, <3>1, <3>6 DEF Loops
    <3>8. Typed' /\ Loop'
        BY <1>1, <1>2, <2>9, <3>1, <3>7 DEF Typed, Phases, Loop
    <3>9. etat'["FIXE"] = "CONV" => Fresh'
        BY <1>2, <2>4, <3>1, <3>5, <3>6, <3>7 DEF Fresh, At
    <3>10. Tries'
        BY <1>2, <2>4, <2>9, <3>1, <3>7, <3>9 DEF Tries, Computed
    <3>11. Rest'
        BY <1>2, <3>1, <3>5, <3>7, RestIsKept DEF Before
    <3> QED BY <3>8, <3>10, <3>11, InvIsNext
  <2>11. CASE o.etat["FIXE"] # "EVEN" /\ o.etat["FIXE"] = "CONT" /\ study.boucle
    <3>1. /\ flags' = o.flags /\ UNCHANGED sddisc /\ etat' = o.etat /\ tours' = tours + 1
          /\ iterat' = 0 /\ pc' = "iteration" /\ echec' = o.echec
        BY <2>1, <2>2, <2>3, <2>11
    <3>2. tours' \in 0..MaxTours /\ iterat' \in 0..NbIter
      <4>1. o.echec = 0 => "DIVE_FIX" \in turn
          BY <2>7, <2>8, <2>11 DEF Noticed
      <4>2. o.echec > 0 => o.etat["FIXE"] = "EVEN"
          BY <2>8 DEF Noticed
      <4>3. Len(study.echec) \in Nat
          BY <1>1, StudyFacts
      <4>4. tours < MaxTours /\ tours \in 0..MaxTours
          BY <1>1, <2>5, <2>9, <2>11, <4>1, <4>2, <4>3 DEF Loop
      <4> QED BY <3>1, <4>4, Parameters
    <3>3. Typed' /\ Loop'
        BY <1>1, <1>2, <2>9, <3>1, <3>2 DEF Typed, Phases, Loop
    <3>4. Tries'
        BY <2>9, <3>1 DEF Tries, Computed
    <3>5. Rest'
        BY <1>2, <2>9, <3>1, Untouched, RestIsKept DEF Before
    <3> QED BY <3>3, <3>4, <3>5, InvIsNext
  <2>12. CASE o.etat["FIXE"] # "EVEN" /\ ~(o.etat["FIXE"] = "CONT" /\ study.boucle)
    <3>1. /\ flags' = o.flags /\ UNCHANGED sddisc
          /\ etat' = [o.etat EXCEPT !["FIXE"] = "CONV"]
          /\ pc' = "inst" /\ UNCHANGED <<iterat, tours>> /\ echec' = o.echec
        BY <2>1, <2>2, <2>3, <2>12
    <3>2. /\ etat' \in [Loops -> States]
          /\ etat'["NEWT"] = "CONV" /\ etat'["RESI"] = "CONV" /\ etat'["CALC"] = etat["CALC"]
        BY <2>9, <3>1 DEF Loops, States
    <3>3. Typed' /\ Loop'
        BY <1>1, <1>2, <2>9, <3>1, <3>2 DEF Typed, Phases, Loop
    <3>4. Fresh'
        BY <1>2, <2>4, <3>1 DEF Fresh, At
    <3>5. Tries'
        BY <1>2, <2>4, <2>9, <3>1, <3>2, <3>4 DEF Tries, Computed
    <3>6. Rest'
        BY <1>2, <3>1, <3>2, Untouched, RestIsKept DEF Before
    <3> QED BY <3>3, <3>5, <3>6, InvIsNext
  <2> QED BY <2>10, <2>11, <2>12
<1> QED BY <1>4, <1>5

LEMMA EndStepKeeps ==
    ASSUME IInv, EndStep PROVE IInv'
<1>1. Typed /\ Loop /\ Tries /\ study \in Studies /\ ListOK(sddisc, numins)
    BY DEF IInv, Typed
<1>2. /\ pc = "inst" /\ etat["FIXE"] \in {"CONV", "ERRE", "STOP"}
      /\ pc' = CASE etat'["INST"] = "CONV" -> "calc"
                 [] etat'["INST"] = "ERRE" -> "pas"
                 [] etat'["INST"] = "STOP" -> "arret"
                 [] OTHER                  -> "plantage"
      /\ UNCHANGED <<study, numins, iterat, tours, moi, plu, accepted, archive>>
    BY DEF EndStep
<1>3. /\ pc' \in {"calc", "pas", "arret", "plantage"}
      /\ pc' = "calc" <=> etat'["INST"] = "CONV"
    BY <1>2
<1>4. CASE etat["FIXE"] # "CONV"
  <2>1. etat' = [etat EXCEPT !["INST"] = etat["FIXE"]] /\ UNCHANGED <<sddisc, flags, echec>>
      BY <1>4 DEF EndStep
  <2>2. /\ etat' \in [Loops -> States] /\ etat'["CALC"] = etat["CALC"]
        /\ etat'["INST"] # "CONV"
      BY <1>1, <1>2, <1>4, <2>1 DEF Loop, Loops, States
  <2>3. Typed' /\ Loop'
      BY <1>1, <1>2, <1>3, <2>1, <2>2 DEF Typed, Phases, Loop
  <2>4. Tries'
      BY <1>3, <2>1, <2>2 DEF Tries, Computed
  <2>5. Rest'
      BY <1>2, <2>1, <2>2, Untouched, RestIsKept DEF Before
  <2> QED BY <2>3, <2>4, <2>5, InvIsNext
<1>5. CASE etat["FIXE"] = "CONV"
  <2>1. /\ Fresh /\ etat["NEWT"] = "CONV" /\ etat["RESI"] = "CONV"
        /\ study.arret => plu.how = "conv"
      BY <1>1, <1>2, <1>5 DEF Tries, Computed
  <2>2. PICK post \in Unstable, grown \in Grown :
            LET conv == etat["NEWT"] = "CONV" /\ etat["RESI"] = "CONV"
                o == Observed("INST", [flags |-> flags \cup post,
                                       etat |-> [etat EXCEPT !["INST"] = IF conv THEN "CONV" ELSE "CONT"]],
                              grown)
            IN /\ echec' = o.echec
               /\ \E r \in (CASE o.etat["INST"] = "EVEN" -> nmevac(o.echec, o.flags)
                              [] o.etat["INST"] = "CONV" -> {Back(0, sddisc)}
                              [] OTHER                   -> {Back(2, sddisc)}) :
                    /\ etat' = [o.etat EXCEPT !["INST"] = LoopState(r)]
                    /\ flags' = o.flags \ {x \in EVEN : o.echec > 0}
                    /\ sddisc' = IF LoopState(r) = "CONV" /\ Piloted
                                 THEN [r.disc EXCEPT !.piless = 1] ELSE r.disc
      BY <1>5 DEF EndStep
  <2>3. PICK now : now = [flags |-> flags \cup post, etat |-> [etat EXCEPT !["INST"] = "CONV"]]
      OBVIOUS
  <2>4. PICK o : o = Observed("INST", now, grown)
      OBVIOUS
  <2>5. PICK r \in (CASE o.etat["INST"] = "EVEN" -> nmevac(o.echec, o.flags)
                      [] o.etat["INST"] = "CONV" -> {Back(0, sddisc)}
                      [] OTHER                   -> {Back(2, sddisc)}) :
            /\ echec' = o.echec
            /\ etat' = [o.etat EXCEPT !["INST"] = LoopState(r)]
            /\ flags' = o.flags \ {x \in EVEN : o.echec > 0}
            /\ sddisc' = IF LoopState(r) = "CONV" /\ Piloted
                         THEN [r.disc EXCEPT !.piless = 1] ELSE r.disc
      BY <2>1, <2>2, <2>3, <2>4
  <2>6. /\ now.flags \subseteq Events /\ now.etat \in [Loops -> States]
        /\ now.etat["INST"] = "CONV" /\ now.etat["NEWT"] = "CONV" /\ now.etat["RESI"] = "CONV"
        /\ now.etat["CALC"] = etat["CALC"]
    <3>1. now.flags \subseteq Events
      <4>1. flags \subseteq Events /\ post \subseteq Events
          BY <1>1 DEF Loop, Unstable, Events, EVEN
      <4> QED BY <2>3, <4>1
    <3>2. etat \in [Loops -> States]
        BY <1>1 DEF Loop
    <3>3. /\ now.etat \in [Loops -> States]
          /\ now.etat["INST"] = "CONV" /\ now.etat["NEWT"] = "CONV" /\ now.etat["RESI"] = "CONV"
          /\ now.etat["CALC"] = etat["CALC"]
        BY <2>1, <2>3, <3>2 DEF Loops, States
    <3> QED BY <3>1, <3>3
  <2>7. Noticed(o, now, "INST")
      BY <1>1, <2>4, <2>6, ObservedNotices
  <2>8. /\ o.etat \in [Loops -> States] /\ o.flags \subseteq Events
        /\ o.echec \in 0..Len(study.echec)
        /\ o.etat["NEWT"] = "CONV" /\ o.etat["RESI"] = "CONV" /\ o.etat["CALC"] = etat["CALC"]
      BY <2>6, <2>7 DEF Noticed, Loops
  <2>9. Len(study.echec) \in Nat
      BY <1>1, StudyFacts
  <2>10. /\ r.ret \in Nat /\ Follows(r.disc, sddisc, numins)
         /\ r.ret # 1 => r.disc.ditr = sddisc.ditr
    <3>1. CASE o.echec > 0
      <4>1. PICK i \in DOMAIN study.echec : i = o.echec
          BY <2>7, <3>1 DEF Noticed
      <4>2. o.etat["INST"] = "EVEN"
          BY <2>7, <3>1 DEF Noticed
      <4>3. r \in nmevac(i, o.flags)
          BY <2>5, <4>1, <4>2
      <4>4. Answer(r, study.echec[i])
          BY <1>1, <4>3, ActionAnswers
      <4> QED BY <4>4 DEF Answer
    <3>2. CASE o.echec = 0
      <4>1. o.etat["INST"] = "CONV"
          BY <2>6, <2>7, <3>2 DEF Noticed
      <4>2. r = Back(0, sddisc)
          BY <2>5, <4>1
      <4>3. r.ret = 0 /\ r.disc = sddisc
          BY <4>2, Backs
      <4> QED BY <4>3, Untouched
    <3> QED BY <2>8, <2>9, <3>1, <3>2
  <2>11. Follows(sddisc', sddisc, numins) /\ sddisc'.ditr = r.disc.ditr
    <3>1. r.disc \in Lists /\ ListOK(r.disc, numins)
        BY <2>10 DEF Follows, ListOK
    <3>2. Marked(sddisc', r.disc)
        BY <2>5, <3>1, Marks
    <3>3. Follows(sddisc', r.disc, numins)
        BY <3>1, <3>2, MarkedFollows
    <3> QED BY <2>10, <3>2, <3>3 DEF Follows, Marked
  <2>12. LoopState(r) \in States /\ (LoopState(r) = "CONV" => r.ret # 1)
      BY <2>10, LoopStates
  <2>13. /\ etat' \in [Loops -> States] /\ etat'["INST"] = LoopState(r)
         /\ etat'["NEWT"] = "CONV" /\ etat'["RESI"] = "CONV" /\ etat'["CALC"] = etat["CALC"]
      BY <2>5, <2>8, <2>12 DEF Loops
  <2>14. flags' \subseteq Events /\ echec' \in 0..Len(study.echec)
      BY <2>5, <2>8
  <2>15. Typed' /\ Loop'
      BY <1>1, <1>2, <1>3, <2>13, <2>14 DEF Typed, Phases, Loop
  <2>16. pc' = "calc" => Fresh'
      BY <1>2, <1>3, <2>1, <2>10, <2>11, <2>12, <2>13 DEF Fresh, At
  <2>17. Tries'
      BY <1>2, <1>3, <2>1, <2>13, <2>16 DEF Tries, Computed
  <2>18. Rest'
      BY <1>2, <2>11, <2>13, RestIsKept DEF Before
  <2> QED BY <2>15, <2>17, <2>18, InvIsNext
<1> QED BY <1>4, <1>5

-----------------------------------------------------------------------------
(* An accepted step.                                                       *)

(* A sequence r of elements of S is s and e behind it.                     *)
Extends(r, S, s, e) ==
    /\ r \in Seq(S) /\ Len(r) = Len(s) + 1 /\ DOMAIN r = 1..Len(s) + 1
    /\ \A i \in 1..Len(s) : r[i] = s[i]
    /\ r[Len(s) + 1] = e /\ Last(r) = e

LEMMA Appended ==
    ASSUME NEW S, NEW s \in Seq(S), NEW e \in S
    PROVE  Extends(Append(s, e), S, s, e)
<1> DEFINE r == Append(s, e)
<1>1. /\ r \in Seq(S) /\ Len(r) = Len(s) + 1
      /\ \A i \in 1..Len(s) : r[i] = s[i]
      /\ r[Len(s) + 1] = e
    BY AppendProperties
<1>2. DOMAIN r = 1..Len(s) + 1
    BY <1>1
<1>3. Last(r) = e
    BY <1>1 DEF Last
<1>4. Extends(r, S, s, e)
  <2> HIDE DEF r
  <2> QED BY <1>1, <1>2, <1>3 DEF Extends
<1> QED BY <1>4

(* What the invariant says when a step is accepted.                        *)
LEMMA WhenAccepted ==
    ASSUME IInv, pc = "calc"
    PROVE  /\ study \in Studies /\ plu \in Fields /\ ListOK(sddisc, numins)
           /\ numins \in Nat /\ numins >= 1 /\ numins - 1 + 1 = numins
           /\ accepted \in Seq(Fields) /\ Len(accepted) = numins
           /\ DOMAIN accepted = 1..numins /\ Last(accepted) = accepted[numins]
           /\ At(numins - 1) = sddisc.ditr[numins] /\ At(numins) = sddisc.ditr[numins + 1]
           /\ At(numins - 1) \in Nat /\ At(numins) \in Nat /\ At(numins - 1) < At(numins)
           /\ accepted[numins].inst = At(numins - 1)
           /\ plu.inst = At(numins) /\ plu.from = accepted[numins].inst
           /\ study.arret => plu.how = "conv"
<1>1. Typed /\ Loop /\ ListOK(sddisc, numins) /\ Past /\ Tries /\ study \in Studies
    BY DEF IInv, Typed
<1>2. numins \in Nat /\ numins >= 1 /\ numins - 1 + 1 = numins
    BY <1>1, ListFacts
<1>3. /\ accepted \in Seq(Fields) /\ Len(accepted) = numins /\ moi = Last(accepted)
    BY <1>1 DEF Typed, Past, Before
<1>4. DOMAIN accepted = 1..numins /\ Last(accepted) = accepted[numins]
    BY <1>3 DEF Last
<1>5. /\ At(numins - 1) = sddisc.ditr[numins] /\ At(numins) = sddisc.ditr[numins + 1]
    BY <1>2 DEF At
<1>6. /\ At(numins - 1) \in Nat /\ At(numins) \in Nat /\ At(numins - 1) < At(numins)
  <2>1. /\ sddisc.ditr[numins] \in Nat /\ sddisc.ditr[numins + 1] \in Nat
      BY <1>1, ListFacts
  <2>2. sddisc.ditr[numins] < sddisc.ditr[numins + 1]
      BY <1>1 DEF ListOK
  <2> QED BY <1>5, <2>1, <2>2
<1>7. accepted[numins].inst = At(numins - 1)
    BY <1>1, <1>2, <1>4, <1>5 DEF Past
<1>8. plu.inst = At(numins) /\ plu.from = moi.inst /\ (study.arret => plu.how = "conv")
    BY <1>1 DEF Tries, Computed, Fresh
<1>9. plu \in Fields
    BY <1>1 DEF Typed
<1> QED BY <1>1, <1>2, <1>3, <1>4, <1>5, <1>6, <1>7, <1>8, <1>9

LEMMA AcceptedGrows ==
    ASSUME IInv, pc = "calc", study' = study, accepted' = Append(accepted, plu),
           Len(sddisc'.ditr) \in Nat, Len(sddisc'.ditr) >= numins + 1,
           \A i \in 1..numins + 1 : sddisc'.ditr[i] = sddisc.ditr[i],
           Before' => moi' = plu /\ numins' = numins + 1
    PROVE  /\ accepted' \in Seq(Fields) /\ Last(accepted') = plu
           /\ plu \in ToSet(accepted') /\ ToSet(accepted) \subseteq ToSet(accepted')
           /\ Past' /\ Converged'
<1> DEFINE n == numins
<1>1. /\ n \in Nat /\ n >= 1 /\ n - 1 + 1 = n /\ n + 1 - 1 = n
      /\ n + 1 > 1 /\ n \in 1..n /\ n + 1 \in 1..n + 1
    BY WhenAccepted
<1>2. /\ accepted' \in Seq(Fields) /\ Len(accepted') = n + 1 /\ DOMAIN accepted' = 1..n + 1
      /\ \A i \in 1..n : accepted'[i] = accepted[i]
      /\ accepted'[n + 1] = plu /\ Last(accepted') = plu
  <2>1. accepted \in Seq(Fields) /\ plu \in Fields /\ Len(accepted) = n
      BY WhenAccepted
  <2>2. Extends(accepted', Fields, accepted, plu)
      BY <2>1, Appended
  <2> QED BY <2>1, <2>2 DEF Extends
<1>3. plu \in ToSet(accepted') /\ ToSet(accepted) \subseteq ToSet(accepted')
  <2>1. DOMAIN accepted = 1..n
      BY WhenAccepted
  <2>2. \A i \in 1..n : i \in 1..n + 1
      BY <1>1
  <2> QED BY <1>1, <1>2, <2>1, <2>2 DEF ToSet
<1>4. Past /\ Converged
    BY DEF IInv
<1>5. ASSUME NEW i \in 1..n + 1
      PROVE  /\ accepted'[i].inst = sddisc'.ditr[i]
             /\ i > 1 => /\ accepted'[i].from = accepted'[i - 1].inst
                         /\ accepted'[i].inst > accepted'[i - 1].inst
  <2>1. CASE i \in 1..n
    <3>1. accepted'[i] = accepted[i] /\ i \in DOMAIN accepted
        BY <1>2, <2>1, WhenAccepted
    <3>2. i > 1 => i - 1 \in 1..n /\ accepted'[i - 1] = accepted[i - 1]
        BY <1>1, <1>2, <2>1
    <3>3. sddisc'.ditr[i] = sddisc.ditr[i]
        OBVIOUS
    <3>4. /\ accepted[i].inst = sddisc.ditr[i]
          /\ i > 1 => /\ accepted[i].from = accepted[i - 1].inst
                      /\ accepted[i].inst > accepted[i - 1].inst
        BY <1>4, <3>1 DEF Past
    <3> QED BY <3>1, <3>2, <3>3, <3>4
  <2>2. CASE i = n + 1
    <3>1. accepted'[i] = plu /\ accepted'[i - 1] = accepted[n]
        BY <1>1, <1>2, <2>2
    <3>2. sddisc'.ditr[i] = sddisc.ditr[n + 1]
        BY <2>2
    <3>3. /\ plu.inst = sddisc.ditr[n + 1] /\ plu.from = accepted[n].inst
          /\ plu.inst > accepted[n].inst
      <4>1. /\ plu.inst = sddisc.ditr[n + 1] /\ plu.from = accepted[n].inst
            /\ accepted[n].inst = At(n - 1) /\ plu.inst = At(n)
            /\ At(n - 1) \in Nat /\ At(n) \in Nat /\ At(n - 1) < At(n)
          BY WhenAccepted
      <4> QED BY <4>1
    <3> QED BY <2>2, <3>1, <3>2, <3>3
  <2>3. i \in 1..n \/ i = n + 1
      BY <1>1
  <2> HIDE DEF n
  <2> QED BY <2>1, <2>2, <2>3
<1>6. ASSUME NEW i \in DOMAIN study.list, study.list[i] <= plu.inst
      PROVE  \E k \in 1..n + 1 : study.list[i] = accepted'[k].inst
  <2>1. study.list[i] \in Nat
    <3>1. study.list \in Seq(Nat)
        BY WhenAccepted, StudyFacts
    <3> QED BY <3>1
  <2>2. study.list[i] <= At(n - 1) \/ study.list[i] >= At(n)
      BY WhenAccepted DEF ListOK
  <2>3. CASE study.list[i] <= At(n - 1)
    <3>1. study.list[i] <= Last(accepted).inst
        BY <2>3, WhenAccepted
    <3>2. study.list[i] \in AcceptedAt
        BY <1>4, <3>1 DEF Past
    <3>3. PICK k \in 1..n : study.list[i] = accepted[k].inst
        BY <3>2, WhenAccepted DEF AcceptedAt
    <3> QED BY <1>1, <1>2, <3>3
  <2>4. CASE study.list[i] >= At(n)
    <3>1. plu.inst = At(n) /\ At(n) \in Nat
        BY WhenAccepted
    <3>2. study.list[i] = plu.inst
        BY <1>6, <2>1, <2>4, <3>1
    <3> QED BY <1>1, <1>2, <3>2
  <2> QED BY <2>2, <2>3, <2>4
<1>7. Past'
  <2>1. Len(accepted') >= 1 /\ Len(accepted') <= Len(sddisc'.ditr)
      BY <1>1, <1>2
  <2>2. Before' => moi' = Last(accepted') /\ numins' = Len(accepted')
      BY <1>2
  <2>3. \A i \in DOMAIN study.list :
           study.list[i] <= Last(accepted').inst =>
              study.list[i] \in {accepted'[k].inst : k \in DOMAIN accepted'}
      BY <1>2, <1>6
  <2> QED BY <1>2, <1>5, <2>1, <2>2, <2>3 DEF Past, AcceptedAt
<1>8. Converged'
  <2>1. study.arret => plu.how = "conv"
      BY WhenAccepted
  <2>2. study.arret => \A i \in 1..n : accepted[i].how = "conv"
      BY <1>4, WhenAccepted DEF Converged
  <2>3. \A i \in 1..n + 1 : i \in 1..n \/ i = n + 1
      BY <1>1
  <2> QED BY <1>2, <2>1, <2>2, <2>3 DEF Converged
<1> QED BY <1>2, <1>3, <1>7, <1>8

(* What the result holds: the fields of accepted steps, in their order.    *)
Holds(ar, ac) ==
    /\ Len(ar) >= 1
    /\ \A i \in DOMAIN ar : ar[i].fields.inst = ar[i].inst /\ ar[i].fields \in ToSet(ac)
    /\ \A i \in 1..Len(ar) - 1 : ar[i].inst < ar[i + 1].inst
Stores == Seq([inst : Nat, fields : Fields])

LEMMA AcceptedIsStored ==
    ASSUME IInv, pc = "calc", NEW ac, plu \in ToSet(ac), ToSet(accepted) \subseteq ToSet(ac),
           NEW force \in BOOLEAN, NEW ar, ar = Stored(numins, force)
    PROVE  /\ ar \in Stores /\ Holds(ar, ac)
           /\ Last(ar).inst <= At(numins)
           /\ force \/ numins % study.pasarch = 0 =>
                 Len(ar) > 1 /\ Last(ar).inst = At(numins) /\ Last(ar).fields = plu
<1> DEFINE n == numins
           t == At(numins)
           e == [inst |-> t, fields |-> plu]
<1>1. archive \in Stores /\ Kept /\ Last(archive).inst <= At(n - 1)
    BY DEF IInv, Typed, Kept, Stores, Before
<1>2. plu \in Fields /\ plu.inst = t /\ t \in Nat /\ At(n - 1) \in Nat /\ At(n - 1) < t
    BY WhenAccepted
<1>3. e \in [inst : Nat, fields : Fields]
    BY <1>2
<1>4. Len(archive) \in Nat /\ Len(archive) >= 1 /\ DOMAIN archive = 1..Len(archive)
      /\ \A i \in 1..Len(archive) : archive[i] \in [inst : Nat, fields : Fields]
      /\ Last(archive) = archive[Len(archive)]
  <2>1. archive \in Seq([inst : Nat, fields : Fields]) /\ Len(archive) >= 1
      BY <1>1 DEF Kept, Stores
  <2>2. Last(archive) = archive[Len(archive)]
      BY DEF Last
  <2>3. Len(archive) \in Nat /\ DOMAIN archive = 1..Len(archive)
      BY <2>1
  <2>4. \A i \in 1..Len(archive) : archive[i] \in [inst : Nat, fields : Fields]
      BY <2>1, ElementOfSeq
  <2> QED BY <2>1, <2>2, <2>3, <2>4
<1>5. Last(archive).inst \in Nat /\ Last(archive).inst < t
  <2>1. Len(archive) \in 1..Len(archive)
      BY <1>4
  <2>2. Last(archive).inst \in Nat
      BY <1>4, <2>1
  <2> HIDE DEF n, t
  <2> QED BY <1>1, <1>2, <2>2
<1>6. Holds(archive, ac)
  <2>1. /\ \A i \in DOMAIN archive : /\ archive[i].fields.inst = archive[i].inst
                                     /\ archive[i].fields \in ToSet(accepted)
        /\ \A i \in 1..Len(archive) - 1 : archive[i].inst < archive[i + 1].inst
      BY <1>1 DEF Kept
  <2>2. \A i \in DOMAIN archive : archive[i].fields \in ToSet(ac)
      BY <2>1
  <2> QED BY <1>4, <2>1, <2>2 DEF Holds
<1>7. CASE n % study.pasarch = 0 \/ force
  <2>1. ar = Append(archive, e)
    <3>1. Len(archive) >= 2 => t > Last(archive).inst
        BY <1>2, <1>5
    <3> QED BY <1>7, <3>1 DEF Stored
  <2> HIDE DEF e, n, t
  <2>2. Extends(ar, [inst : Nat, fields : Fields], archive, e)
      BY <1>1, <1>3, <2>1, Appended DEF Stores
  <2>3. /\ ar \in Stores /\ Len(ar) = Len(archive) + 1 /\ DOMAIN ar = 1..Len(archive) + 1
        /\ \A i \in 1..Len(archive) : ar[i] = archive[i]
        /\ ar[Len(archive) + 1] = e /\ Last(ar) = e
      BY <2>2 DEF Extends, Stores
  <2>4. e.inst = t /\ e.fields = plu
      BY DEF e
  <2>5. ASSUME NEW i \in DOMAIN ar
        PROVE  ar[i].fields.inst = ar[i].inst /\ ar[i].fields \in ToSet(ac)
    <3>1. CASE i \in 1..Len(archive)
      <4>1. ar[i] = archive[i]
          BY <2>3, <3>1
      <4>2. archive[i].fields.inst = archive[i].inst /\ archive[i].fields \in ToSet(ac)
          BY <1>4, <1>6, <3>1 DEF Holds
      <4> QED BY <4>1, <4>2
    <3>2. CASE i = Len(archive) + 1
        BY <1>2, <2>3, <2>4, <3>2
    <3>3. i \in 1..Len(archive) \/ i = Len(archive) + 1
        BY <1>4, <2>3
    <3> QED BY <3>1, <3>2, <3>3
  <2>6. ASSUME NEW i \in 1..Len(ar) - 1 PROVE ar[i].inst < ar[i + 1].inst
    <3>1. CASE i \in 1..Len(archive) - 1
      <4>1. i \in 1..Len(archive) /\ i + 1 \in 1..Len(archive)
          BY <1>4, <3>1
      <4>2. ar[i] = archive[i] /\ ar[i + 1] = archive[i + 1]
          BY <2>3, <4>1
      <4> QED BY <1>6, <3>1, <4>2 DEF Holds
    <3>2. CASE i = Len(archive)
      <4>1. i \in 1..Len(archive)
          BY <1>4, <3>2
      <4>2. ar[i] = Last(archive) /\ ar[i + 1] = e
          BY <1>4, <2>3, <3>2, <4>1
      <4> QED BY <1>5, <2>4, <4>2
    <3>3. i \in 1..Len(archive) - 1 \/ i = Len(archive)
      <4>1. PICK m \in Nat : m = Len(archive)
          BY <1>4
      <4>2. i \in 1..m + 1 - 1
          BY <2>3, <4>1
      <4>3. i \in 1..m - 1 \/ i = m
          BY <4>2
      <4> QED BY <4>1, <4>3
    <3> QED BY <3>1, <3>2, <3>3
  <2>7. Len(ar) > 1
      BY <1>4, <2>3
  <2>8. Holds(ar, ac)
      BY <2>5, <2>6, <2>7 DEF Holds
  <2>9. Last(ar).inst = t /\ Last(ar).fields = plu /\ Last(ar).inst <= t
      BY <1>2, <2>3, <2>4
  <2> QED BY <2>3, <2>7, <2>8, <2>9 DEF t
<1>8. CASE ~(n % study.pasarch = 0 \/ force)
  <2>1. ar = archive
      BY <1>8 DEF Stored
  <2>2. Last(ar).inst <= t
      BY <1>2, <1>5, <2>1
  <2> QED BY <1>1, <1>6, <1>8, <2>1, <2>2
<1> QED BY <1>7, <1>8

(* No step is left when the last instant of the user's list is reached.    *)
LEMMA LastStepIsLast ==
    ASSUME study \in Studies, ListOK(sddisc, numins), LastStep(numins)
    PROVE  At(numins) = Last(study.list)
<1>1. /\ study.list \in Seq(Nat) /\ Len(study.list) > 1
    BY StudyFacts
<1>2. /\ numins \in Nat /\ Len(sddisc.ditr) \in Nat /\ At(numins) = sddisc.ditr[numins + 1]
      /\ At(numins) \in Nat
    BY ListFacts DEF At
<1>3. CASE numins = Len(sddisc.ditr) - 1
  <2>1. numins + 1 = Len(sddisc.ditr)
      BY <1>2, <1>3
  <2> QED BY <1>2, <1>3, <2>1 DEF ListOK
<1>4. CASE AUTO /\ Jalons(At(numins)) = {}
  <2>1. /\ Len(study.list) \in DOMAIN study.list
        /\ Last(study.list) = study.list[Len(study.list)] /\ Last(study.list) \in Nat
      BY <1>1 DEF Last
  <2>2. ~(study.list[Len(study.list)] > At(numins))
      BY <1>4, <2>1 DEF Jalons
  <2>3. At(numins) <= Last(study.list)
      BY <1>2 DEF ListOK
  <2> QED BY <1>2, <2>1, <2>2, <2>3
<1> QED BY <1>3, <1>4 DEF LastStep

(* METHODE='MANUEL': the next instant of the list.                         *)
LEMMA NextIsListed ==
    ASSUME study \in Studies, ListOK(sddisc, numins), ~AUTO, ~LastStep(numins)
    PROVE  ListOK(sddisc, numins + 1)
<1> DEFINE n == numins
           t == sddisc.ditr
           m == Len(sddisc.ditr)
<1>1. /\ t \in Seq(Nat) /\ m \in Nat /\ DOMAIN t = 1..m /\ n \in Nat /\ n >= 1
      /\ n + 1 <= m /\ sddisc \in Lists /\ sddisc.dtm > 0
    BY ListFacts DEF ListOK
<1>2. n + 1 \in 1..m - 1 /\ n + 1 + 1 \in 1..m
  <2>1. n # m - 1
      BY DEF LastStep
  <2> QED BY <1>1, <2>1
<1>3. /\ DOMAIN sddisc.dini = DOMAIN t
      /\ \A i \in 1..m - 1 : t[i] < t[i + 1]
      /\ \A i \in DOMAIN study.list : \E k \in DOMAIN t : t[k] = study.list[i]
      /\ t[m] = Last(study.list)
    BY DEF ListOK
<1>4. \A i, j \in 1..m : i < j => t[i] < t[j]
  <2>1. \A i \in 1..m : t[i] \in Int
      BY <1>1
  <2> HIDE DEF m, t
  <2> QED BY <1>1, <1>3, <2>1, Increasing
<1>5. \A i \in 1..m : t[i] \in Nat
    BY <1>1
<1>6. t[n + 1 + 1] <= Last(study.list)
  <2> HIDE DEF m, t, n
  <2>1. m \in 1..m /\ (n + 1 + 1 = m \/ n + 1 + 1 < m)
      BY <1>1, <1>2
  <2> QED BY <1>2, <1>3, <1>4, <1>5, <2>1
<1>7. ASSUME NEW i \in DOMAIN study.list
      PROVE  study.list[i] <= t[n + 1] \/ study.list[i] >= t[n + 1 + 1]
  <2> HIDE DEF m, t, n
  <2>1. PICK k \in 1..m : t[k] = study.list[i]
      BY <1>1, <1>3
  <2>2. n + 1 \in 1..m /\ k \in Nat
      BY <1>1, <1>2
  <2>3. k = n + 1 \/ k < n + 1 \/ k = n + 1 + 1 \/ n + 1 + 1 < k
      BY <1>1, <2>2
  <2> QED BY <1>2, <1>4, <1>5, <2>1, <2>2, <2>3
<1>8. t[n + 1] < t[n + 1 + 1]
    BY <1>2, <1>3
<1> QED BY <1>1, <1>2, <1>3, <1>6, <1>7, <1>8 DEF ListOK

(* METHODE='AUTO': the next step is not empty and does not go beyond the   *)
(* next instant of the user's list.                                        *)
LEMMA NextStepFits ==
    ASSUME study \in Studies, ListOK(sddisc, numins), ~LastStep(numins), AUTO,
           NEW k \in {1, 2}, NEW s, s = NextStep(k * sddisc.dtm)
    PROVE  /\ s.step \in Nat /\ s.step > 0 /\ s.dtm \in Nat /\ s.dtm > 0
           /\ At(numins) + s.step <= Last(study.list)
           /\ \A i \in DOMAIN study.list :
                 study.list[i] <= At(numins) \/ study.list[i] >= At(numins) + s.step
<1> DEFINE inst == At(numins)
           J    == Jalons(inst)
           jal  == Min(J)
           dt   == k * sddisc.dtm
           dt2  == IF dt > study.pasmaxi THEN study.pasmaxi ELSE dt
           dt3  == IF inst + dt2 > jal - PasMini THEN jal - inst ELSE dt2
<1>1. /\ study.list \in Seq(Nat) /\ Len(study.list) > 1 /\ study.pasmaxi \in Nat \ {0}
      /\ \A i \in 1..Len(study.list) - 1 : study.list[i] < study.list[i + 1]
    BY StudyFacts
<1>2. inst \in Nat /\ sddisc.dtm \in Nat /\ sddisc.dtm > 0
    BY ListFacts DEF At
<1>3. /\ DOMAIN study.list = 1..Len(study.list) /\ Len(study.list) \in Nat
      /\ \A i \in 1..Len(study.list) : study.list[i] \in Nat
    BY <1>1
<1>4. J \in SUBSET Nat /\ J # {}
    BY <1>3 DEF LastStep, Jalons
<1>5. jal \in J /\ \A y \in J : jal <= y
  <2> HIDE DEF J
  <2> QED BY <1>4, FirstNat
<1>6. jal \in Nat /\ jal > inst /\ \E i \in DOMAIN study.list : jal = study.list[i]
    BY <1>3, <1>5 DEF Jalons
<1>7. s.step = dt3 /\ s.dtm = IF inst + dt2 > jal THEN sddisc.dtm ELSE dt3
    BY DEF NextStep
<1>8. dt2 \in Nat /\ dt2 > 0
    BY <1>1, <1>2
<1> HIDE DEF jal, dt2, J
<1>9. dt3 \in Nat /\ dt3 > 0 /\ inst + dt3 <= jal
  <2> HIDE DEF inst
  <2> QED BY <1>2, <1>6, <1>8, Parameters
<1>10. jal <= Last(study.list)
  <2>1. PICK i \in 1..Len(study.list) : jal = study.list[i]
      BY <1>3, <1>6
  <2>2. \A j \in 1..Len(study.list) : study.list[j] \in Int
      BY <1>3
  <2>3. \A a, b \in 1..Len(study.list) : a < b => study.list[a] < study.list[b]
      BY <1>1, <1>3, <2>2, Increasing
  <2>4. PICK m \in Nat : m = Len(study.list)
      BY <1>3
  <2>5. m \in 1..m /\ (i = m \/ i < m)
      BY <1>1, <2>1, <2>4
  <2>6. Last(study.list) = study.list[m]
      BY <2>4 DEF Last
  <2>7. i \in 1..m /\ study.list[i] \in Nat /\ study.list[m] \in Nat
      BY <1>3, <2>1, <2>4, <2>5
  <2>8. i < m => study.list[i] < study.list[m]
      BY <2>3, <2>4, <2>5, <2>7
  <2> QED BY <2>1, <2>5, <2>6, <2>7, <2>8
<1>11. Last(study.list) \in Nat
    BY <1>1 DEF Last
<1>12. s.step \in Nat /\ s.step > 0 /\ s.dtm \in Nat /\ s.dtm > 0
  <2> HIDE DEF dt3
  <2> QED BY <1>2, <1>7, <1>9
<1> HIDE DEF dt3, inst
<1>13. inst + s.step <= jal
    BY <1>7, <1>9
<1>14. ASSUME NEW i \in DOMAIN study.list
       PROVE  study.list[i] <= inst \/ study.list[i] >= inst + s.step
  <2>1. CASE study.list[i] > inst
    <3>1. study.list[i] \in J
        BY <2>1 DEF J, Jalons
    <3>2. jal <= study.list[i] /\ study.list[i] \in Nat
        BY <1>3, <1>5, <3>1
    <3> QED BY <1>2, <1>6, <1>12, <1>13, <3>2
  <2>2. study.list[i] \in Nat
      BY <1>3
  <2> QED BY <1>2, <2>1, <2>2
<1>15. inst + s.step <= Last(study.list)
    BY <1>2, <1>6, <1>10, <1>11, <1>12, <1>13
<1> QED BY <1>12, <1>14, <1>15 DEF inst

LEMMA NextIsAdded ==
    ASSUME study \in Studies, ListOK(sddisc, numins), ~LastStep(numins), AUTO,
           NEW k \in {1, 2}, NEW s, s = NextStep(k * sddisc.dtm),
           NEW d, d = [sddisc EXCEPT !.dtm = s.dtm,
                          !.ditr = InsertInstants(@, numins + 1, <<At(numins) + s.step>>)]
    PROVE  /\ ListOK(d, numins + 1)
           /\ \A i \in 1..numins + 1 : d.ditr[i] = sddisc.ditr[i]
<1> DEFINE n == numins
           t == sddisc.ditr
           x == At(numins) + s.step
           r == d.ditr
<1>1. /\ t \in Seq(Nat) /\ Len(t) \in Nat /\ n \in Nat /\ n >= 1 /\ n + 1 <= Len(t)
      /\ sddisc \in Lists /\ At(n) = t[n + 1] /\ At(n) \in Nat
    BY ListFacts DEF ListOK, At
<1>2. /\ s.step \in Nat /\ s.step > 0 /\ s.dtm \in Nat /\ s.dtm > 0
      /\ x <= Last(study.list)
      /\ \A i \in DOMAIN study.list : study.list[i] <= At(n) \/ study.list[i] >= x
    BY NextStepFits
<1>3. x \in Nat /\ At(n) < x
    BY <1>1, <1>2, SMTT(30)
<1>4. /\ r = InsertInstants(t, n + 1, <<x>>) /\ d.dtm = s.dtm /\ d.dini = sddisc.dini
      /\ d.itersup = sddisc.itersup /\ d.piless = sddisc.piless
      /\ d = [ditr |-> r, dini |-> d.dini, dtm |-> d.dtm, itersup |-> d.itersup,
              piless |-> d.piless]
    BY <1>1 DEF Lists
<1> HIDE DEF t, x, r, n
<1>5. <<x>> \in Seq(Nat) /\ Len(<<x>>) = 1 /\ <<x>>[1] = x
    BY <1>3
<1>6. Inserted(r, t, n + 1, <<x>>)
  <2>1. n + 1 \in 1..Len(t)
      BY <1>1
  <2> QED BY <1>1, <1>4, <1>5, <2>1, InsertInstantsInserts
<1>7. /\ r \in Seq(Nat) /\ Len(r) = Len(t) + 1
      /\ \A i \in 1..n + 1 : r[i] = t[i]
      /\ r[n + 1 + 1] = x
    BY <1>5, <1>6 DEF Inserted
<1>8. d \in Lists /\ d.dtm > 0
    BY <1>1, <1>2, <1>4, <1>7 DEF Lists
<1>9. n + 1 \in 1..n + 1 /\ n + 1 \in 1..Len(r) - 1
    BY <1>1, <1>7, SMTT(30)
<1>10. r[n + 1] = At(n)
    BY <1>1, <1>7, <1>9
<1>11. n + 1 # Len(r) - 1
  <2>1. n # Len(t) - 1
      BY DEF LastStep, n, t
  <2>2. PICK m \in Nat : m = Len(t)
      BY <1>1
  <2>3. n # m - 1 /\ Len(r) = m + 1 /\ n \in Nat
      BY <1>1, <1>7, <2>1, <2>2
  <2> QED BY <2>2, <2>3
<1>12. ListOK(d, n + 1)
    BY <1>2, <1>3, <1>7, <1>8, <1>9, <1>10, <1>11 DEF ListOK, r
<1> QED BY <1>7, <1>12 DEF n, t, r

LEMMA AcceptKeeps ==
    ASSUME IInv, Accept PROVE IInv'
<1>1. /\ Typed /\ Loop /\ study \in Studies /\ ListOK(sddisc, numins) /\ sddisc \in Lists
      /\ pc = "calc"
    BY DEF IInv, Typed, ListOK, Accept
<1>2. PICK why \in {{}, {"ERRE_TIMP"}, {"ERRE_EXCP"}} :
          LET calc == EndOfComputation(why)
          IN /\ flags' = (flags \ ERRI_CALC) \cup why
             /\ etat' = [Stopped(why, etat) EXCEPT !["CALC"] = calc]
             /\ accepted' = Append(accepted, plu)
             /\ archive' = Stored(numins, calc # "CONT")
             /\ CASE calc = "CONT" -> NextInstant
                  [] calc = "CONV" -> pc' = "fin" /\ UNCHANGED <<sddisc, numins, moi>>
                  [] calc = "STOP" -> pc' = "arret" /\ UNCHANGED <<sddisc, numins, moi>>
    BY DEF Accept
<1>3. PICK calc : calc = EndOfComputation(why)
    OBVIOUS
<1>4. /\ flags' = (flags \ ERRI_CALC) \cup why
      /\ etat' = [Stopped(why, etat) EXCEPT !["CALC"] = calc]
      /\ accepted' = Append(accepted, plu)
      /\ archive' = Stored(numins, calc # "CONT")
      /\ calc = "CONT" => NextInstant
      /\ calc = "CONV" => pc' = "fin" /\ UNCHANGED <<sddisc, numins, moi>>
      /\ calc = "STOP" => pc' = "arret" /\ UNCHANGED <<sddisc, numins, moi>>
      /\ UNCHANGED <<study, iterat, tours, echec, plu>>
    BY <1>2, <1>3 DEF Accept
<1>5. /\ calc \in {"CONT", "CONV", "STOP"}
      /\ calc = "CONV" => LastStep(numins)
      /\ calc = "CONT" => ~LastStep(numins)
    BY <1>3 DEF EndOfComputation
<1>6. etat' \in [Loops -> States] /\ etat'["CALC"] = calc
  <2>1. etat \in [Loops -> States]
      BY <1>1 DEF Loop
  <2>2. Stopped(why, etat) \in [Loops -> States]
    <3>1. CASE why = {}
        BY <2>1, <3>1 DEF Stopped
    <3>2. CASE why # {}
      <4>1. Stopped(why, etat) = [l \in Loops |-> CASE l = "CALC" -> "ERRE"
                                                    [] l = "RESI" -> etat[l]
                                                    [] OTHER -> "STOP"]
          BY <3>2 DEF Stopped
      <4>2. \A l \in Loops : (CASE l = "CALC" -> "ERRE" [] l = "RESI" -> etat[l]
                                [] OTHER -> "STOP") \in States
          BY <2>1 DEF States, Loops
      <4> QED BY <4>1, <4>2
    <3> QED BY <3>1, <3>2
  <2> QED BY <1>4, <1>5, <2>2 DEF States, Loops
<1>7. Loop'
  <2>1. flags' \subseteq Events
      BY <1>1, <1>4 DEF Loop, Events, ERRI_CALC
  <2> QED BY <1>1, <1>4, <1>6, <2>1 DEF Loop
(* The list of instants, and where the computation goes on.                *)
<1>8. /\ ListOK(sddisc', numins')
      /\ \A i \in 1..numins + 1 : sddisc'.ditr[i] = sddisc.ditr[i]
      /\ pc' \in {"pas", "fin", "arret"}
      /\ pc' = "pas" => calc = "CONT" /\ moi' = plu /\ numins' = numins + 1
      /\ pc' # "pas" => moi' = moi /\ numins' = numins
      /\ pc' = "arret" <=> calc = "STOP"
      /\ calc = "CONV" => pc' = "fin"
      /\ sddisc'.ditr[numins + 1] = At(numins)
      /\ Len(sddisc'.ditr) \in Nat /\ Len(sddisc'.ditr) >= numins + 1
  <2>1. /\ numins + 1 \in 1..numins + 1 /\ numins \in Nat
        /\ At(numins) = sddisc.ditr[numins + 1]
      BY <1>1, WhenAccepted
  <2>2. ASSUME sddisc' = sddisc, numins' = numins
        PROVE  /\ ListOK(sddisc', numins')
               /\ \A i \in 1..numins + 1 : sddisc'.ditr[i] = sddisc.ditr[i]
               /\ Len(sddisc'.ditr) \in Nat /\ Len(sddisc'.ditr) >= numins + 1
      BY <1>1, <2>2, ListFacts
  <2>3. CASE calc = "CONV" \/ calc = "STOP"
      BY <1>4, <2>1, <2>2, <2>3
  <2>4. CASE calc = "CONT" /\ ~AUTO
    <3>1. numins' = numins + 1 /\ moi' = plu /\ pc' = "pas" /\ sddisc' = sddisc
        BY <1>4, <2>4 DEF NextInstant
    <3>2. ListOK(sddisc, numins + 1)
        BY <1>1, <1>5, <2>4, NextIsListed
    <3>3. Len(sddisc.ditr) \in Nat /\ numins + 1 <= Len(sddisc.ditr)
        BY <1>1, ListFacts
    <3> QED BY <2>1, <2>4, <3>1, <3>2, <3>3
  <2>5. CASE calc = "CONT" /\ AUTO
    <3>1. PICK k \in {1, 2} : LET s == NextStep(k * sddisc.dtm) IN
            IF NextStepFails(s)
            THEN pc' = "fin" /\ UNCHANGED <<numins, moi, sddisc>>
            ELSE /\ sddisc' = [sddisc EXCEPT !.dtm = s.dtm,
                                  !.ditr = InsertInstants(@, numins + 1, <<At(numins) + s.step>>)]
                 /\ numins' = numins + 1 /\ moi' = plu /\ pc' = "pas"
        BY <1>4, <2>5 DEF NextInstant
    <3>2. PICK s : s = NextStep(k * sddisc.dtm)
        OBVIOUS
    <3>3. CASE NextStepFails(s)
      <4>1. pc' = "fin" /\ UNCHANGED <<numins, moi, sddisc>>
          BY <3>1, <3>2, <3>3
      <4> QED BY <2>1, <2>2, <2>5, <4>1
    <3>4. CASE ~NextStepFails(s)
      <4>1. /\ sddisc' = [sddisc EXCEPT !.dtm = s.dtm,
                             !.ditr = InsertInstants(@, numins + 1, <<At(numins) + s.step>>)]
            /\ numins' = numins + 1 /\ moi' = plu /\ pc' = "pas"
          BY <3>1, <3>2, <3>4
      <4>2. /\ ListOK(sddisc', numins + 1)
            /\ \A i \in 1..numins + 1 : sddisc'.ditr[i] = sddisc.ditr[i]
          BY <1>1, <1>5, <2>5, <3>2, <4>1, NextIsAdded, ZenonT(60)
      <4>3. /\ Len(sddisc'.ditr) \in Nat /\ numins + 1 <= Len(sddisc'.ditr)
        <5>1. PICK m : m = numins + 1
            OBVIOUS
        <5>2. Len(sddisc'.ditr) \in Nat /\ m >= 1 /\ m + 1 <= Len(sddisc'.ditr) /\ m \in Nat
            BY <4>2, <5>1, ListFacts
        <5> QED BY <5>1, <5>2
      <4> QED BY <2>1, <2>5, <4>1, <4>2, <4>3
    <3> QED BY <3>3, <3>4
  <2> QED BY <1>5, <2>3, <2>4, <2>5
<1>9. Before' <=> pc' = "pas"
    BY <1>6, <1>8 DEF Before
<1>10. /\ accepted' \in Seq(Fields) /\ Last(accepted') = plu
       /\ plu \in ToSet(accepted') /\ ToSet(accepted) \subseteq ToSet(accepted')
       /\ Past' /\ Converged'
    BY <1>1, <1>4, <1>8, <1>9, AcceptedGrows
<1>11. /\ archive' \in Stores /\ Holds(archive', accepted')
       /\ Last(archive').inst <= At(numins)
       /\ calc # "CONT" \/ numins % study.pasarch = 0 =>
             /\ Len(archive') > 1 /\ Last(archive').inst = At(numins)
             /\ Last(archive').fields = plu
  <2>1. (calc # "CONT") \in BOOLEAN
      OBVIOUS
  <2> QED BY <1>1, <1>4, <1>10, <2>1, AcceptedIsStored
<1>12. Typed'
    BY <1>1, <1>4, <1>8, <1>10, <1>11, WhenAccepted DEF Typed, Phases, Stores
<1>13. Tries'
    BY <1>8 DEF Tries, Computed
<1>14. Kept'
  <2>1. numins \in Nat /\ numins + 1 - 1 = numins
      BY <1>1, WhenAccepted
  <2>2. ASSUME Before'
        PROVE  /\ Last(archive').inst <= (At(numins - 1))'
               /\ numins' > 1 /\ (numins' - 1) % study'.pasarch = 0 =>
                    Len(archive') > 1 /\ Last(archive').inst = (At(numins - 1))'
    <3>1. numins' = numins + 1 /\ numins' - 1 = numins /\ study' = study
        BY <1>4, <1>8, <1>9, <2>1, <2>2
    <3>2. (At(numins - 1))' = At(numins)
        BY <1>8, <3>1 DEF At
    <3> QED BY <1>11, <3>1, <3>2
  <2> QED BY <1>11, <2>2 DEF Kept, Holds
<1>15. Ended'
  <2>1. ASSUME calc = "STOP"
        PROVE  /\ pc' = "arret" /\ Len(archive') > 1
               /\ Last(archive').inst = (At(numins))'
    <3>1. (At(numins))' = At(numins)
        BY <1>8, <2>1 DEF At
    <3> QED BY <1>8, <1>11, <2>1, <3>1
  <2>2. ASSUME calc = "CONV"
        PROVE  /\ pc' = "fin" /\ Last(accepted').inst = Last(study'.list)
               /\ Last(archive').fields = Last(accepted')
    <3>1. At(numins) = Last(study.list)
        BY <1>1, <1>5, <2>2, LastStepIsLast
    <3>2. plu.inst = At(numins)
        BY <1>1, WhenAccepted
    <3> QED BY <1>4, <1>8, <1>10, <1>11, <2>2, <3>1, <3>2
  <2> QED BY <1>6, <2>1, <2>2 DEF Ended
<1>16. ListOK(sddisc, numins)'
    BY <1>4, <1>8 DEF ListOK, AUTO
<1>17. Rest'
    BY <1>10, <1>14, <1>15, <1>16 DEF Rest
<1> QED BY <1>7, <1>12, <1>13, <1>17, InvIsNext

(* The end of a computation that has failed stores nothing: what is to be  *)
(* stored of the accepted steps already is.                                *)
LEMMA FailKeeps ==
    ASSUME IInv, Fail PROVE IInv'
<1>1. /\ Typed /\ Loop /\ study \in Studies /\ ListOK(sddisc, numins) /\ Past /\ Kept
      /\ Converged /\ Ended
    BY DEF IInv, Typed
<1>2. /\ pc = "arret" /\ pc' = "fin"
      /\ archive' = IF numins = 1 THEN archive
                    ELSE Stored(numins - 1, etat["CALC"] \in {"CONV", "STOP"})
      /\ UNCHANGED <<study, sddisc, numins, iterat, tours, flags, etat, echec, moi, plu,
                     accepted>>
    BY DEF Fail
<1>3. /\ numins \in Nat /\ numins >= 1 /\ At(numins - 1) \in Nat /\ At(numins) \in Nat
      /\ At(numins - 1) < At(numins)
  <2>1. /\ numins \in Nat /\ numins >= 1 /\ numins - 1 + 1 = numins
        /\ sddisc.ditr[numins] \in Nat /\ sddisc.ditr[numins + 1] \in Nat
      BY <1>1, ListFacts
  <2>2. sddisc.ditr[numins] < sddisc.ditr[numins + 1]
      BY <1>1 DEF ListOK
  <2> QED BY <2>1, <2>2 DEF At
<1>4. Len(archive) \in Nat
  <2>1. archive \in Seq([inst : Nat, fields : Fields])
      BY <1>1 DEF Typed
  <2> QED BY <2>1
<1>5. archive' = archive
  <2>1. CASE numins = 1
      BY <1>2, <2>1
  <2>2. CASE numins # 1 /\ etat["CALC"] = "STOP"
    <3>1. Len(archive) >= 2 /\ Last(archive).inst = At(numins)
        BY <1>1, <1>4, <2>2 DEF Ended
    <3>2. ~(At(numins - 1) > Last(archive).inst)
        BY <1>3, <3>1
    <3> QED BY <1>2, <2>2, <3>1, <3>2 DEF Stored
  <2>3. CASE numins # 1 /\ etat["CALC"] # "STOP"
    <3>1. Before /\ etat["CALC"] \notin {"CONV", "STOP"}
        BY <1>1, <1>2, <2>3 DEF Before, Ended
    <3>2. CASE (numins - 1) % study.pasarch = 0
      <4>1. Len(archive) >= 2 /\ Last(archive).inst = At(numins - 1)
          BY <1>1, <1>3, <1>4, <2>3, <3>1, <3>2 DEF Kept
      <4>2. ~(At(numins - 1) > Last(archive).inst)
          BY <1>3, <4>1
      <4> QED BY <1>2, <2>3, <4>1, <4>2 DEF Stored
    <3>3. CASE (numins - 1) % study.pasarch # 0
        BY <1>2, <2>3, <3>1, <3>3 DEF Stored
    <3> QED BY <3>2, <3>3
  <2> QED BY <2>1, <2>2, <2>3
<1>6. Typed' /\ Loop'
    BY <1>1, <1>2, <1>5 DEF Typed, Phases, Loop
<1>7. Tries'
    BY <1>2 DEF Tries, Computed
<1>8. ~Before'
    BY <1>2 DEF Before
<1>9. ListOK(sddisc, numins)'
    BY <1>1, <1>2 DEF ListOK, AUTO
<1>10. Past' /\ Converged' /\ Kept'
    BY <1>1, <1>2, <1>5, <1>8 DEF Past, Converged, Kept, AcceptedAt
<1>11. Ended'
  <2>1. At(numins)' = At(numins)
      BY <1>2 DEF At
  <2>2. etat["CALC"] # "CONV"
      BY <1>1, <1>2 DEF Ended
  <2> QED BY <1>1, <1>2, <1>5, <2>1, <2>2 DEF Ended
<1> QED BY <1>6, <1>7, <1>9, <1>10, <1>11, InvIsNext DEF Rest

-----------------------------------------------------------------------------
(* The invariant holds: at the beginning, and after each step.             *)

LEMMA InitInv == Init => IInv
<1> SUFFICES ASSUME Init PROVE IInv
    OBVIOUS
<1> DEFINE l == study.list
           m == Len(l)
<1>1. study \in Studies
    BY DEF Init
<1>2. /\ l \in Seq(Nat) /\ m \in Nat /\ m > 1 /\ DOMAIN l = 1..m
      /\ \A i \in 1..m - 1 : l[i] < l[i + 1]
      /\ \A i \in 1..m : l[i] \in Nat
  <2>1. /\ l \in Seq(Nat) /\ m > 1
        /\ \A i \in 1..m - 1 : l[i] < l[i + 1]
      BY <1>1, StudyFacts
  <2> HIDE DEF l
  <2> QED BY <2>1
<1>3. 1 \in 1..m /\ 2 \in 1..m /\ m \in 1..m /\ 1 \in 1..m - 1 /\ l[1] < l[1 + 1] /\ 1 + 1 = 2
  <2>1. 1 \in 1..m - 1
      BY <1>2
  <2> QED BY <1>2, <2>1
<1>4. /\ sddisc = [ditr |-> l, dini |-> [i \in DOMAIN l |-> 1],
                   dtm |-> l[2] - l[1], itersup |-> FALSE, piless |-> 1]
      /\ numins = 1 /\ iterat = 0 /\ tours = 0
      /\ flags = {} /\ etat = [k \in Loops |-> "CONT"] /\ echec = 0
      /\ moi = [inst |-> l[1], from |-> l[1], how |-> "conv"]
      /\ plu = moi /\ accepted = <<moi>>
      /\ archive = <<[inst |-> moi.inst, fields |-> moi]>> /\ pc = "pas"
    BY DEF Init
<1>5. Last(l) = l[m]
    BY DEF Last
<1> HIDE DEF l, m
<1>6. moi \in Fields /\ plu \in Fields
    BY <1>2, <1>3, <1>4 DEF Fields
<1>7. /\ accepted \in Seq(Fields) /\ Len(accepted) = 1 /\ DOMAIN accepted = 1..1
      /\ accepted[1] = moi /\ Last(accepted) = moi
    BY <1>4, <1>6 DEF Last
<1>8. /\ archive \in Seq([inst : Nat, fields : Fields]) /\ Len(archive) = 1
      /\ DOMAIN archive = 1..1 /\ archive[1] = [inst |-> moi.inst, fields |-> moi]
      /\ Last(archive) = archive[1]
  <2>1. [inst |-> moi.inst, fields |-> moi] \in [inst : Nat, fields : Fields]
      BY <1>6 DEF Fields
  <2> QED BY <1>4, <2>1 DEF Last
<1>9. moi.inst = l[1] /\ moi.how = "conv"
    BY <1>4
<1>10. Typed
    BY <1>1, <1>4, <1>6, <1>7, <1>8 DEF Typed, Phases
<1>11. Loop
  <2>1. Len(study.echec) \in Nat
      BY <1>1, StudyFacts
  <2> QED BY <1>4, <2>1, Parameters DEF Loop, States
<1>12. \A i, j \in 1..m : i < j => l[i] < l[j]
  <2>1. \A i \in 1..m : l[i] \in Int
      BY <1>2
  <2> QED BY <1>2, <2>1, Increasing
<1>13. sddisc \in Lists /\ sddisc.dtm > 0 /\ sddisc.ditr = l /\ Len(sddisc.ditr) = m
       /\ DOMAIN sddisc.dini = DOMAIN sddisc.ditr
  <2>1. [i \in DOMAIN l |-> 1] \in Seq(Nat)
    <3>1. [i \in 1..m |-> 1] \in [1..m -> Nat]
        OBVIOUS
    <3> QED BY <1>2, <3>1
  <2>2. l[2] - l[1] \in Nat /\ l[2] - l[1] > 0
      BY <1>2, <1>3
  <2> QED BY <1>2, <1>4, <2>1, <2>2 DEF Lists, m, l
<1>14. l[2] <= l[m]
  <2>1. m = 2 \/ 2 < m
      BY <1>2
  <2> QED BY <1>2, <1>3, <1>12, <2>1
<1>15. ASSUME NEW i \in DOMAIN l PROVE l[i] <= l[1] \/ l[i] >= l[2]
  <2>1. i = 1 \/ i = 2 \/ 2 < i
      BY <1>2
  <2> QED BY <1>2, <1>3, <1>12, <2>1
<1>16. ListOK(sddisc, numins)
  <2>1. \A i \in DOMAIN l : \E k \in DOMAIN l : l[k] = l[i]
      OBVIOUS
  <2>2. 1 = m - 1 => l[2] = l[m]
    <3>1. 1 = m - 1 => m = 2
        BY <1>2
    <3> QED BY <3>1
  <2> QED BY <1>2, <1>3, <1>4, <1>5, <1>13, <1>14, <1>15, <2>1, <2>2 DEF ListOK, l
<1>17. numins - 1 + 1 = 1 /\ At(numins - 1) = l[1]
    BY <1>4, <1>13 DEF At
<1>18. Past
  <2>1. ASSUME NEW i \in DOMAIN l, l[i] <= l[1] PROVE l[i] = l[1]
    <3>1. i = 1 \/ 1 < i
        BY <1>2
    <3> QED BY <1>2, <1>3, <1>12, <2>1, <3>1
  <2>2. l[1] \in AcceptedAt
      BY <1>7, <1>9 DEF AcceptedAt
  <2>3. Len(accepted) >= 1 /\ Len(accepted) <= Len(sddisc.ditr)
      BY <1>2, <1>7, <1>13
  <2>4. \A i \in DOMAIN accepted : i = 1
      BY <1>7
  <2> QED BY <1>4, <1>7, <1>9, <1>13, <2>1, <2>2, <2>3, <2>4, SMTT(30) DEF Past, l
<1>19. Tries
    BY <1>4 DEF Tries, Computed
<1>20. Converged
    BY <1>7, <1>9 DEF Converged
<1>21. Kept
  <2>1. \A i \in 1..Len(archive) - 1 : FALSE
      BY <1>8
  <2>2. moi \in ToSet(accepted)
      BY <1>7 DEF ToSet
  <2>3. \A i \in DOMAIN archive : i = 1
      BY <1>8
  <2>4. Last(archive).inst = l[1] /\ l[1] <= l[1]
      BY <1>2, <1>3, <1>8, <1>9
  <2> QED BY <1>4, <1>8, <1>9, <1>17, <2>1, <2>2, <2>3, <2>4 DEF Kept
<1>22. Ended
    BY <1>4 DEF Ended, Loops
<1> QED BY <1>10, <1>11, <1>16, <1>18, <1>19, <1>20, <1>21, <1>22 DEF IInv

LEMMA StepInv == IInv /\ [Next]_vars => IInv'
<1> SUFFICES ASSUME IInv, [Next]_vars PROVE IInv'
    OBVIOUS
<1>1. CASE BeginStep
    BY <1>1, BeginStepKeeps
<1>2. CASE Iterate
    BY <1>2, IterateKeeps
<1>3. CASE Correct
    BY <1>3, CorrectKeeps
<1>4. CASE Watch
    BY <1>4, WatchKeeps
<1>5. CASE EndNewton
    BY <1>5, EndNewtonKeeps
<1>6. CASE EndFixedPoint
    BY <1>6, EndFixedPointKeeps
<1>7. CASE EndStep
    BY <1>7, EndStepKeeps
<1>8. CASE Accept
    BY <1>8, AcceptKeeps
<1>9. CASE Fail
    BY <1>9, FailKeeps
<1>10. CASE UNCHANGED vars
  <2>1. /\ study' = study /\ sddisc' = sddisc /\ numins' = numins /\ iterat' = iterat
        /\ tours' = tours /\ flags' = flags /\ etat' = etat /\ echec' = echec
        /\ moi' = moi /\ plu' = plu /\ accepted' = accepted /\ archive' = archive
        /\ pc' = pc
      BY <1>10 DEF vars
  <2>2. Typed' /\ Loop' /\ ListOK(sddisc, numins)'
      BY <2>1 DEF IInv, Typed, Loop, ListOK, AUTO
  <2>3. Past' /\ Converged'
      BY <2>1 DEF IInv, Past, Converged, AcceptedAt, Before
  <2>4. Tries'
      BY <2>1 DEF IInv, Tries, Computed, Fresh, At
  <2>5. Kept' /\ Ended'
      BY <2>1 DEF IInv, Kept, Ended, At, Before
  <2> QED BY <2>2, <2>3, <2>4, <2>5 DEF IInv
<1> QED BY <1>1, <1>2, <1>3, <1>4, <1>5, <1>6, <1>7, <1>8, <1>9, <1>10 DEF Next

LEMMA InvHolds == Spec => []IInv
BY InitInv, StepInv, PTL DEF Spec

LEMMA InvIsTyped == IInv => TypeOK
<1> SUFFICES ASSUME IInv PROVE TypeOK
    OBVIOUS
<1>1. Typed /\ Loop /\ ListOK(sddisc, numins)
    BY DEF IInv
<1>2. sddisc.piless \in {1, 2}
    BY <1>1 DEF ListOK, Lists
<1> QED BY <1>1, <1>2 DEF TypeOK, Typed, Loop, ListOK, States

-----------------------------------------------------------------------------

(* A step starts from the fields of the last accepted step, whatever tries *)
(* were cut or given up, and the accepted steps are the list of instants   *)
(* up to the present one, each from the one before (op0070: nmfpas after   *)
(* an accepted step only; nmdeco cuts behind the accepted instants).       *)
THEOREM EachStepStartsFromAccepted == Spec => []StartsFromAccepted
<1>1. IInv => StartsFromAccepted
  <2> SUFFICES ASSUME IInv PROVE StartsFromAccepted
      OBVIOUS
  <2>1. TypeOK /\ Past
      BY InvIsTyped DEF IInv
  <2>2. Computing => Before
      BY DEF Computing, Before
  <2> QED BY <2>1, <2>2 DEF StartsFromAccepted, Past
<1> QED BY <1>1, InvHolds, PTL

(* Without ARRET='NON', a step is accepted with fields that converged,     *)
(* whatever events came in between (nmconv, nmevev, nmactn, nmactp).       *)
THEOREM OnlyConvergedIsAccepted == Spec => []AcceptedIsConverged
<1>1. IInv => AcceptedIsConverged
    BY DEF IInv, Converged, AcceptedIsConverged
<1> QED BY <1>1, InvHolds, PTL

(* The result holds instants in their order, each with the fields accepted *)
(* for it (nmarch, dinuar, and the storing of 800 in op0070).              *)
THEOREM OnlyAcceptedIsStored == Spec => []StoredAreAccepted
<1>1. IInv => StoredAreAccepted
    BY DEF IInv, Kept, StoredAreAccepted
<1> QED BY <1>1, InvHolds, PTL

(* No cut and no adaptation passes over an instant of the user's list, and *)
(* a computation that ends well has stored the last one (nmdeco, nmadat,   *)
(* nmfinp, nmcvgc).                                                        *)
THEOREM NoInstantIsPassedOver == Spec => []UserInstantsReached
<1>1. IInv => UserInstantsReached
    BY DEF IInv, Past, Ended, UserInstantsReached
<1> QED BY <1>1, InvHolds, PTL
=============================================================================
