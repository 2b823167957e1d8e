----------------------------- MODULE TimeSteps -----------------------------
(***************************************************************************)
(* The time steps of STAT_NON_LINE and DYNA_NON_LINE: the loops of op0070  *)
(* and nmnewt (steps, external loop of contact, Newton), the events that   *)
(* they raise, what DEFI_LIST_INST has asked for (ECHEC: stop, cut the     *)
(* step, more iterations, the other solution of the continuation method;   *)
(* ADAPTATION), the list of instants that these actions change, the states *)
(* at the beginning and at the end of the step, and their storing.         *)
(*                                                                         *)
(* Fields are what they were computed for.  Times are multiples of a unit: *)
(* the instants of a cut are rounded down to it.                           *)
(***************************************************************************)
EXTENDS Integers, SequencesExt

CONSTANTS Studies,      \* the studies: see StudyAssumption
          IterMaxi,     \* ITER_GLOB_MAXI
          NbIter,       \* the same with PCENT_ITER_PLUS
          PasMini,      \* PAS_MINI of METHODE='AUTO'
          MaxTours      \* bound of the contact loop (ITER_GEOM_MAXI...)

VARIABLES study,        \* the list given, ECHEC, CONVERGENCE, ARCHIVAGE
          sddisc,       \* DITR, DINI, DT-, ITERSUP, ESSAI_ITER_PILO
          numins, iterat, tours,
          flags,        \* sderro: the active events
          etat,         \* sderro: the state of each loop
          echec,        \* the occurrence of ECHEC that is active, or 0
          moi, plu,     \* fields at the beginning and at the end of the step
          accepted,     \* history: the fields of the accepted steps
          archive,      \* what the result holds
          pc

vars == <<study, sddisc, numins, iterat, tours, flags, etat, echec, moi, plu,
          accepted, archive, pc>>

(* An occurrence of ECHEC.                                                  *)
Occurrences ==
    [evt : {"ERREUR", "DELTA_GRANDEUR", "DIVE_RESI", "INSTABILITE"},
     act : {"ARRET", "DECOUPE", "ITER_SUPPL", "AUTRE_PILOTAGE", "CONTINUE"},
     subd : {"MANUEL", "AUTO"}, pas : Nat \ {0, 1}, niveau : Nat, mini : Nat \ {0}]

ASSUME StudyAssumption ==
    /\ IterMaxi \in Nat \ {0} /\ NbIter \in Nat /\ NbIter > IterMaxi
    /\ PasMini \in Nat \ {0} /\ MaxTours \in Nat
    /\ \A s \in Studies :
          /\ s.methode \in {"MANUEL", "AUTO"} /\ s.list \in Seq(Nat)
          /\ Len(s.list) > 1
          /\ \A i \in 1..Len(s.list) - 1 : s.list[i] < s.list[i + 1]
          /\ s.arret \in BOOLEAN /\ s.boucle \in BOOLEAN /\ s.stab \in BOOLEAN
          /\ s.pasarch \in Nat \ {0} /\ s.pasmaxi \in Nat \ {0}
          /\ s.nbpasmaxi \in Nat
          /\ s.echec \in Seq(Occurrences)
          /\ \E i \in DOMAIN s.echec : s.echec[i].evt = "ERREUR"
          /\ \A i \in DOMAIN s.echec :
                s.echec[i].act = "CONTINUE" => s.echec[i].evt = "INSTABILITE"

ERRI_NEWT == {"ERRE_INTE", "ERRE_NPHY", "SOLV_ITMX", "ITER_MAXI"}
ERRI_CALC == {"ERRE_TIMN", "ERRE_TIMP", "ERRE_EXCP"}
EVEN      == {"DIVE_RESI", "CRIT_STAB"}
Returned  == {"ERRE_INTE", "INTE_NPHY", "SOLV_ITMX"}   \* set by return codes
Events    == ERRI_NEWT \cup ERRI_CALC \cup EVEN
                \cup {"INTE_NPHY", "ERRE_CTC", "DIVE_FIX"}
Loops     == {"RESI", "NEWT", "FIXE", "INST", "CALC"}

AUTO == study.methode = "AUTO"

(* The instant of a number, from 0; the list of DEFI_LIST_INST beyond t.    *)
At(n) == sddisc.ditr[n + 1]
Jalons(t) == {study.list[i] : i \in {j \in DOMAIN study.list : study.list[j] > t}}
(* didern, nmfinp: no step is left after n.                                 *)
LastStep(n) == n = Len(sddisc.ditr) - 1 \/ (AUTO /\ Jalons(At(n)) = {})

-----------------------------------------------------------------------------
(* Cutting the step numins.                                                 *)

Steps(from, s) == [i \in DOMAIN s |-> s[i] - (IF i = 1 THEN from ELSE s[i - 1])]
Uniform(from, len, n) == [i \in 1..n |-> from + (i * len) \div n]
Progressive(from, len, first, n) ==
    [i \in 1..n |-> from + first + ((i - 1) * (len - first)) \div (n - 1)]

(* nmdecm: SUBD_PAS equal steps; nmdecp, nmdcae: four of them, or what the  *)
(* extrapolation of the residuals gives, a first step and equal others.     *)
NewInstants(f) ==
    LET from == At(numins - 1)
        len  == At(numins) - from
    IN IF f.subd = "MANUEL" THEN {Uniform(from, len, f.pas)}
       ELSE {Uniform(from, len, 4)} \cup
            {Progressive(from, len, p[1], p[2]) :
               p \in {q \in (1..len) \X (2..4) : q[1] * q[2] <= len}}

(* nmdecv: the steps are not too small and the level is not the last one.   *)
Level == IF AUTO THEN 1 ELSE sddisc.dini[numins]
CanCut(f, s) ==
    /\ \A i \in DOMAIN s : Steps(At(numins - 1), s)[i] >= f.mini
    /\ ~(f.subd = "MANUEL" /\ f.niveau > 1 /\ Level = f.niveau)

(* nmdcei: the instants before that of the step, or after.                  *)
InsertInstants(ditr, n, s) == SubSeq(ditr, 1, n) \o s \o SubSeq(ditr, n + 1, Len(ditr))

(* nmdcen: the levels of the steps from numins on are moved by k, then the  *)
(* k first are incremented where they are.                                  *)
ShiftLevels(dini, n, k) ==
    [i \in 1..Len(dini) + k |->
        IF i >= n + k THEN dini[i - k]
        ELSE (IF i <= Len(dini) THEN dini[i] ELSE 0) + (IF i >= n THEN 1 ELSE 0)]

(* nmdcdc: all the instants but the last one, which is in the list; the     *)
(* first one only when the list adapts itself.                              *)
CutInto(d, s) ==
    LET ins == SubSeq(s, 1, IF AUTO THEN 1 ELSE Len(s) - 1)
    IN [d EXCEPT !.ditr = InsertInstants(@, numins, ins),
                 !.dini = IF AUTO THEN @ ELSE ShiftLevels(@, numins, Len(ins)),
                 !.dtm  = s[1] - At(numins - 1)]

(* What an action returns: 0 nothing to do, 1 the step is done again, 2     *)
(* Newton goes on, 3 the action has failed; and the list after it.          *)
Back(ret, d) == [ret |-> ret, disc |-> d]
nmdeco(f, d) ==
    {IF CanCut(f, s) THEN Back(1, CutInto(d, s)) ELSE Back(3, d) : s \in NewInstants(f)}

(* nmitsp: the extrapolation may give more iterations, up to NbIter.        *)
nmitsp(f) ==
    nmdeco(f, [sddisc EXCEPT !.itersup = FALSE]) \cup
    (IF iterat < NbIter THEN {Back(2, [sddisc EXCEPT !.itersup = TRUE])} ELSE {})

(* Mutant of nmevdp: the other solution is tried for ever.                  *)
OtherForEver(f) == {Back(1, [sddisc EXCEPT !.piless = 2])}

(* nmevdp: the other solution once, then the step is cut.                   *)
nmevdp(f) ==
    IF sddisc.piless = 1 THEN {Back(1, [sddisc EXCEPT !.piless = 2])}
    ELSE nmdeco(f, [sddisc EXCEPT !.piless = 1])

nmevac(i, fl) ==
    LET f      == study.echec[i]
        litmax == "ITER_MAXI" \in fl
    IN CASE f.act = "ARRET"    -> {Back(3, sddisc)}
         [] f.act = "CONTINUE" -> {Back(0, sddisc)}
         [] f.act = "ITER_SUPPL" /\ litmax     -> nmitsp(f)
         [] f.act = "AUTRE_PILOTAGE" /\ litmax -> nmevdp(f)
         [] OTHER -> nmdeco(f, sddisc)

(* Mutant of PassedOver: whatever ARRET is.                                 *)
AlwaysPassedOver(r) == r.ret = 3

(* ARRET='NON': a failed action is passed over.                             *)
PassedOver(r) == r.ret = 3 /\ ~study.arret
LoopState(r) ==
    CASE r.ret = 0 \/ PassedOver(r) -> "CONV"
      [] r.ret = 1 -> "ERRE"
      [] r.ret = 2 -> "CONT"
      [] OTHER     -> "STOP"

-----------------------------------------------------------------------------
(* nmconv: the state of Newton after an iteration.                          *)
nmconv(errs, resi, dive) ==
    LET after  == (flags \ Returned) \cup errs
        itemax == ~resi /\ iterat + 1 >= (IF sddisc.itersup THEN NbIter ELSE IterMaxi)
    IN IF after \cap ERRI_NEWT # {}
       THEN [flags |-> after,
             etat  |-> IF errs \cap ERRI_NEWT # {}
                       THEN [etat EXCEPT !["NEWT"] = "ERRE"] ELSE etat]
       ELSE [flags |-> (after \ {"DIVE_RESI"}) \cup {x \in {"DIVE_RESI"} : dive}
                          \cup {x \in {"ITER_MAXI"} : itemax},
             etat  |-> [etat EXCEPT !["RESI"] = IF resi THEN "CONV" ELSE "CONT",
                                    !["NEWT"] = IF itemax THEN "ERRE"
                                                ELSE IF resi THEN "CONV" ELSE "CONT"]]

(* nmevel: the first occurrence of ECHEC whose event is there; grown tells  *)
(* whether the quantity of DELTA_GRANDEUR has changed too much.             *)
Raised(f, errors, conver, grown, fl) ==
    CASE f.evt = "ERREUR"         -> errors \/ "SOLV_ITMX" \in fl
      [] f.evt = "DELTA_GRANDEUR" -> conver /\ grown
      [] f.evt = "DIVE_RESI"      -> "DIVE_RESI" \in fl
      [] OTHER                    -> "CRIT_STAB" \in fl
FirstRaised(errors, conver, grown, fl) ==
    LET raised == {i \in DOMAIN study.echec :
                      Raised(study.echec[i], errors, conver, grown, fl)}
    IN IF raised = {} THEN 0 ELSE Min(raised)

(* nmevev for one of the three loops: a failure of the material laws that   *)
(* is tolerated until convergence becomes an error then.                    *)
Observed(loop, now, grown) ==
    LET conver == now.etat[loop] = "CONV"
        nphy   == loop = "NEWT" /\ conver /\ "INTE_NPHY" \in now.flags
        fl     == IF nphy THEN (now.flags \ {"INTE_NPHY"}) \cup {"ERRE_NPHY"} ELSE now.flags
        errors == nphy \/ (loop = "NEWT" /\ fl \cap ERRI_NEWT # {})
                       \/ (loop = "FIXE" /\ "ERRE_CTC" \in fl)
        first  == FirstRaised(errors, conver, grown, fl)
    IN [flags |-> fl, echec |-> first,
        etat  |-> IF first > 0 THEN [now.etat EXCEPT ![loop] = "EVEN"] ELSE now.etat]

Grown == IF \E i \in DOMAIN study.echec : study.echec[i].evt = "DELTA_GRANDEUR"
         THEN BOOLEAN ELSE {FALSE}
Dive  == IF \E i \in DOMAIN study.echec : study.echec[i].evt = "DIVE_RESI"
         THEN BOOLEAN ELSE {FALSE}

Observe(o) == /\ flags' = o.flags /\ etat' = o.etat /\ echec' = o.echec

(* A signal, or no time left, stops everything (nmcrel of ERRI_CALC).       *)
Stopped(why, e) ==
    IF why = {} THEN e
    ELSE [l \in Loops |-> CASE l = "CALC" -> "ERRE" [] l = "RESI" -> e[l] [] OTHER -> "STOP"]

-----------------------------------------------------------------------------
Init ==
    /\ study \in Studies
    /\ sddisc = [ditr |-> study.list, dini |-> [i \in DOMAIN study.list |-> 1],
                 dtm |-> study.list[2] - study.list[1], itersup |-> FALSE, piless |-> 1]
    /\ numins = 1 /\ iterat = 0 /\ tours = 0
    /\ flags = {} /\ etat = [l \in Loops |-> "CONT"] /\ echec = 0
    /\ moi = [inst |-> study.list[1], from |-> study.list[1], how |-> "conv"]
    /\ plu = moi
    /\ accepted = <<moi>>
    /\ archive = <<[inst |-> moi.inst, fields |-> moi]>>
    /\ pc = "pas"

(* 200, nmnewt, nmnpas: nothing is left of another try of the step.         *)
BeginStep ==
    /\ pc = "pas"
    /\ etat' = [l \in Loops |-> IF l = "CALC" THEN etat[l] ELSE "CONT"]
    /\ flags' = {}
    /\ sddisc' = [sddisc EXCEPT !.itersup = FALSE]
    /\ plu' = moi
    /\ iterat' = 0 /\ tours' = 0
    /\ pc' = "iteration"
    /\ UNCHANGED <<study, numins, echec, moi, accepted, archive>>

Errors == {{}, {"ERRE_INTE"}, {"SOLV_ITMX"}, {"INTE_NPHY"}}

(* 100 to 315: a prediction or a correction from the state moi, then nmconv *)
(* and nmcvgn.                                                              *)
Iterate ==
    /\ pc = "iteration"
    /\ \E errs \in Errors, resi \in BOOLEAN, dive \in Dive, grown \in Grown :
          LET now == nmconv(errs, resi, dive)
          IN /\ Observe(Observed("NEWT", now, grown))
             /\ plu' = [inst |-> At(numins), from |-> moi.inst,
                        how |-> IF now.flags \cap ERRI_NEWT = {} /\ resi THEN "conv" ELSE "open"]
             /\ pc' = IF etat'["NEWT"] = "CONT" THEN "correction" ELSE "temps"
    /\ UNCHANGED <<study, sddisc, numins, iterat, tours, moi, accepted, archive>>

(* 320: the next direction, which the solver may not find (nmdesc).         *)
Correct ==
    /\ pc = "correction"
    /\ \/ /\ iterat' = iterat + 1 /\ pc' = "temps"
          /\ UNCHANGED <<flags, etat, echec>>
       \/ /\ Observe(Observed("NEWT", nmconv({"SOLV_ITMX"}, FALSE, FALSE), FALSE))
          /\ pc' = "temps" /\ UNCHANGED iterat
    /\ UNCHANGED <<study, sddisc, numins, tours, moi, plu, accepted, archive>>

(* 330: nmevdt('ITE'), the time left or a signal, of this iteration.        *)
Watch ==
    /\ pc = "temps"
    /\ \E why \in {{}, {"ERRE_EXCP"}} \cup
                  (IF etat["NEWT"] = "CONV" THEN {} ELSE {{"ERRE_TIMN"}}) :
          /\ flags' = (flags \ ERRI_CALC) \cup why
          /\ etat' = Stopped(why, etat)
    /\ pc' = IF etat'["NEWT"] = "CONT" THEN "iteration" ELSE "newton"
    /\ UNCHANGED <<study, sddisc, numins, iterat, tours, echec, moi, plu, accepted, archive>>

(* nmactn: what is done when Newton has ended.                              *)
EndNewton ==
    /\ pc = "newton" /\ etat["NEWT"] \in {"CONV", "EVEN", "STOP"}
    /\ \E r \in (CASE etat["NEWT"] = "EVEN" -> nmevac(echec, flags)
                   [] etat["NEWT"] = "CONV" -> {Back(0, sddisc)}
                   [] OTHER                 -> {Back(4, sddisc)}) :
          /\ etat' = [etat EXCEPT !["NEWT"] = LoopState(r),
                                  !["RESI"] = IF PassedOver(r) THEN "CONV" ELSE @]
          /\ flags' = flags \ ({x \in EVEN : etat["NEWT"] = "EVEN"}
                         \cup {x \in {"ITER_MAXI"} : PassedOver(r) \/ r.ret = 2})
          /\ sddisc' = r.disc
          /\ pc' = IF r.ret = 2 THEN "correction" ELSE "fixe"
    /\ UNCHANGED <<study, numins, iterat, tours, echec, moi, plu, accepted, archive>>

(* nmtble, nmevcv: the state of the loop of contact, which ends, goes on up *)
(* to its bound, or fails.                                                  *)
Turns == IF study.boucle /\ etat["NEWT"] = "CONV"
         THEN {{}, {"ERRE_CTC"}} \cup {x \in {{"DIVE_FIX"}} : tours < MaxTours}
         ELSE {{}}
nmtble(turn) ==
    [flags |-> (flags \ {"DIVE_FIX", "ERRE_CTC"}) \cup turn,
     etat  |-> [etat EXCEPT !["FIXE"] =
                   IF etat["NEWT"] = "CONV" /\ etat["RESI"] = "CONV" /\ "DIVE_FIX" \notin turn
                   THEN "CONV" ELSE "CONT"]]

(* nmcvgf, nmactf: the end of the loop of contact, or its next turn.        *)
EndFixedPoint ==
    /\ pc = "fixe" /\ etat["NEWT"] \in {"CONV", "ERRE", "STOP"}
    /\ IF etat["NEWT"] # "CONV"
       THEN /\ etat' = [etat EXCEPT !["FIXE"] = etat["NEWT"]]
            /\ pc' = "inst" /\ UNCHANGED <<sddisc, flags, echec, iterat, tours>>
       ELSE \E turn \in Turns, grown \in Grown :
            LET o == Observed("FIXE", nmtble(turn), grown)
            IN /\ echec' = o.echec
               /\ IF o.etat["FIXE"] = "EVEN"
                  THEN \E r \in nmevac(o.echec, o.flags) :
                         /\ etat' = [o.etat EXCEPT !["FIXE"] = LoopState(r)]
                         /\ flags' = o.flags \ EVEN /\ sddisc' = r.disc
                         /\ pc' = IF r.ret = 2 THEN "plantage" ELSE "inst"
                         /\ UNCHANGED <<iterat, tours>>
                  ELSE /\ flags' = o.flags /\ UNCHANGED sddisc
                       /\ IF o.etat["FIXE"] = "CONT" /\ study.boucle
                          THEN /\ etat' = o.etat /\ tours' = tours + 1 /\ iterat' = 0
                               /\ pc' = "iteration"
                          ELSE /\ etat' = [o.etat EXCEPT !["FIXE"] = "CONV"]
                               /\ pc' = "inst" /\ UNCHANGED <<iterat, tours>>
    /\ UNCHANGED <<study, numins, moi, plu, accepted, archive>>

(* nmpost, nmcvgp, nmactp: the end of the step, done again or accepted.     *)
Piloted == \E i \in DOMAIN study.echec : study.echec[i].act = "AUTRE_PILOTAGE"
Unstable == IF study.stab /\ etat["FIXE"] = "CONV" THEN {{}, {"CRIT_STAB"}} ELSE {{}}
EndStep ==
    /\ pc = "inst" /\ etat["FIXE"] \in {"CONV", "ERRE", "STOP"}
    /\ IF etat["FIXE"] # "CONV"
       THEN /\ etat' = [etat EXCEPT !["INST"] = etat["FIXE"]]
            /\ UNCHANGED <<sddisc, flags, echec>>
       ELSE \E post \in Unstable, grown \in Grown :
            LET conv == etat["NEWT"] = "CONV" /\ etat["RESI"] = "CONV"
                o == Observed("INST", [flags |-> flags \cup post,
                                       etat |-> [etat EXCEPT !["INST"] = IF conv THEN "CONV" ELSE "CONT"]],
                              grown)
            IN /\ echec' = o.echec
               /\ \E r \in (CASE o.etat["INST"] = "EVEN" -> nmevac(o.echec, o.flags)
                              [] o.etat["INST"] = "CONV" -> {Back(0, sddisc)}
                              [] OTHER                   -> {Back(2, sddisc)}) :
                    /\ etat' = [o.etat EXCEPT !["INST"] = LoopState(r)]
                    /\ flags' = o.flags \ {x \in EVEN : o.echec > 0}
                    /\ sddisc' = IF LoopState(r) = "CONV" /\ Piloted
                                 THEN [r.disc EXCEPT !.piless = 1] ELSE r.disc
    /\ pc' = CASE etat'["INST"] = "CONV" -> "calc"
               [] etat'["INST"] = "ERRE" -> "pas"
               [] etat'["INST"] = "STOP" -> "arret"
               [] OTHER                  -> "plantage"
    /\ UNCHANGED <<study, numins, iterat, tours, moi, plu, accepted, archive>>

(* Mutant of Stored: the time is not compared with that of the last storing. *)
StoredAgain(n, force) ==
    IF n % study.pasarch = 0 \/ force
    THEN Append(archive, [inst |-> At(n), fields |-> plu]) ELSE archive

(* nmarch, dinuar: stored if selected or forced, and if time has passed.    *)
Stored(n, force) ==
    IF /\ n % study.pasarch = 0 \/ force
       /\ Len(archive) >= 2 => At(n) > Last(archive).inst
    THEN Append(archive, [inst |-> At(n), fields |-> plu])
    ELSE archive

(* Mutant of NextStep: the step is not cut at the next instant of the list. *)
NextStepOver(dt) ==
    LET dt2 == IF dt > study.pasmaxi THEN study.pasmaxi ELSE dt
    IN [step |-> dt2, dtm |-> dt2]

(* nmadat: the next step of METHODE='AUTO', the former one or twice it, up  *)
(* to the next instant of the list, where it ends too if it would be near.  *)
NextStep(dt) ==
    LET inst == At(numins)
        jal  == Min(Jalons(inst))
        dt2  == IF dt > study.pasmaxi THEN study.pasmaxi ELSE dt
        dt3  == IF inst + dt2 > jal - PasMini THEN jal - inst ELSE dt2
    IN [step |-> dt3, dtm |-> IF inst + dt2 > jal THEN sddisc.dtm ELSE dt3]
NextStepFails(s) == s.step < PasMini \/ numins > study.nbpasmaxi

(* Mutant of NextInstant: the fields of the beginning are not renewed.      *)
NextInstantOnly ==
    IF ~AUTO
    THEN /\ numins' = numins + 1 /\ pc' = "pas" /\ UNCHANGED <<moi, sddisc>>
    ELSE pc' = "fin" /\ UNCHANGED <<numins, moi, sddisc>>

(* nmfpas: the next instant, and the fields of its beginning.               *)
NextInstant ==
    IF ~AUTO
    THEN /\ numins' = numins + 1 /\ moi' = plu /\ pc' = "pas" /\ UNCHANGED sddisc
    ELSE \E k \in {1, 2} : LET s == NextStep(k * sddisc.dtm) IN
         IF NextStepFails(s)
         THEN pc' = "fin" /\ UNCHANGED <<numins, moi, sddisc>>
         ELSE /\ sddisc' = [sddisc EXCEPT !.dtm = s.dtm,
                               !.ditr = InsertInstants(@, numins + 1, <<At(numins) + s.step>>)]
              /\ numins' = numins + 1 /\ moi' = plu /\ pc' = "pas"

(* nmevdt('PAS'), nmcvgc, nmarch, nmfpas: an accepted step.                 *)
EndOfComputation(why) ==
    IF LastStep(numins) /\ "ERRE_EXCP" \notin why THEN "CONV"
    ELSE IF why = {} THEN "CONT" ELSE "STOP"
Accept ==
    /\ pc = "calc"
    /\ \E why \in {{}, {"ERRE_TIMP"}, {"ERRE_EXCP"}} :
          LET calc == EndOfComputation(why)
          IN /\ flags' = (flags \ ERRI_CALC) \cup why
             /\ etat' = [Stopped(why, etat) EXCEPT !["CALC"] = calc]
             /\ accepted' = Append(accepted, plu)
             /\ archive' = Stored(numins, calc # "CONT")
             /\ CASE calc = "CONT" -> NextInstant
                  [] calc = "CONV" -> pc' = "fin" /\ UNCHANGED <<sddisc, numins, moi>>
                  [] calc = "STOP" -> pc' = "arret" /\ UNCHANGED <<sddisc, numins, moi>>
    /\ UNCHANGED <<study, iterat, tours, echec, plu>>

(* 800: the step before is stored if it has to be, then nmerro.             *)
Fail ==
    /\ pc = "arret"
    /\ archive' = IF numins = 1 THEN archive
                  ELSE Stored(numins - 1, etat["CALC"] \in {"CONV", "STOP"})
    /\ pc' = "fin"
    /\ UNCHANGED <<study, sddisc, numins, iterat, tours, flags, etat, echec, moi, plu, accepted>>

Next == BeginStep \/ Iterate \/ Correct \/ Watch \/ EndNewton \/ EndFixedPoint
          \/ EndStep \/ Accept \/ Fail

Spec == Init /\ [][Next]_vars
(* The process runs: op0070 never waits.                                    *)
FairSpec == Spec /\ WF_vars(Next)

-----------------------------------------------------------------------------
TypeOK ==
    /\ study \in Studies
    /\ numins \in 1..Len(sddisc.ditr) - 1 /\ iterat \in 0..NbIter
    /\ tours \in 0..MaxTours
    /\ ~AUTO => /\ DOMAIN sddisc.dini = DOMAIN sddisc.ditr
                /\ \A i \in 1..Len(sddisc.ditr) - 1 : sddisc.ditr[i] < sddisc.ditr[i + 1]
    /\ sddisc.dtm > 0 /\ sddisc.piless \in {1, 2}
    /\ flags \subseteq Events
    /\ etat \in [Loops -> {"CONT", "CONV", "EVEN", "ERRE", "STOP"}]
    /\ echec \in 0..Len(study.echec)

Computing == pc \notin {"fin", "arret", "plantage"}
AcceptedAt == {accepted[i].inst : i \in DOMAIN accepted}

(* A step starts from the fields of the last accepted step, whatever tries  *)
(* were cut or given up before, and the accepted steps are the list of      *)
(* instants up to the present one, each computed from the one before it.    *)
StartsFromAccepted ==
    /\ TypeOK
    /\ Computing => moi = Last(accepted) /\ numins = Len(accepted)
    /\ \A i \in DOMAIN accepted :
          /\ accepted[i].inst = sddisc.ditr[i]
          /\ i > 1 => /\ accepted[i].from = accepted[i - 1].inst
                      /\ accepted[i].inst > accepted[i - 1].inst

(* Without ARRET='NON', a step is accepted with fields that converged.      *)
AcceptedIsConverged ==
    study.arret => \A i \in DOMAIN accepted : accepted[i].how = "conv"

(* The result holds instants in their order, each with the fields accepted  *)
(* for it: never those of the step that has failed.                         *)
StoredAreAccepted ==
    /\ \A i \in DOMAIN archive : /\ archive[i].fields.inst = archive[i].inst
                                 /\ archive[i].fields \in ToSet(accepted)
    /\ \A i \in 1..Len(archive) - 1 : archive[i].inst < archive[i + 1].inst

(* No cut and no adaptation passes over an instant of the user's list, and  *)
(* a computation that ends well has reached and stored the last of them.    *)
UserInstantsReached ==
    /\ \A i \in DOMAIN study.list :
          study.list[i] <= Last(accepted).inst => study.list[i] \in AcceptedAt
    /\ pc = "fin" /\ etat["CALC"] = "CONV" =>
          Last(accepted).inst = Last(study.list) /\ Last(archive).fields = Last(accepted)

(* A computation ends, in an end of op0070: cuts, more iterations, other    *)
(* solutions and turns of the contact are in finite number.                 *)
Termination == <>(pc = "fin")

(* "Nombre maximum de niveau de subdivision d'un pas de temps"              *)
(* (defi_list_inst.py): a step of the user's list is cut SUBD_NIVEAU - 1    *)
(* times at most.                                                           *)
DepthBounded ==
    \A i \in DOMAIN study.echec : LET f == study.echec[i] IN
      f.subd = "MANUEL" =>
        \A k \in 1..Len(sddisc.ditr) - 1, j \in 1..Len(study.list) - 1 :
           study.list[j] <= sddisc.ditr[k] /\ sddisc.ditr[k + 1] <= study.list[j + 1] =>
              (sddisc.ditr[k + 1] - sddisc.ditr[k]) * f.pas ^ (f.niveau - 1)
                 >= study.list[j + 1] - study.list[j]

(* "ON COMMENCE PAR ARCHIVER LE PAS DE TEMPS PRECEDENT" (op0070, 800): the  *)
(* last accepted step is in the result when a computation has failed.       *)
LastAcceptedIsStored ==
    pc = "fin" /\ etat["CALC"] # "CONV" => Last(archive).fields = Last(accepted)
=============================================================================
