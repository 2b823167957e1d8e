---------------------------- MODULE MCTimeSteps ----------------------------
EXTENDS TimeSteps

Echec(e, a, s, p, n, m) ==
    [evt |-> e, act |-> a, subd |-> s, pas |-> p, niveau |-> n, mini |-> m]
Study(m, l, e) ==
    [methode |-> m, list |-> l, echec |-> e, arret |-> TRUE, boucle |-> FALSE,
     stab |-> FALSE, pasarch |-> 2, pasmaxi |-> 8, nbpasmaxi |-> 9]

Cut(p, n)  == Echec("ERREUR", "DECOUPE", "MANUEL", p, n, 1)
Nines      == Study("MANUEL", <<0, 9, 18>>, <<Cut(3, 2)>>)
Quantities == Study("MANUEL", <<0, 4, 8>>, <<Cut(2, 3),
                 Echec("DELTA_GRANDEUR", "DECOUPE", "MANUEL", 2, 2, 2),
                 Echec("DIVE_RESI", "DECOUPE", "MANUEL", 2, 4, 1)>>)
Contact    == [Study("MANUEL", <<0, 4, 8>>, <<
                 Echec("ERREUR", "ITER_SUPPL", "MANUEL", 2, 2, 1),
                 Echec("INSTABILITE", "CONTINUE", "MANUEL", 2, 2, 1)>>)
                 EXCEPT !.boucle = TRUE, !.stab = TRUE]
GoesOn     == [Study("MANUEL", <<0, 2, 4>>, <<
                 Echec("ERREUR", "ITER_SUPPL", "AUTO", 2, 0, 1),
                 Echec("INSTABILITE", "ARRET", "AUTO", 2, 0, 1)>>)
                 EXCEPT !.arret = FALSE, !.boucle = TRUE, !.stab = TRUE, !.pasarch = 3]
Pilots     == Study("MANUEL", <<0, 3, 4>>,
                 <<Echec("ERREUR", "AUTRE_PILOTAGE", "MANUEL", 3, 2, 1)>>)
Adapts     == [Study("AUTO", <<0, 4, 9, 12>>, <<Cut(2, 2)>>)
                 EXCEPT !.pasmaxi = 5, !.nbpasmaxi = 4]
AdaptsCuts == Study("AUTO", <<0, 4, 6>>,
                 <<Echec("ERREUR", "DECOUPE", "AUTO", 2, 0, 1)>>)
AllStudies == {Nines, Quantities, Contact, GoesOn, Pilots, Adapts, AdaptsCuts}

(* One step, to be cut once.                                                *)
Levels     == {Study("MANUEL", <<0, 9>>, <<Cut(3, 2)>>)}
=============================================================================
