---------------------------- MODULE MCJvCatalog ----------------------------
(* Names for the model checking of JvCatalog, on tables of 3 and 7 slots:   *)
(* na and nb look at the same slots, in both; nc begins where na looks      *)
(* next.                                                                    *)
EXTENDS JvCatalog

CONSTANTS na, nb, nc

Codes  == [n \in Names |-> CASE n = na -> 0 [] n = nb -> 105 [] OTHER -> 2]
Sizes  == [i \in Bases |-> IF i = 1 THEN 2 ELSE 3]
Primes == <<3, 7, 11, 23>>

(* The table of jjprem, and the number that is wanted: its bisection finds  *)
(* the first of the table that is not below 1.3 n. Checked for the small n  *)
(* and around every place where the answer changes, as far as 13 n is a     *)
(* number for TLC.                                                          *)
ipr == <<
           11, 17, 23, 37, 53, 71, 97, 127, 167, 223, 293, 383, 499, 547, 647,
           757, 853, 941, 1031, 1109, 1223, 1327, 1447, 1549, 1657, 1759,
           1889, 1987, 2459, 3203, 4177, 5431, 6121, 7069, 8111, 9199, 10271,
           11959, 15551, 20219, 26293, 34183, 44449, 57787, 66179, 75133,
           86113, 97673, 126989, 165089, 214631, 279029, 362741, 471571,
           540703, 611957, 1000003, 1299827, 2015179, 5023309, 5800139,
           10000019, 12500003, 15000017, 17500013, 20000003, 22500011,
           25000009, 27500003, 30000001, 32500001, 35000011, 37500007,
           40000003, 42500023, 45000017, 47500001, 50000017, 61500059,
           70000027, 80000023, 85000103, 90000121, 95000123, 100000123,
           105000121, 110000117, 115000099, 120000121, 125000089, 130000099,
           135000101, 140000099, 145000117, 150000113, 155000107, 160000117,
           165000119, 170000099, 175000109, 180000113, 185000119, 190000103,
           195000119, 200000123, 205000079, 210000113, 215000117, 220000073,
           225000107, 230000117, 235000123, 240000113, 245000101, 250000123,
           255000113, 260000093, 265000117, 270000119, 275000113, 280000109,
           285000119, 290000107, 295000103, 300000119, 305000123, 310000099,
           315000121, 320000113, 325000121, 330000109, 335000123, 340000081,
           345000107, 350000113, 355000073, 360000103, 365000113, 370000123,
           375000121, 380000087, 385000123, 390000103, 395000119, 400000109,
           405000053, 410000117, 415000097, 420000109, 425000101, 430000099,
           435000107, 440000107, 445000123, 450000121, 455000123, 460000043,
           465000079, 470000117, 475000067, 480000121, 485000041, 490000117,
           495000113, 500000117, 505000123, 510000121, 515000089, 520000111,
           525000107, 530000101, 535000121, 540000119, 545000101, 550000103,
           555000109, 560000107, 565000109, 570000113, 575000123, 580000217,
           585000223, 590000221, 595000199, 600000217, 605000191, 610000219,
           615000209, 620000219, 625000171, 630000193, 635000213, 640000223,
           645000199, 650000209, 655000211, 660000151, 665000213, 670000207,
           675000217, 680000203, 685000223, 690000211, 695000161, 700000207,
           705000203, 710000209, 715000219, 720000217, 725000191, 730000199,
           735000223, 740000179, 745000211, 750000221, 755000143, 760000223,
           765000199, 770000173, 775000211, 780000223, 785000221, 790000219,
           795000197, 800000209, 805000223, 810000199, 815000201, 820000177,
           825000217, 830000219, 835000223, 840000223, 845000209, 850000219,
           855000221, 860000203, 865000219, 870000223, 875000197, 880000211,
           885000223, 890000149, 895000217, 900000223, 905000189, 910000219,
           915000223, 920000219, 925000217, 930000191, 935000177, 940000199,
           945000211, 950000179, 955000213, 960000221, 965000173, 970000211,
           975000211, 980000213, 985000207, 990000217, 995000221, 1000000223,
           1005000223, 1010000207, 1015000211, 1020000217, 1025000191,
           1030000211, 1035000221, 1040000201, 1045000219, 1050000199,
           1055000183, 1060000217, 1065000187, 1070000221, 1300000003,
           2147483647 >>

FirstAbove(n) == LET above == {i \in DOMAIN ipr : ipr[i] >= (13 * n + 9) \div 10}
                 IN  ipr[CHOOSE i \in above : \A q \in above : i <= q]

Changes == LET at(p) == 10 * (p \div 13) + (10 * (p % 13)) \div 13
           IN  {at(ipr[i]) : i \in {i \in DOMAIN ipr : ipr[i] < 200000000}}

ASSUME JjpremIsFirstAbove ==
    \A n \in 1..300 \cup UNION {m - 1..m + 1 : m \in Changes} : jjprem(ipr, n) = FirstAbove(n)
=============================================================================
