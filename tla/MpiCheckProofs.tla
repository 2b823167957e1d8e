--------------------------- MODULE MpiCheckProofs ---------------------------
(***************************************************************************)
(* Proofs about MpiCheck, for any number of ranks, any program and any     *)
(* sub-communicators: the messages of a handshake belong to it, and, when  *)
(* the script catches no exception, the ranks that go on are all at the    *)
(* same rendez-vous and end together.                                      *)
(***************************************************************************)
EXTENDS MpiCheck, FiniteSetTheorems, WellFoundedInduction, TLAPS

-----------------------------------------------------------------------------
(* The inductive invariant, by parts.                                      *)

Asks   == {"sending", "waiting"}        \* in asmpi_status
Leads  == {"checking", "answering"}     \* in asmpi_check, rank 0
In(r)  == pc[r] \in Asks \cup Leads
Places == (1..Cmds) \X (1..Colls)       \* the collectives of the program
TheEnd == <<Exit, 0>>                   \* the rendez-vous of terminate()

Before(p, q) == p[1] < q[1] \/ (p[1] = q[1] /\ p[2] < q[2])

(* Where a rank is, and what that says of its communicator and flags.      *)
Course(r) ==
    /\ pos[r][1] = Exit => pos[r][2] = 0
    /\ pc[r] = "run" /\ pos[r][2] = 0 => comm[r] = World
    /\ pc[r] \in {"passed", "coll"} => pos[r] \in Places
    /\ pc[r] = "ended" => pos[r] = TheEnd
    /\ pc[r] \in {"passed", "coll", "ended"} => comm[r] = CommOf(r, pos[r])
    /\ In(r) => /\ pc[r] \in Leads <=> r = Head(comm[r])
                /\ why[r] = "exit" <=> pos[r] = TheEnd
                /\ why[r] = "coll" => pos[r] \in Places
                /\ why[r] = "error" => comm[r] = World /\ iglbst[r] # {}
                /\ why[r] # "error" => comm[r] = CommOf(r, pos[r])
    /\ pc[r] \in Asks /\ why[r] # "error" => iglbst[r] = {}
    /\ pc[r] = "checking" => "UN_OTH" \notin iglbst[r]
    /\ pc[r] \in Leads /\ iglbst[r] # {} /\ "UN_OTH" \notin iglbst[r] => comm[r] = World

(* A message belongs to the handshake its rank is in, is the only one, and *)
(* says whether that rank is in error.                                     *)
Current(m) ==
    /\ pc[m.rank] \in Asks /\ comm[m.rank] = m.comm
    /\ m.tag = "CHK" => (m.stat = "ER" <=> why[m.rank] = "error")
    /\ m.tag = "CNT" /\ why[m.rank] = "error" => m.stat = "ER"
    /\ \A n \in net : n.rank = m.rank => n = m

(* A rank that rank 0 has heard waits for its answer.                      *)
Heeded(h, q) ==
    /\ pc[h] \in Leads
    /\ pc[q] \in Asks /\ comm[q] = comm[h]
    /\ \A m \in net : m.rank # q
    /\ why[q] = "error" => iglbst[h] # {}

Protocol ==
    /\ \A r \in Ranks : Course(r)
    /\ \A m \in net : Current(m)
    /\ \A h \in Ranks : \A q \in isterm[h] : Heeded(h, q)

(* What a rank has passed: nothing beyond its place and, unless an         *)
(* exception has taken it to the end, all that is before it.               *)
History(r) ==
    /\ \A p \in passed[r] : p \in Places \cup {TheEnd} /\ ~Before(pos[r], p)
    /\ TheEnd \in passed[r] => pc[r] = "ended"
    /\ pc[r] \in {"passed", "coll", "ended"} => pos[r] \in passed[r]
    /\ In(r) /\ why[r] # "error" => pos[r] \notin passed[r]
    /\ r \in excepted => pos[r] = TheEnd
    /\ r \notin excepted =>
          \A p \in Places :
             /\ CommOf(r, p) # {r}
             /\ Before(p, pos[r]) \/ (p = pos[r] /\ (~In(r) \/ why[r] = "error"))
             => p \in passed[r]

(* Rank 0 answers "continue" when all come; all come where one has passed. *)
Together ==
    /\ \A r \in Ranks : \A p \in passed[r] : \A q \in CommOf(r, p) : Comes(q, p)
    /\ \A h \in Ranks : pc[h] = "answering" /\ iglbst[h] = {} =>
          \A q \in comm[h] : Comes(q, pos[h]) /\ (q \in isterm[h] => pos[q] = pos[h])
    /\ \A m \in net : m.tag = "CNT" /\ m.stat = "OK" =>
          \A q \in m.comm : Comes(q, pos[m.rank])

(* Rank 0 of some communicator has missed a rank and is about to abort.    *)
Doomed == \E d \in Ranks : pc[d] = "answering" /\ "UN_OTH" \in iglbst[d]

(* Rank q has taken the exception, or nothing can keep it from that.       *)
Told(q) ==
    \/ q \in excepted
    \/ /\ q = Head(World) /\ pc[q] = "answering" /\ comm[q] = World /\ iglbst[q] # {}
    \/ /\ pc[q] \in Asks /\ comm[q] = World
       /\ \/ Cnt(World, q, "ER") \in net
          \/ LET h == Head(World)
             IN  /\ pc[h] = "answering" /\ comm[h] = World /\ iglbst[h] # {}
                 /\ q \in isterm[h]

(* An error that one rank has been told of is told to all.                 *)
Trouble == \/ excepted # {}
           \/ \E m \in net : m.tag = "CNT" /\ m.stat = "ER"
           \/ \E h \in Ranks : pc[h] = "answering" /\ iglbst[h] # {}
AllTold == Trouble => Doomed \/ \A q \in Ranks : Told(q)

PInv == TypeOK /\ (aborted = "" => Protocol)
EInv == PInv /\ (aborted = "" => AllTold)
IInv == EInv /\ (aborted = "" => (\A r \in Ranks : History(r)) /\ Together)

-----------------------------------------------------------------------------
(* Ranks and communicators.                                                *)

(* A set of ranks has a first one.                                         *)
LEMMA FirstOf ==
    ASSUME NEW S \in SUBSET Ranks, S # {}
    PROVE  Min(S) \in S /\ \A y \in S : Min(S) <= y
<1> DEFINE Below(x) == {y \in S : y < x}
           F == {Below(x) : x \in S}
<1>1. S \subseteq Int /\ IsFiniteSet(S)
  <2>1. 0 \in Int /\ N - 1 \in Int /\ Ranks \subseteq Int
      BY MpiAssumption DEF Ranks
  <2>2. IsFiniteSet(Ranks)
      BY <2>1, FS_Interval DEF Ranks
  <2> QED BY <2>1, <2>2, FS_Subset
<1>2. F \subseteq FiniteSubsetsOf(S) /\ F # {}
  <2>1. \A x \in S : Below(x) \subseteq S /\ IsFiniteSet(Below(x))
      BY <1>1, FS_Subset
  <2> QED BY <2>1 DEF FiniteSubsetsOf
<1>3. PICK T \in F : \A U \in F : ~(<<U, T>> \in StrictSubsetOrdering(S))
    BY <1>2, FS_StrictSubsetOrderingWellFounded, WFMin, Zenon
<1>4. PICK x \in S : T = Below(x)
    OBVIOUS
<1>5. ASSUME NEW y \in S PROVE x <= y
  <2>1. SUFFICES ASSUME y < x PROVE FALSE
      BY <1>1
  <2> HIDE DEF F
  <2>2. \A z \in S : z < y => z < x
      BY <1>1, <2>1
  <2>3. Below(y) \subseteq Below(x) /\ y \in Below(x) /\ y \notin Below(y)
    <3>1. y \in Int /\ ~(y < y)
        BY <1>1
    <3>2. Below(y) \subseteq Below(x)
        BY <2>2
    <3>3. y \in Below(x)
        BY <2>1
    <3>4. y \notin Below(y)
        BY <3>1
    <3> QED BY <3>2, <3>3, <3>4
  <2>4. <<Below(y), T>> \in StrictSubsetOrdering(S)
      BY <1>4, <2>3 DEF StrictSubsetOrdering
  <2>5. Below(y) \in F
      BY DEF F
  <2> QED BY <1>3, <2>4, <2>5
<1> QED BY <1>5 DEF Min

(* The places of the program.                                              *)
LEMMA Bounds ==
    /\ Exit \in Nat /\ Colls \in Nat /\ 0 \in 0..Colls /\ Exit \in 1..Exit
    /\ \A p \in (1..Exit) \X (0..Colls) :
          p = <<p[1], p[2]>> /\ p[1] \in 1..Exit /\ p[2] \in 0..Colls
    /\ \A i \in 1..Exit : i # Exit => i + 1 \in 1..Exit /\ i < Exit
<1>1. Cmds \in Nat \ {0} /\ Colls \in Nat
    BY MpiAssumption
<1>2. Exit \in Nat /\ Exit > 1
    BY <1>1 DEF Exit
<1>3. \A p \in (1..Exit) \X (0..Colls) :
          p = <<p[1], p[2]>> /\ p[1] \in 1..Exit /\ p[2] \in 0..Colls
    OBVIOUS
<1> QED BY <1>1, <1>2, <1>3

(* A place before another in the program.                                  *)
LEMMA Earlier ==
    ASSUME NEW p \in (1..Exit) \X (0..Colls), p[1] < Exit
    PROVE  p[1] # Exit /\ p[1] \in 1..Cmds /\ p[1] \in 1..Exit
<1>1. p[1] \in 1..Exit
    BY Bounds
<1>2. Exit \in Int /\ Exit = Cmds + 1 /\ Cmds \in Int
    BY MpiAssumption DEF Exit
<1> QED BY <1>1, <1>2

(* The collective behind another one.                                      *)
LEMMA NextOne ==
    ASSUME NEW k \in 0..Colls, k + 1 <= Colls
    PROVE  k + 1 \in 1..Colls /\ k + 1 \in 0..Colls /\ k + 1 # 0
<1>1. Colls \in Int
    BY MpiAssumption
<1> QED BY <1>1

LEMMA NotZero == 0 \notin 1..Colls
<1>1. Colls \in Int
    BY MpiAssumption
<1> QED BY <1>1

(* The communicator of a collective holds the rank, and is the same for all *)
(* its ranks.                                                              *)
LEMMA Communicators ==
    /\ World # {} /\ World \subseteq Ranks
    /\ \A r \in Ranks : World # {r}
    /\ Exit \in Nat /\ Exit \notin 1..Cmds
    /\ \A r \in Ranks : \A p :
          /\ r \in CommOf(r, p) /\ CommOf(r, p) \subseteq Ranks
          /\ \A q \in CommOf(r, p) : CommOf(q, p) = CommOf(r, p)
    /\ \A r \in Ranks : CommOf(r, TheEnd) = World
<1>1. 0 \in Ranks /\ 1 \in Ranks
    BY MpiAssumption DEF Ranks
<1>2. Exit \in Nat /\ Exit \notin 1..Cmds
    BY MpiAssumption DEF Exit
<1>3. TheEnd \notin InSub
    BY <1>2, MpiAssumption DEF TheEnd
<1> QED BY <1>1, <1>2, <1>3, MpiAssumption DEF World, CommOf

-----------------------------------------------------------------------------
(* Handshakes and their messages: PInv is inductive.                       *)

LEMMA InitProtocol == Init => PInv
<1> SUFFICES ASSUME Init PROVE PInv
    OBVIOUS
<1>1. TypeOK
  <2>1. <<1, 0>> \in (1..Exit) \X (0..Colls)
      BY MpiAssumption DEF Exit
  <2>2. onerrf \in BOOLEAN
      BY MpiAssumption DEF Init
  <2> QED BY <2>1, <2>2, Communicators DEF Init, TypeOK, World
<1>2. Protocol
    BY MpiAssumption, Communicators DEF Init, Protocol, Course, In, Asks, Leads, TheEnd, Exit
<1> QED BY <1>1, <1>2 DEF PInv

Messages == [tag : {"CHK", "CNT"}, comm : SUBSET Ranks, rank : Ranks, stat : {"OK", "ER"}]

(* What the range of the messages says of one of them.                     *)
LEMMA MessageType ==
    ASSUME TypeOK
    PROVE  /\ net \subseteq Messages
           /\ \A m \in net : /\ m.tag \in {"CHK", "CNT"} /\ m.rank \in Ranks
                             /\ m.stat \in {"OK", "ER"} /\ m.comm \subseteq Ranks
<1>1. net \subseteq Messages
    BY DEF TypeOK, Messages
<1> QED BY <1>1 DEF Messages

(* A rank that is in no handshake begins one.                              *)
LEMMA BeginKeeps ==
    ASSUME PInv, aborted = "", UNCHANGED <<passed, entered, excepted, aborted, onerrf>>,
           NEW r \in Ranks, pc[r] \in {"run", "passed"},
           NEW p, pos' = [pos EXCEPT ![r] = p], p \in (1..Exit) \X (0..Colls),
           NEW f \in SUBSET Status, iglbst' = [iglbst EXCEPT ![r] = f],
           NEW c, NEW s, NEW reason, Handshake(r, c, s, reason),
           p[1] = Exit => p[2] = 0,
           \/ reason = "coll" /\ p \in Places /\ f = {} /\ s = "OK" /\ c = CommOf(r, p)
           \/ reason = "exit" /\ p = TheEnd /\ f = {} /\ s = "OK" /\ c = CommOf(r, p)
           \/ reason = "error" /\ p # TheEnd /\ f # {} /\ "UN_OTH" \notin f /\ s = "ER" /\ c = World
    PROVE  PInv'
<1>1. /\ \A m \in net : m.rank # r
      /\ \A h \in Ranks : r \notin isterm[h]
      /\ isterm[r] = {}
    BY DEF PInv, Protocol, Current, Heeded, Asks, Leads
<1>2. c \subseteq Ranks /\ r \in c
    BY Communicators DEF World
<1>3. TheEnd \notin Places
    BY Communicators DEF TheEnd, Places
<1> DEFINE new == Chk(c, r, s)
<1>a. /\ new.tag = "CHK" /\ new.comm = c /\ new.rank = r /\ new.stat = s
      /\ new \in Messages
  <2>1. s \in {"OK", "ER"} /\ c \subseteq Ranks
      BY <1>2
  <2> QED BY <2>1 DEF Chk, Messages
<1>b. net' = net \/ net' = net \cup {new}
    BY DEF Handshake
<1> HIDE DEF new
<1>4. TypeOK'
  <2>1. TypeOK
      BY DEF PInv
  <2>2. pos' \in [Ranks -> (1..Exit) \X (0..Colls)]
      BY <2>1 DEF TypeOK
  <2>3. /\ pc' = [pc EXCEPT ![r] = IF r = Head(c) THEN "checking" ELSE "sending"]
        /\ comm' = [comm EXCEPT ![r] = c] /\ why' = [why EXCEPT ![r] = reason]
      BY DEF Handshake
  <2>4. net' \subseteq Messages
      BY <1>a, <1>b, <2>1, MessageType
  <2>5. isterm' \in [Ranks -> SUBSET Ranks]
      BY <2>1 DEF TypeOK, Handshake
  <2>6. /\ comm' \in [Ranks -> SUBSET Ranks] /\ \A q \in Ranks : q \in comm'[q]
        /\ why' \in [Ranks -> {"coll", "error", "exit"}]
      BY <1>2, <2>1, <2>3 DEF TypeOK
  <2>7. /\ pc' \in [Ranks -> {"run", "sending", "waiting", "checking", "answering",
                       "passed", "coll", "ended"}]
        /\ iglbst' \in [Ranks -> SUBSET Status]
        /\ \A q \in Ranks : pc'[q] \in {"run", "passed", "coll", "ended"} => iglbst'[q] = {}
      BY <2>1, <2>3 DEF TypeOK
  <2> QED BY <2>1, <2>2, <2>4, <2>5, <2>6, <2>7 DEF TypeOK, Messages
<1>5. \A q \in Ranks : q # r => /\ pc'[q] = pc[q] /\ comm'[q] = comm[q] /\ why'[q] = why[q]
                                /\ pos'[q] = pos[q] /\ iglbst'[q] = iglbst[q]
    BY DEF PInv, TypeOK, Handshake
<1>6. /\ pc'[r] = IF r = Head(c) THEN "checking" ELSE "sending"
      /\ comm'[r] = c /\ why'[r] = reason /\ pos'[r] = p /\ iglbst'[r] = f
    BY DEF PInv, TypeOK, Handshake
<1>7. ASSUME NEW q \in Ranks PROVE Course(q)'
  <2>1. CASE q = r
      BY <2>1, <1>3, <1>6 DEF Course, In, Asks, Leads
  <2>2. CASE q # r
      BY <2>2, <1>5, ZenonT(60) DEF PInv, Protocol, Course, In
  <2> QED BY <2>1, <2>2
<1>8. net' = net \/ (net' = net \cup {new} /\ pc'[r] = "sending")
    BY <1>6 DEF Handshake, new
<1>9. ASSUME NEW m \in net' PROVE Current(m)'
  <2>1. CASE m \in net
      BY <1>1, <1>5, <1>8, <1>a, <2>1, MessageType, ZenonT(60) DEF PInv, Protocol, Current
  <2>2. CASE m \notin net
    <3>1. m = new /\ pc'[r] = "sending"
        BY <1>8, <2>2
    <3>2. \A n \in net' : n.rank = r => n = m
        BY <1>1, <1>8, <3>1
    <3> QED BY <1>6, <1>a, <3>1, <3>2 DEF Current, Asks
  <2> QED BY <2>1, <2>2
<1>10. ASSUME NEW h \in Ranks, NEW q \in isterm'[h] PROVE Heeded(h, q)'
  <2>1. isterm'[h] = isterm[h]
      BY <1>1 DEF PInv, TypeOK, Handshake
  <2>2. Heeded(h, q) /\ h # r /\ q # r /\ q \in Ranks
      BY <1>1, <2>1 DEF PInv, TypeOK, Protocol
  <2>3. \A m \in net' : m.rank # q
      BY <1>8, <1>a, <2>2 DEF Heeded
  <2> QED BY <1>5, <2>2, <2>3 DEF Heeded
<1> QED BY <1>4, <1>7, <1>9, <1>10 DEF PInv, Protocol

(* A rank goes on by itself, out of any handshake, or leaves one in which   *)
(* nothing is left of it.                                                  *)
LEMMA LeaveKeeps ==
    ASSUME PInv, aborted = "", UNCHANGED <<why, isterm, aborted, onerrf>>,
           NEW r \in Ranks, \A h \in Ranks : r \notin isterm[h],
           isterm[r] = {}, net' \subseteq net, \A m \in net' : m.rank # r,
           NEW w \in {"run", "passed", "coll", "ended"}, pc' = [pc EXCEPT ![r] = w],
           NEW p \in (1..Exit) \X (0..Colls), pos' = [pos EXCEPT ![r] = p],
           NEW c \in SUBSET Ranks, r \in c, comm' = [comm EXCEPT ![r] = c],
           iglbst' = [iglbst EXCEPT ![r] = {}],
           p[1] = Exit => p[2] = 0,
           w = "run" /\ p[2] = 0 => c = World,
           w \in {"passed", "coll"} => p \in Places /\ c = CommOf(r, p),
           w = "ended" => p = TheEnd /\ c = CommOf(r, p),
           passed' \in [Ranks -> SUBSET ((1..Exit) \X (0..Colls))],
           entered' \in [Ranks -> SUBSET ((1..Exit) \X (0..Colls))],
           excepted' \subseteq Ranks
    PROVE  PInv'
<1>1. TypeOK'
    BY DEF PInv, TypeOK
<1>2. \A q \in Ranks : q # r => /\ pc'[q] = pc[q] /\ comm'[q] = comm[q] /\ why'[q] = why[q]
                                /\ pos'[q] = pos[q] /\ iglbst'[q] = iglbst[q]
    BY DEF PInv, TypeOK
<1>3. pc'[r] = w /\ comm'[r] = c /\ pos'[r] = p /\ iglbst'[r] = {}
    BY DEF PInv, TypeOK
<1>4. ASSUME NEW q \in Ranks PROVE Course(q)'
  <2>1. CASE q = r
      BY <2>1, <1>3 DEF Course, In, Asks, Leads
  <2>2. CASE q # r
      BY <2>2, <1>2, ZenonT(60) DEF PInv, Protocol, Course, In
  <2> QED BY <2>1, <2>2
<1>5. ASSUME NEW m \in net' PROVE Current(m)'
  <2>1. m \in net /\ m.rank # r /\ m.rank \in Ranks
      BY MessageType DEF PInv
  <2> QED BY <1>2, <2>1 DEF PInv, Protocol, Current
<1>6. ASSUME NEW h \in Ranks, NEW q \in isterm'[h] PROVE Heeded(h, q)'
  <2>1. q \in isterm[h] /\ q \in Ranks /\ q # r /\ h # r
      BY DEF PInv, TypeOK
  <2>2. Heeded(h, q)
      BY <2>1 DEF PInv, Protocol
  <2> QED BY <1>2, <2>1, <2>2 DEF Heeded
<1> QED BY <1>1, <1>4, <1>5, <1>6 DEF PInv, Protocol

(* The ranks that are in no handshake.                                     *)
LEMMA OutOfHandshake ==
    ASSUME PInv, aborted = "", NEW r \in Ranks, ~In(r)
    PROVE  /\ \A m \in net : m.rank # r
           /\ \A h \in Ranks : r \notin isterm[h]
           /\ isterm[r] = {} /\ iglbst[r] = {}
BY ZenonT(60) DEF PInv, Protocol, Current, Heeded, Asks, Leads, In, TypeOK

(* A rank without flags is as if it reset them.                            *)
LEMMA NoFlags ==
    ASSUME TypeOK, NEW r \in Ranks, iglbst[r] = {}
    PROVE  iglbst = [iglbst EXCEPT ![r] = {}]
<1>1. iglbst \in [Ranks -> SUBSET Status]
    BY DEF TypeOK
<1> QED BY <1>1

(* Nothing is looked at after MPI_Abort.                                   *)
LEMMA AbortKeeps ==
    ASSUME PInv, NEW reason \in {"error", "delay", "no time", "thrown at exit"}, Asabrt(reason),
           UNCHANGED onerrf, net' \subseteq net
    PROVE  PInv'
BY DEF PInv, TypeOK, Asabrt

(* Test: rank 0 hears a rank.                                              *)
LEMMA TestKeeps ==
    ASSUME PInv, aborted = "", UNCHANGED onerrf, NEW h \in Ranks, NEW m \in net, Test(h, m)
    PROVE  PInv'
<1> DEFINE r == m.rank
<1>1. /\ r \in Ranks /\ m.tag = "CHK" /\ m.stat \in {"OK", "ER"}
      /\ pc[h] = "checking" /\ m.comm = comm[h]
      /\ pc[r] \in Asks /\ comm[r] = comm[h] /\ (m.stat = "ER" <=> why[r] = "error")
      /\ \A n \in net' : n.rank # r
    BY MessageType DEF PInv, Protocol, Current, Test
<1>2. h # r
    BY <1>1 DEF Asks
<1>3. /\ \A g \in Ranks : g # h => isterm'[g] = isterm[g] /\ iglbst'[g] = iglbst[g]
      /\ isterm'[h] = isterm[h] \cup {r} /\ iglbst'[h] = Heard(iglbst[h], m.stat)
      /\ net' \subseteq net /\ UNCHANGED <<pc, comm, pos, why, aborted>>
    BY DEF Test, PInv, TypeOK
<1>4. TypeOK'
  <2>1. TypeOK
      BY DEF PInv
  <2>2. iglbst' \in [Ranks -> SUBSET Status]
      BY <2>1 DEF TypeOK, Test, Heard, Status
  <2>3. isterm' \in [Ranks -> SUBSET Ranks]
      BY <1>1, <2>1 DEF TypeOK, Test
  <2>4. \A q \in Ranks : pc'[q] \in {"run", "passed", "coll", "ended"} => iglbst'[q] = {}
      BY <1>1, <1>3, <2>1 DEF TypeOK
  <2> QED BY <2>1, <2>2, <2>3, <2>4 DEF TypeOK, Test
<1>5. "UN_OTH" \notin iglbst'[h]
  <2>1. "UN_OTH" \notin iglbst[h]
      BY <1>1 DEF PInv, Protocol, Course
  <2>2. \A x \in iglbst'[h] : x \in iglbst[h] \/ x = "ER_OTH"
      BY <1>3 DEF Heard
  <2> QED BY <2>1, <2>2
<1>6. iglbst'[h] # {} => comm[h] = World
  <2>1. why[r] = "error" => comm[r] = World
      BY <1>1 DEF PInv, Protocol, Course, In
  <2>2. iglbst[h] # {} => comm[h] = World
      BY <1>1 DEF PInv, Protocol, Course, Leads
  <2> QED BY <1>1, <1>3, <2>1, <2>2 DEF Heard
<1>7. ASSUME NEW q \in Ranks PROVE Course(q)'
  <2>1. CASE q # h
      BY <1>3, <2>1 DEF PInv, Protocol, Course, In
  <2>2. CASE q = h
      BY <1>1, <1>3, <1>5, <1>6, <2>2 DEF PInv, Protocol, Course, In, Asks, Leads, Heard
  <2> QED BY <2>1, <2>2
<1>8. ASSUME NEW n \in net' PROVE Current(n)'
    BY <1>3 DEF PInv, Protocol, Current
<1>9. ASSUME NEW g \in Ranks, NEW q \in isterm'[g] PROVE Heeded(g, q)'
  <2>1. CASE g = h /\ q = r
      BY <1>1, <1>3, <2>1 DEF Heeded, Heard, Leads
  <2>2. CASE q \in isterm[g]
      BY <1>3, <2>2, ZenonT(60) DEF PInv, Protocol, Heeded, Heard
  <2> QED BY <1>3, <2>1, <2>2
<1> QED BY <1>4, <1>7, <1>8, <1>9 DEF PInv, Protocol

(* EndOfLoop: the flags are complete.                                      *)
LEMMA EndOfLoopKeeps ==
    ASSUME PInv, aborted = "", UNCHANGED onerrf, NEW h \in Ranks, EndOfLoop(h)
    PROVE  PInv'
<1> DEFINE more == IF isterm[h] = Others(comm[h]) THEN {} ELSE {"UN_OTH"}
<1>1. /\ pc[h] = "checking" /\ pc'[h] = "answering"
      /\ iglbst'[h] = iglbst[h] \cup more
      /\ \A g \in Ranks : g # h => pc'[g] = pc[g] /\ iglbst'[g] = iglbst[g]
      /\ UNCHANGED <<pos, comm, why, isterm, net, aborted>>
    BY DEF EndOfLoop, PInv, TypeOK
<1>2. TypeOK'
  <2>1. TypeOK
      BY DEF PInv
  <2>2. iglbst' \in [Ranks -> SUBSET Status]
      BY <2>1 DEF TypeOK, EndOfLoop, Status
  <2>3. \A q \in Ranks : pc'[q] \in {"run", "passed", "coll", "ended"} => iglbst'[q] = {}
      BY <1>1, <2>1 DEF TypeOK
  <2> QED BY <2>1, <2>2, <2>3 DEF TypeOK, EndOfLoop
<1>3. ASSUME NEW q \in Ranks PROVE Course(q)'
  <2>1. CASE q # h
      BY <1>1, <2>1 DEF PInv, Protocol, Course, In
  <2>2. CASE q = h
      BY <1>1, <2>2 DEF PInv, Protocol, Course, In, Asks, Leads
  <2> QED BY <2>1, <2>2
<1>4. ASSUME NEW n \in net' PROVE Current(n)'
    BY <1>1, MessageType DEF PInv, Protocol, Current, Asks
<1>5. ASSUME NEW g \in Ranks, NEW q \in isterm'[g] PROVE Heeded(g, q)'
  <2>1. Heeded(g, q) /\ q \in Ranks
      BY <1>1 DEF PInv, Protocol, TypeOK
  <2> QED BY <1>1, <2>1 DEF Heeded, Leads, Asks
<1> QED BY <1>2, <1>3, <1>4, <1>5 DEF PInv, Protocol

(* Answer: one of the ranks heard is told.                                 *)
LEMMA AnswerKeeps ==
    ASSUME PInv, aborted = "", UNCHANGED onerrf, NEW h \in Ranks, Answer(h)
    PROVE  PInv'
<1> DEFINE i == Min(isterm[h])
           new == Cnt(comm[h], i, Istat(iglbst[h]))
<1>1. i \in isterm[h] /\ i \in Ranks
    BY FirstOf DEF Answer, PInv, TypeOK
<1>2. new.tag = "CNT" /\ new.comm = comm[h] /\ new.rank = i /\ new.stat = Istat(iglbst[h])
    BY DEF Cnt
<1>3. /\ isterm' = [isterm EXCEPT ![h] = @ \ {i}] /\ net' = net \cup {new}
      /\ UNCHANGED <<pc, pos, comm, iglbst, why, aborted>>
    BY DEF Answer
<1>4. Heeded(h, i)
    BY <1>1 DEF PInv, Protocol
<1> HIDE DEF i, new
<1>5. TypeOK'
  <2>1. TypeOK
      BY DEF PInv
  <2>2. new \in Messages
      BY <1>1, <2>1 DEF TypeOK, new, Cnt, Messages, Istat
  <2>3. isterm' \in [Ranks -> SUBSET Ranks]
      BY <1>3, <2>1 DEF TypeOK
  <2>4. net' \subseteq Messages
      BY <1>3, <2>1, <2>2, MessageType
  <2> QED BY <2>1, <2>3, <2>4 DEF TypeOK, Answer, Messages
<1>6. ASSUME NEW q \in Ranks PROVE Course(q)'
    BY <1>3 DEF PInv, Protocol, Course, In
<1>7. ASSUME NEW n \in net' PROVE Current(n)'
  <2>1. CASE n = new
      BY <1>2, <1>3, <1>4, <2>1 DEF Heeded, Current, Istat
  <2>2. CASE n \in net
      BY <1>2, <1>3, <1>4, <2>2, ZenonT(60) DEF PInv, Protocol, Current, Heeded
  <2> QED BY <1>3, <2>1, <2>2
<1>8. ASSUME NEW g \in Ranks, NEW q \in isterm'[g] PROVE Heeded(g, q)'
  <2>1. q \in isterm[g] /\ q # i
    <3>1. CASE g = h
        BY <1>3, <3>1 DEF PInv, TypeOK
    <3>2. CASE g # h
      <4>1. q \in isterm[g]
          BY <1>3, <3>2 DEF PInv, TypeOK
      <4>2. ASSUME q = i PROVE FALSE
        <5>1. Heeded(g, i)
            BY <4>1, <4>2 DEF PInv, Protocol
        <5>2. Course(g) /\ Course(h)
            BY DEF PInv, Protocol
        <5> QED BY <1>4, <3>2, <5>1, <5>2 DEF Heeded, Course, In, Leads
      <4> QED BY <4>1, <4>2
    <3> QED BY <3>1, <3>2
  <2>2. Heeded(g, q)
      BY <2>1 DEF PInv, Protocol
  <2> QED BY <1>2, <1>3, <2>1, <2>2 DEF Heeded
<1> QED BY <1>5, <1>6, <1>7, <1>8 DEF PInv, Protocol

(* Uexcep and Proceed, of a rank in whose handshake nothing is left of it.  *)
LEMMA UexcepKeeps ==
    ASSUME PInv, aborted = "", UNCHANGED onerrf, NEW r \in Ranks, In(r), Uexcep(r),
           \A h \in Ranks : r \notin isterm[h], isterm[r] = {},
           net' \subseteq net, \A m \in net' : m.rank # r
    PROVE  PInv'
<1>1. CASE why[r] = "exit"
    BY <1>1, AbortKeeps DEF Uexcep
<1>2. CASE why[r] # "exit"
  <2> DEFINE p == <<IF Catches THEN pos[r][1] + 1 ELSE Exit, 0>>
  <2>1. /\ UNCHANGED <<why, isterm, aborted>> /\ passed' = passed /\ entered' = entered
        /\ pc' = [pc EXCEPT ![r] = "run"]
        /\ pos' = [pos EXCEPT ![r] = p] /\ comm' = [comm EXCEPT ![r] = World]
        /\ iglbst' = [iglbst EXCEPT ![r] = {}]
        /\ excepted' = excepted \cup {r}
      BY <1>2 DEF Uexcep, PInv, TypeOK
  <2>2. pos[r][1] \in 1..Exit /\ pos[r][1] # Exit /\ pos[r] \in (1..Exit) \X (0..Colls)
    <3>1. pos[r] # TheEnd /\ (pos[r][1] = Exit => pos[r][2] = 0)
        BY <1>2 DEF PInv, Protocol, Course
    <3>2. pos[r] \in (1..Exit) \X (0..Colls)
        BY DEF PInv, TypeOK
    <3>3. pos[r] = <<pos[r][1], pos[r][2]>> /\ pos[r][1] \in 1..Exit
        BY <3>2, Bounds
    <3> QED BY <3>1, <3>2, <3>3 DEF TheEnd
  <2>3. p \in (1..Exit) \X (0..Colls) /\ p[2] = 0
    <3>1. 0 \in 0..Colls /\ Exit \in 1..Exit
        BY Bounds
    <3>2. pos[r][1] + 1 \in 1..Exit
        BY <2>2, Bounds
    <3> QED BY <3>1, <3>2
  <2>4. World \in SUBSET Ranks /\ r \in World
      BY DEF World
  <2>5. /\ passed' \in [Ranks -> SUBSET ((1..Exit) \X (0..Colls))]
        /\ entered' \in [Ranks -> SUBSET ((1..Exit) \X (0..Colls))]
        /\ excepted' \subseteq Ranks
      BY <2>1 DEF PInv, TypeOK
  <2> HIDE DEF p
  <2> QED BY <2>1, <2>3, <2>4, <2>5, LeaveKeeps
<1> QED BY <1>1, <1>2

LEMMA ProceedKeeps ==
    ASSUME PInv, aborted = "", UNCHANGED <<onerrf, iglbst, isterm>>,
           NEW r \in Ranks, In(r), Proceed(r), why[r] # "error", iglbst[r] = {},
           \A h \in Ranks : r \notin isterm[h], isterm[r] = {},
           net' \subseteq net, \A m \in net' : m.rank # r
    PROVE  PInv'
<1> DEFINE w == IF why[r] = "exit" THEN "ended" ELSE "passed"
<1>1. /\ UNCHANGED <<why, isterm, aborted>> /\ entered' = entered /\ excepted' = excepted
      /\ pc' = [pc EXCEPT ![r] = w]
      /\ pos' = [pos EXCEPT ![r] = pos[r]] /\ comm' = [comm EXCEPT ![r] = comm[r]]
      /\ iglbst' = [iglbst EXCEPT ![r] = {}]
      /\ passed' = [passed EXCEPT ![r] = @ \cup {pos[r]}]
    BY DEF Proceed, PInv, TypeOK
<1>2. pos[r] \in (1..Exit) \X (0..Colls) /\ comm[r] \in SUBSET Ranks /\ r \in comm[r]
    BY DEF PInv, TypeOK
<1>3. /\ passed' \in [Ranks -> SUBSET ((1..Exit) \X (0..Colls))]
      /\ entered' \in [Ranks -> SUBSET ((1..Exit) \X (0..Colls))]
      /\ excepted' \subseteq Ranks
  <2>1. /\ passed \in [Ranks -> SUBSET ((1..Exit) \X (0..Colls))]
        /\ entered \in [Ranks -> SUBSET ((1..Exit) \X (0..Colls))]
        /\ excepted \subseteq Ranks
      BY DEF PInv, TypeOK
  <2>2. passed[r] \cup {pos[r]} \in SUBSET ((1..Exit) \X (0..Colls))
      BY <1>2, <2>1
  <2> QED BY <1>1, <2>1, <2>2
<1>4. /\ pos[r][1] = Exit => pos[r][2] = 0
      /\ comm[r] = CommOf(r, pos[r])
      /\ w = "ended" => pos[r] = TheEnd
      /\ w = "passed" => pos[r] \in Places
    BY DEF PInv, TypeOK, Protocol, Course
<1>5. w \in {"passed", "ended"}
    OBVIOUS
<1> HIDE DEF w
<1> QED BY <1>1, <1>2, <1>3, <1>4, <1>5, LeaveKeeps

(* A rank 0 that has told all the ranks it has heard is heard by none.      *)
LEMMA LeadIsFree ==
    ASSUME PInv, aborted = "", NEW r \in Ranks, pc[r] \in Leads
    PROVE  /\ \A m \in net : m.rank # r
           /\ \A h \in Ranks : r \notin isterm[h]
BY DEF PInv, Protocol, Current, Heeded, Asks, Leads

LEMMA DecideKeeps ==
    ASSUME PInv, aborted = "", UNCHANGED onerrf, NEW h \in Ranks, Decide(h)
    PROVE  PInv'
<1>1. /\ pc[h] = "answering" /\ isterm[h] = {} /\ net' = net /\ In(h)
      /\ \A m \in net' : m.rank # h
      /\ \A g \in Ranks : h \notin isterm[g]
    BY LeadIsFree DEF Decide, Leads, In
<1>2. CASE iglbst[h] = {}
  <2>1. Proceed(h) /\ UNCHANGED <<iglbst, isterm>>
      BY <1>2 DEF Decide
  <2>2. why[h] # "error"
      BY <1>1, <1>2 DEF PInv, Protocol, Course
  <2> QED BY <1>1, <1>2, <2>1, <2>2, ProceedKeeps
<1>3. CASE iglbst[h] # {} /\ "UN_OTH" \in iglbst[h]
  <2>1. Asabrt("delay")
      BY <1>3 DEF Decide
  <2> QED BY <1>1, <2>1, AbortKeeps
<1>4. CASE iglbst[h] # {} /\ "UN_OTH" \notin iglbst[h]
  <2>1. Asabrt("error") \/ Uexcep(h)
      BY <1>4 DEF Decide, Stop2
  <2> QED BY <1>1, <2>1, AbortKeeps, UexcepKeeps
<1> QED BY <1>2, <1>3, <1>4

LEMMA AnsweredKeeps ==
    ASSUME PInv, aborted = "", UNCHANGED onerrf, NEW r \in Ranks, NEW m \in net, Answered(r, m)
    PROVE  PInv'
<1>1. /\ pc[r] = "waiting" /\ m.tag = "CNT" /\ m.rank = r /\ net' = net \ {m} /\ In(r)
    BY DEF Answered, In, Asks
<1>2. \A n \in net' : n.rank # r
    BY <1>1 DEF PInv, Protocol, Current
<1>3. \A h \in Ranks : r \notin isterm[h]
    BY <1>1 DEF PInv, Protocol, Heeded
<1>4. isterm[r] = {}
  <2>1. \A q \in isterm[r] : pc[r] \in Leads
      BY DEF PInv, Protocol, Heeded
  <2> QED BY <1>1, <2>1 DEF Leads
<1>5. CASE Proceed(r) /\ UNCHANGED <<iglbst, isterm>> /\ why[r] # "error"
  <2>1. iglbst[r] = {}
      BY <1>1, <1>5 DEF PInv, Protocol, Course, Asks
  <2> QED BY <1>1, <1>2, <1>3, <1>4, <1>5, <2>1, ProceedKeeps
<1>6. CASE Asabrt("error")
    BY <1>1, <1>6, AbortKeeps
<1>7. CASE Uexcep(r)
    BY <1>1, <1>2, <1>3, <1>4, <1>7, UexcepKeeps
<1> QED BY <1>5, <1>6, <1>7 DEF Answered, Stop2

LEMMA SentKeeps ==
    ASSUME PInv, aborted = "", UNCHANGED onerrf, NEW r \in Ranks, Sent(r)
    PROVE  PInv'
<1>1. /\ pc[r] = "sending" /\ pc'[r] = "waiting" /\ \A q \in Ranks : q # r => pc'[q] = pc[q]
      /\ UNCHANGED <<pos, comm, iglbst, why, isterm, net, passed, entered, excepted, aborted>>
    BY DEF Sent, PInv, TypeOK
<1>2. TypeOK'
  <2>1. TypeOK
      BY DEF PInv
  <2>2. \A q \in Ranks : pc'[q] \in {"run", "passed", "coll", "ended"} => iglbst'[q] = {}
      BY <1>1, <2>1 DEF TypeOK
  <2> QED BY <2>1, <2>2 DEF TypeOK, Sent
<1>3. ASSUME NEW q \in Ranks PROVE Course(q)'
    BY <1>1 DEF PInv, Protocol, Course, In, Asks, Leads
<1>4. ASSUME NEW n \in net' PROVE Current(n)'
    BY <1>1, MessageType DEF PInv, Protocol, Current, Asks
<1>5. ASSUME NEW g \in Ranks, NEW q \in isterm'[g] PROVE Heeded(g, q)'
  <2>1. Heeded(g, q) /\ q \in Ranks
      BY <1>1 DEF PInv, Protocol, TypeOK
  <2> QED BY <1>1, <2>1 DEF Heeded, Leads, Asks
<1> QED BY <1>2, <1>3, <1>4, <1>5 DEF PInv, Protocol

LEMMA CollectiveKeeps ==
    ASSUME PInv, aborted = "", UNCHANGED onerrf, NEW r \in Ranks, Collective(r)
    PROVE  PInv'
<1> DEFINE p == <<pos[r][1], pos[r][2] + 1>>
           c == CommOf(r, p)
<1>1. /\ pc[r] = "run" /\ p[1] < Exit /\ p[2] <= Colls /\ pos' = [pos EXCEPT ![r] = p]
      /\ UNCHANGED <<iglbst, passed, entered, excepted, aborted>> /\ ~In(r)
    BY DEF Collective, In, Asks, Leads
<1>2. pos[r][1] \in 1..Exit /\ pos[r][2] \in 0..Colls
    BY Bounds DEF PInv, TypeOK
<1>3. p \in Places /\ p \in (1..Exit) \X (0..Colls) /\ p[1] # Exit /\ p[2] # 0
  <2>1. p[1] = pos[r][1] /\ p[2] = pos[r][2] + 1
      OBVIOUS
  <2>2. p[1] \in 1..Exit /\ p[1] # Exit /\ p[1] \in 1..Cmds
    <3>1. pos[r] \in (1..Exit) \X (0..Colls) /\ pos[r][1] < Exit
        BY <1>1, <2>1 DEF PInv, TypeOK
    <3> QED BY <2>1, <3>1, Earlier
  <2>3. p[2] \in 1..Colls /\ p[2] \in 0..Colls /\ p[2] # 0
    <3>1. pos[r][2] + 1 <= Colls
        BY <1>1
    <3>2. pos[r][2] + 1 \in 1..Colls /\ pos[r][2] + 1 \in 0..Colls /\ pos[r][2] + 1 # 0
        BY <1>2, <3>1, NextOne
    <3> QED BY <2>1, <3>2
  <2> QED BY <2>2, <2>3 DEF Places
<1>4. c \subseteq Ranks /\ r \in c
    BY Communicators
<1>5. iglbst' = [iglbst EXCEPT ![r] = {}]
    BY <1>1, OutOfHandshake, NoFlags DEF PInv
<1>6. CASE c = {r}
  <2>1. /\ comm' = [comm EXCEPT ![r] = c] /\ UNCHANGED <<why, isterm, net>>
        /\ pc' = [pc EXCEPT ![r] = "run"]
    <3>1. pc \in [Ranks -> {"run", "sending", "waiting", "checking", "answering",
                           "passed", "coll", "ended"}]
        BY DEF PInv, TypeOK
    <3>2. comm' = [comm EXCEPT ![r] = {r}] /\ UNCHANGED <<pc, why, isterm, net>>
        BY <1>6 DEF Collective
    <3>3. pc = [pc EXCEPT ![r] = "run"]
        BY <1>1, <3>1
    <3> QED BY <1>6, <3>2, <3>3
  <2>2. /\ passed' \in [Ranks -> SUBSET ((1..Exit) \X (0..Colls))]
        /\ entered' \in [Ranks -> SUBSET ((1..Exit) \X (0..Colls))]
        /\ excepted' \subseteq Ranks
      BY <1>1 DEF PInv, TypeOK
  <2> HIDE DEF p, c
  <2> QED BY <1>1, <1>3, <1>4, <1>5, <2>1, <2>2, OutOfHandshake, LeaveKeeps
<1>7. CASE c # {r}
  <2>1. Handshake(r, c, "OK", "coll")
      BY <1>7 DEF Collective
  <2>2. {} \in SUBSET Status
      OBVIOUS
  <2>3. c = CommOf(r, p)
      OBVIOUS
  <2> HIDE DEF p, c
  <2> QED BY <1>1, <1>3, <1>5, <2>1, <2>2, <2>3, BeginKeeps
<1> QED BY <1>6, <1>7

LEMMA TerminateKeeps ==
    ASSUME PInv, aborted = "", UNCHANGED onerrf, NEW r \in Ranks, Terminate(r)
    PROVE  PInv'
<1>1. /\ pc[r] = "run" /\ ~In(r)
      /\ UNCHANGED <<iglbst, passed, entered, excepted, aborted>>
    BY DEF Terminate, In, Asks, Leads
<1>2. pos[r] = TheEnd /\ pos[r] \in (1..Exit) \X (0..Colls)
  <2>1. pos[r] \in (1..Exit) \X (0..Colls)
      BY DEF PInv, TypeOK
  <2>2. pos[r][1] = Exit /\ pos[r][2] = 0
      BY DEF Terminate, PInv, Protocol, Course
  <2> QED BY <2>1, <2>2, Bounds DEF TheEnd
<1>3. comm[r] = CommOf(r, TheEnd)
  <2>1. TheEnd[2] = 0
      BY DEF TheEnd
  <2>2. comm[r] = World
      BY <1>1, <1>2, <2>1 DEF PInv, Protocol, Course
  <2> QED BY <2>2, Communicators
<1>4. pos' = [pos EXCEPT ![r] = TheEnd] /\ iglbst' = [iglbst EXCEPT ![r] = {}]
  <2>1. pos \in [Ranks -> (1..Exit) \X (0..Colls)] /\ pos' = pos
      BY DEF Terminate, PInv, TypeOK
  <2>2. iglbst' = [iglbst EXCEPT ![r] = {}]
      BY <1>1, OutOfHandshake, NoFlags DEF PInv
  <2> QED BY <1>2, <2>1, <2>2
<1>5. Handshake(r, comm[r], "OK", "exit") /\ {} \in SUBSET Status /\ TheEnd[2] = 0
    BY DEF Terminate, TheEnd
<1> QED BY <1>1, <1>2, <1>3, <1>4, <1>5, BeginKeeps

LEMMA AsmpiWarnKeeps ==
    ASSUME PInv, aborted = "", UNCHANGED onerrf, NEW r \in Ranks, NEW fatal \in BOOLEAN,
           AsmpiWarn(r, fatal)
    PROVE  PInv'
<1> DEFINE f == Warned(r, onerrf /\ fatal)
<1>1. /\ pc[r] \in {"run", "passed"} /\ iglbst' = [iglbst EXCEPT ![r] = f]
      /\ Handshake(r, World, "ER", "error")
      /\ UNCHANGED <<pos, passed, entered, excepted, aborted>>
    BY DEF AsmpiWarn, MayFail
<1>2. f \in SUBSET Status /\ f # {} /\ "UN_OTH" \notin f
    BY DEF Warned, Status
<1>3. pos[r] \in (1..Exit) \X (0..Colls) /\ pos' = [pos EXCEPT ![r] = pos[r]]
    BY <1>1 DEF PInv, TypeOK
<1>4. pos[r] # TheEnd /\ (pos[r][1] = Exit => pos[r][2] = 0)
  <2>1. pc[r] = "run" => pos[r][1] # Exit
    <3>1. pc[r] = "run" => pos[r][1] < Exit
        BY DEF AsmpiWarn, MayFail
    <3> QED BY <1>3, <3>1, Earlier
  <2>2. pc[r] = "passed" => pos[r] \in Places
      BY DEF PInv, Protocol, Course
  <2>3. TheEnd[1] = Exit /\ TheEnd \notin Places
      BY Communicators DEF TheEnd, Places
  <2>4. pos[r][1] = Exit => pos[r][2] = 0
      BY DEF PInv, Protocol, Course
  <2> QED BY <1>1, <2>1, <2>2, <2>3, <2>4
<1> HIDE DEF f
<1> QED BY <1>1, <1>2, <1>3, <1>4, BeginKeeps

(* The steps that are no part of a handshake.                              *)
LEMMA AloneKeeps ==
    ASSUME PInv, aborted = "", UNCHANGED onerrf, NEW r \in Ranks,
           NextCommand(r) \/ Enter(r) \/ Return(r)
    PROVE  PInv'
<1>1. /\ UNCHANGED <<why, isterm, net, passed, excepted, aborted>> /\ ~In(r)
      /\ iglbst' = [iglbst EXCEPT ![r] = {}]
  <2>1. UNCHANGED <<iglbst, why, isterm, net, passed, excepted, aborted>> /\ ~In(r)
      BY DEF NextCommand, Enter, Return, In, Asks, Leads
  <2> QED BY <2>1, OutOfHandshake, NoFlags DEF PInv
<1>2. /\ pos[r] \in (1..Exit) \X (0..Colls) /\ comm[r] \in SUBSET Ranks /\ r \in comm[r]
      /\ passed' \in [Ranks -> SUBSET ((1..Exit) \X (0..Colls))]
      /\ excepted' \subseteq Ranks
    BY <1>1 DEF PInv, TypeOK
<1>3. CASE NextCommand(r)
  <2> DEFINE p == <<pos[r][1] + 1, 0>>
  <2>1. /\ pc' = [pc EXCEPT ![r] = "run"] /\ pos' = [pos EXCEPT ![r] = p]
        /\ comm' = [comm EXCEPT ![r] = World]
        /\ entered' \in [Ranks -> SUBSET ((1..Exit) \X (0..Colls))]
      BY <1>3 DEF NextCommand, PInv, TypeOK
  <2>2. p \in (1..Exit) \X (0..Colls) /\ p[2] = 0
    <3>1. pos[r][1] \in 1..Exit /\ pos[r][1] # Exit
      <4>1. pos[r][1] < Exit
          BY <1>3 DEF NextCommand
      <4> QED BY <1>2, <4>1, Earlier
    <3> QED BY <3>1, Bounds
  <2>3. World \in SUBSET Ranks /\ r \in World
      BY DEF World
  <2> HIDE DEF p
  <2> QED BY <1>1, <1>2, <2>1, <2>2, <2>3, OutOfHandshake, LeaveKeeps
<1>4. CASE Enter(r) \/ Return(r)
  <2>1. PICK w \in {"run", "coll"} : pc' = [pc EXCEPT ![r] = w]
      BY <1>4 DEF Enter, Return
  <2>2. pos' = [pos EXCEPT ![r] = pos[r]] /\ comm' = [comm EXCEPT ![r] = comm[r]]
      BY <1>4, ZenonT(60) DEF Enter, Return, PInv, TypeOK
  <2>3. pos[r] \in Places /\ comm[r] = CommOf(r, pos[r])
      BY <1>4 DEF Enter, Return, PInv, Protocol, Course
  <2>4. pos[r][1] # Exit /\ pos[r][2] # 0
    <3>1. pos[r][1] \in 1..Cmds /\ pos[r][2] \in 1..Colls
        BY <2>3 DEF Places
    <3>3. Exit \notin 1..Cmds
        BY Communicators
    <3> QED BY <3>1, <3>3, NotZero
  <2>5. entered' \in [Ranks -> SUBSET ((1..Exit) \X (0..Colls))]
    <3>1. entered \in [Ranks -> SUBSET ((1..Exit) \X (0..Colls))]
        BY DEF PInv, TypeOK
    <3>2. entered' = entered \/ entered' = [entered EXCEPT ![r] = @ \cup {pos[r]}]
        BY <1>4 DEF Enter, Return
    <3>3. entered[r] \cup {pos[r]} \in SUBSET ((1..Exit) \X (0..Colls))
        BY <1>2, <3>1
    <3> QED BY <3>1, <3>2, <3>3
  <2> QED BY <1>1, <1>2, <2>1, <2>2, <2>3, <2>4, <2>5, OutOfHandshake, LeaveKeeps
<1> QED BY <1>3, <1>4

LEMMA StepProtocol == PInv /\ [Next]_vars => PInv'
<1> SUFFICES ASSUME PInv, [Next]_vars PROVE PInv'
    OBVIOUS
<1>1. CASE UNCHANGED vars
  <2>1. TypeOK'
      BY <1>1 DEF PInv, TypeOK, vars
  <2>2. \A r \in Ranks : Course(r)' <=> Course(r)
      BY <1>1 DEF Course, In, vars
  <2>3. \A m : Current(m)' <=> Current(m)
      BY <1>1 DEF Current, vars
  <2>4. \A h, q : Heeded(h, q)' <=> Heeded(h, q)
      BY <1>1 DEF Heeded, vars
  <2> QED BY <1>1, <2>1, <2>2, <2>3, <2>4 DEF PInv, Protocol, vars
<1>2. ASSUME NEW r \in Ranks, NEW m \in net, aborted = "", UNCHANGED onerrf,
             Test(r, m) \/ Answered(r, m)
      PROVE  PInv'
    BY <1>2, TestKeeps, AnsweredKeeps
<1>3. ASSUME NEW r \in Ranks, aborted = "", UNCHANGED onerrf,
             \/ Collective(r) \/ NextCommand(r) \/ Terminate(r) \/ EndOfLoop(r)
             \/ Answer(r) \/ Decide(r) \/ Sent(r) \/ Enter(r) \/ Return(r)
      PROVE  PInv'
    BY <1>3, CollectiveKeeps, AloneKeeps, TerminateKeeps, EndOfLoopKeeps, AnswerKeeps,
       DecideKeeps, SentKeeps
<1>4. ASSUME NEW r \in Ranks, aborted = "", UNCHANGED onerrf, Timeout(r)
      PROVE  PInv'
    BY <1>4, AbortKeeps DEF Timeout
<1>5. ASSUME NEW r \in Ranks, aborted = "", UNCHANGED onerrf,
             \E fatal \in BOOLEAN : AsmpiWarn(r, fatal)
      PROVE  PInv'
    BY <1>5, AsmpiWarnKeeps
<1> QED BY <1>1, <1>2, <1>3, <1>4, <1>5 DEF Next, Step

(* Messages never outlive their handshake, whatever the program, the       *)
(* communicators, and whether exceptions are caught or not.                *)
THEOREM MessagesAreAlwaysCurrent == Spec => []MessagesAreCurrent
<1>1. PInv => MessagesAreCurrent
    BY MessageType DEF PInv, Protocol, Current, MessagesAreCurrent, Asks
<1> QED BY <1>1, InitProtocol, StepProtocol, PTL DEF Spec

-----------------------------------------------------------------------------
(* What a step of one rank may change.                                     *)

(* A step of rank r that does not abort.                                   *)
Move(r) == /\ aborted = "" /\ aborted' = "" /\ UNCHANGED onerrf
           /\ Step(r) \/ \E fatal \in BOOLEAN : AsmpiWarn(r, fatal)

(* The others stay where they are.                                         *)
Aside(r) == \A q \in Ranks \ {r} :
    /\ pc'[q] = pc[q] /\ pos'[q] = pos[q] /\ comm'[q] = comm[q] /\ why'[q] = why[q]
    /\ iglbst'[q] = iglbst[q] /\ isterm'[q] = isterm[q] /\ passed'[q] = passed[q]

Grows == (\A q \in Ranks : passed[q] \subseteq passed'[q]) /\ excepted \subseteq excepted'

LEMMA Frame ==
    ASSUME TypeOK, NEW r \in Ranks, Move(r)
    PROVE  Aside(r) /\ Grows
<1>1. /\ pc = [q \in Ranks |-> pc[q]] /\ pos = [q \in Ranks |-> pos[q]]
      /\ comm = [q \in Ranks |-> comm[q]] /\ why = [q \in Ranks |-> why[q]]
      /\ iglbst = [q \in Ranks |-> iglbst[q]] /\ isterm = [q \in Ranks |-> isterm[q]]
      /\ passed = [q \in Ranks |-> passed[q]]
    BY DEF TypeOK
<1>2. ASSUME NEW c, NEW s, NEW reason, Handshake(r, c, s, reason),
             pos' = pos \/ \E p : pos' = [pos EXCEPT ![r] = p],
             iglbst' = iglbst \/ \E f : iglbst' = [iglbst EXCEPT ![r] = f],
             UNCHANGED <<passed, excepted>>
      PROVE  Aside(r) /\ Grows
  <2>1. /\ why' = [why EXCEPT ![r] = reason] /\ comm' = [comm EXCEPT ![r] = c]
        /\ \E w : pc' = [pc EXCEPT ![r] = w]
        /\ isterm' = isterm \/ isterm' = [isterm EXCEPT ![r] = {}]
      BY <1>2 DEF Handshake
  <2> QED BY <1>1, <1>2, <2>1 DEF Aside, Grows
<1>3. CASE Collective(r)
  <2>1. CASE Handshake(r, CommOf(r, <<pos[r][1], pos[r][2] + 1>>), "OK", "coll")
      BY <1>2, <1>3, <2>1 DEF Collective
  <2>2. CASE comm' = [comm EXCEPT ![r] = {r}] /\ UNCHANGED <<pc, why, isterm, net>>
    <3>1. /\ \E p : pos' = [pos EXCEPT ![r] = p]
          /\ UNCHANGED <<iglbst, passed, excepted>>
        BY <1>3 DEF Collective
    <3> QED BY <1>1, <2>2, <3>1 DEF Aside, Grows
  <2> QED BY <1>3, <2>1, <2>2 DEF Collective
<1>4. CASE Terminate(r)
    BY <1>2, <1>4 DEF Terminate
<1>5. ASSUME NEW fatal \in BOOLEAN, AsmpiWarn(r, fatal) PROVE Aside(r) /\ Grows
    BY <1>2, <1>5 DEF AsmpiWarn
<1>6. CASE NextCommand(r)
    BY <1>1, <1>6 DEF NextCommand, Aside, Grows
<1>7. CASE Sent(r) \/ Enter(r) \/ Return(r) \/ EndOfLoop(r)
    BY <1>1, <1>7 DEF Sent, Enter, Return, EndOfLoop, Aside, Grows
<1>8. ASSUME NEW m \in net, Test(r, m) PROVE Aside(r) /\ Grows
    BY <1>1, <1>8 DEF Test, Aside, Grows
<1>9. CASE Answer(r)
    BY <1>1, <1>9 DEF Answer, Aside, Grows
<1>10. CASE Proceed(r) /\ UNCHANGED <<iglbst, isterm>>
    BY <1>1, <1>10 DEF Proceed, Aside, Grows
<1>11. CASE Uexcep(r)
    BY <1>1, <1>11 DEF Uexcep, Asabrt, Aside, Grows, Move
<1>12. CASE Decide(r)
    BY <1>10, <1>11, <1>12 DEF Decide, Asabrt, Stop2, Move
<1>13. ASSUME NEW m \in net, Answered(r, m) PROVE Aside(r) /\ Grows
    BY <1>10, <1>11, <1>13 DEF Answered, Asabrt, Stop2, Move
<1>14. ~Timeout(r)
    BY DEF Timeout, Asabrt, Move
<1> QED BY <1>3, <1>4, <1>5, <1>6, <1>7, <1>8, <1>9, <1>12, <1>13, <1>14 DEF Move, Step

(* A rank in asmpi_status has its message sent, or receives the answer.    *)
LEMMA AskersMove ==
    ASSUME NEW r \in Ranks, Move(r), pc[r] \in Asks
    PROVE  Sent(r) \/ \E m \in net : Answered(r, m)
BY DEF Move, Step, Asks, AsmpiWarn, MayFail, Collective, NextCommand, Terminate, Test,
       EndOfLoop, Answer, Decide, Timeout, Asabrt, Enter, Return

(* A rank 0 that has heard all answers, then decides.                      *)
LEMMA LeadersMove ==
    ASSUME NEW r \in Ranks, Move(r), pc[r] = "answering"
    PROVE  Answer(r) \/ Decide(r)
BY DEF Move, Step, AsmpiWarn, MayFail, Collective, NextCommand, Terminate, Test,
       EndOfLoop, Answered, Sent, Timeout, Enter, Return

(* A rank takes away no answer but its own.                                *)
LEMMA AnswersStay ==
    ASSUME NEW r \in Ranks, Move(r), NEW m \in net, m.tag = "CNT", m.rank # r
    PROVE  m \in net'
<1>1. ASSUME NEW c, NEW s, NEW reason, Handshake(r, c, s, reason) PROVE net \subseteq net'
    BY <1>1 DEF Handshake
<1>2. CASE Collective(r) \/ Terminate(r) \/ \E fatal \in BOOLEAN : AsmpiWarn(r, fatal)
    BY <1>1, <1>2 DEF Collective, Terminate, AsmpiWarn
<1>3. CASE NextCommand(r) \/ Sent(r) \/ Enter(r) \/ Return(r) \/ EndOfLoop(r) \/ Answer(r)
           \/ Decide(r) \/ Timeout(r)
    BY <1>3 DEF NextCommand, Sent, Enter, Return, EndOfLoop, Answer, Decide, Timeout
<1>4. ASSUME NEW n \in net, Test(r, n) \/ Answered(r, n) PROVE m \in net'
    BY <1>4 DEF Test, Answered
<1> QED BY <1>2, <1>3, <1>4 DEF Move, Step

(* Only Answer sends an answer.                                            *)
LEMMA NewAnswers ==
    ASSUME NEW r \in Ranks, Move(r), NEW m \in net', m \notin net, m.tag = "CNT"
    PROVE  /\ Answer(r) /\ pc[r] = "answering" /\ isterm[r] # {}
           /\ m = Cnt(comm[r], Min(isterm[r]), Istat(iglbst[r]))
<1>1. ASSUME NEW c, NEW s, NEW reason, Handshake(r, c, s, reason) PROVE FALSE
    BY <1>1 DEF Handshake, Chk
<1>2. CASE Collective(r) \/ Terminate(r) \/ \E fatal \in BOOLEAN : AsmpiWarn(r, fatal)
    BY <1>1, <1>2 DEF Collective, Terminate, AsmpiWarn
<1>3. CASE NextCommand(r) \/ Sent(r) \/ Enter(r) \/ Return(r) \/ EndOfLoop(r)
           \/ Decide(r) \/ Timeout(r)
    BY <1>3 DEF NextCommand, Sent, Enter, Return, EndOfLoop, Decide, Timeout
<1>4. ASSUME NEW n \in net, Test(r, n) \/ Answered(r, n) PROVE FALSE
    BY <1>4 DEF Test, Answered
<1>5. CASE Answer(r)
    BY <1>5 DEF Answer
<1> QED BY <1>2, <1>3, <1>4, <1>5 DEF Move, Step

(* The end of a handshake on the ranks that are answered, and on rank 0.   *)
LEMMA Endings ==
    ASSUME TypeOK, NEW r \in Ranks, Move(r)
    PROVE  /\ \A m \in net : Answered(r, m) =>
                 IF m.stat = "OK" /\ why[r] # "error" THEN Proceed(r) ELSE Uexcep(r)
           /\ Decide(r) => isterm[r] = {} /\ IF iglbst[r] = {} THEN Proceed(r) ELSE Uexcep(r)
           /\ Proceed(r) => pos[r] \in passed'[r]
           /\ Uexcep(r) => why[r] # "exit" /\ r \in excepted'
<1>1. Proceed(r) => pos[r] \in passed'[r]
  <2>1. passed = [q \in Ranks |-> passed[q]]
      BY DEF TypeOK
  <2>2. Proceed(r) => passed' = [passed EXCEPT ![r] = passed[r] \cup {pos[r]}]
      BY DEF Proceed
  <2> QED BY <2>1, <2>2
<1>2. Uexcep(r) => why[r] # "exit" /\ r \in excepted'
    BY DEF Uexcep, Asabrt, Move
<1>3. ASSUME NEW m \in net, Answered(r, m)
      PROVE  IF m.stat = "OK" /\ why[r] # "error" THEN Proceed(r) ELSE Uexcep(r)
    BY <1>3 DEF Answered, Asabrt, Stop2, Move
<1>4. Decide(r) => isterm[r] = {} /\ IF iglbst[r] = {} THEN Proceed(r) ELSE Uexcep(r)
    BY DEF Decide, Asabrt, Stop2, Move
<1> QED BY <1>1, <1>2, <1>3, <1>4

(* Rank 0 answers the first of the ranks it has heard.                     *)
LEMMA Answers ==
    ASSUME PInv, aborted = "", NEW h \in Ranks, Answer(h)
    PROVE  \E i \in isterm[h] :
              /\ i \in Ranks /\ i # h /\ Heeded(h, i) /\ i = Min(isterm[h])
              /\ isterm'[h] = isterm[h] \ {i}
              /\ net' = net \cup {Cnt(comm[h], i, Istat(iglbst[h]))}
              /\ UNCHANGED <<pc, pos, comm, iglbst, why, passed, excepted>>
<1> DEFINE i == Min(isterm[h])
<1>1. i \in isterm[h] /\ i \in Ranks
    BY FirstOf DEF Answer, PInv, TypeOK
<1>2. Heeded(h, i) /\ i # h
    BY <1>1 DEF PInv, Protocol, Heeded, Asks, Leads
<1>3. isterm'[h] = isterm[h] \ {i}
    BY DEF Answer, PInv, TypeOK
<1>4. /\ net' = net \cup {Cnt(comm[h], i, Istat(iglbst[h]))}
      /\ UNCHANGED <<pc, pos, comm, iglbst, why, passed, excepted>>
    BY DEF Answer
<1> HIDE DEF i
<1> QED BY <1>1, <1>2, <1>3, <1>4 DEF i

(* A rank that rank 0 has heard only waits, unless it is rank 0's turn.    *)
LEMMA HeardWaits ==
    ASSUME PInv, NEW r \in Ranks, Move(r), NEW h \in Ranks, NEW q \in isterm[h], r # h
    PROVE  /\ q \in Ranks /\ pc[q] \in Asks /\ pc'[q] \in Asks
           /\ comm'[q] = comm[q] /\ why'[q] = why[q] /\ pos'[q] = pos[q]
           /\ pc'[h] = pc[h] /\ comm'[h] = comm[h] /\ iglbst'[h] = iglbst[h]
           /\ pos'[h] = pos[h] /\ isterm'[h] = isterm[h]
<1>1. TypeOK /\ Aside(r) /\ q \in Ranks
    BY Frame DEF PInv, TypeOK
<1>2. Heeded(h, q)
    BY DEF PInv, Protocol, Move
<1>3. CASE r = q
  <2>1. Sent(r)
      BY <1>2, <1>3, AskersMove DEF Heeded, Answered
  <2>2. pc'[q] = "waiting" /\ UNCHANGED <<pos, comm, iglbst, why, isterm>>
    <3>1. pc = [x \in Ranks |-> pc[x]]
        BY <1>1 DEF TypeOK
    <3> QED BY <1>1, <1>3, <2>1, <3>1 DEF Sent
  <2>3. pc'[h] = pc[h]
      BY <1>1 DEF Aside
  <2> QED BY <1>1, <1>2, <2>2, <2>3 DEF Heeded, Asks
<1>4. CASE r # q
    BY <1>1, <1>2, <1>4 DEF Aside, Heeded
<1> QED BY <1>3, <1>4

(* A rank that nothing can keep from a rendez-vous is not kept from it.    *)
LEMMA ComesKeeps ==
    ASSUME PInv, NEW r \in Ranks, Move(r), NEW q \in Ranks, NEW p, Comes(q, p)
    PROVE  Comes(q, p)'
<1>1. TypeOK /\ Aside(r) /\ Grows /\ Protocol
    BY Frame DEF PInv, Move
<1>2. CASE p \in passed[q]
    BY <1>1, <1>2 DEF Comes, Grows
<1>3. CASE /\ pos[q] = p /\ why[q] # "error"
           /\ pc[q] \in Asks /\ Cnt(comm[q], q, "OK") \in net
  <2> DEFINE m == Cnt(comm[q], q, "OK")
  <2>1. m.tag = "CNT" /\ m.rank = q /\ m.stat = "OK"
      BY DEF Cnt
  <2>2. CASE r # q
      BY <1>1, <1>3, <2>1, <2>2, AnswersStay DEF Aside, Comes, Asks
  <2>3. CASE r = q /\ Sent(r)
      BY <1>1, <1>3, <2>3 DEF Sent, TypeOK, Comes, Asks
  <2>4. ASSUME r = q, NEW n \in net, Answered(r, n) PROVE Comes(q, p)'
    <3>1. n = m
        BY <1>1, <1>3, <2>1, <2>4 DEF Protocol, Current, Answered
    <3> QED BY <1>1, <1>3, <2>1, <2>4, <3>1, Endings DEF Comes
  <2> QED BY <1>3, <2>2, <2>3, <2>4, AskersMove
<1>4. ASSUME pos[q] = p, why[q] # "error",
             NEW h, h = Head(comm[q]),
             pc[h] = "answering", iglbst[h] = {}, comm[h] = comm[q], q \in isterm[h] \cup {h}
      PROVE  Comes(q, p)'
  <2>0. h \in Ranks
    <3>1. comm[q] \subseteq Ranks /\ comm[q] # {}
        BY <1>1 DEF TypeOK
    <3> QED BY <1>4, <3>1, FirstOf DEF Head
  <2>1. CASE r # h /\ q # h
    <3>1. q \in isterm[h]
        BY <1>4, <2>1
    <3> QED BY <1>4, <2>0, <2>1, <3>1, HeardWaits DEF Comes
  <2>2. CASE r # h /\ q = h
      BY <1>1, <1>4, <2>0, <2>2 DEF Aside, Comes
  <2>3. CASE r = h /\ Answer(r)
    <3>1. PICK i \in isterm[h] :
              /\ i # h /\ Heeded(h, i)
              /\ isterm'[h] = isterm[h] \ {i}
              /\ net' = net \cup {Cnt(comm[h], i, Istat(iglbst[h]))}
              /\ UNCHANGED <<pc, pos, comm, iglbst, why, passed, excepted>>
        BY <2>0, <2>3, Answers DEF Move
    <3>2. CASE q = i
        BY <1>4, <3>1, <3>2 DEF Comes, Heeded, Asks, Istat
    <3>3. CASE q # i
        BY <1>4, <3>1, <3>3 DEF Comes
    <3> QED BY <3>2, <3>3
  <2>4. CASE r = h /\ Decide(r)
      BY <1>1, <1>4, <2>4, Endings DEF Comes
  <2> QED BY <1>4, <2>1, <2>2, <2>3, <2>4, LeadersMove
<1> QED BY <1>2, <1>3, <1>4 DEF Comes, Asks

-----------------------------------------------------------------------------
(* Errors: EInv is inductive.                                              *)

(* Rank 0 of the world.                                                    *)
LEMMA Rank0 == Head(World) \in Ranks
BY Communicators, FirstOf DEF Head

(* A rank that nothing can keep from the exception is not kept from it.    *)
LEMMA ToldKeeps ==
    ASSUME PInv, NEW r \in Ranks, Move(r), NEW q \in Ranks, Told(q)
    PROVE  Told(q)'
<1>1. TypeOK /\ Aside(r) /\ Grows /\ Protocol
    BY Frame DEF PInv, Move
<1>2. CASE q \in excepted
    BY <1>1, <1>2 DEF Told, Grows
<1>3. CASE q = Head(World) /\ pc[q] = "answering" /\ comm[q] = World /\ iglbst[q] # {}
  <2>1. CASE r # q
      BY <1>1, <1>3, <2>1 DEF Aside, Told
  <2>2. CASE r = q /\ Answer(r)
      BY <1>3, <2>2 DEF Answer, Told
  <2>3. CASE r = q /\ Decide(r)
      BY <1>1, <1>3, <2>3, Endings DEF Told
  <2> QED BY <1>3, <2>1, <2>2, <2>3, LeadersMove
<1>4. CASE pc[q] \in Asks /\ comm[q] = World /\ Cnt(World, q, "ER") \in net
  <2> DEFINE m == Cnt(World, q, "ER")
  <2>1. m.tag = "CNT" /\ m.rank = q /\ m.stat = "ER"
      BY DEF Cnt
  <2>2. CASE r # q
      BY <1>1, <1>4, <2>1, <2>2, AnswersStay DEF Aside, Told
  <2>3. CASE r = q /\ Sent(r)
      BY <1>1, <1>4, <2>3 DEF Sent, TypeOK, Told, Asks
  <2>4. ASSUME r = q, NEW n \in net, Answered(r, n) PROVE Told(q)'
    <3>1. n = m
        BY <1>1, <1>4, <2>1, <2>4 DEF Protocol, Current, Answered
    <3> QED BY <1>1, <1>4, <2>1, <2>4, <3>1, Endings DEF Told
  <2> QED BY <1>4, <2>2, <2>3, <2>4, AskersMove
<1>5. ASSUME pc[q] \in Asks, comm[q] = World, NEW h, h = Head(World),
             pc[h] = "answering", comm[h] = World, iglbst[h] # {}, q \in isterm[h]
      PROVE  Told(q)'
  <2>0. h \in Ranks
      BY <1>5, Rank0
  <2>1. CASE r # h
      BY <1>5, <2>0, <2>1, HeardWaits DEF Told
  <2>2. CASE r = h /\ Answer(r)
    <3>1. PICK i \in isterm[h] :
              /\ isterm'[h] = isterm[h] \ {i}
              /\ net' = net \cup {Cnt(comm[h], i, Istat(iglbst[h]))}
              /\ UNCHANGED <<pc, pos, comm, iglbst, why, passed, excepted>>
        BY <2>0, <2>2, Answers DEF Move
    <3>2. CASE q = i
        BY <1>5, <3>1, <3>2 DEF Told, Istat
    <3>3. CASE q # i
        BY <1>5, <3>1, <3>3 DEF Told
    <3> QED BY <3>2, <3>3
  <2>3. CASE r = h /\ Decide(r)
      BY <1>1, <1>5, <2>3, Endings
  <2> QED BY <1>5, <2>1, <2>2, <2>3, LeadersMove
<1> QED BY <1>2, <1>3, <1>4, <1>5 DEF Told

(* A rank 0 that has missed a rank answers, then aborts.                   *)
LEMMA DoomedKeeps ==
    ASSUME PInv, NEW r \in Ranks, Move(r), Doomed
    PROVE  Doomed'
<1>1. PICK d \in Ranks : pc[d] = "answering" /\ "UN_OTH" \in iglbst[d]
    BY DEF Doomed
<1>2. CASE r # d
  <2>1. Aside(r)
      BY Frame DEF PInv
  <2> QED BY <1>1, <1>2, <2>1 DEF Aside, Doomed
<1>3. CASE r = d /\ Answer(r)
    BY <1>1, <1>3 DEF Answer, Doomed
<1>4. CASE r = d /\ Decide(r)
    BY <1>1, <1>4 DEF Decide, Asabrt, Move
<1> QED BY <1>1, <1>2, <1>3, <1>4, LeadersMove

(* Who begins to answer has just left the loop.                            *)
LEMMA NewAnswering ==
    ASSUME PInv, NEW r \in Ranks, Move(r), NEW h \in Ranks, pc'[h] = "answering",
           pc[h] # "answering" \/ iglbst'[h] # iglbst[h]
    PROVE  h = r /\ EndOfLoop(r)
<1>1. TypeOK /\ Aside(r)
    BY Frame DEF PInv
<1>2. h = r
    BY <1>1 DEF Aside
<1>3. pc = [q \in Ranks |-> pc[q]] /\ iglbst = [q \in Ranks |-> iglbst[q]]
    BY <1>1 DEF TypeOK
<1>4. ASSUME NEW c, NEW s, NEW reason, Handshake(r, c, s, reason) PROVE FALSE
    BY <1>2, <1>3, <1>4 DEF Handshake
<1>5. ~Terminate(r) /\ \A fatal \in BOOLEAN : ~AsmpiWarn(r, fatal)
    BY <1>4 DEF Terminate, AsmpiWarn
<1>6. ~Collective(r)
    BY <1>2, <1>4 DEF Collective
<1>7. ~NextCommand(r) /\ ~Sent(r) /\ ~Enter(r) /\ ~Return(r) /\ ~Timeout(r)
    BY <1>2, <1>3 DEF NextCommand, Sent, Enter, Return, Timeout, Asabrt, Move
<1>8. ~Proceed(r) /\ ~Uexcep(r)
    BY <1>2, <1>3 DEF Proceed, Uexcep, Asabrt, Move
<1>9. ~Decide(r) /\ \A m \in net : ~Answered(r, m)
    BY <1>1, <1>8, Endings
<1>10. ~Answer(r) /\ \A m \in net : ~Test(r, m)
    BY <1>2 DEF Answer, Test
<1> QED BY <1>2, <1>5, <1>6, <1>7, <1>9, <1>10 DEF Move, Step

(* Who takes the exception was in trouble.                                 *)
LEMMA NewExcepted ==
    ASSUME PInv, NEW r \in Ranks, Move(r), ~Trouble
    PROVE  UNCHANGED excepted
<1>1. TypeOK /\ Protocol
    BY DEF PInv, Move
<1>2. Proceed(r) => UNCHANGED excepted
    BY DEF Proceed
<1>3. CASE Decide(r)
  <2>1. iglbst[r] = {}
      BY <1>3 DEF Decide, Trouble
  <2> QED BY <1>1, <1>2, <1>3, <2>1, Endings
<1>4. ASSUME NEW m \in net, Answered(r, m) PROVE UNCHANGED excepted
  <2>1. m.tag = "CNT" /\ m.stat # "ER" /\ m.stat \in {"OK", "ER"} /\ m.rank = r
      BY <1>1, <1>4, MessageType DEF Answered, Trouble
  <2>2. why[r] # "error"
      BY <1>1, <2>1 DEF Protocol, Current
  <2> QED BY <1>1, <1>2, <1>4, <2>1, <2>2, Endings
<1>5. ~Timeout(r)
    BY DEF Timeout, Asabrt, Move
<1>6. ASSUME NEW m \in net, Test(r, m) PROVE UNCHANGED excepted
    BY <1>6 DEF Test
<1> QED BY <1>3, <1>4, <1>5, <1>6 DEF Move, Step, Collective, NextCommand, Terminate, AsmpiWarn,
        EndOfLoop, Answer, Sent, Enter, Return

(* What EndOfLoop finds when it has missed nobody.                         *)
LEMMA AllHeard ==
    ASSUME PInv, PInv', NEW h \in Ranks, Move(h), EndOfLoop(h), "UN_OTH" \notin iglbst'[h]
    PROVE  /\ pc[h] = "checking" /\ pc'[h] = "answering" /\ iglbst'[h] = iglbst[h]
           /\ UNCHANGED <<pos, comm, why, isterm, net, passed, excepted>>
           /\ h = Head(comm[h])
           /\ iglbst[h] # {} => comm[h] = World
           /\ \A q \in comm[h] : q # h => q \in isterm[h] /\ Heeded(h, q) /\ Heeded(h, q)'
<1>1. TypeOK /\ Protocol /\ Protocol'
    BY DEF PInv, Move
<1>2. /\ pc[h] = "checking" /\ pc'[h] = "answering"
      /\ iglbst'[h] = iglbst[h] \cup (IF isterm[h] = Others(comm[h]) THEN {} ELSE {"UN_OTH"})
      /\ UNCHANGED <<pos, comm, why, isterm, net, passed, excepted>>
    BY <1>1 DEF EndOfLoop, TypeOK
<1>3. isterm[h] = Others(comm[h]) /\ iglbst'[h] = iglbst[h]
    BY <1>2
<1>4. h = Head(comm[h])
    BY <1>1, <1>2 DEF Protocol, Course, In, Leads
<1>5. iglbst[h] # {} => comm[h] = World
  <2>1. "UN_OTH" \notin iglbst[h]
      BY <1>3
  <2> QED BY <1>1, <1>2, <2>1 DEF Protocol, Course, Leads
<1>6. ASSUME NEW q \in comm[h], q # h
      PROVE  q \in isterm[h] /\ Heeded(h, q) /\ Heeded(h, q)'
  <2>1. q \in isterm[h] /\ q \in isterm'[h]
      BY <1>2, <1>3, <1>4, <1>6 DEF Others
  <2> QED BY <1>1, <2>1 DEF Protocol
<1> QED BY <1>2, <1>3, <1>4, <1>5, <1>6

(* The first trouble: rank 0 ends its loop with flags. Either it has missed *)
(* a rank, or it has heard all ranks of the world.                         *)
LEMMA FirstTrouble ==
    ASSUME PInv, PInv', NEW r \in Ranks, Move(r), ~Trouble, Trouble'
    PROVE  Doomed' \/ \A q \in Ranks : Told(q)'
<1>1. TypeOK /\ UNCHANGED excepted
    BY NewExcepted DEF PInv
<1>2. ASSUME NEW m \in net', m.tag = "CNT", m.stat = "ER" PROVE FALSE
  <2>1. m \notin net
      BY <1>2 DEF Trouble
  <2>2. pc[r] = "answering" /\ m = Cnt(comm[r], Min(isterm[r]), Istat(iglbst[r]))
      BY <1>2, <2>1, NewAnswers
  <2>3. iglbst[r] # {}
      BY <1>2, <2>2 DEF Cnt, Istat
  <2> QED BY <2>2, <2>3 DEF Trouble
<1>3. PICK h \in Ranks : pc'[h] = "answering" /\ iglbst'[h] # {}
    BY <1>1, <1>2 DEF Trouble
<1>4. h = r /\ EndOfLoop(h)
  <2>1. pc[h] # "answering" \/ iglbst'[h] # iglbst[h]
      BY <1>3 DEF Trouble
  <2> QED BY <1>3, <2>1, NewAnswering
<1>5. CASE "UN_OTH" \in iglbst'[h]
    BY <1>3, <1>5 DEF Doomed
<1>6. CASE "UN_OTH" \notin iglbst'[h]
  <2>1. /\ iglbst'[h] = iglbst[h] /\ comm' = comm /\ h = Head(comm[h]) /\ comm[h] = World
        /\ \A q \in World : q # h => q \in isterm'[h] /\ Heeded(h, q)'
      BY <1>3, <1>4, <1>6, AllHeard
  <2>2. ASSUME NEW q \in Ranks PROVE Told(q)'
    <3>1. CASE q = h
        BY <1>3, <2>1, <3>1 DEF Told
    <3>2. CASE q # h
        BY <1>3, <2>1, <3>2 DEF Told, Heeded, World
    <3> QED BY <3>1, <3>2
  <2> QED BY <2>2
<1> QED BY <1>5, <1>6

(* A step of Next aborts, or is one of those that Move names.              *)
LEMMA NextMoves ==
    ASSUME Next, aborted' = ""
    PROVE  \E r \in Ranks : Move(r)
BY DEF Next, Move

LEMMA StepErrors == EInv /\ [Next]_vars => EInv'
<1> SUFFICES ASSUME EInv, [Next]_vars, aborted' = "", Trouble'
             PROVE  Doomed' \/ \A q \in Ranks : Told(q)'
    BY StepProtocol DEF EInv, AllTold
<1>1. PInv /\ PInv'
    BY StepProtocol DEF EInv
<1>2. CASE UNCHANGED vars
    BY <1>2 DEF EInv, AllTold, Trouble, Doomed, Told, vars
<1>3. CASE Next
  <2>1. PICK r \in Ranks : Move(r)
      BY <1>3, NextMoves
  <2>2. CASE ~Trouble
      BY <1>1, <2>1, <2>2, FirstTrouble
  <2>3. CASE Trouble /\ Doomed
      BY <1>1, <2>1, <2>3, DoomedKeeps
  <2>4. CASE \A q \in Ranks : Told(q)
      BY <1>1, <2>1, <2>4, ToldKeeps
  <2> QED BY <2>1, <2>2, <2>3, <2>4 DEF EInv, AllTold, Move
<1> QED BY <1>2, <1>3

LEMMA InitErrors == Init => EInv
<1> SUFFICES ASSUME Init PROVE AllTold
    BY InitProtocol DEF EInv
<1>1. ~Trouble
    BY DEF Init, Trouble
<1> QED BY <1>1 DEF AllTold

-----------------------------------------------------------------------------
(* The rendez-vous, when exceptions are not caught: IInv is inductive.     *)

(* The places of the program are in order, and its end is behind them.     *)
LEMMA Order ==
    /\ Places \subseteq (1..Exit) \X (0..Colls) /\ TheEnd \in (1..Exit) \X (0..Colls)
    /\ TheEnd \notin Places
    /\ \A p \in (1..Exit) \X (0..Colls) :
          /\ ~Before(p, p)
          /\ \A q \in (1..Exit) \X (0..Colls) : p = q \/ Before(p, q) \/ Before(q, p)
    /\ \A p \in Places \cup {TheEnd} : ~Before(TheEnd, p)
<1>1. Exit \in Nat /\ Colls \in Nat /\ Exit = Cmds + 1 /\ Cmds \in Nat
    BY MpiAssumption, Bounds DEF Exit
<1>2. Places \subseteq (1..Exit) \X (0..Colls)
    BY <1>1 DEF Places
<1>3. TheEnd \in (1..Exit) \X (0..Colls) /\ TheEnd[1] = Exit /\ TheEnd[2] = 0
    BY Bounds DEF TheEnd
<1>4. TheEnd \notin Places
    BY Communicators DEF TheEnd, Places
<1>5. ASSUME NEW p \in (1..Exit) \X (0..Colls), NEW q \in (1..Exit) \X (0..Colls)
      PROVE  p = q \/ Before(p, q) \/ Before(q, p)
  <2>1. /\ p = <<p[1], p[2]>> /\ q = <<q[1], q[2]>>
        /\ p[1] \in 1..Exit /\ q[1] \in 1..Exit /\ p[2] \in 0..Colls /\ q[2] \in 0..Colls
      BY Bounds
  <2>2. CASE p[1] = q[1] /\ p[2] = q[2]
      BY <2>1, <2>2
  <2>3. CASE p[1] # q[1]
    <3>1. p[1] < q[1] \/ q[1] < p[1]
        BY <1>1, <2>1, <2>3
    <3> QED BY <3>1 DEF Before
  <2>4. CASE p[1] = q[1] /\ p[2] # q[2]
    <3>1. p[2] < q[2] \/ q[2] < p[2]
        BY <1>1, <2>1, <2>4
    <3> QED BY <2>4, <3>1 DEF Before
  <2> QED BY <2>2, <2>3, <2>4
<1>6. ASSUME NEW p \in (1..Exit) \X (0..Colls) PROVE ~Before(p, p)
  <2>1. p[1] \in 1..Exit /\ p[2] \in 0..Colls
      BY Bounds
  <2> QED BY <1>1, <2>1 DEF Before
<1>7. ASSUME NEW p \in Places PROVE ~Before(TheEnd, p)
  <2>1. p[1] \in 1..Cmds
      BY DEF Places
  <2> QED BY <1>1, <1>3, <2>1 DEF Before
<1>8. ~Before(TheEnd, TheEnd)
    BY <1>3, <1>6
<1> QED BY <1>2, <1>3, <1>4, <1>5, <1>6, <1>7, <1>8

(* Of two ranks of a communicator that wait for each other, none is behind  *)
(* the other: the one ahead has passed the place of the other, so that the *)
(* other comes to it, or was told of an error, and so is the other.         *)
LEMMA NotAhead ==
    ASSUME IInv, aborted = "", NEW x \in Ranks, NEW y \in Ranks,
           In(x), In(y), why[x] # "error", why[y] # "error", comm[x] = comm[y],
           \A m \in net : m.rank # x, \A d \in comm[x] : pc[d] # "answering"
    PROVE  ~Before(pos[x], pos[y])
<1> DEFINE p == pos[x]
<1>1. SUFFICES ASSUME Before(p, pos[y]) PROVE FALSE
    OBVIOUS
<1>2. /\ TypeOK /\ Course(x) /\ Course(y) /\ History(x) /\ History(y) /\ Together /\ AllTold
      /\ y \in comm[y] /\ x \in comm[x] /\ comm[x] \subseteq Ranks
    BY DEF IInv, EInv, PInv, Protocol, TypeOK
<1>3. Head(comm[x]) \in comm[x]
    BY <1>2, FirstOf DEF Head
<1>4. ~Comes(x, p)
    BY <1>2, <1>3 DEF Comes, History, Cnt
<1>5. pos[y] \in Places \cup {TheEnd} /\ p \in Places \cup {TheEnd}
    BY <1>2 DEF Course, TypeOK
<1>6. p \in Places /\ x # y
    BY <1>1, <1>5, Order
<1>7. CommOf(x, p) = comm[x] /\ CommOf(y, p) = comm[x] /\ CommOf(y, p) # {y}
  <2>1. CommOf(x, p) = comm[x]
      BY <1>2 DEF Course
  <2>2. y \in CommOf(x, p)
      BY <1>2, <2>1
  <2>3. CommOf(y, p) = CommOf(x, p)
      BY <2>2, Communicators
  <2>4. x \in CommOf(y, p) /\ x \notin {y}
      BY <1>2, <1>6, <2>1, <2>3
  <2> QED BY <2>1, <2>3, <2>4
<1>8. CASE y \notin excepted
  <2>1. p \in passed[y]
      BY <1>1, <1>2, <1>6, <1>7, <1>8 DEF History
  <2> QED BY <1>2, <1>4, <1>7, <2>1 DEF Together
<1>9. CASE y \in excepted
  <2>1. pos[y] = TheEnd /\ comm[x] = World
      BY <1>2, <1>9, Communicators DEF History, Course
  <2>2. ~Doomed
      BY <2>1 DEF Doomed, World
  <2>3. Told(x)
      BY <1>2, <1>9, <2>2 DEF AllTold, Trouble
  <2>4. x \notin excepted
      BY <1>2, <1>6, Order DEF History
  <2> QED BY <1>2, <1>3, <2>1, <2>3, <2>4 DEF Told, Cnt
<1> QED BY <1>8, <1>9

(* Rank 0 ends its loop without flags: all have come to its rendez-vous.   *)
LEMMA Meeting ==
    ASSUME IInv, PInv', NEW h \in Ranks, Move(h), EndOfLoop(h), iglbst'[h] = {}
    PROVE  \A q \in comm[h] : pos[q] = pos[h] /\ Comes(q, pos[h])'
<1>1. /\ aborted = "" /\ PInv /\ TypeOK /\ Protocol /\ h \in comm[h] /\ comm[h] \subseteq Ranks
    BY DEF IInv, EInv, PInv, Move, TypeOK
<1>2. /\ pc[h] = "checking" /\ pc'[h] = "answering" /\ iglbst'[h] = iglbst[h]
      /\ UNCHANGED <<pos, comm, why, isterm, net, passed, excepted>>
      /\ h = Head(comm[h])
      /\ \A q \in comm[h] : q # h => q \in isterm[h] /\ Heeded(h, q) /\ Heeded(h, q)'
    BY <1>1, AllHeard
<1>3. why[h] # "error" /\ In(h)
    BY <1>1, <1>2 DEF Protocol, Course, In, Leads
<1>4. \A m \in net : m.rank # h
    BY <1>1, <1>2, LeadIsFree DEF Leads
<1>5. \A d \in comm[h] : pc[d] # "answering"
    BY <1>2 DEF Heeded, Asks
<1>6. ASSUME NEW q \in comm[h], q # h
      PROVE  pos[q] = pos[h] /\ Comes(q, pos[h])'
  <2>1. /\ q \in Ranks /\ pc[q] \in Asks /\ comm[q] = comm[h] /\ In(q) /\ why[q] # "error"
        /\ \A m \in net : m.rank # q
      BY <1>1, <1>2, <1>6 DEF Heeded, In
  <2>2. ~Before(pos[q], pos[h])
      BY <1>1, <1>3, <1>5, <2>1, NotAhead
  <2>3. ~Before(pos[h], pos[q])
      BY <1>1, <1>3, <1>4, <1>5, <2>1, NotAhead
  <2>4. pos[q] \in (1..Exit) \X (0..Colls) /\ pos[h] \in (1..Exit) \X (0..Colls)
      BY <1>1, <2>1 DEF TypeOK
  <2>5. pos[q] = pos[h]
      BY <2>2, <2>3, <2>4, Order
  <2> QED BY <1>2, <1>6, <2>1, <2>5 DEF Comes
<1>7. Comes(h, pos[h])'
    BY <1>2, <1>3 DEF Comes
<1> QED BY <1>6, <1>7

(* Together, part by part.                                                 *)
LEMMA PassedTogether ==
    ASSUME IInv, PInv', NEW r \in Ranks, Move(r), NEW s \in Ranks, NEW p \in passed'[s],
           NEW q \in CommOf(s, p)
    PROVE  Comes(q, p)'
<1>1. /\ aborted = "" /\ PInv /\ TypeOK /\ Protocol /\ Together /\ Aside(r) /\ q \in Ranks
    BY Frame, Communicators DEF IInv, EInv, PInv, Move
<1>2. SUFFICES Comes(q, p)
    BY <1>1, ComesKeeps
<1>3. CASE p \in passed[s]
    BY <1>1, <1>3 DEF Together
<1>4. CASE p \notin passed[s]
  <2>1. s = r
      BY <1>1, <1>4 DEF Aside
  <2>2. Proceed(r) => p = pos[r]
    <3>1. passed = [x \in Ranks |-> passed[x]]
        BY <1>1 DEF TypeOK
    <3>2. Proceed(r) => passed' = [passed EXCEPT ![r] = passed[r] \cup {pos[r]}]
        BY DEF Proceed
    <3> QED BY <1>4, <2>1, <3>1, <3>2
  <2>3. ~Uexcep(r)
      BY <1>4, <2>1 DEF Uexcep, Asabrt
  <2>4. CASE Decide(r)
    <3>1. iglbst[r] = {} /\ p = pos[r] /\ pc[r] = "answering"
        BY <1>1, <2>2, <2>3, <2>4, Endings DEF Decide
    <3>2. comm[r] = CommOf(r, pos[r])
        BY <1>1, <3>1 DEF Protocol, Course, In, Leads
    <3> QED BY <1>1, <2>1, <3>1, <3>2 DEF Together
  <2>5. ASSUME NEW m \in net, Answered(r, m) PROVE Comes(q, p)
    <3>1. /\ m.tag = "CNT" /\ m.rank = r /\ m.comm = comm[r] /\ pc[r] = "waiting"
          /\ m.stat = "OK" /\ why[r] # "error" /\ p = pos[r]
        BY <1>1, <2>2, <2>3, <2>5, Endings DEF Answered
    <3>2. comm[r] = CommOf(r, pos[r])
        BY <1>1, <3>1 DEF Protocol, Course, In, Asks
    <3> QED BY <1>1, <2>1, <3>1, <3>2, ZenonT(60) DEF Together
  <2>6. ASSUME NEW m \in net, Test(r, m) PROVE FALSE
      BY <1>4, <2>1, <2>6 DEF Test
  <2> QED BY <1>4, <2>1, <2>4, <2>5, <2>6 DEF Move, Step, Collective, NextCommand, Terminate,
             AsmpiWarn, EndOfLoop, Answer, Sent, Timeout, Asabrt, Enter, Return
<1> QED BY <1>3, <1>4

LEMMA AnsweringTogether ==
    ASSUME IInv, PInv', NEW r \in Ranks, Move(r), NEW h \in Ranks,
           pc'[h] = "answering", iglbst'[h] = {}, NEW q \in comm'[h]
    PROVE  Comes(q, pos[h])' /\ (q \in isterm'[h] => pos'[q] = pos'[h])
<1>1. /\ aborted = "" /\ PInv /\ TypeOK /\ TypeOK' /\ Protocol /\ Together /\ Aside(r) /\ q \in Ranks
    BY Frame DEF IInv, EInv, PInv, Move, TypeOK
<1>2. CASE pc[h] # "answering" \/ iglbst[h] # {}
  <2>1. h = r /\ EndOfLoop(h)
      BY <1>1, <1>2, NewAnswering
  <2>2. UNCHANGED <<pos, comm>>
      BY <2>1 DEF EndOfLoop
  <2>3. iglbst'[h] = {} /\ q \in comm[h] /\ pos'[q] = pos[q] /\ pos'[h] = pos[h]
      BY <2>2
  <2> QED BY <2>1, <2>3, Meeting
<1>3. CASE pc[h] = "answering" /\ iglbst[h] = {}
  <2>1. /\ pos'[h] = pos[h] /\ comm'[h] = comm[h] /\ isterm'[h] \subseteq isterm[h]
        /\ r = h => pos' = pos
    <3>1. CASE r # h
        BY <1>1, <3>1 DEF Aside
    <3>2. CASE r = h /\ Answer(r)
        BY <1>1, <3>2, Answers
    <3>3. CASE r = h /\ Decide(r)
        BY <1>1, <1>3, <3>3, Endings, ZenonT(60) DEF Proceed, TypeOK
    <3> QED BY <1>3, <3>1, <3>2, <3>3, LeadersMove
  <2>2. Comes(q, pos[h]) /\ (q \in isterm[h] => pos[q] = pos[h])
      BY <1>1, <1>3, <2>1 DEF Together
  <2>3. q \in isterm[h] => pos'[q] = pos[q]
    <3>1. CASE r = h
        BY <2>1, <3>1
    <3>2. CASE r # h
        BY <1>1, <3>2, HeardWaits
    <3> QED BY <3>1, <3>2
  <2>4. PICK p : p = pos[h]
      OBVIOUS
  <2>5. Comes(q, p)'
      BY <1>1, <2>2, <2>4, ComesKeeps
  <2>6. Comes(q, pos[h])'
      BY <2>1, <2>4, <2>5 DEF Comes
  <2> QED BY <2>1, <2>2, <2>3, <2>6
<1> QED BY <1>2, <1>3

LEMMA AnswerTogether ==
    ASSUME IInv, PInv', NEW r \in Ranks, Move(r), NEW m \in net',
           m.tag = "CNT", m.stat = "OK", NEW q \in m.comm
    PROVE  Comes(q, pos[m.rank])'
<1>1. /\ aborted = "" /\ PInv /\ TypeOK /\ Protocol /\ Together /\ Aside(r)
    BY Frame DEF IInv, EInv, PInv, Move
<1>2. CASE m \notin net
  <2>1. Answer(r) /\ pc[r] = "answering" /\ m = Cnt(comm[r], Min(isterm[r]), Istat(iglbst[r]))
      BY <1>2, NewAnswers
  <2>2. PICK i \in isterm[r] : /\ i \in Ranks /\ Heeded(r, i) /\ i = Min(isterm[r])
                               /\ UNCHANGED pos
      BY <1>1, <2>1, Answers
  <2>3. m.rank = i /\ m.comm = comm[r] /\ iglbst[r] = {}
      BY <2>1, <2>2 DEF Cnt, Istat
  <2>4. i \in comm[r]
      BY <1>1, <2>2 DEF Heeded, TypeOK
  <2>5. pos[i] = pos[r] /\ Comes(q, pos[r]) /\ q \in Ranks
      BY <1>1, <2>1, <2>2, <2>3, <2>4 DEF Together, TypeOK
  <2>6. PICK p : p = pos[r]
      OBVIOUS
  <2>7. Comes(q, p)'
      BY <1>1, <2>5, <2>6, ComesKeeps
  <2>8. p = pos'[m.rank]
      BY <2>2, <2>3, <2>5, <2>6
  <2> QED BY <2>7, <2>8 DEF Comes
<1>3. CASE m \in net
  <2>1. m.rank \in Ranks /\ pc[m.rank] \in Asks /\ q \in Ranks
      BY <1>1, <1>3, MessageType DEF Protocol, Current
  <2>2. pos'[m.rank] = pos[m.rank]
    <3>1. CASE r # m.rank
        BY <1>1, <2>1, <3>1 DEF Aside
    <3>2. CASE r = m.rank /\ Sent(r)
        BY <3>2 DEF Sent
    <3>3. ASSUME r = m.rank, NEW n \in net, Answered(r, n) PROVE FALSE
      <4>1. n = m
          BY <1>1, <1>3, <3>3 DEF Answered, Protocol, Current
      <4> QED BY <3>3, <4>1 DEF Answered
    <3> QED BY <2>1, <3>1, <3>2, <3>3, AskersMove
  <2>3. Comes(q, pos[m.rank])
      BY <1>1, <1>3 DEF Together
  <2>4. PICK p : p = pos[m.rank]
      OBVIOUS
  <2>5. Comes(q, p)'
      BY <1>1, <2>1, <2>3, <2>4, ComesKeeps
  <2> QED BY <2>2, <2>4, <2>5 DEF Comes
<1> QED BY <1>2, <1>3

LEMMA TogetherKeeps ==
    ASSUME IInv, PInv', NEW r \in Ranks, Move(r)
    PROVE  Together'
<1>1. \A s \in Ranks : \A p \in passed'[s] : \A q \in CommOf(s, p) : Comes(q, p)'
    BY PassedTogether
<1>2. \A h \in Ranks : pc'[h] = "answering" /\ iglbst'[h] = {} =>
          \A q \in comm'[h] : Comes(q, pos[h])' /\ (q \in isterm'[h] => pos'[q] = pos'[h])
    BY AnsweringTogether
<1>3. \A m \in net' : m.tag = "CNT" /\ m.stat = "OK" =>
          \A q \in m.comm : Comes(q, pos[m.rank])'
    BY AnswerTogether
<1> QED BY <1>1, <1>2, <1>3 DEF Together

(* The place behind another one has all the others before it or behind it. *)
LEMMA Behind ==
    ASSUME NEW p \in (1..Exit) \X (0..Colls), p[1] < Exit, NEW n,
           \/ n = <<p[1], p[2] + 1>>
           \/ n = <<p[1] + 1, 0>> /\ p[2] = Colls
    PROVE  /\ Before(p, n)
           /\ \A q \in (1..Exit) \X (0..Colls) :
                 /\ Before(q, n) => Before(q, p) \/ q = p
                 /\ Before(n, q) => Before(p, q)
<1>1. /\ Exit \in Nat /\ Colls \in Nat /\ p[1] \in 1..Exit /\ p[2] \in 0..Colls
      /\ p = <<p[1], p[2]>>
    BY Bounds
<1>2. Before(p, n)
    BY <1>1 DEF Before
<1>3. ASSUME NEW q \in (1..Exit) \X (0..Colls)
      PROVE  /\ Before(q, n) => Before(q, p) \/ q = p
             /\ Before(n, q) => Before(p, q)
  <2>1. q[1] \in 1..Exit /\ q[2] \in 0..Colls /\ q = <<q[1], q[2]>>
      BY Bounds
  <2>2. Before(q, n) => Before(q, p) \/ (q[1] = p[1] /\ q[2] = p[2])
      BY <1>1, <2>1 DEF Before
  <2>3. q[1] = p[1] /\ q[2] = p[2] => q = p
      BY <1>1, <2>1
  <2>4. Before(n, q) => Before(p, q)
      BY <1>1, <2>1 DEF Before
  <2> QED BY <2>2, <2>3, <2>4
<1> QED BY <1>2, <1>3

(* The steps that leave a rank at its place.                               *)
LEMMA StayKeeps ==
    ASSUME NEW r \in Ranks, History(r), pc[r] # "ended" \/ pc'[r] = "ended",
           pos'[r] = pos[r], passed'[r] = passed[r], r \in excepted' <=> r \in excepted,
           pc'[r] \in {"passed", "coll", "ended"} => pc[r] \in {"passed", "coll", "ended"},
           In(r)' /\ why'[r] # "error" =>
              (In(r) /\ why[r] # "error") \/ (pc[r] = "run" /\ pos[r] = TheEnd),
           In(r) /\ why[r] # "error" => In(r)' /\ why'[r] # "error"
    PROVE  History(r)'
<1>1. TheEnd \in passed[r] => pc[r] = "ended"
    BY DEF History
<1>2. \A p \in passed'[r] : p \in Places \cup {TheEnd} /\ ~Before(pos'[r], p)
    BY DEF History
<1>3. In(r)' /\ why'[r] # "error" => pos'[r] \notin passed'[r]
    BY <1>1 DEF History
<1>4. r \in excepted' => pos'[r] = TheEnd
    BY DEF History
<1>5. r \notin excepted' =>
          \A p \in Places :
             /\ CommOf(r, p) # {r}
             /\ Before(p, pos'[r]) \/ (p = pos'[r] /\ (~In(r)' \/ why'[r] = "error"))
             => p \in passed'[r]
  <2>1. ~In(r)' \/ why'[r] = "error" => ~In(r) \/ why[r] = "error"
      OBVIOUS
  <2> QED BY <2>1 DEF History
<1>6. pc'[r] \in {"passed", "coll", "ended"} => pos'[r] \in passed'[r]
    BY DEF History
<1>7. TheEnd \in passed'[r] => pc'[r] = "ended"
    BY <1>1
<1> QED BY <1>2, <1>3, <1>4, <1>5, <1>6, <1>7 DEF History

(* A rank goes to the next place.                                          *)
LEMMA AdvanceKeeps ==
    ASSUME PInv, PInv', aborted = "", aborted' = "",
           NEW r \in Ranks, History(r), Collective(r) \/ NextCommand(r)
    PROVE  History(r)'
<1> DEFINE n == pos'[r]
           All == (1..Exit) \X (0..Colls)
<1>1. /\ pc[r] = "run" /\ pos[r][1] < Exit /\ pos[r] \in All /\ n \in All
      /\ UNCHANGED <<passed, excepted>> /\ pc'[r] \in {"run", "checking", "sending"}
      /\ passed[r] \subseteq All
  <2>1. pc = [q \in Ranks |-> pc[q]]
      BY DEF PInv, TypeOK
  <2>2. pc'[r] \in {"run", "checking", "sending"}
      BY <2>1 DEF Collective, NextCommand, Handshake
  <2>3. pos[r] \in All /\ n \in All /\ passed[r] \subseteq All
      BY DEF PInv, TypeOK
  <2> QED BY <2>2, <2>3 DEF Collective, NextCommand
<1>2. \/ n = <<pos[r][1], pos[r][2] + 1>>
      \/ n = <<pos[r][1] + 1, 0>> /\ pos[r][2] = Colls
  <2>1. pos = [q \in Ranks |-> pos[q]]
      BY DEF PInv, TypeOK
  <2> QED BY <2>1 DEF Collective, NextCommand
<1> HIDE DEF n
<1>3. /\ Before(pos[r], n)
      /\ \A q \in All : /\ Before(q, n) => Before(q, pos[r]) \/ q = pos[r]
                        /\ Before(n, q) => Before(pos[r], q)
    BY <1>1, <1>2, Behind
<1>4. \A p \in passed[r] : p \in Places \cup {TheEnd} /\ ~Before(n, p)
    BY <1>1, <1>3 DEF History
<1>5. TheEnd \notin passed[r] /\ ~In(r)
    BY <1>1 DEF History, In, Asks, Leads
<1>6. n \notin passed[r]
    BY <1>3 DEF History
<1>7. r \notin excepted
  <2>1. pos[r][1] # Exit
      BY <1>1, Earlier
  <2>2. r \in excepted => pos[r] = TheEnd
      BY DEF History
  <2>3. TheEnd[1] = Exit
      BY DEF TheEnd
  <2> QED BY <2>1, <2>2, <2>3
<1>8. ASSUME NEW p \in Places, CommOf(r, p) # {r},
             Before(p, n) \/ (p = n /\ (~In(r)' \/ why'[r] = "error"))
      PROVE  p \in passed[r]
  <2>1. CASE Before(p, n)
      BY <1>3, <1>5, <1>7, <1>8, <2>1, Order DEF History
  <2>2. CASE p = n /\ (~In(r)' \/ why'[r] = "error")
    <3>1. CASE NextCommand(r)
      <4>1. p[2] = 0
        <5>1. pos = [q \in Ranks |-> pos[q]]
            BY DEF PInv, TypeOK
        <5> QED BY <2>2, <3>1, <5>1 DEF NextCommand, n
      <4> QED BY <4>1, NotZero DEF Places
    <3>2. CASE Collective(r)
      <4>1. n = <<pos[r][1], pos[r][2] + 1>>
        <5>1. pos = [q \in Ranks |-> pos[q]]
            BY DEF PInv, TypeOK
        <5> QED BY <3>2, <5>1 DEF Collective, n
      <4>2. Handshake(r, CommOf(r, n), "OK", "coll")
          BY <1>8, <2>2, <3>2, <4>1 DEF Collective
      <4>3. pc'[r] \in {"checking", "sending"} /\ why'[r] = "coll"
        <5>1. pc = [q \in Ranks |-> pc[q]] /\ why = [q \in Ranks |-> why[q]]
            BY DEF PInv, TypeOK
        <5> QED BY <4>2, <5>1 DEF Handshake
      <4> QED BY <2>2, <4>3 DEF In, Asks, Leads
    <3> QED BY <3>1, <3>2
  <2> QED BY <1>8, <2>1, <2>2
<1> QED BY <1>1, <1>4, <1>5, <1>6, <1>7, <1>8 DEF History, n

(* A rank goes on from its rendez-vous.                                    *)
LEMMA PassKeeps ==
    ASSUME PInv, aborted = "", NEW r \in Ranks, History(r), In(r), why[r] # "error", Proceed(r)
    PROVE  History(r)'
<1>1. /\ pos' = pos /\ excepted' = excepted /\ passed'[r] = passed[r] \cup {pos[r]}
      /\ pc'[r] = IF why[r] = "exit" THEN "ended" ELSE "passed"
  <2>1. pc = [q \in Ranks |-> pc[q]] /\ passed = [q \in Ranks |-> passed[q]]
      BY DEF PInv, TypeOK
  <2> QED BY <2>1 DEF Proceed
<1>2. pos[r] \in Places \cup {TheEnd} /\ (pos[r] = TheEnd <=> why[r] = "exit")
  <2>1. Course(r) /\ why[r] \in {"coll", "error", "exit"}
      BY DEF PInv, TypeOK, Protocol
  <2> QED BY <2>1 DEF Course
<1>3. ~Before(pos[r], pos[r])
    BY Order DEF PInv, TypeOK
<1>4. TheEnd \notin passed[r]
    BY DEF History, In, Asks, Leads
<1>5. ~In(r)'
    BY <1>1 DEF In, Asks, Leads
<1>6. \A p \in passed'[r] : p \in Places \cup {TheEnd} /\ ~Before(pos'[r], p)
    BY <1>1, <1>2, <1>3 DEF History
<1>7. r \notin excepted' =>
          \A p \in Places :
             /\ CommOf(r, p) # {r}
             /\ Before(p, pos'[r]) \/ (p = pos'[r] /\ (~In(r)' \/ why'[r] = "error"))
             => p \in passed'[r]
    BY <1>1 DEF History
<1>8. TheEnd \in passed'[r] => pc'[r] = "ended"
    BY <1>1, <1>2, <1>4
<1>9. r \in excepted' => pos'[r] = TheEnd
    BY <1>1 DEF History
<1> QED BY <1>1, <1>5, <1>6, <1>7, <1>8, <1>9 DEF History

(* An exception takes a rank to the end of the script.                     *)
LEMMA ThrowKeeps ==
    ASSUME ~Catches, PInv, aborted' = "", NEW r \in Ranks, History(r), In(r), Uexcep(r)
    PROVE  History(r)'
<1>1. /\ pc'[r] = "run" /\ pos'[r] = TheEnd /\ passed' = passed /\ r \in excepted'
  <2>1. pc = [q \in Ranks |-> pc[q]] /\ pos = [q \in Ranks |-> pos[q]]
      BY DEF PInv, TypeOK
  <2>2. /\ pc' = [pc EXCEPT ![r] = "run"] /\ pos' = [pos EXCEPT ![r] = <<Exit, 0>>]
        /\ passed' = passed /\ r \in excepted'
      BY DEF Uexcep, Asabrt
  <2> QED BY <2>1, <2>2 DEF TheEnd
<1>2. TheEnd \notin passed[r]
    BY DEF History, In, Asks, Leads
<1>3. \A p \in passed[r] : p \in Places \cup {TheEnd} /\ ~Before(TheEnd, p)
    BY Order DEF History
<1>4. ~In(r)'
    BY <1>1 DEF In, Asks, Leads
<1> QED BY <1>1, <1>2, <1>3, <1>4 DEF History

LEMMA HistoryKeeps ==
    ASSUME ~Catches, IInv, PInv', NEW r \in Ranks, Move(r), NEW s \in Ranks
    PROVE  History(s)'
<1>1. /\ aborted = "" /\ aborted' = "" /\ PInv /\ TypeOK /\ Protocol /\ Aside(r)
      /\ History(s) /\ Course(s) /\ Course(r) /\ History(r)
    BY Frame DEF IInv, EInv, PInv, Protocol, Move
<1>2. /\ pc = [q \in Ranks |-> pc[q]] /\ pos = [q \in Ranks |-> pos[q]]
      /\ why = [q \in Ranks |-> why[q]]
    BY <1>1 DEF TypeOK
<1>3. excepted' = excepted \/ (Uexcep(r) /\ excepted' = excepted \cup {r})
  <2>1. Uexcep(r) => excepted' = excepted \cup {r}
      BY DEF Uexcep, Asabrt, Move
  <2>2. Proceed(r) => excepted' = excepted
      BY DEF Proceed
  <2>3. CASE Decide(r) \/ \E m \in net : Answered(r, m)
      BY <1>1, <2>1, <2>2, <2>3, Endings
  <2>4. CASE \E m \in net : Test(r, m)
      BY <2>4 DEF Test
  <2> QED BY <2>3, <2>4 DEF Move, Step, Collective, NextCommand, Terminate,
             AsmpiWarn, EndOfLoop, Answer, Sent, Timeout, Asabrt, Enter, Return
<1>4. CASE s # r
  <2>1. /\ pc'[s] = pc[s] /\ pos'[s] = pos[s] /\ why'[s] = why[s] /\ passed'[s] = passed[s]
        /\ s \in excepted' <=> s \in excepted
      BY <1>1, <1>3, <1>4 DEF Aside
  <2> QED BY <1>1, <2>1 DEF History, In
<1>5. CASE Collective(r) \/ NextCommand(r)
    BY <1>1, <1>4, <1>5, AdvanceKeeps
<1>6. CASE Proceed(r) /\ In(r) /\ why[r] # "error"
    BY <1>1, <1>4, <1>6, PassKeeps
<1>7. CASE Uexcep(r) /\ In(r)
    BY <1>1, <1>4, <1>7, ThrowKeeps
<1>8. CASE Decide(r)
  <2>1. In(r) /\ (iglbst[r] = {} => why[r] # "error")
      BY <1>1, <1>8 DEF Decide, In, Leads, Course
  <2> QED BY <1>1, <1>6, <1>7, <1>8, <2>1, Endings
<1>9. ASSUME NEW m \in net, Answered(r, m) PROVE History(s)'
  <2>1. In(r)
      BY <1>9 DEF Answered, In, Asks
  <2> QED BY <1>1, <1>6, <1>7, <1>9, <2>1, Endings
<1>10. CASE Enter(r) \/ Return(r)
  <2>1. /\ pc[r] \in {"passed", "coll"} /\ pc'[r] \in {"run", "coll"}
        /\ pc'[r] = "coll" => pc[r] = "passed"
        /\ UNCHANGED <<pos, passed, excepted, why>>
      BY <1>2, <1>10 DEF Enter, Return
  <2>2. ~In(r) /\ ~In(r)'
      BY <2>1 DEF In, Asks, Leads
  <2> QED BY <1>1, <1>4, <2>1, <2>2, StayKeeps
<1>11. CASE Sent(r) \/ EndOfLoop(r) \/ Answer(r) \/ \E m \in net : Test(r, m)
  <2>1. /\ pc[r] \in Asks \cup Leads /\ pc'[r] \in Asks \cup Leads
        /\ UNCHANGED <<pos, passed, excepted, why>>
      BY <1>2, <1>11 DEF Sent, EndOfLoop, Answer, Test, Asks, Leads
  <2>2. In(r) /\ In(r)' /\ pc[r] # "ended" /\ pc'[r] \notin {"passed", "coll", "ended"}
      BY <2>1 DEF In, Asks, Leads
  <2> QED BY <1>1, <1>4, <2>1, <2>2, StayKeeps
<1>12. ASSUME NEW c, NEW x, NEW reason, Handshake(r, c, x, reason)
       PROVE  In(r)' /\ why'[r] = reason
  <2>1. pc'[r] \in {"checking", "sending"} /\ why'[r] = reason
      BY <1>2, <1>12 DEF Handshake
  <2> QED BY <2>1 DEF In, Asks, Leads
<1>13. CASE Terminate(r)
  <2>1. /\ pc[r] = "run" /\ UNCHANGED <<pos, passed, excepted>>
        /\ In(r)' /\ why'[r] = "exit"
      BY <1>12, <1>13 DEF Terminate
  <2>2. pos[r] = TheEnd
    <3>1. pos[r] \in (1..Exit) \X (0..Colls)
        BY <1>1 DEF TypeOK
    <3>2. pos[r][1] = Exit /\ pos[r][2] = 0
        BY <1>1, <1>13 DEF Terminate, Course
    <3> QED BY <3>1, <3>2, Bounds DEF TheEnd
  <2>3. ~In(r) /\ pc'[r] \notin {"passed", "coll", "ended"}
      BY <2>1 DEF In, Asks, Leads
  <2> QED BY <1>1, <1>4, <2>1, <2>2, <2>3, StayKeeps
<1>14. ASSUME NEW fatal \in BOOLEAN, AsmpiWarn(r, fatal) PROVE History(s)'
  <2>1. /\ pc[r] \in {"run", "passed"} /\ UNCHANGED <<pos, passed, excepted>>
        /\ In(r)' /\ why'[r] = "error"
      BY <1>12, <1>14 DEF AsmpiWarn, MayFail
  <2>2. ~In(r) /\ pc[r] # "ended" /\ pc'[r] \notin {"passed", "coll", "ended"}
      BY <2>1 DEF In, Asks, Leads
  <2> QED BY <1>1, <1>4, <2>1, <2>2, StayKeeps
<1>15. ~Timeout(r)
    BY DEF Timeout, Asabrt, Move
<1> QED BY <1>5, <1>8, <1>9, <1>10, <1>11, <1>13, <1>14, <1>15 DEF Move, Step

LEMMA StepRendezvous == ~Catches /\ IInv /\ [Next]_vars => IInv'
<1> SUFFICES ASSUME ~Catches, IInv, [Next]_vars, aborted' = ""
             PROVE  (\A r \in Ranks : History(r)') /\ Together'
    BY StepErrors DEF IInv
<1>1. PInv /\ PInv'
    BY StepProtocol DEF IInv, EInv
<1>2. CASE UNCHANGED vars
  <2>1. \A q, p : Comes(q, p)' <=> Comes(q, p)
      BY <1>2 DEF Comes, vars
  <2>2. Together => Together'
    <3>1. UNCHANGED <<pc, pos, comm, iglbst, isterm, net, passed>>
        BY <1>2 DEF vars
    <3>3. \A q, h : Comes(q, pos[h])' <=> Comes(q, pos[h])
        BY <1>2 DEF Comes, vars
    <3> QED BY <2>1, <3>1, <3>3 DEF Together
  <2>3. \A r \in Ranks : History(r)' <=> History(r)
      BY <1>2, ZenonT(60) DEF History, In, vars
  <2> QED BY <1>2, <2>2, <2>3 DEF IInv, vars
<1>3. CASE Next
  <2>1. PICK r \in Ranks : Move(r)
      BY <1>3, NextMoves
  <2> QED BY <1>1, <2>1, HistoryKeeps, TogetherKeeps
<1> QED BY <1>2, <1>3

LEMMA InitRendezvous == Init => IInv
<1> SUFFICES ASSUME Init PROVE (\A r \in Ranks : History(r)) /\ Together
    BY InitErrors DEF IInv
<1>1. Together
    BY DEF Init, Together
<1>2. ASSUME NEW r \in Ranks PROVE History(r)
  <2>1. pc[r] = "run" /\ pos[r] = <<1, 0>> /\ passed[r] = {} /\ excepted = {}
      BY DEF Init
  <2>2. ASSUME NEW p \in Places PROVE ~Before(p, <<1, 0>>) /\ p # <<1, 0>>
    <3>1. p[1] \in 1..Cmds /\ p[2] \in 1..Colls
        BY DEF Places
    <3>2. Cmds \in Int /\ Colls \in Int
        BY MpiAssumption
    <3> QED BY <3>1, <3>2 DEF Before
  <2> QED BY <2>1, <2>2 DEF History, In, Asks, Leads
<1> QED BY <1>1, <1>2

-----------------------------------------------------------------------------
(* The theorems.                                                           *)

(* asmpi_check: unless exceptions are caught, a rank goes on to a blocking  *)
(* communication, or leaves MPI, only when all ranks of its communicator   *)
(* come to the same rendez-vous.                                           *)
THEOREM AllComeToTheRendezvous == ~Catches => (Spec => []Rendezvous)
<1> SUFFICES ASSUME ~Catches PROVE Spec => []Rendezvous
    OBVIOUS
<1>1. ASSUME IInv, aborted = "", NEW r \in Ranks, pc[r] \in {"passed", "coll", "ended"},
             NEW q \in comm[r]
      PROVE  Comes(q, pos[r])
  <2>1. pos[r] \in passed[r] /\ comm[r] = CommOf(r, pos[r]) /\ Together
      BY <1>1 DEF IInv, EInv, PInv, Protocol, Course, History
  <2> QED BY <1>1, <2>1 DEF Together
<1>2. IInv => Rendezvous
    BY <1>1 DEF Rendezvous
<1>3. IInv /\ [Next]_vars => IInv'
    BY StepRendezvous
<1> QED BY <1>2, <1>3, InitRendezvous, PTL DEF Spec

(* Where one rank ends, none has been told of an error unless all have.    *)
LEMMA EndIsTogether ==
    ASSUME IInv, aborted = "", NEW r \in Ranks, pc[r] = "ended",
           NEW x \in excepted, NEW y \in Ranks, y \notin excepted
    PROVE  FALSE
<1>1. TypeOK /\ Protocol /\ Together /\ AllTold /\ x \in Ranks
    BY DEF IInv, EInv, PInv, TypeOK
<1>2. \A q \in Ranks : Comes(q, TheEnd)
  <2>1. pos[r] = TheEnd /\ TheEnd \in passed[r] /\ CommOf(r, TheEnd) = World
      BY Communicators DEF IInv, EInv, PInv, Protocol, Course, History
  <2> QED BY <1>1, <2>1 DEF Together, World
<1>3. \A q \in Ranks : TheEnd \in passed[q] => pc[q] = "ended"
    BY DEF IInv, History
<1>4. ASSUME NEW d \in Ranks, pc[d] = "answering" PROVE iglbst[d] = {}
  <2>1. d = Head(comm[d])
      BY <1>1, <1>4 DEF Protocol, Course, In, Leads
  <2> QED BY <1>2, <1>3, <1>4, <2>1 DEF Comes
<1>5. Told(y)
    BY <1>1, <1>4 DEF AllTold, Trouble, Doomed
<1>6. Cnt(World, y, "ER") \in net /\ pc[y] \in Asks /\ comm[y] = World
    BY <1>4, <1>5, Rank0 DEF Told
<1>7. CASE Cnt(World, y, "OK") \in net
    BY <1>1, <1>6, <1>7 DEF Protocol, Current, Cnt
<1>8. CASE y \in isterm[Head(World)] \cup {Head(World)} /\ pc[Head(World)] = "answering"
  <2>1. y \in isterm[Head(World)]
      BY <1>6, <1>8 DEF Asks
  <2> QED BY <1>1, <1>6, <2>1, Rank0 DEF Protocol, Heeded, Cnt
<1> QED BY <1>2, <1>3, <1>6, <1>7, <1>8 DEF Comes, Asks

(* asmpi_stop: unless exceptions are caught, all ranks end the same way,   *)
(* none in error while another ends normally.                              *)
THEOREM AllEndTogether == ~Catches => (Spec => []EndTogether)
<1> SUFFICES ASSUME ~Catches PROVE Spec => []EndTogether
    OBVIOUS
<1>1. IInv => EndTogether
  <2> SUFFICES ASSUME IInv, aborted = "", NEW r \in Ranks, pc[r] = "ended", NEW q \in Ranks
               PROVE  r \in excepted <=> q \in excepted
      BY DEF EndTogether
  <2> QED BY EndIsTogether
<1>2. IInv /\ [Next]_vars => IInv'
    BY StepRendezvous
<1> QED BY <1>1, <1>2, InitRendezvous, PTL DEF Spec

(* asmpi_warn, asmpi_check: the error of which one rank has been told is    *)
(* told to all ranks, or a rank 0 has missed one and is about to abort;    *)
(* exceptions may be caught.                                               *)
THEOREM ErrorsAreToldToAll == Spec => [](aborted = "" => AllTold)
<1>1. EInv => (aborted = "" => AllTold)
    BY DEF EInv
<1> QED BY <1>1, InitErrors, StepErrors, PTL DEF Spec
=============================================================================
