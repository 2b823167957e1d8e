------------------------------ MODULE MpiCheck ------------------------------
(***************************************************************************)
(* Agreement of the MPI ranks on errors (bibfor/parallel, aster_mpi.c).    *)
(* Before a blocking collective, and before MPI_Finalize, each rank goes   *)
(* through asmpi_check: it sends ST_OK to rank 0 of its communicator,      *)
(* which answers "continue" or "stop". A rank on which utmess reports an   *)
(* error calls asmpi_warn: it leaves its communicator for the world and    *)
(* sends ST_ER instead. Whoever waits too long calls MPI_Abort.            *)
(*                                                                         *)
(* All ranks run the same program: Cmds commands of Colls collectives,     *)
(* some of them in sub-communicators; an error may come at any point of it.*)
(* A communicator is the set of its ranks. What MPI promises is external:  *)
(* messages from one rank to another arrive, in any time; a collective     *)
(* ends when all have called it; MPI_Abort ends every rank.                *)
(***************************************************************************)
EXTENDS Integers, FiniteSets, FiniteSetsExt

CONSTANTS N,            \* number of ranks
          Cmds, Colls,  \* commands, collectives in each
          InSub,        \* the collectives <<c, k>> made in a sub-communicator
          Sub,          \* Sub[r]: sub-communicator of rank r
          Large,        \* the collectives on more than tpetit values
          AbortModes,   \* may an <F> error abort?
          Catches,      \* the user's script catches exceptions
          OutOfTime     \* ranks with a negative remaining time (uttrst)

Ranks == 0 .. N - 1
World == Ranks

ASSUME MpiAssumption ==
    /\ N \in Nat \ {0, 1} /\ Cmds \in Nat \ {0} /\ Colls \in Nat \ {0}
    /\ InSub \subseteq (1..Cmds) \X (1..Colls) /\ Large \subseteq (1..Cmds) \X (1..Colls)
    /\ Sub \in [Ranks -> SUBSET Ranks]
    /\ \A r \in Ranks : r \in Sub[r] /\ \A q \in Sub[r] : Sub[q] = Sub[r]
    /\ AbortModes \subseteq BOOLEAN /\ Catches \in BOOLEAN /\ OutOfTime \subseteq Ranks

VARIABLES pc,           \* where each rank is
          pos,          \* <<command, collectives begun in it>>
          comm,         \* current communicator (aster_mpi_current)
          iglbst,       \* status flags of each rank (ststat, gtstat)
          why,          \* why it is in asmpi_check: "coll", "error", "exit"
          isterm,       \* asmpi_check on rank 0: ranks heard, not answered yet
          net,          \* messages ST_TAG_CHK and ST_TAG_CNT not received yet
          passed,       \* rendez-vous that a rank has found to be good
          entered,      \* collectives whose MPI call a rank has reached
          excepted,     \* ranks on which an exception was raised
          aborted,      \* "" or why MPI_Abort was called
          onerrf        \* an <F> error aborts (DEBUT, ERREUR_F='ABORT')

vars == <<pc, pos, comm, iglbst, why, isterm, net, passed, entered, excepted, aborted, onerrf>>

Exit       == Cmds + 1                  \* end of the script
Head(c)    == Min(c)                    \* rank 0 of communicator c
Others(c)  == c \ {Head(c)}
CommOf(r, p) == IF p \in InSub THEN Sub[r] ELSE World

Chk(c, r, s) == [tag |-> "CHK", comm |-> c, rank |-> r, stat |-> s]
Cnt(c, r, s) == [tag |-> "CNT", comm |-> c, rank |-> r, stat |-> s]

Init == /\ pc = [r \in Ranks |-> "run"]
        /\ pos = [r \in Ranks |-> <<1, 0>>]
        /\ comm = [r \in Ranks |-> World]
        /\ iglbst = [r \in Ranks |-> {}]
        /\ why = [r \in Ranks |-> "coll"]
        /\ isterm = [r \in Ranks |-> {}]
        /\ net = {}
        /\ passed = [r \in Ranks |-> {}]
        /\ entered = [r \in Ranks |-> {}]
        /\ excepted = {}
        /\ aborted = ""
        /\ onerrf \in AbortModes

-----------------------------------------------------------------------------
(* Ends of a handshake.                                                     *)

(* Nothing else matters when MPI_Abort has been called.                     *)
Asabrt(reason) == /\ aborted' = reason
                  /\ UNCHANGED <<pc, pos, comm, iglbst, why, isterm, passed, entered, excepted>>

(* utmess has reported the error, told rank 0 or found that it need not:    *)
(* the communicator is the world, the status is reset (ib1mai), uexcep      *)
(* throws. Python goes on behind the command, or to the end of the script.  *)
(* Thrown from terminate(), the exception ends the process, and the         *)
(* launcher the others.                                                     *)
Uexcep(r) ==
    IF why[r] = "exit" THEN Asabrt("thrown at exit")
    ELSE /\ pc' = [pc EXCEPT ![r] = "run"]
         /\ pos' = [pos EXCEPT ![r] = <<IF Catches THEN @[1] + 1 ELSE Exit, 0>>]
         /\ comm' = [comm EXCEPT ![r] = World]
         /\ iglbst' = [iglbst EXCEPT ![r] = {}]
         /\ excepted' = excepted \cup {r}
         /\ UNCHANGED <<why, isterm, passed, entered, aborted>>

(* asmpi_stop(2)                                                            *)
Stop2(r, flags) ==
    IF onerrf /\ "EXCEPT" \notin flags THEN Asabrt("error") ELSE Uexcep(r)

(* All are at the rendez-vous: the collective, or MPI_Finalize.             *)
Proceed(r) ==
    /\ pc' = [pc EXCEPT ![r] = IF why[r] = "exit" THEN "ended" ELSE "passed"]
    /\ passed' = [passed EXCEPT ![r] = @ \cup {pos[r]}]
    /\ UNCHANGED <<pos, comm, why, entered, excepted, aborted>>

-----------------------------------------------------------------------------
(* Beginnings.                                                              *)

(* asmpi_check on communicator c: rank 0 listens, the others send s.        *)
Handshake(r, c, s, reason) ==
    /\ why' = [why EXCEPT ![r] = reason]
    /\ comm' = [comm EXCEPT ![r] = c]
    /\ IF r = Head(c)
       THEN /\ pc' = [pc EXCEPT ![r] = "checking"]
            /\ isterm' = [isterm EXCEPT ![r] = {}]
            /\ UNCHANGED net
       ELSE /\ pc' = [pc EXCEPT ![r] = "sending"]
            /\ net' = net \cup {Chk(c, r, s)}
            /\ UNCHANGED isterm

(* asmpi_comm_vect, asmpi_barrier. A communicator of one rank has nothing   *)
(* to do.                                                                   *)
Collective(r) ==
    LET p == <<pos[r][1], pos[r][2] + 1>>
    IN  /\ pc[r] = "run" /\ p[1] < Exit /\ p[2] <= Colls
        /\ pos' = [pos EXCEPT ![r] = p]
        /\ IF CommOf(r, p) = {r}
           THEN /\ comm' = [comm EXCEPT ![r] = {r}]
                /\ UNCHANGED <<pc, why, isterm, net>>
           ELSE Handshake(r, CommOf(r, p), "OK", "coll")
        /\ UNCHANGED <<iglbst, passed, entered, excepted, aborted>>

(* The end of a command: no rendez-vous.                                    *)
NextCommand(r) ==
    /\ pc[r] = "run" /\ pos[r][1] < Exit /\ pos[r][2] = Colls
    /\ pos' = [pos EXCEPT ![r] = <<@[1] + 1, 0>>]
    /\ comm' = [comm EXCEPT ![r] = World]
    /\ UNCHANGED <<pc, iglbst, why, isterm, net, passed, entered, excepted, aborted>>

(* terminate(), registered by atexit.                                       *)
Terminate(r) ==
    /\ pc[r] = "run" /\ pos[r][1] = Exit
    /\ Handshake(r, comm[r], "OK", "exit")
    /\ UNCHANGED <<pos, iglbst, passed, entered, excepted, aborted>>

(* utmess reports an error, anywhere in a command or in the allocation of   *)
(* the work vector of asmpi_comm_vect, behind its asmpi_check.              *)
MayFail(r) == \/ pc[r] = "run" /\ pos[r][1] < Exit
              \/ pc[r] = "passed" /\ pos[r] \in Large

(* asmpi_warn(1), or asmpi_warn(0) when an <F> error has to abort.          *)
Warned(r, aborting) ==
    {IF r = 0 THEN "ER_PR0" ELSE "ER_OTH"} \cup (IF aborting THEN {} ELSE {"EXCEPT"})

AsmpiWarnComm(r, fatal) ==                                  \* mutant
    /\ MayFail(r)
    /\ iglbst' = [iglbst EXCEPT ![r] = Warned(r, onerrf /\ fatal)]
    /\ Handshake(r, comm[r], "ER", "error")
    /\ UNCHANGED <<pos, passed, entered, excepted, aborted>>
AsmpiWarn(r, fatal) ==
    /\ MayFail(r)
    /\ iglbst' = [iglbst EXCEPT ![r] = Warned(r, onerrf /\ fatal)]
    /\ Handshake(r, World, "ER", "error")
    /\ UNCHANGED <<pos, passed, entered, excepted, aborted>>

-----------------------------------------------------------------------------
(* asmpi_check on rank 0 of a communicator.                                 *)

(* asmpi_test finds the status of i.                                        *)
Heard(flags, s) == IF s = "ER" THEN flags \cup {"ER_OTH"} ELSE flags

Test(h, m) ==
    /\ pc[h] = "checking" /\ m.tag = "CHK" /\ m.comm = comm[h]
    /\ net' = net \ {m}
    /\ isterm' = [isterm EXCEPT ![h] = @ \cup {m.rank}]
    /\ iglbst' = [iglbst EXCEPT ![h] = Heard(@, m.stat)]
    /\ UNCHANGED <<pc, pos, comm, why, passed, entered, excepted, aborted>>

(* Every rank has been heard, or the delay is over.                         *)
EndOfLoopForAll(h) ==                                       \* mutant
    /\ pc[h] = "checking"
    /\ pc' = [pc EXCEPT ![h] = "answering"]
    /\ iglbst' = [iglbst EXCEPT ![h] = @ \cup (IF isterm[h] = Others(comm[h]) THEN {} ELSE {"UN_OTH"})]
    /\ isterm' = [isterm EXCEPT ![h] = Others(comm[h])]
    /\ UNCHANGED <<pos, comm, why, net, passed, entered, excepted, aborted>>
EndOfLoop(h) ==
    /\ pc[h] = "checking"
    /\ pc' = [pc EXCEPT ![h] = "answering"]
    /\ iglbst' = [iglbst EXCEPT ![h] = @ \cup (IF isterm[h] = Others(comm[h]) THEN {} ELSE {"UN_OTH"})]
    /\ UNCHANGED <<pos, comm, why, isterm, net, passed, entered, excepted, aborted>>

IstatOfRank0(flags) ==                                      \* mutant
    IF "ER_PR0" \in flags THEN "ER" ELSE "OK"
Istat(flags) == IF flags = {} THEN "OK" ELSE "ER"

(* The ranks heard are told, one after the other, to go on or to stop.      *)
Answer(h) ==
    /\ pc[h] = "answering" /\ isterm[h] # {}
    /\ LET i == Min(isterm[h])
       IN  /\ isterm' = [isterm EXCEPT ![h] = @ \ {i}]
           /\ net' = net \cup {Cnt(comm[h], i, Istat(iglbst[h]))}
    /\ UNCHANGED <<pc, pos, comm, iglbst, why, passed, entered, excepted, aborted>>

Decide(h) ==
    /\ pc[h] = "answering" /\ isterm[h] = {}
    /\ IF iglbst[h] = {} THEN Proceed(h) /\ UNCHANGED <<iglbst, isterm>>
       ELSE IF "UN_OTH" \in iglbst[h] THEN Asabrt("delay")
       ELSE Stop2(h, iglbst[h])
    /\ UNCHANGED net

-----------------------------------------------------------------------------
(* asmpi_status on the others.                                              *)

(* The isend is done.                                                       *)
Sent(r) == /\ pc[r] = "sending" /\ r \notin OutOfTime
           /\ pc' = [pc EXCEPT ![r] = "waiting"]
           /\ UNCHANGED <<pos, comm, iglbst, why, isterm, net, passed, entered, excepted, aborted>>

(* The answer arrives. A rank in error does not look at it.                 *)
Answered(r, m) ==
    /\ pc[r] = "waiting" /\ m.tag = "CNT" /\ m.comm = comm[r] /\ m.rank = r
    /\ net' = net \ {m}
    /\ IF why[r] = "error"
       THEN IF "EXCEPT" \in iglbst[r] THEN Uexcep(r) ELSE Asabrt("error")
       ELSE IF m.stat = "OK" THEN Proceed(r) /\ UNCHANGED <<iglbst, isterm>>
       ELSE Stop2(r, iglbst[r])

(* The delay is over: asmpi_stop(1). When no time remains the delay is      *)
(* negative, and over at the first turn of the loop.                        *)
Timeout(r) == /\ pc[r] \in {"sending", "waiting"}
              /\ Asabrt(IF r \in OutOfTime THEN "no time" ELSE "delay")
              /\ UNCHANGED net

-----------------------------------------------------------------------------
(* asmpi_comm_vect calls MPI.                                               *)
Enter(r) ==
    /\ pc[r] = "passed"
    /\ pc' = [pc EXCEPT ![r] = "coll"]
    /\ entered' = [entered EXCEPT ![r] = @ \cup {pos[r]}]
    /\ UNCHANGED <<pos, comm, iglbst, why, isterm, net, passed, excepted, aborted>>

(* A collective returns when every rank of the communicator has called it.  *)
Return(r) ==
    /\ pc[r] = "coll"
    /\ \A q \in comm[r] : pos[r] \in entered[q]
    /\ pc' = [pc EXCEPT ![r] = "run"]
    /\ UNCHANGED <<pos, comm, iglbst, why, isterm, net, passed, entered, excepted, aborted>>

Over == aborted # "" \/ \A r \in Ranks : pc[r] = "ended"

Step(r) == \/ Collective(r) \/ NextCommand(r) \/ Terminate(r)
           \/ \E m \in net : Test(r, m) \/ Answered(r, m)
           \/ EndOfLoop(r) \/ Answer(r) \/ Decide(r)
           \/ Sent(r) \/ Timeout(r) \/ Enter(r) \/ Return(r)

Next == /\ aborted = "" /\ UNCHANGED onerrf
        /\ \E r \in Ranks : Step(r) \/ \E fatal \in BOOLEAN : AsmpiWarn(r, fatal)

Spec == Init /\ [][Next]_vars

(* The loops of asmpi_check and asmpi_status poll until they have what they *)
(* wait for or the delay is over, and MPI progresses: every rank that can   *)
(* take a step does. Errors need not happen.                                *)
FairSpec == Spec /\ \A r \in Ranks : WF_vars(aborted = "" /\ UNCHANGED onerrf /\ Step(r))
-----------------------------------------------------------------------------
Status == {"ER_PR0", "ER_OTH", "UN_OTH", "EXCEPT"}

(* The ranges of the state. A rank that runs has the status ST_OK: with     *)
(* another one its next asmpi_check would stop every rank.                  *)
TypeOK ==
    /\ pc \in [Ranks -> {"run", "sending", "waiting", "checking", "answering",
                       "passed", "coll", "ended"}]
    /\ pos \in [Ranks -> (1..Exit) \X (0..Colls)]
    /\ comm \in [Ranks -> SUBSET Ranks] /\ \A r \in Ranks : r \in comm[r]
    /\ iglbst \in [Ranks -> SUBSET Status]
    /\ \A r \in Ranks : pc[r] \in {"run", "passed", "coll", "ended"} => iglbst[r] = {}
    /\ why \in [Ranks -> {"coll", "error", "exit"}]
    /\ isterm \in [Ranks -> SUBSET Ranks]
    /\ net \subseteq [tag : {"CHK", "CNT"}, comm : SUBSET Ranks, rank : Ranks, stat : {"OK", "ER"}]
    /\ passed \in [Ranks -> SUBSET ((1..Exit) \X (0..Colls))]
    /\ entered \in [Ranks -> SUBSET ((1..Exit) \X (0..Colls))]
    /\ excepted \subseteq Ranks
    /\ onerrf \in BOOLEAN
    /\ aborted \in {"", "error", "delay", "no time", "thrown at exit"}

(* Rank q has found the rendez-vous p to be good, or nothing can keep it    *)
(* from that.                                                               *)
Comes(q, p) ==
    \/ p \in passed[q]
    \/ /\ pos[q] = p /\ why[q] # "error"
       /\ \/ pc[q] \in {"sending", "waiting"} /\ Cnt(comm[q], q, "OK") \in net
          \/ LET h == Head(comm[q])
             IN  /\ pc[h] = "answering" /\ iglbst[h] = {} /\ comm[h] = comm[q]
                 /\ q \in isterm[h] \cup {h}

(* asmpi_check: a rank goes on to a blocking communication, or leaves MPI,  *)
(* only when no rank of its communicator has reported a problem and all     *)
(* come to the same rendez-vous.                                            *)
Rendezvous ==
    aborted = "" =>
        \A r \in Ranks : pc[r] \in {"passed", "coll", "ended"} => \A q \in comm[r] : Comes(q, pos[r])

(* A question or an answer that is under way belongs to the handshake its   *)
(* rank is in, it is the only one, and no rank in error is told to go on:   *)
(* nothing is left in the communicators for a later asmpi_check to find.    *)
(* Types hold.                                                              *)
MessagesAreCurrent ==
    TypeOK /\ \A m \in net : aborted = "" =>
        /\ pc[m.rank] \in {"sending", "waiting"} /\ comm[m.rank] = m.comm
        /\ m.tag = "CNT" /\ why[m.rank] = "error" => m.stat = "ER"
        /\ \A n \in net : n.rank = m.rank => n = m

(* asmpi_stop: all ranks end the same way, none in error while another ends *)
(* normally.                                                                *)
EndTogether ==
    aborted = "" =>
        \A r \in Ranks : pc[r] = "ended" => \A q \in Ranks : r \in excepted <=> q \in excepted

(* Every rank ends or the job is aborted: nobody waits for ever for a rank  *)
(* that an error has taken elsewhere, before or behind asmpi_check.         *)
Terminates == <>Over

(* Message APPELMPI_94: with no time left, a delay is granted for the next  *)
(* communication.                                                           *)
DelayIsGranted == aborted # "no time"
=============================================================================
