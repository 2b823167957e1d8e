------------------------------ MODULE RunAster ------------------------------
(***************************************************************************)
(* run_aster launches the command files of a study one after the other, in *)
(* one working directory (run_aster/run.py).  Each is executed by a        *)
(* process of its own, that starts with DEBUT or POURSUITE, works on the   *)
(* files glob of the base, and saves at the end the objects, the base and  *)
(* their signatures (Supervis/Serializer.py).  It may also fail, forget    *)
(* FIN, be killed at any point, or be given up by the launcher when it is  *)
(* late.  The launcher reads the exit code and the messages, keeps the     *)
(* files in BASE_PREC or restores them, and copies the results.            *)
(*                                                                         *)
(* A file holds the save k of the command file k (0 is the study given),   *)
(* or -k when k is writing it.  The base is cut in the 8 millions of bytes *)
(* that are signed (head) and what follows them (tail).                    *)
(***************************************************************************)
EXTENDS Integers, Sequences, Functions

CONSTANTS N,          \* number of command files
          None,       \* the value of a file that does not exist
          Torn,       \* the value of a file of signatures being written
          Marks,      \* what get_status looks for in the messages
          Expected    \* the values of expected_diag in the export file

ASSUME NAssumption == N \in Nat \ {0}

VARIABLES export,     \* how the study is launched
          pc, idx,    \* the launcher, the command file it is at
          proc,       \* where each process is
          from,       \* the save each process has restarted from
          late,       \* is it stopped by its time limit?
          exitcode,   \* the exit code of each process
          exitfile,   \* _exit_code_, written with the option tee
          mess,       \* fort.6: the marks, the starts, the normal ends
          cwd, prec, out,     \* the working directory, BASE_PREC, the results
          status,     \* of the study
          states, codes,      \* those of each command file, in order
          forced,     \* has expected_diag changed one of them?
          orphans     \* processes given up that may still run

process == <<proc, from, late, exitcode, exitfile, mess>>
launcher == <<pc, idx, prec, out, status, states, codes, forced, orphans>>
vars == <<export, process, launcher, cwd>>

Files == 1..N

-----------------------------------------------------------------------------
(* The bits of StateOptions, as a set of names.                            *)

TextErrors == {"CpuLimit", "Convergence", "Memory", "Except", "Syntax", "Fatal"}
Error == TextErrors \cup {"Abort"}
CompletedBits == {"Ok", "Warn", "Nook", "NoTest"}
Bits == Error \cup CompletedBits

Completed(state) == state \cap CompletedBits # {}

Effective(state) ==
    IF state \cap TextErrors # {} THEN state \cap TextErrors
    ELSE IF "Abort" \in state  THEN {"Abort"}
    ELSE IF "NoTest" \in state THEN {"NoTest"} \cup (state \cap {"Warn"})
    ELSE IF "Nook" \in state   THEN {"Nook"} \cup (state \cap {"Warn"})
    ELSE IF "Warn" \in state   THEN {"Warn"}
    ELSE state \cap {"Ok"}

(* The name that is printed: the first of these bits.                      *)
DiagOrder == <<"Abort", "Syntax", "Fatal", "Memory", "Convergence", "CpuLimit",
               "Except", "NoTest", "Nook", "Warn", "Ok">>
HasDiag(state, d) ==
    \E n \in DOMAIN DiagOrder :
       /\ DiagOrder[n] = d
       /\ d \in state
       /\ \A m \in 1..(n - 1) : DiagOrder[m] \notin state

(* get_status: from the exit code and all the messages since the first     *)
(* command file.                                                           *)
Found(c, marks, test) ==
    IF c = 0
      THEN LET seen == (marks \cap {"Nook", "Warn"}) \cup
                       (IF test /\ marks \cap {"Nook", "OkTest"} = {}
                          THEN {"NoTest"} ELSE {})
           IN IF seen = {} THEN {"Ok"} ELSE seen
      ELSE (marks \cap TextErrors) \cup (IF c = -9 THEN {"CpuLimit"} ELSE {})

TestCode(found) == IF "Nook" \in found THEN 2 ELSE IF "NoTest" \in found THEN 4 ELSE 0

Diagnosed(found) == Effective(IF found = {} THEN {"Abort"} ELSE found)

get_status_blind(c, text, test) ==
    [state |-> Diagnosed(Found(c, text.marks, test)),
     code  |-> IF c = 0 THEN TestCode(Found(c, text.marks, test)) ELSE c]
get_status(c, text, test) ==
    [state |-> IF /\ Completed(Diagnosed(Found(c, text.marks, test)))
                  /\ text.ndeb # text.nfin
                 THEN {"Abort"}
                 ELSE Diagnosed(Found(c, text.marks, test)),
     code  |-> IF c = 0 THEN TestCode(Found(c, text.marks, test)) ELSE c]

UpdateState(one, other) == other.state
Update(one, other) == Effective(one.state \cup other.state)
Worst(a, b) == IF a < b THEN b ELSE a

-----------------------------------------------------------------------------
(* The files of a directory.                                               *)

Content == (-N)..N \cup {None}
Signatures == Content \X Content \X Content
Directory == [pick : Content, info : Content, head : Content, tail : Content,
              sha : Signatures \cup {None, Torn}]

ASSUME ValueAssumption ==
    /\ None \notin (-N)..N \cup Signatures
    /\ Torn \notin Signatures \cup {None}

Nothing == [pick |-> None, info |-> None, head |-> None, tail |-> None, sha |-> None]
Saved(k) == [pick |-> k, info |-> k, head |-> k, tail |-> k, sha |-> <<k, k, k>>]

(* The files that are there are copied over those of the directory.        *)
Over(f, g) == IF f = None THEN g ELSE f
CopyBase(src, dest) == [dest EXCEPT !.head = Over(src.head, @), !.tail = Over(src.tail, @)]
Copy(src, dest) ==
    [pick |-> Over(src.pick, dest.pick), info |-> Over(src.info, dest.info),
     head |-> Over(src.head, dest.head), tail |-> Over(src.tail, dest.tail),
     sha  |-> Over(src.sha, dest.sha)]

canRestartNoBase(dir) ==
    /\ None \notin {dir.pick, dir.info, dir.head, dir.sha}
    /\ dir.sha \in {<<dir.pick, dir.info, k>> : k \in Content}
canRestart(dir) ==
    /\ None \notin {dir.pick, dir.info, dir.head, dir.sha}
    /\ dir.sha = <<dir.pick, dir.info, dir.head>>

-----------------------------------------------------------------------------
(* One command file, in its process.                                       *)

Alive(i) == proc[i] \notin {"none", "dead"}
JeveuxOpen(i) == proc[i] \in {"start", "work", "saving", "pickled", "closing"}

Goes(i, phase) ==
    /\ proc' = [proc EXCEPT ![i] = phase]
    /\ UNCHANGED <<exitcode, exitfile>>
Dies(i, c) ==
    /\ proc' = [proc EXCEPT ![i] = "dead"]
    /\ exitcode' = [exitcode EXCEPT ![i] = c]
    /\ exitfile' = IF export.tee THEN c ELSE exitfile

(* The first command file copies the study given, if there is one.         *)
Here(i) == IF i = 1 /\ export.given THEN Copy(Saved(0), cwd) ELSE cwd

(* The directory with another base, with other objects and names in it.    *)
WithBase(dir, v) ==
    [pick |-> dir.pick, info |-> dir.info, head |-> v, tail |-> v, sha |-> dir.sha]
WithObjects(dir, objects, names) ==
    [pick |-> objects, info |-> names, head |-> dir.head, tail |-> dir.tail,
     sha |-> dir.sha]

Header == mess' = [mess EXCEPT !.ndeb = @ + 1]

(* DEBUT prints the header and creates a base.                             *)
Debut(i) ==
    /\ proc[i] = "start" /\ ~export.continue[i]
    /\ Header
    /\ cwd' = WithBase(Here(i), -i)
    /\ Goes(i, "work")
    /\ UNCHANGED <<from, late>>

(* POURSUITE prints the header, then compares the signatures.  If they are *)
(* not those of the files it raises an exception; the base may be removed  *)
(* at the exit, or an assertion, as no base is open, stops the removal.    *)
Poursuite(i) ==
    /\ proc[i] = "start" /\ export.continue[i]
    /\ Header
    /\ canRestart(Here(i))
    /\ cwd' = Here(i)
    /\ from' = [from EXCEPT ![i] = Here(i).head]
    /\ Goes(i, "work")
    /\ UNCHANGED late

RefusePoursuite(i) ==
    /\ proc[i] = "start" /\ export.continue[i]
    /\ Header
    /\ ~canRestart(Here(i))
    /\ cwd' \in {Here(i), WithBase(Here(i), None)}
    /\ Dies(i, 1)
    /\ UNCHANGED <<from, late>>

(* Jeveux writes records of the base when it needs memory.                 *)
Spill(i) ==
    /\ proc[i] = "work"
    /\ cwd' \in {[cwd EXCEPT !.head = -i], [cwd EXCEPT !.tail = -i]}
    /\ UNCHANGED process

Message(i) ==
    /\ proc[i] = "work"
    /\ \E m \in Marks \ mess.marks : mess' = [mess EXCEPT !.marks = @ \cup {m}]
    /\ UNCHANGED <<proc, from, late, exitcode, exitfile, cwd>>

(* saveObjects, from FIN or from a command that has reached the limit of   *)
(* time: the objects, the names, the base, the message of the normal end,  *)
(* the signatures.                                                         *)
StartSave(i) ==
    /\ proc[i] = "work"
    /\ \E l \in BOOLEAN :
          /\ late' = [late EXCEPT ![i] = l]
          /\ mess' = IF l THEN [mess EXCEPT !.marks = @ \cup {"CpuLimit"}] ELSE mess
    /\ cwd' = WithObjects(cwd, -i, cwd.info)
    /\ Goes(i, "saving")
    /\ UNCHANGED from

SaveNames(i) ==
    /\ proc[i] = "saving"
    /\ cwd' = WithObjects(cwd, i, -i)
    /\ Goes(i, "pickled")
    /\ UNCHANGED <<from, late, mess>>

StartClosing(i) ==
    /\ proc[i] = "pickled"
    /\ cwd' = WithObjects(WithBase(cwd, -i), i, i)
    /\ Goes(i, "closing")
    /\ UNCHANGED <<from, late, mess>>

op9999(i) ==
    /\ proc[i] = "closing"
    /\ cwd' = WithBase(cwd, i)
    /\ mess' = [mess EXCEPT !.nfin = @ + 1]
    /\ Goes(i, "closed")
    /\ UNCHANGED <<from, late>>

StartSign(i) ==
    /\ proc[i] = "closed"
    /\ cwd' = [cwd EXCEPT !.sha = Torn]
    /\ Goes(i, "signing")
    /\ UNCHANGED <<from, late, mess>>

Sign(i) ==
    /\ proc[i] = "signing"
    /\ cwd' = [cwd EXCEPT !.sha = <<cwd.pick, cwd.info, cwd.head>>]
    /\ Goes(i, "signed")
    /\ UNCHANGED <<from, late, mess>>

Finish(i) ==
    /\ proc[i] = "signed"
    /\ Dies(i, IF late[i] THEN 1 ELSE 0)
    /\ UNCHANGED <<from, late, mess, cwd>>

(* The end of the command file, without FIN: Jeveux is unloaded without a  *)
(* save, and op9999 removes the base.                                      *)
Quit(i) ==
    /\ proc[i] = "work"
    /\ cwd' = WithBase(cwd, None)
    /\ Dies(i, 0)
    /\ UNCHANGED <<from, late, mess>>

(* An exception that the command file does not catch.                      *)
Fail(i) ==
    /\ Alive(i)
    /\ cwd' \in IF JeveuxOpen(i) THEN {cwd, WithBase(cwd, None)} ELSE {cwd}
    /\ Dies(i, 1)
    /\ UNCHANGED <<from, late, mess>>

(* A signal: the shell gives it as 128 + 9, or has been replaced by the    *)
(* process and the launcher gets -9.                                       *)
Kill(i) ==
    /\ Alive(i)
    /\ \E c \in IF export.tee THEN {137} ELSE {137, -9} : Dies(i, c)
    /\ UNCHANGED <<from, late, mess, cwd>>

Step(i) ==
    \/ Debut(i) \/ Poursuite(i) \/ RefusePoursuite(i)
    \/ Spill(i) \/ Message(i)
    \/ StartSave(i) \/ SaveNames(i) \/ StartClosing(i) \/ op9999(i)
    \/ StartSign(i) \/ Sign(i) \/ Finish(i)
    \/ Quit(i) \/ Fail(i) \/ Kill(i)

-----------------------------------------------------------------------------
(* The launcher.                                                           *)

LastTooLate == idx = N + 1
Last == idx = N

Init ==
    /\ export \in [tee : BOOLEAN, test : BOOLEAN, expected : Expected,
                   continue : [Files -> BOOLEAN], given : BOOLEAN]
    /\ export.given => export.continue[1]       \* DEBUT would overwrite it
    /\ pc = "next" /\ idx = 0
    /\ proc = [i \in Files |-> "none"]
    /\ from = [i \in Files |-> None]
    /\ late = [i \in Files |-> FALSE]
    /\ exitcode = [i \in Files |-> 0]
    /\ exitfile = None
    /\ mess = [marks |-> {}, ndeb |-> 0, nfin |-> 0]
    /\ cwd = Nothing /\ prec = Nothing /\ out = Nothing
    /\ status = [state |-> {}, code |-> -1]
    /\ states = <<>> /\ codes = <<>>
    /\ forced = FALSE /\ orphans = {}

Launch ==
    /\ pc = "next"
    /\ idx' = idx + 1
    /\ proc' = [proc EXCEPT ![idx + 1] = "start"]
    /\ pc' = "wait"
    /\ UNCHANGED <<export, from, late, exitcode, exitfile, mess, cwd, prec, out,
                   status, states, codes, forced, orphans>>

IsExpected(state) == \E d \in export.expected : HasDiag(state, d)

(* _get_status: an expected diagnosis is a success.                        *)
Status(read) ==
    IF IsExpected(read.state) THEN [state |-> {"Ok"}, code |-> 0] ELSE read

(* What _exec_one keeps in BASE_PREC or restores from it.                  *)
Keep(one) == prec' = IF Completed(one.state) /\ ~Last THEN Copy(cwd, prec) ELSE prec
RestoreBase(one) == cwd' = IF Completed(one.state) THEN cwd ELSE CopyBase(prec, cwd)
Restore(one) == cwd' = IF Completed(one.state) THEN cwd ELSE Copy(prec, cwd)

(* The rest of _exec_one once the exit code is known, and the end of the   *)
(* loop of execute_study.                                                  *)
Judge(c) ==
    \E read \in {get_status(c, mess, export.test /\ Last)} :
    \E one \in {Status(read)} :
       /\ Keep(one)
       /\ Restore(one)
       /\ forced' = (forced \/ IsExpected(read.state))
       /\ status' = [state |-> Update(status, one), code |-> Worst(status.code, one.code)]
       /\ states' = Append(states, one.state)
       /\ codes' = Append(codes, one.code)
       /\ pc' = IF Completed(Update(status, one)) /\ ~Last THEN "next" ELSE "ending"
       /\ UNCHANGED <<export, idx, from, late, mess, out>>

(* run_command: the exit code in _exit_code_ comes before the shell's.     *)
Return ==
    /\ pc = "wait" /\ proc[idx] = "dead"
    /\ Judge(IF exitfile # None THEN exitfile ELSE exitcode[idx])
    /\ exitfile' = None
    /\ exitcode' = [exitcode EXCEPT ![idx] = 0]
    /\ UNCHANGED <<proc, orphans>>

(* TimeoutExpired: the shell is killed, the process with it only if it has *)
(* taken the place of the shell.                                           *)
NoTimeout == FALSE /\ UNCHANGED vars
Timeout ==
    /\ pc = "wait" /\ Alive(idx)
    /\ Judge(-9)
    /\ \/ ~export.tee /\ proc' = [proc EXCEPT ![idx] = "dead"] /\ UNCHANGED orphans
       \/ orphans' = orphans \cup {idx} /\ UNCHANGED proc
    /\ UNCHANGED <<exitcode, exitfile>>

(* ending_execution: the base is a result only if the study is completed.  *)
Ending ==
    /\ pc = "ending"
    /\ out' = IF Completed(status.state) /\ ~export.test THEN Copy(cwd, out) ELSE out
    /\ pc' = "done"
    /\ UNCHANGED <<export, process, cwd, idx, prec, status, states, codes, forced, orphans>>

Launcher == Launch \/ Return \/ Timeout \/ Ending

(* Bound: a process that was given up is followed until the next command   *)
(* file is launched, or until the end.                                     *)
Process(i) == i = idx /\ pc # "done" /\ Step(i) /\ UNCHANGED <<export, launcher>>

Next == Launcher \/ \E i \in Files : Process(i)

(* The launcher waits at most the time of the export file: run() gives up  *)
(* a process that does not end.                                            *)
Spec == Init /\ [][Next]_vars /\ WF_vars(Launcher)

-----------------------------------------------------------------------------
Phases == {"none", "start", "work", "saving", "pickled", "closing", "closed",
           "signing", "signed", "dead"}
ExitCodes == {-9, 0, 1, 137}
StatusCodes == ExitCodes \cup {-1, 2, 4}

(* The type of the variables.                                              *)
TypeOK ==
    /\ export \in [tee : BOOLEAN, test : BOOLEAN, expected : Expected,
                   continue : [Files -> BOOLEAN], given : BOOLEAN]
    /\ pc \in {"next", "wait", "ending", "done"}
    /\ idx \in 0..N
    /\ proc \in [Files -> Phases]
    /\ from \in [Files -> Content]
    /\ late \in [Files -> BOOLEAN]
    /\ exitcode \in [Files -> ExitCodes]
    /\ exitfile \in ExitCodes \cup {None}
    /\ mess \in [marks : SUBSET (Marks \cup {"CpuLimit"}), ndeb : 0..N, nfin : 0..N]
    /\ cwd \in Directory /\ prec \in Directory /\ out \in Directory
    /\ status \in [state : SUBSET Bits, code : StatusCodes]
    /\ states \in Seq(SUBSET Bits) /\ codes \in Seq(StatusCodes)
    /\ forced \in BOOLEAN
    /\ orphans \in SUBSET Files

(* As long as the study is completed and no diagnosis was expected, the    *)
(* working directory holds the save of the last command file, whole and    *)
(* signed: the next POURSUITE will not be refused.  What is copied to the  *)
(* user is that save, or nothing.                                          *)
CompletedCanRestart ==
    ~forced =>
       /\ pc \in {"next", "ending", "done"} /\ idx > 0 /\ Completed(status.state)
             => cwd = Saved(idx)
       /\ out \in {Nothing, Saved(N)}

(* When a command file fails, the working directory is as the command file *)
(* before left it: nothing of the failed one is mixed with it.             *)
RestoredIsLastGood ==
    (/\ pc \in {"ending", "done"} /\ idx > 1
     /\ ~Completed(status.state) /\ ~forced /\ orphans = {})
       => cwd = Saved(idx - 1)

(* canRestart accepts the files of one save only, wherever the processes   *)
(* were stopped; beyond the part that is signed, the base may have been    *)
(* changed by a process that restarted from that save.                     *)
CanRestartMeansOneSave ==
    canRestart(cwd) /\ orphans = {} =>
       /\ cwd.head \in 0..N /\ cwd.pick = cwd.head /\ cwd.info = cwd.head
       /\ \/ cwd.tail = cwd.head
          \/ \E i \in Files : cwd.tail = -i /\ from[i] = cwd.head

(* The state of the study, that is built by successive updates, is that of *)
(* all the bits of the command files together; the study is completed only *)
(* if all of them are.                                                     *)
StateIsOfAll ==
    /\ status.state = Effective(UNION Range(states))
    /\ states # <<>> => (Completed(status.state) <=> \A n \in DOMAIN states : Completed(states[n]))

(* The launcher ends, whatever the processes do.                           *)
Termination == <>(pc = "done")

(* The docstring of Status.update (run_aster/status.py:94-96): "It keeps   *)
(* the effective state, the worst exit code".  If a command file has       *)
(* failed, the exit code of run_aster is not zero.                         *)
KeepsWorst ==
    pc = "done" /\ (\E n \in DOMAIN codes : codes[n] # 0) => status.code # 0
=============================================================================
