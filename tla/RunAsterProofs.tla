--------------------------- MODULE RunAsterProofs ---------------------------
(***************************************************************************)
(* Proofs about RunAster, for any number of command files: the state of    *)
(* the study is that of all of them, what canRestart accepts is one save,  *)
(* what is kept, restored and copied is one whole save.                    *)
(***************************************************************************)
EXTENDS RunAster, TLAPS

-----------------------------------------------------------------------------
(* The inductive invariant, by parts.                                      *)

(* The counts of the messages are bounded by the command files started.    *)
Begun == IF idx > 0 /\ proc[idx] = "start" THEN idx - 1 ELSE idx
Ended == IF idx > 0 /\ proc[idx] \in {"start", "work", "saving", "pickled", "closing"}
           THEN idx - 1 ELSE idx
Counts == mess.ndeb <= Begun /\ mess.nfin <= Ended

(* The launcher, the command file it is at and its process.                *)
Course ==
    /\ pc = "next" => idx < N
    /\ pc # "next" => idx > 0
    /\ pc = "wait" => proc[idx] # "none"
    /\ idx > 0 /\ pc # "wait" /\ orphans = {} => proc[idx] = "dead"
    /\ \A i \in Files : proc[i] = "none" <=> i > idx
    /\ \A i \in Files : proc[i] \in {"none", "start"} => from[i] = None

(* What the files are when the process i is in the given phase.            *)
Phase(i, phase, dir, start) ==
    /\ phase = "work" => dir.head = -i \/ dir.head = start
    /\ phase = "work" => dir.head # None /\ dir.tail # None
    /\ phase = "saving" => dir.pick = -i
    /\ phase = "pickled" => dir.pick = i /\ dir.info = -i
    /\ phase = "closing" => /\ dir.pick = i /\ dir.info = i
                            /\ dir.head = -i /\ dir.tail = -i
    /\ phase \in {"closed", "signing"} =>
          /\ dir.pick = i /\ dir.info = i /\ dir.head = i /\ dir.tail = i
    /\ phase = "signing" => dir.sha = Torn
    /\ phase = "signed" => dir = Saved(i)
AtWork == pc = "wait" /\ orphans = {} => Phase(idx, proc[idx], cwd, from[idx])

(* The signatures are those of one save; the base is whole or absent, and  *)
(* beyond what is signed it was changed by a process that restarted from   *)
(* that save only.                                                         *)
OneSave(dir, start) ==
    /\ dir.sha \in {None, Torn} \cup {<<k, k, k>> : k \in 0..N}
    /\ dir.head = None <=> dir.tail = None
    /\ dir.head \in 0..N => \/ dir.tail = dir.head
                            \/ \E i \in Files : dir.tail = -i /\ start[i] = dir.head
Sound == orphans = {} => OneSave(cwd, from) /\ OneSave(prec, from)

(* As long as no diagnosis was expected, the counts are exact and the      *)
(* directories hold whole saves.                                           *)
Exact(phase) ==
    /\ phase = "start" => mess.ndeb = idx - 1 /\ mess.nfin = idx - 1
    /\ phase \in {"work", "saving", "pickled", "closing"} =>
          mess.ndeb = idx /\ mess.nfin = idx - 1
    /\ phase \in {"closed", "signing", "signed"} => mess.ndeb = idx /\ mess.nfin = idx
    /\ phase = "dead" /\ exitcode[idx] = 0 /\ mess.ndeb = mess.nfin =>
          cwd = Saved(idx) /\ mess.ndeb = idx
    /\ exitfile # None => phase = "dead" /\ exitfile = exitcode[idx]

Unforced ==
    ~forced =>
       /\ pc \in {"next", "wait"} => orphans = {} /\ status.state \cap Error = {}
       /\ pc = "next" => mess.ndeb = idx /\ mess.nfin = idx /\ exitfile = None
       /\ pc = "next" /\ idx > 0 => cwd = Saved(idx) /\ prec = Saved(idx)
       /\ pc = "wait" => Exact(proc[idx])
       /\ pc = "wait" /\ idx > 1 => prec = Saved(idx - 1)
       /\ pc \in {"ending", "done"} /\ Completed(status.state) =>
             cwd = Saved(idx) /\ idx = N /\ orphans = {}
       /\ pc \in {"ending", "done"} /\ ~Completed(status.state) /\ idx > 1 /\ orphans = {} =>
             cwd = Saved(idx - 1)
       /\ pc # "done" => out = Nothing
       /\ out \in {Nothing, Saved(N)}

Typed == TypeOK /\ Counts /\ Course
IInv == Typed /\ AtWork /\ Sound /\ Unforced

-----------------------------------------------------------------------------
(* The bits of the states.                                                 *)

(* A state that get_status gives is a success or an error, never both.     *)
Shown(state) ==
    /\ state \subseteq Bits
    /\ (state \cap CompletedBits # {}) <=> (state \cap Error = {})

LEMMA EffectiveIsShown ==
    ASSUME NEW A, A \subseteq Bits
    PROVE  /\ Effective(A) \subseteq Bits
           /\ A # {} => Shown(Effective(A))
           /\ Completed(Effective(A)) <=> A \cap Error = {} /\ A # {}
<1>1. CASE A \cap TextErrors # {}
    BY <1>1 DEF Effective, Shown, Completed, Bits, Error, TextErrors, CompletedBits
<1>2. CASE A \cap TextErrors = {} /\ "Abort" \in A
    BY <1>2 DEF Effective, Shown, Completed, Bits, Error, TextErrors, CompletedBits
<1>3. CASE A \cap TextErrors = {} /\ "Abort" \notin A
    BY <1>3 DEF Effective, Shown, Completed, Bits, Error, TextErrors, CompletedBits
<1> QED BY <1>1, <1>2, <1>3

LEMMA EffectiveOfJoin ==
    ASSUME NEW A, NEW B, A \subseteq Bits, B \subseteq Bits
    PROVE  Effective(Effective(A) \cup B) = Effective(A \cup B)
<1>1. CASE A \cap TextErrors # {}
    BY <1>1 DEF Effective, Bits, Error, TextErrors, CompletedBits
<1>2. CASE A \cap TextErrors = {} /\ B \cap TextErrors # {}
    BY <1>2 DEF Effective, Bits, Error, TextErrors, CompletedBits
<1>3. CASE A \cap TextErrors = {} /\ B \cap TextErrors = {}
    BY <1>3 DEF Effective, Bits, Error, TextErrors, CompletedBits
<1> QED BY <1>1, <1>2, <1>3

(* What get_status gives from an exit code and the messages.               *)
LEMMA FoundIsShown ==
    ASSUME NEW c, NEW marks, NEW test
    PROVE  LET d == Diagnosed(Found(c, marks, test)) IN
           /\ d \subseteq Bits /\ Shown(d)
           /\ Completed(d) => c = 0
<1> DEFINE F == Found(c, marks, test)
<1>1. F \subseteq Bits
    BY DEF Found, Bits, Error, TextErrors, CompletedBits
<1>2. c # 0 => F \cap CompletedBits = {}
    BY DEF Found, TextErrors, CompletedBits
<1>3. CASE F = {}
  <2>1. Diagnosed(F) = Effective({"Abort"}) /\ {"Abort"} \subseteq Bits
      BY <1>3 DEF Diagnosed, Bits, Error
  <2>2. ~Completed(Effective({"Abort"}))
      BY <2>1, EffectiveIsShown DEF Error
  <2> QED BY <2>1, <2>2, EffectiveIsShown DEF Shown
<1>4. CASE F # {}
  <2>1. Diagnosed(F) = Effective(F)
      BY <1>4 DEF Diagnosed
  <2>2. c # 0 => F \cap Error # {}
      BY <1>1, <1>2, <1>4 DEF Bits
  <2> HIDE DEF F
  <2>3. Completed(Effective(F)) => c = 0
      BY <1>1, <2>2, EffectiveIsShown
  <2>4. Effective(F) \subseteq Bits /\ Shown(Effective(F))
      BY <1>1, <1>4, EffectiveIsShown
  <2> QED BY <2>1, <2>3, <2>4 DEF F
<1> QED BY <1>3, <1>4

LEMMA StatusIsShown ==
    ASSUME NEW c, NEW text, NEW test
    PROVE  LET r == get_status(c, text, test) IN
           /\ r.state \subseteq Bits /\ Shown(r.state)
           /\ Completed(r.state) => c = 0 /\ text.ndeb = text.nfin
           /\ c \in ExitCodes => r.code \in StatusCodes
<1> DEFINE d == Diagnosed(Found(c, text.marks, test))
           r == get_status(c, text, test)
<1>1. d \subseteq Bits /\ Shown(d) /\ (Completed(d) => c = 0)
    BY FoundIsShown
<1>2. c \in ExitCodes => r.code \in StatusCodes
    BY DEF get_status, TestCode, ExitCodes, StatusCodes
<1>3. r.state = IF Completed(d) /\ text.ndeb # text.nfin THEN {"Abort"} ELSE d
    BY DEF get_status
<1> HIDE DEF d, r
<1>4. CASE Completed(d) /\ text.ndeb # text.nfin
  <2>1. r.state = {"Abort"}
      BY <1>3, <1>4
  <2> QED BY <2>1, <1>2 DEF r, Shown, Completed, Bits, Error, TextErrors, CompletedBits
<1>5. CASE ~(Completed(d) /\ text.ndeb # text.nfin)
    BY <1>1, <1>2, <1>3, <1>5 DEF r
<1> QED BY <1>4, <1>5

-----------------------------------------------------------------------------
(* The state of the study.                                                 *)

Judged ==
    /\ states \in Seq(SUBSET Bits)
    /\ \A n \in DOMAIN states : Shown(states[n])
    /\ status.state = Effective(UNION Range(states))

(* What one command file adds.                                             *)
LEMMA AppendIsJudged ==
    ASSUME Judged, NEW s, s \subseteq Bits, Shown(s),
           states' = Append(states, s),
           status'.state = Effective(status.state \cup s)
    PROVE  Judged'
<1> DEFINE U == UNION Range(states)
<1>1. U \subseteq Bits
    BY DEF Judged, Range
<1>2. states' \in Seq(SUBSET Bits) /\ Len(states') = Len(states) + 1
      /\ states'[Len(states) + 1] = s
      /\ \A n \in 1..Len(states) : states'[n] = states[n]
      /\ DOMAIN states = 1..Len(states) /\ DOMAIN states' = 1..(Len(states) + 1)
      /\ Len(states) \in Nat
    BY DEF Judged
<1>3. UNION Range(states') = U \cup s
  <2>1. ASSUME NEW x \in UNION Range(states')
        PROVE  x \in U \cup s
    <3>1. PICK n \in DOMAIN states' : x \in states'[n]
        BY <2>1 DEF Range
    <3>2. CASE n = Len(states) + 1
        BY <3>1, <3>2, <1>2
    <3>3. CASE n # Len(states) + 1
        BY <3>1, <3>3, <1>2 DEF Range
    <3> QED BY <3>2, <3>3
  <2>2. ASSUME NEW x \in U
        PROVE  x \in UNION Range(states')
    <3>1. PICK n \in DOMAIN states : x \in states[n]
        BY <2>2 DEF Range
    <3>2. n \in DOMAIN states' /\ states'[n] = states[n]
        BY <3>1, <1>2
    <3> QED BY <3>1, <3>2 DEF Range
  <2>3. s \subseteq UNION Range(states')
    <3>1. Len(states) + 1 \in DOMAIN states'
        BY <1>2
    <3> QED BY <3>1, <1>2 DEF Range
  <2> QED BY <2>1, <2>2, <2>3
<1>4. status'.state = Effective(U \cup s)
    BY <1>1, EffectiveOfJoin DEF Judged
<1>5. \A n \in DOMAIN states' : Shown(states'[n])
    BY <1>2 DEF Judged
<1> QED BY <1>2, <1>3, <1>4, <1>5 DEF Judged

(* What Judge decides: the state of the command file, and with it all that *)
(* depends on it.                                                          *)
LEMMA JudgeGives ==
    ASSUME NEW c, Judge(c)
    PROVE  \E s, k :
              /\ s \subseteq Bits /\ Shown(s)
              /\ Completed(s) /\ ~forced' => c = 0 /\ mess.ndeb = mess.nfin
              /\ c \in ExitCodes => k \in StatusCodes
              /\ prec' = IF Completed(s) /\ ~Last THEN Copy(cwd, prec) ELSE prec
              /\ cwd' = IF Completed(s) THEN cwd ELSE Copy(prec, cwd)
              /\ forced \in BOOLEAN => forced' \in BOOLEAN /\ (~forced' => ~forced)
              /\ status' = [state |-> Effective(status.state \cup s),
                            code |-> Worst(status.code, k)]
              /\ states' = Append(states, s)
              /\ codes' = Append(codes, k)
              /\ pc' = IF Completed(Effective(status.state \cup s)) /\ ~Last
                       THEN "next" ELSE "ending"
              /\ UNCHANGED <<export, idx, from, late, mess, out>>
<1> DEFINE read == get_status(c, mess, export.test /\ Last)
           one == Status(read)
<1>1. /\ Keep(one)
      /\ Restore(one)
      /\ forced' = (forced \/ IsExpected(read.state))
      /\ status' = [state |-> Update(status, one), code |-> Worst(status.code, one.code)]
      /\ states' = Append(states, one.state)
      /\ codes' = Append(codes, one.code)
      /\ pc' = IF Completed(Update(status, one)) /\ ~Last THEN "next" ELSE "ending"
      /\ UNCHANGED <<export, idx, from, late, mess, out>>
    BY DEF Judge
<1>2. /\ read.state \subseteq Bits /\ Shown(read.state)
      /\ Completed(read.state) => c = 0 /\ mess.ndeb = mess.nfin
      /\ c \in ExitCodes => read.code \in StatusCodes
    BY StatusIsShown
<1>s. one = Status(read)
    OBVIOUS
<1> HIDE DEF read, one
<1>3. CASE IsExpected(read.state)
  <2>1. one.state = {"Ok"} /\ one.code = 0 /\ forced'
      BY <1>1, <1>s, <1>3 DEF Status
  <2>2. one.state \subseteq Bits /\ Shown(one.state) /\ one.code \in StatusCodes
      BY <2>1 DEF Shown, Bits, Error, TextErrors, CompletedBits, StatusCodes, ExitCodes
  <2> QED BY <1>1, <2>1, <2>2 DEF Keep, Restore, Update
<1>4. CASE ~IsExpected(read.state)
  <2>1. one = read
      BY <1>s, <1>4 DEF Status
  <2> QED BY <1>1, <1>2, <2>1 DEF Keep, Restore, Update
<1> QED BY <1>3, <1>4

LEMMA StepJudged == Judged /\ [Next]_vars => Judged'
<1> SUFFICES ASSUME Judged, [Next]_vars PROVE Judged'
    OBVIOUS
<1>1. ASSUME NEW c, Judge(c) PROVE Judged'
  <2>1. PICK s, k :
           /\ s \subseteq Bits /\ Shown(s) /\ states' = Append(states, s)
           /\ status' = [state |-> Effective(status.state \cup s),
                         code |-> Worst(status.code, k)]
      BY <1>1, JudgeGives, Zenon
  <2>2. status'.state = Effective(status.state \cup s)
      BY <2>1
  <2> QED BY <2>1, <2>2, AppendIsJudged
<1>2. CASE UNCHANGED <<status, states>>
    BY <1>2 DEF Judged
<1>3. CASE Return
    BY <1>1, <1>3 DEF Return
<1>4. CASE Timeout
    BY <1>1, <1>4 DEF Timeout
<1>5. CASE Launch \/ Ending \/ \E i \in Files : Process(i)
    BY <1>2, <1>5 DEF Launch, Ending, Process, launcher
<1>6. CASE UNCHANGED vars
    BY <1>2, <1>6 DEF vars, launcher
<1> QED BY <1>3, <1>4, <1>5, <1>6 DEF Next, Launcher

(* The state of the study, that is built by successive updates, is that of *)
(* all the bits of its command files, and it is completed only if all of   *)
(* them are.                                                               *)
THEOREM StateIsAlwaysOfAll == Spec => []StateIsOfAll
<1>1. Init => Judged
  <2> SUFFICES ASSUME Init PROVE Judged
      OBVIOUS
  <2>1. states = <<>> /\ status.state = {}
      BY DEF Init
  <2>2. UNION Range(states) = {}
      BY <2>1 DEF Range
  <2>3. Effective({}) = {}
      BY DEF Effective, TextErrors
  <2>4. states \in Seq(SUBSET Bits) /\ DOMAIN states = {}
      BY <2>1
  <2>5. status.state = Effective(UNION Range(states))
      BY <2>1, <2>2, <2>3
  <2> QED BY <2>4, <2>5 DEF Judged
<1>2. Judged => StateIsOfAll
  <2> SUFFICES ASSUME Judged, states # <<>>
               PROVE  Completed(status.state)
                      <=> \A n \in DOMAIN states : Completed(states[n])
      BY DEF Judged, StateIsOfAll
  <2> DEFINE U == UNION Range(states)
  <2>1. U \subseteq Bits /\ \A n \in DOMAIN states : states[n] \subseteq U
      BY DEF Judged, Range
  <2>2. Completed(status.state) <=> U \cap Error = {} /\ U # {}
      BY <2>1, EffectiveIsShown DEF Judged
  <2>3. U \cap Error = {} <=> \A n \in DOMAIN states : states[n] \cap Error = {}
      BY DEF Range
  <2>4. \A n \in DOMAIN states : Completed(states[n]) <=> states[n] \cap Error = {}
      BY DEF Judged, Shown, Completed
  <2>5. 1 \in DOMAIN states
      BY DEF Judged
  <2>6. U \cap Error = {} => U # {}
    <3>1. SUFFICES ASSUME U \cap Error = {} PROVE U # {}
        OBVIOUS
    <3>2. Completed(states[1])
        BY <2>3, <2>4, <2>5, <3>1
    <3> QED BY <2>1, <2>5, <3>2 DEF Completed
  <2> QED BY <2>2, <2>3, <2>4, <2>6
<1> QED BY <1>1, <1>2, StepJudged, PTL DEF Spec

-----------------------------------------------------------------------------
(* The files of a directory.                                               *)

LEMMA Contents ==
    /\ None \in Content
    /\ \A k \in (-N)..N : k \in Content /\ k # None
    /\ \A i \in Files : i \in (-N)..N /\ -i \in (-N)..N
    /\ Nothing \in Directory
    /\ \A k \in 0..N : k \in (-N)..N /\ Saved(k) \in Directory
BY NAssumption, ValueAssumption
   DEF Content, Files, Nothing, Saved, Directory, Signatures

LEMMA DirectoryIsKept ==
    ASSUME NEW dir \in Directory, NEW v \in Content, NEW w \in Content
    PROVE  /\ WithBase(dir, v) \in Directory
           /\ WithObjects(dir, v, w) \in Directory
           /\ [dir EXCEPT !.head = v] \in Directory
           /\ [dir EXCEPT !.tail = v] \in Directory
           /\ [dir EXCEPT !.sha = Torn] \in Directory
           /\ [dir EXCEPT !.sha = <<dir.pick, dir.info, dir.head>>] \in Directory
BY DEF Directory, WithBase, WithObjects, Signatures

LEMMA CopyIsADirectory ==
    ASSUME NEW src \in Directory, NEW dest \in Directory
    PROVE  Copy(src, dest) \in Directory
BY DEF Directory, Copy, Over

(* A whole save covers what was there.                                     *)
LEMMA CopyOfSaved ==
    ASSUME NEW k \in 0..N, NEW dest
    PROVE  Copy(Saved(k), dest) = Saved(k)
<1>1. k # None /\ <<k, k, k>> # None
  <2>1. k # None
      BY Contents
  <2>2. <<k, k, k>> # None
    <3>1. k \in Content
        BY Contents
    <3>2. <<k, k, k>> \in Signatures
        BY <3>1 DEF Signatures
    <3> QED BY <3>2, ValueAssumption
  <2> QED BY <2>1, <2>2
<1> QED BY <1>1 DEF Copy, Saved, Over

-----------------------------------------------------------------------------
(* The types are kept, with the bounds that the counts rest on.            *)

LEMMA HereIsADirectory ==
    ASSUME cwd \in Directory, NEW i PROVE Here(i) \in Directory
<1>1. Saved(0) \in Directory
    BY Contents, NAssumption
<1> QED BY <1>1, CopyIsADirectory DEF Here

LEMMA WorstIsACode ==
    ASSUME NEW a \in StatusCodes, NEW b \in StatusCodes PROVE Worst(a, b) \in StatusCodes
BY DEF Worst

(* The process of the present command file; it has not ended.              *)
LEMMA ProcessIsPresent ==
    ASSUME Typed, NEW i \in Files, Process(i)
    PROVE  /\ i = idx /\ idx \in Nat /\ idx > 0 /\ i \in Nat /\ pc # "done"
           /\ Step(i) /\ UNCHANGED <<export, launcher>>
           /\ proc[idx] \in Phases \ {"none", "dead"}
<1>1. i = idx /\ pc # "done" /\ Step(i) /\ UNCHANGED <<export, launcher>>
    BY DEF Process
<1>2. proc[i] \in Phases \ {"none", "dead"}
    BY <1>1 DEF Step, Debut, Poursuite, RefusePoursuite, Spill, Message, StartSave,
               SaveNames, StartClosing, op9999, StartSign, Sign, Finish, Quit,
               Fail, Kill, Alive, Phases, Typed, TypeOK
<1> QED BY <1>1, <1>2, NAssumption DEF Files

LEMMA StepTyped ==
    ASSUME Typed, NEW i \in Files, Process(i) PROVE TypeOK'
<1> USE DEF Goes, Dies
<1>p. /\ i = idx /\ idx \in Nat /\ idx > 0 /\ Step(i) /\ UNCHANGED <<export, launcher>>
    BY ProcessIsPresent
<1>c. /\ i \in Content /\ -i \in Content /\ None \in Content
      /\ cwd \in Directory /\ Here(i) \in Directory
    BY Contents, HereIsADirectory DEF Typed, TypeOK
<1>u. UNCHANGED <<export, pc, idx, prec, out, status, states, codes, forced, orphans>>
    BY <1>p DEF launcher
<1>t. /\ proc \in [Files -> Phases] /\ from \in [Files -> Content]
      /\ late \in [Files -> BOOLEAN] /\ exitcode \in [Files -> ExitCodes]
      /\ exitfile \in ExitCodes \cup {None}
      /\ mess \in [marks : SUBSET (Marks \cup {"CpuLimit"}), ndeb : 0..N, nfin : 0..N]
    BY DEF Typed, TypeOK
<1>1. cwd' \in Directory
  <2> USE DirectoryIsKept, <1>c
  <2>1. CASE Debut(i) BY <2>1 DEF Debut
  <2>2. CASE Poursuite(i) BY <2>2 DEF Poursuite
  <2>3. CASE RefusePoursuite(i) BY <2>3 DEF RefusePoursuite
  <2>4. CASE Spill(i)
    <3>1. [cwd EXCEPT !.head = -i] \in Directory /\ [cwd EXCEPT !.tail = -i] \in Directory
        OBVIOUS
    <3>2. cwd' = [cwd EXCEPT !.head = -i] \/ cwd' = [cwd EXCEPT !.tail = -i]
        BY <2>4 DEF Spill
    <3> QED BY <3>1, <3>2
  <2>5. CASE Message(i) BY <2>5 DEF Message
  <2>6. CASE StartSave(i)
    <3>1. cwd.info \in Content
        BY DEF Directory
    <3>2. WithObjects(cwd, -i, cwd.info) \in Directory
        BY <3>1
    <3> QED BY <2>6, <3>2 DEF StartSave
  <2>7. CASE SaveNames(i) BY <2>7 DEF SaveNames
  <2>8. CASE StartClosing(i) BY <2>8 DEF StartClosing
  <2>9. CASE op9999(i) BY <2>9 DEF op9999
  <2>10. CASE StartSign(i) BY <2>10 DEF StartSign
  <2>11. CASE Sign(i) BY <2>11 DEF Sign
  <2>12. CASE Finish(i) BY <2>12 DEF Finish
  <2>13. CASE Quit(i) BY <2>13 DEF Quit
  <2>14. CASE Fail(i) BY <2>14 DEF Fail
  <2>15. CASE Kill(i) BY <2>15 DEF Kill
  <2> QED BY <1>p, <2>1, <2>2, <2>3, <2>4, <2>5, <2>6, <2>7, <2>8, <2>9, <2>10,
             <2>11, <2>12, <2>13, <2>14, <2>15 DEF Step
<1>2. /\ proc' \in [Files -> Phases] /\ exitcode' \in [Files -> ExitCodes]
      /\ exitfile' \in ExitCodes \cup {None} /\ late' \in [Files -> BOOLEAN]
  <2> USE <1>t DEF Phases, ExitCodes
  <2>1. CASE Debut(i) BY <2>1 DEF Debut
  <2>2. CASE Poursuite(i) BY <2>2 DEF Poursuite
  <2>3. CASE RefusePoursuite(i) BY <2>3 DEF RefusePoursuite
  <2>4. CASE Spill(i) BY <2>4 DEF Spill, process
  <2>5. CASE Message(i) BY <2>5 DEF Message
  <2>6. CASE StartSave(i) BY <2>6 DEF StartSave
  <2>7. CASE SaveNames(i) BY <2>7 DEF SaveNames
  <2>8. CASE StartClosing(i) BY <2>8 DEF StartClosing
  <2>9. CASE op9999(i) BY <2>9 DEF op9999
  <2>10. CASE StartSign(i) BY <2>10 DEF StartSign
  <2>11. CASE Sign(i) BY <2>11 DEF Sign
  <2>12. CASE Finish(i) BY <2>12 DEF Finish
  <2>13. CASE Quit(i) BY <2>13 DEF Quit
  <2>14. CASE Fail(i) BY <2>14 DEF Fail
  <2>15. CASE Kill(i)
    <3>1. PICK c \in {137, -9} : Dies(i, c)
        BY <2>15 DEF Kill
    <3> QED BY <2>15, <3>1 DEF Kill
  <2> QED BY <1>p, <2>1, <2>2, <2>3, <2>4, <2>5, <2>6, <2>7, <2>8, <2>9, <2>10,
             <2>11, <2>12, <2>13, <2>14, <2>15 DEF Step
<1>3. from' \in [Files -> Content]
  <2>1. CASE Poursuite(i)
    <3>1. Here(i).head \in Content
        BY <1>c DEF Directory
    <3> QED BY <2>1, <3>1, <1>t DEF Poursuite
  <2>2. CASE UNCHANGED from BY <2>2, <1>t
  <2> QED BY <1>p, <2>1, <2>2
        DEF Step, Debut, RefusePoursuite, Spill, process, Message, StartSave, SaveNames,
            StartClosing, op9999, StartSign, Sign, Finish, Quit, Fail, Kill
<1>4. mess' \in [marks : SUBSET (Marks \cup {"CpuLimit"}), ndeb : 0..N, nfin : 0..N]
  <2>n. idx <= N /\ N \in Nat
      BY NAssumption DEF Typed, TypeOK
  <2>1. CASE Header /\ proc[i] = "start"
    <3>1. mess.ndeb + 1 \in 0..N
      <4>1. mess.ndeb <= idx - 1
          BY <1>p, <2>1 DEF Typed, Counts, Begun
      <4> QED BY <1>t, <4>1, <2>n, <1>p
    <3> QED BY <2>1, <3>1, <1>t DEF Header
  <2>2. CASE Message(i)
      BY <2>2, <1>t DEF Message
  <2>3. CASE StartSave(i)
      BY <2>3, <1>t DEF StartSave
  <2>4. CASE op9999(i)
    <3>1. mess.nfin + 1 \in 0..N
      <4>1. mess.nfin <= idx - 1
          BY <1>p, <2>4 DEF Typed, Counts, Ended, op9999
      <4> QED BY <1>t, <4>1, <2>n, <1>p
    <3> QED BY <2>4, <3>1, <1>t DEF op9999
  <2>5. CASE UNCHANGED mess BY <2>5, <1>t
  <2> QED BY <1>p, <2>1, <2>2, <2>3, <2>4, <2>5
        DEF Step, Debut, Poursuite, RefusePoursuite, Spill, process, SaveNames,
            StartClosing, StartSign, Sign, Finish, Quit, Fail, Kill
<1>5. /\ export' \in [tee : BOOLEAN, test : BOOLEAN, expected : Expected,
                      continue : [Files -> BOOLEAN], given : BOOLEAN]
      /\ pc' \in {"next", "wait", "ending", "done"} /\ idx' \in 0..N
      /\ prec' \in Directory /\ out' \in Directory
      /\ status' \in [state : SUBSET Bits, code : StatusCodes]
      /\ states' \in Seq(SUBSET Bits) /\ codes' \in Seq(StatusCodes)
      /\ forced' \in BOOLEAN /\ orphans' \in SUBSET Files
    BY <1>u DEF Typed, TypeOK
<1> QED BY <1>1, <1>2, <1>3, <1>4, <1>5 DEF TypeOK

(* How a process goes on: what it has counted, and where it may end.       *)
Moves(p, q) ==
    \/ p = "start" /\ mess'.ndeb = mess.ndeb + 1 /\ mess'.nfin = mess.nfin
       /\ q \in {"work", "dead"}
    \/ p = "closing" /\ mess'.ndeb = mess.ndeb /\ mess'.nfin = mess.nfin + 1
       /\ q = "closed"
    \/ /\ mess'.ndeb = mess.ndeb /\ mess'.nfin = mess.nfin
       /\ \/ p = "work" /\ q \in {"work", "saving"}
          \/ p = "saving" /\ q = "pickled"
          \/ p = "pickled" /\ q = "closing"
          \/ p = "closed" /\ q = "signing"
          \/ p = "signing" /\ q = "signed"
          \/ p # "none" /\ q = "dead"

LEMMA ProcessMoves ==
    ASSUME Typed, NEW i \in Files, Process(i)
    PROVE  /\ i = idx /\ proc' = [proc EXCEPT ![i] = proc'[i]]
           /\ Moves(proc[i], proc'[i])
           /\ proc[i] \notin {"none", "dead"}
           /\ \A j \in Files : j # i \/ proc'[i] # "work" \/ proc[i] # "start"
                                => from'[j] = from[j]
<1> USE DEF Goes, Dies, Header
<1>p. /\ i = idx /\ Step(i) /\ proc[i] \notin {"none", "dead"}
    BY ProcessIsPresent
<1>t. /\ proc \in [Files -> Phases] /\ from \in [Files -> Content]
      /\ mess \in [marks : SUBSET (Marks \cup {"CpuLimit"}), ndeb : 0..N, nfin : 0..N]
    BY DEF Typed, TypeOK
<1>1. /\ proc' = [proc EXCEPT ![i] = proc'[i]]
      /\ Moves(proc[i], proc'[i])
  <2> USE <1>t, <1>p DEF Moves
  <2>1. CASE Debut(i) BY <2>1 DEF Debut
  <2>2. CASE Poursuite(i) BY <2>2 DEF Poursuite
  <2>3. CASE RefusePoursuite(i) BY <2>3 DEF RefusePoursuite
  <2>4. CASE Spill(i) BY <2>4 DEF Spill, process
  <2>5. CASE Message(i) BY <2>5 DEF Message
  <2>6. CASE StartSave(i) BY <2>6 DEF StartSave
  <2>7. CASE SaveNames(i) BY <2>7 DEF SaveNames
  <2>8. CASE StartClosing(i) BY <2>8 DEF StartClosing
  <2>9. CASE op9999(i) BY <2>9 DEF op9999
  <2>10. CASE StartSign(i) BY <2>10 DEF StartSign
  <2>11. CASE Sign(i) BY <2>11 DEF Sign
  <2>12. CASE Finish(i) BY <2>12 DEF Finish
  <2>13. CASE Quit(i) BY <2>13 DEF Quit
  <2>14. CASE Fail(i) BY <2>14 DEF Fail
  <2>15. CASE Kill(i)
    <3>1. PICK c \in {137, -9} : Dies(i, c)
        BY <2>15 DEF Kill
    <3> QED BY <2>15, <3>1 DEF Kill
  <2> QED BY <2>1, <2>2, <2>3, <2>4, <2>5, <2>6, <2>7, <2>8, <2>9, <2>10,
             <2>11, <2>12, <2>13, <2>14, <2>15 DEF Step
<1>2. \A j \in Files : j # i \/ proc'[i] # "work" \/ proc[i] # "start" => from'[j] = from[j]
  <2> USE <1>t, <1>p
  <2>1. CASE Poursuite(i) BY <2>1 DEF Poursuite
  <2>2. CASE UNCHANGED from BY <2>2
  <2> QED BY <1>p, <2>1, <2>2
        DEF Step, Debut, RefusePoursuite, Spill, process, Message, StartSave, SaveNames,
            StartClosing, op9999, StartSign, Sign, Finish, Quit, Fail, Kill
<1> QED BY <1>p, <1>1, <1>2

LEMMA StepCounts ==
    ASSUME Typed, NEW i \in Files, Process(i) PROVE Counts' /\ Course'
<1>p. /\ i = idx /\ idx \in Nat /\ idx > 0 /\ i \in Nat /\ pc # "done"
      /\ UNCHANGED <<pc, idx, orphans>> /\ idx' = i
    BY ProcessIsPresent DEF launcher
<1>m. /\ proc' = [proc EXCEPT ![i] = proc'[i]]
      /\ Moves(proc[i], proc'[i])
      /\ proc[i] \notin {"none", "dead"}
      /\ \A j \in Files : j # i \/ proc'[i] # "work" \/ proc[i] # "start"
                          => from'[j] = from[j]
    BY ProcessMoves
<1>t. /\ proc \in [Files -> Phases] /\ mess.ndeb \in Int /\ mess.nfin \in Int
    BY DEF Typed, TypeOK
<1>q. \A j \in Files : j # i => proc'[j] = proc[j]
    BY <1>m, <1>t
<1> DEFINE p == proc[i]
           q == proc'[i]
<1>1. Counts'
  <2>1. /\ p = "start" => mess.ndeb <= i - 1
        /\ p # "start" => mess.ndeb <= i
        /\ p \in {"start", "work", "saving", "pickled", "closing"} => mess.nfin <= i - 1
        /\ p \notin {"start", "work", "saving", "pickled", "closing"} => mess.nfin <= i
      BY <1>p DEF Typed, Counts, Begun, Ended
  <2>2. /\ mess'.ndeb <= i /\ q # "start"
        /\ mess'.nfin <= i
        /\ q \in {"work", "saving", "pickled", "closing"} => mess'.nfin <= i - 1
      BY <2>1, <1>m, <1>t, <1>p DEF Moves
  <2> QED BY <2>2, <1>p DEF Counts, Begun, Ended
<1>2. Course'
  <2>1. q # "none" /\ q # "start"
      BY <1>m DEF Moves
  <2>2. \A j \in Files : proc'[j] = "none" <=> proc[j] = "none"
      BY <1>m, <1>q, <2>1
  <2>3. \A j \in Files : proc'[j] \in {"none", "start"} => from'[j] = None
      BY <1>m, <1>q, <2>1 DEF Typed, Course
  <2>4. pc = "wait" \/ orphans # {}
      BY <1>p, <1>m DEF Typed, Course
  <2> QED BY <1>p, <2>1, <2>2, <2>3, <2>4 DEF Typed, Course
<1> QED BY <1>1, <1>2

(* The launcher.                                                           *)
LEMMA LaunchTyped ==
    ASSUME Typed, Launch PROVE Typed'
<1>t. /\ idx \in Nat /\ idx < N /\ N \in Nat /\ proc \in [Files -> Phases]
      /\ idx + 1 \in Files /\ mess.ndeb \in Int /\ mess.nfin \in Int
    BY NAssumption DEF Launch, Typed, TypeOK, Course, Files
<1>1. TypeOK'
    BY <1>t, NAssumption DEF Launch, Typed, TypeOK, Phases
<1>2. Counts'
  <2>1. mess.ndeb <= idx /\ mess.nfin <= idx
      BY <1>t DEF Typed, Counts, Begun, Ended
  <2>2. idx' = idx + 1 /\ proc'[idx + 1] = "start" /\ mess' = mess
      BY <1>t DEF Launch
  <2> QED BY <1>t, <2>1, <2>2 DEF Counts, Begun, Ended
<1>3. Course'
  <2>1. /\ \A i \in Files : i # idx + 1 => proc'[i] = proc[i]
        /\ proc'[idx + 1] = "start" /\ from' = from /\ idx' = idx + 1 /\ pc' = "wait"
      BY <1>t DEF Launch
  <2>2. proc[idx + 1] = "none"
      BY <1>t DEF Typed, Course
  <2>3. \A i \in Files : proc'[i] = "none" <=> i > idx + 1
    <3> SUFFICES ASSUME NEW i \in Files PROVE proc'[i] = "none" <=> i > idx + 1
        OBVIOUS
    <3>1. CASE i = idx + 1 BY <2>1, <3>1, <1>t
    <3>2. CASE i # idx + 1 BY <2>1, <3>2, <1>t DEF Typed, Course, Files
    <3> QED BY <3>1, <3>2
  <2>4. \A i \in Files : proc'[i] \in {"none", "start"} => from'[i] = None
      BY <2>1, <2>2 DEF Typed, Course
  <2> QED BY <2>1, <2>3, <2>4, <1>t DEF Course
<1> QED BY <1>1, <1>2, <1>3 DEF Typed

(* What Return and Timeout have in common.                                 *)
LEMMA JudgeTyped ==
    ASSUME Typed, pc = "wait", NEW c \in ExitCodes, Judge(c),
           exitcode' \in [Files -> ExitCodes], exitfile' \in ExitCodes \cup {None},
           proc' \in [Files -> Phases], orphans' \in SUBSET Files,
           orphans \subseteq orphans', orphans' = {} => proc'[idx] = "dead",
           \A i \in Files :
              proc'[i] = proc[i] \/ (proc'[i] = "dead" /\ proc[i] \notin {"none", "dead"})
    PROVE  Typed'
<1>1. PICK s, k :
              /\ s \subseteq Bits /\ Shown(s)
              /\ c \in ExitCodes => k \in StatusCodes
              /\ prec' = IF Completed(s) /\ ~Last THEN Copy(cwd, prec) ELSE prec
              /\ cwd' = IF Completed(s) THEN cwd ELSE Copy(prec, cwd)
              /\ forced \in BOOLEAN => forced' \in BOOLEAN /\ (~forced' => ~forced)
              /\ status' = [state |-> Effective(status.state \cup s),
                            code |-> Worst(status.code, k)]
              /\ states' = Append(states, s)
              /\ codes' = Append(codes, k)
              /\ pc' = IF Completed(Effective(status.state \cup s)) /\ ~Last
                       THEN "next" ELSE "ending"
              /\ UNCHANGED <<export, idx, from, late, mess, out>>
    BY JudgeGives, Zenon
<1>t. /\ idx \in 0..N /\ N \in Nat /\ idx > 0 /\ idx \in Files
      /\ proc \in [Files -> Phases] /\ mess.ndeb \in Int /\ mess.nfin \in Int
    BY NAssumption DEF Typed, TypeOK, Course, Files
<1>2. TypeOK'
  <2>1. cwd' \in Directory /\ prec' \in Directory
      BY <1>1, CopyIsADirectory DEF Typed, TypeOK
  <2>2. status' \in [state : SUBSET Bits, code : StatusCodes]
    <3>1. status.state \in SUBSET Bits /\ status.code \in StatusCodes
        BY DEF Typed, TypeOK
    <3>2. Effective(status.state \cup s) \subseteq Bits
        BY <1>1, <3>1, EffectiveIsShown
    <3>3. Worst(status.code, k) \in StatusCodes
        BY <1>1, <3>1, WorstIsACode
    <3> QED BY <1>1, <3>2, <3>3
  <2>3. states' \in Seq(SUBSET Bits) /\ codes' \in Seq(StatusCodes)
      BY <1>1 DEF Typed, TypeOK
  <2>4. pc' \in {"next", "ending"} /\ forced' \in BOOLEAN
      BY <1>1 DEF Typed, TypeOK
  <2> QED BY <1>1, <2>1, <2>2, <2>3, <2>4 DEF Typed, TypeOK
<1>3. Counts'
  <2>1. /\ proc'[idx] = "start" => proc[idx] = "start"
        /\ proc'[idx] \in {"start", "work", "saving", "pickled", "closing"} =>
              proc[idx] \in {"start", "work", "saving", "pickled", "closing"}
      BY <1>t
  <2>2. idx' = idx /\ mess' = mess
      BY <1>1
  <2> QED BY <2>1, <2>2, <1>t DEF Typed, Counts, Begun, Ended
<1>4. Course'
  <2>1. pc' = "next" => idx < N
      BY <1>1, <1>t DEF Last
  <2>2. pc' # "wait" /\ idx' = idx /\ from' = from
      BY <1>1
  <2>3. \A i \in Files : proc'[i] = "none" <=> i > idx
      BY <1>t DEF Typed, Course
  <2>4. \A i \in Files : proc'[i] \in {"none", "start"} => from[i] = None
      BY DEF Typed, Course
  <2> QED BY <2>1, <2>2, <2>3, <2>4, <1>t DEF Course
<1> QED BY <1>2, <1>3, <1>4 DEF Typed

(* The exit code that is read, and what happens to the process meanwhile.  *)
LEMMA ReturnJudges ==
    ASSUME Typed, Return
    PROVE  /\ pc = "wait" /\ UNCHANGED <<proc, orphans>> /\ proc[idx] = "dead"
           /\ exitfile' = None /\ exitcode' = [exitcode EXCEPT ![idx] = 0]
           /\ \E c \in ExitCodes :
                 Judge(c) /\ (c = exitcode[idx] \/ (exitfile # None /\ c = exitfile))
<1>1. idx \in Files
    BY NAssumption DEF Return, Typed, TypeOK, Course, Files
<1>2. exitcode[idx] \in ExitCodes /\ exitfile \in ExitCodes \cup {None}
    BY <1>1 DEF Typed, TypeOK
<1>3. CASE exitfile # None
    BY <1>2, <1>3 DEF Return
<1>4. CASE exitfile = None
    BY <1>2, <1>4 DEF Return
<1> QED BY <1>3, <1>4

LEMMA StepIsTyped == Typed /\ [Next]_vars => Typed'
<1> SUFFICES ASSUME Typed, [Next]_vars PROVE Typed'
    OBVIOUS
<1>1. ASSUME NEW i \in Files, Process(i) PROVE Typed'
    BY <1>1, StepTyped, StepCounts DEF Typed
<1>2. CASE Launch
    BY <1>2, LaunchTyped
<1>3. CASE Return
  <2>1. PICK c \in ExitCodes : Judge(c)
      BY <1>3, ReturnJudges
  <2>2. /\ pc = "wait" /\ UNCHANGED <<proc, orphans>> /\ proc[idx] = "dead"
        /\ exitfile' = None /\ exitcode' = [exitcode EXCEPT ![idx] = 0]
      BY <1>3, ReturnJudges
  <2>3. /\ exitcode' \in [Files -> ExitCodes] /\ exitfile' \in ExitCodes \cup {None}
        /\ proc' \in [Files -> Phases] /\ orphans' \in SUBSET Files
        /\ orphans \subseteq orphans' /\ proc'[idx] = "dead"
        /\ \A i \in Files : proc'[i] = proc[i]
      BY <2>2 DEF Typed, TypeOK, ExitCodes
  <2> QED BY <2>1, <2>2, <2>3, JudgeTyped
<1>4. CASE Timeout
  <2>1. Judge(-9) /\ -9 \in ExitCodes /\ pc = "wait" /\ idx \in Files
      BY <1>4, NAssumption DEF Timeout, ExitCodes, Typed, TypeOK, Course, Files
  <2>2. /\ exitcode' \in [Files -> ExitCodes] /\ exitfile' \in ExitCodes \cup {None}
      BY <1>4 DEF Timeout, Typed, TypeOK
  <2>3. /\ proc' \in [Files -> Phases] /\ orphans' \in SUBSET Files
        /\ orphans \subseteq orphans' /\ (orphans' = {} => proc'[idx] = "dead")
        /\ \A i \in Files :
              proc'[i] = proc[i] \/ (proc'[i] = "dead" /\ proc[i] \notin {"none", "dead"})
    <3>1. proc \in [Files -> Phases] /\ orphans \in SUBSET Files
          /\ proc[idx] \notin {"none", "dead"}
        BY <1>4 DEF Timeout, Alive, Typed, TypeOK
    <3>2. CASE proc' = [proc EXCEPT ![idx] = "dead"] /\ UNCHANGED orphans
        BY <3>1, <3>2, <2>1 DEF Phases
    <3>3. CASE orphans' = orphans \cup {idx} /\ UNCHANGED proc
        BY <3>1, <3>3, <2>1
    <3> QED BY <1>4, <3>2, <3>3 DEF Timeout
  <2> QED BY <2>1, <2>2, <2>3, JudgeTyped
<1>5. CASE Ending
  <2>1. TypeOK'
    <3>1. Copy(cwd, out) \in Directory
        BY CopyIsADirectory DEF Typed, TypeOK
    <3>2. out' \in Directory
        BY <1>5, <3>1 DEF Ending, Typed, TypeOK
    <3> QED BY <1>5, <3>2 DEF Ending, Typed, TypeOK, process
  <2>2. Counts' /\ Course'
      BY <1>5 DEF Ending, Typed, Counts, Begun, Ended, Course, process
  <2> QED BY <2>1, <2>2 DEF Typed
<1>6. CASE UNCHANGED vars
    BY <1>6 DEF vars, process, launcher, Typed, TypeOK, Counts, Begun, Ended, Course
<1> QED BY <1>1, <1>2, <1>3, <1>4, <1>5, <1>6 DEF Next, Launcher

LEMMA InitIsTyped == Init => Typed
<1> SUFFICES ASSUME Init PROVE Typed
    OBVIOUS
<1>1. /\ Nothing \in Directory /\ None \in Content /\ N \in Nat /\ N > 0
    BY Contents, NAssumption
<1>2. TypeOK
  <2>1. /\ pc \in {"next", "wait", "ending", "done"} /\ idx \in 0..N
        /\ orphans \in SUBSET Files
      BY <1>1 DEF Init
  <2>7. forced \in BOOLEAN
      BY Zenon DEF Init
  <2>e. export \in [tee : BOOLEAN, test : BOOLEAN, expected : Expected,
                    continue : [Files -> BOOLEAN], given : BOOLEAN]
      BY Zenon DEF Init
  <2>2. /\ proc \in [Files -> Phases] /\ from \in [Files -> Content]
        /\ late \in [Files -> BOOLEAN] /\ exitcode \in [Files -> ExitCodes]
        /\ exitfile \in ExitCodes \cup {None}
      BY <1>1 DEF Init, Phases, ExitCodes
  <2>3. mess \in [marks : SUBSET (Marks \cup {"CpuLimit"}), ndeb : 0..N, nfin : 0..N]
      BY <1>1 DEF Init
  <2>4. cwd \in Directory /\ prec \in Directory /\ out \in Directory
      BY <1>1 DEF Init
  <2>5. status \in [state : SUBSET Bits, code : StatusCodes]
      BY DEF Init, StatusCodes
  <2>6. states \in Seq(SUBSET Bits) /\ codes \in Seq(StatusCodes)
      BY DEF Init
  <2> QED BY <2>1, <2>7, <2>e, <2>2, <2>3, <2>4, <2>5, <2>6 DEF TypeOK
<1>3. Counts /\ Course
    BY <1>1, <1>2 DEF Init, Counts, Begun, Ended, Course, Files
<1> QED BY <1>2, <1>3 DEF Typed

(* Types, for any number of command files.                                 *)
THEOREM TypeCorrect == Spec => []TypeOK
<1>1. Typed => TypeOK
    BY DEF Typed
<1> QED BY <1>1, InitIsTyped, StepIsTyped, PTL DEF Spec

-----------------------------------------------------------------------------
(* What the files are.                                                     *)

LEMMA CopyIsOneSave ==
    ASSUME NEW a \in Directory, NEW b \in Directory, NEW f,
           OneSave(a, f), OneSave(b, f)
    PROVE  OneSave(Copy(a, b), f)
<1>1. \/ Copy(a, b).head = a.head /\ Copy(a, b).tail = a.tail
      \/ Copy(a, b).head = b.head /\ Copy(a, b).tail = b.tail
    BY DEF Copy, Over, OneSave
<1>2. Copy(a, b).sha \in {a.sha, b.sha}
    BY DEF Copy, Over
<1> QED BY <1>1, <1>2 DEF OneSave

LEMMA SavedIsOneSave ==
    ASSUME NEW k \in 0..N, NEW f PROVE OneSave(Saved(k), f)
BY Contents DEF OneSave, Saved

LEMMA NothingIsOneSave ==
    ASSUME NEW f PROVE OneSave(Nothing, f)
<1>1. None \notin 0..N
    BY ValueAssumption, NAssumption
<1> QED BY <1>1 DEF OneSave, Nothing

(* A process restarts once only.                                           *)
LEMMA OneSaveStays ==
    ASSUME Typed, NEW i \in Files, Process(i), NEW dir, OneSave(dir, from)
    PROVE  OneSave(dir, from')
<1>1. None \notin 0..N
    BY ValueAssumption, NAssumption
<1>2. \A j \in Files : from[j] # None => from'[j] = from[j]
    BY ProcessMoves DEF Typed, Course
<1> QED BY <1>1, <1>2 DEF OneSave

LEMMA HereIsOneSave ==
    ASSUME cwd \in Directory, NEW i, NEW f, OneSave(cwd, f)
    PROVE  OneSave(Here(i), f)
<1>1. 0 \in 0..N
    BY NAssumption
<1>2. Copy(Saved(0), cwd) = Saved(0)
    BY <1>1, CopyOfSaved
<1> QED BY <1>1, <1>2, SavedIsOneSave DEF Here

(* What each step of a process does to the files.                          *)
LEMMA StepFiles ==
    ASSUME IInv, NEW i \in Files, Process(i), orphans = {}
    PROVE  Phase(i, proc'[i], cwd', from'[i]) /\ OneSave(cwd', from')
<1> USE DEF Goes, Dies
<1>p. /\ i = idx /\ idx \in Nat /\ idx > 0 /\ Step(i) /\ i \in 1..N
      /\ pc = "wait" /\ proc[i] \notin {"none", "dead"}
    BY ProcessIsPresent DEF IInv, Typed, Course, Files
<1>c. /\ i \in Content /\ -i \in Content /\ None \in Content
      /\ cwd \in Directory /\ Here(i) \in Directory
      /\ i # None /\ -i # None /\ -i \notin 0..N /\ None \notin 0..N
      /\ i \in 0..N
  <2>1. None \notin 0..N
      BY ValueAssumption, NAssumption
  <2>2. cwd \in Directory
      BY DEF IInv, Typed, TypeOK
  <2>3. -i \notin 0..N /\ i \in 0..N
      BY <1>p, NAssumption
  <2> QED BY <2>1, <2>2, <2>3, Contents, HereIsADirectory
<1>t. proc \in [Files -> Phases] /\ from \in [Files -> Content]
    BY DEF IInv, Typed, TypeOK
<1>s. /\ OneSave(cwd, from') /\ OneSave(Here(i), from')
      /\ Phase(i, proc[i], cwd, from[i])
  <2>1. OneSave(cwd, from)
      BY DEF IInv, Sound
  <2>2. OneSave(cwd, from')
      BY <2>1, OneSaveStays DEF IInv
  <2> QED BY <2>2, <1>c, <1>p, HereIsOneSave DEF IInv, AtWork
<1>h. /\ Here(i).head = None <=> Here(i).tail = None
      /\ Here(i).sha \in {None, Torn} \cup {<<k, k, k>> : k \in 0..N}
    BY <1>s DEF OneSave
<1>o. /\ cwd.head = None <=> cwd.tail = None
      /\ cwd.sha \in {None, Torn} \cup {<<k, k, k>> : k \in 0..N}
    BY <1>s DEF OneSave
<1>1. CASE Debut(i)
  <2>1. cwd' = WithBase(Here(i), -i) /\ proc'[i] = "work"
      BY <1>1, <1>t DEF Debut
  <2>2. cwd'.head = -i /\ cwd'.tail = -i /\ cwd'.sha = Here(i).sha
      BY <2>1 DEF WithBase
  <2> QED BY <2>1, <2>2, <1>c, <1>h DEF Phase, OneSave
<1>2. CASE Poursuite(i)
  <2>1. /\ cwd' = Here(i) /\ proc'[i] = "work" /\ Here(i).head # None
        /\ from'[i] = Here(i).head
      BY <1>2, <1>t DEF Poursuite, canRestart
  <2> QED BY <2>1, <1>h, <1>s DEF Phase
<1>3. CASE RefusePoursuite(i)
  <2>1. proc'[i] = "dead" /\ (cwd' = Here(i) \/ cwd' = WithBase(Here(i), None))
      BY <1>3, <1>t DEF RefusePoursuite
  <2>2. OneSave(WithBase(Here(i), None), from')
      BY <1>h, <1>c DEF WithBase, OneSave
  <2> QED BY <2>1, <2>2, <1>s DEF Phase
<1>4. CASE Spill(i)
  <2>1. /\ proc[i] = "work" /\ proc' = proc /\ from' = from
        /\ cwd' = [cwd EXCEPT !.head = -i] \/ cwd' = [cwd EXCEPT !.tail = -i]
      BY <1>4 DEF Spill, process
  <2>2. cwd.head # None /\ cwd.tail # None /\ (cwd.head = -i \/ cwd.head = from[i])
      BY <2>1, <1>s DEF Phase
  <2>3. /\ cwd'.sha = cwd.sha
        /\ \/ cwd'.head = -i /\ cwd'.tail = cwd.tail
           \/ cwd'.head = cwd.head /\ cwd'.tail = -i
      BY <2>1, <1>c DEF Directory
  <2> QED BY <2>1, <2>2, <2>3, <1>c, <1>o DEF Phase, OneSave
<1>5. CASE Message(i)
    BY <1>5, <1>s DEF Message
<1>6. CASE StartSave(i)
  <2>1. cwd' = WithObjects(cwd, -i, cwd.info) /\ proc'[i] = "saving"
      BY <1>6, <1>t DEF StartSave
  <2> QED BY <2>1, <1>s DEF WithObjects, Phase, OneSave
<1>7. CASE SaveNames(i)
  <2>1. cwd' = WithObjects(cwd, i, -i) /\ proc'[i] = "pickled"
      BY <1>7, <1>t DEF SaveNames
  <2> QED BY <2>1, <1>s DEF WithObjects, Phase, OneSave
<1>8. CASE StartClosing(i)
  <2>1. cwd' = WithObjects(WithBase(cwd, -i), i, i) /\ proc'[i] = "closing"
      BY <1>8, <1>t DEF StartClosing
  <2>2. /\ cwd'.pick = i /\ cwd'.info = i /\ cwd'.head = -i /\ cwd'.tail = -i
        /\ cwd'.sha = cwd.sha
      BY <2>1 DEF WithObjects, WithBase
  <2> QED BY <2>1, <2>2, <1>c, <1>o DEF Phase, OneSave
<1>9. CASE op9999(i)
  <2>1. cwd' = WithBase(cwd, i) /\ proc'[i] = "closed" /\ proc[i] = "closing"
      BY <1>9, <1>t DEF op9999
  <2>2. /\ cwd'.pick = i /\ cwd'.info = i /\ cwd'.head = i /\ cwd'.tail = i
        /\ cwd'.sha = cwd.sha
      BY <2>1, <1>s DEF WithBase, Phase
  <2> QED BY <2>1, <2>2, <1>c, <1>o DEF Phase, OneSave
<1>10. CASE StartSign(i)
  <2>1. cwd' = [cwd EXCEPT !.sha = Torn] /\ proc'[i] = "signing" /\ proc[i] = "closed"
      BY <1>10, <1>t DEF StartSign
  <2>2. /\ cwd'.pick = i /\ cwd'.info = i /\ cwd'.head = i /\ cwd'.tail = i
        /\ cwd'.sha = Torn
      BY <2>1, <1>s, <1>c DEF Directory, Phase
  <2> QED BY <2>1, <2>2, <1>c DEF Phase, OneSave
<1>11. CASE Sign(i)
  <2>1. /\ cwd' = [cwd EXCEPT !.sha = <<cwd.pick, cwd.info, cwd.head>>]
        /\ proc'[i] = "signed" /\ proc[i] = "signing"
      BY <1>11, <1>t DEF Sign
  <2>2. cwd.pick = i /\ cwd.info = i /\ cwd.head = i /\ cwd.tail = i
      BY <2>1, <1>s DEF Phase
  <2>3. cwd' = Saved(i)
      BY <2>1, <2>2, <1>c DEF Directory, Saved
  <2> QED BY <2>1, <2>3, <1>c, SavedIsOneSave DEF Phase
<1>12. CASE Finish(i)
  <2>1. proc'[i] = "dead" /\ cwd' = cwd
      BY <1>12, <1>t DEF Finish
  <2> QED BY <2>1, <1>s DEF Phase
<1>13. CASE Quit(i) \/ Fail(i)
  <2>1. proc'[i] = "dead" /\ (cwd' = cwd \/ cwd' = WithBase(cwd, None))
      BY <1>13, <1>t DEF Quit, Fail
  <2>2. OneSave(WithBase(cwd, None), from')
      BY <1>o, <1>c DEF WithBase, OneSave
  <2> QED BY <2>1, <2>2, <1>s DEF Phase
<1>14. CASE Kill(i)
  <2>1. PICK c \in {137, -9} : Dies(i, c)
      BY <1>14 DEF Kill
  <2>2. proc'[i] = "dead" /\ cwd' = cwd
      BY <1>14, <2>1, <1>t DEF Kill
  <2> QED BY <2>2, <1>s DEF Phase
<1> QED BY <1>p, <1>1, <1>2, <1>3, <1>4, <1>5, <1>6, <1>7, <1>8, <1>9, <1>10,
           <1>11, <1>12, <1>13, <1>14 DEF Step

LEMMA StepSound == IInv /\ [Next]_vars => AtWork' /\ Sound'
<1> SUFFICES ASSUME IInv, [Next]_vars PROVE AtWork' /\ Sound'
    OBVIOUS
<1>t. cwd \in Directory /\ prec \in Directory
    BY DEF IInv, Typed, TypeOK
<1>1. ASSUME NEW i \in Files, Process(i) PROVE AtWork' /\ Sound'
  <2>1. i = idx /\ idx' = idx /\ prec' = prec /\ orphans' = orphans
      BY <1>1, ProcessIsPresent DEF IInv, launcher
  <2>2. CASE orphans = {}
    <3>1. Phase(i, proc'[i], cwd', from'[i]) /\ OneSave(cwd', from')
        BY <1>1, <2>2, StepFiles
    <3>2. OneSave(prec, from')
        BY <1>1, <2>2, OneSaveStays DEF IInv, Sound
    <3> QED BY <2>1, <3>1, <3>2 DEF AtWork, Sound
  <2>3. CASE orphans # {}
      BY <2>1, <2>3 DEF AtWork, Sound
  <2> QED BY <2>2, <2>3
<1>2. CASE Launch
  <2>1. /\ pc = "next" /\ idx + 1 \in Files /\ proc'[idx + 1] = "start" /\ idx' = idx + 1
        /\ UNCHANGED <<cwd, prec, from, orphans>>
      BY <1>2, NAssumption DEF Launch, IInv, Typed, TypeOK, Course, Files
  <2> QED BY <2>1 DEF IInv, AtWork, Sound, Phase
<1>3. ASSUME NEW c, Judge(c), orphans \subseteq orphans' PROVE AtWork' /\ Sound'
  <2>1. PICK s, k :
           /\ prec' = IF Completed(s) /\ ~Last THEN Copy(cwd, prec) ELSE prec
           /\ cwd' = IF Completed(s) THEN cwd ELSE Copy(prec, cwd)
           /\ pc' = IF Completed(Effective(status.state \cup s)) /\ ~Last
                    THEN "next" ELSE "ending"
           /\ UNCHANGED <<export, idx, from, late, mess, out>>
      BY <1>3, JudgeGives, Zenon
  <2>2. ASSUME orphans = {} PROVE OneSave(cwd', from') /\ OneSave(prec', from')
    <3>1. OneSave(cwd, from) /\ OneSave(prec, from)
        BY <2>2 DEF IInv, Sound
    <3>2. OneSave(Copy(cwd, prec), from) /\ OneSave(Copy(prec, cwd), from)
        BY <3>1, <1>t, CopyIsOneSave
    <3> QED BY <2>1, <3>1, <3>2
  <2> QED BY <2>1, <2>2, <1>3 DEF AtWork, Sound
<1>4. CASE Return
  <2>1. PICK c \in ExitCodes : Judge(c)
      BY <1>4, ReturnJudges DEF IInv
  <2> QED BY <2>1, <1>3, <1>4 DEF Return
<1>5. CASE Timeout
  <2>1. Judge(-9) /\ orphans \subseteq orphans'
      BY <1>5 DEF Timeout
  <2> QED BY <2>1, <1>3
<1>6. CASE Ending
    BY <1>6 DEF Ending, process, IInv, AtWork, Sound
<1>7. CASE UNCHANGED vars
    BY <1>7 DEF vars, process, launcher, IInv, AtWork, Sound
<1> QED BY <1>1, <1>2, <1>4, <1>5, <1>6, <1>7 DEF Next, Launcher

-----------------------------------------------------------------------------
(* What the study is, as long as no diagnosis was expected.                *)

(* The exit code of a process says 0 only if it has saved or has quit.     *)
LEMMA StepCodes ==
    ASSUME Typed, NEW i \in Files, Process(i)
    PROVE  /\ proc'[i] # "dead" => exitfile' = exitfile
           /\ proc'[i] = "dead" => exitfile' \in {exitfile, exitcode'[i]}
           /\ proc'[i] = "dead" /\ exitcode'[i] = 0 =>
                 /\ mess' = mess
                 /\ (proc[i] = "signed" /\ cwd' = cwd) \/ proc[i] = "work"
<1> USE DEF Goes, Dies
<1>p. i = idx /\ Step(i)
    BY ProcessIsPresent
<1>t. proc \in [Files -> Phases] /\ exitcode \in [Files -> ExitCodes]
    BY DEF Typed, TypeOK
<1>1. CASE Debut(i) BY <1>1, <1>t DEF Debut
<1>2. CASE Poursuite(i) BY <1>2, <1>t DEF Poursuite
<1>3. CASE RefusePoursuite(i) BY <1>3, <1>t DEF RefusePoursuite
<1>4. CASE Spill(i) BY <1>4, <1>t DEF Spill, process
<1>5. CASE Message(i) BY <1>5, <1>t DEF Message
<1>6. CASE StartSave(i) BY <1>6, <1>t DEF StartSave
<1>7. CASE SaveNames(i) BY <1>7, <1>t DEF SaveNames
<1>8. CASE StartClosing(i) BY <1>8, <1>t DEF StartClosing
<1>9. CASE op9999(i) BY <1>9, <1>t DEF op9999
<1>10. CASE StartSign(i) BY <1>10, <1>t DEF StartSign
<1>11. CASE Sign(i) BY <1>11, <1>t DEF Sign
<1>12. CASE Finish(i) BY <1>12, <1>t DEF Finish
<1>13. CASE Quit(i) BY <1>13, <1>t DEF Quit
<1>14. CASE Fail(i) BY <1>14, <1>t DEF Fail
<1>15. CASE Kill(i)
  <2>1. PICK c \in {137, -9} : Dies(i, c)
      BY <1>15 DEF Kill
  <2> QED BY <1>15, <2>1, <1>t DEF Kill
<1> QED BY <1>p, <1>1, <1>2, <1>3, <1>4, <1>5, <1>6, <1>7, <1>8, <1>9, <1>10,
           <1>11, <1>12, <1>13, <1>14, <1>15 DEF Step

LEMMA ProcessUnforced ==
    ASSUME IInv, NEW i \in Files, Process(i) PROVE Unforced'
<1> SUFFICES ASSUME ~forced' PROVE Unforced'
    BY DEF Unforced
<1>p. /\ i = idx /\ idx \in Nat /\ idx > 0 /\ proc[idx] \notin {"none", "dead"}
      /\ UNCHANGED <<pc, idx, prec, out, status, forced, orphans>> /\ pc # "done"
    BY ProcessIsPresent DEF IInv, launcher
<1>1. CASE pc # "wait"
  <2>1. orphans # {}
      BY <1>1, <1>p DEF IInv, Typed, Course
  <2> QED BY <1>1, <1>p, <2>1 DEF IInv, Unforced
<1>2. CASE pc = "wait"
  <2>1. orphans = {} /\ Exact(proc[i])
      BY <1>2, <1>p DEF IInv, Unforced
  <2>2. Phase(i, proc[i], cwd, from[i])
      BY <1>2, <1>p, <2>1 DEF IInv, AtWork
  <2>m. Moves(proc[i], proc'[i]) /\ mess.ndeb \in Int /\ mess.nfin \in Int
      BY ProcessMoves DEF IInv, Typed, TypeOK
  <2>e. exitfile = None
      BY <1>p, <2>1 DEF Exact
  <2>c. /\ proc'[i] # "dead" => exitfile' = exitfile
        /\ proc'[i] = "dead" => exitfile' \in {exitfile, exitcode'[i]}
        /\ proc'[i] = "dead" /\ exitcode'[i] = 0 =>
              /\ mess' = mess
              /\ (proc[i] = "signed" /\ cwd' = cwd) \/ proc[i] = "work"
      BY StepCodes DEF IInv
  <2>3. Exact(proc[idx])'
    <3>1. proc'[i] \in {"work", "saving", "pickled", "closing"} =>
             mess'.ndeb = idx /\ mess'.nfin = idx - 1
        BY <1>p, <2>1, <2>m DEF Exact, Moves
    <3>2. proc'[i] \in {"closed", "signing", "signed"} =>
             mess'.ndeb = idx /\ mess'.nfin = idx
        BY <1>p, <2>1, <2>m DEF Exact, Moves
    <3>3. proc'[i] # "start"
        BY <2>m DEF Moves
    <3>4. proc'[i] = "dead" /\ exitcode'[i] = 0 /\ mess'.ndeb = mess'.nfin =>
             cwd' = Saved(i) /\ mess'.ndeb = i
        BY <1>p, <2>1, <2>2, <2>c DEF Exact, Phase
    <3>5. exitfile' # None => proc'[i] = "dead" /\ exitfile' = exitcode'[i]
        BY <2>e, <2>c
    <3> QED BY <1>p, <3>1, <3>2, <3>3, <3>4, <3>5 DEF Exact
  <2> QED BY <1>2, <1>p, <2>1, <2>3 DEF IInv, Unforced
<1> QED BY <1>1, <1>2

LEMMA LaunchUnforced == ASSUME IInv, Launch PROVE Unforced'
<1> SUFFICES ASSUME ~forced' PROVE Unforced'
    BY DEF Unforced
<1>t. /\ idx \in Nat /\ idx < N /\ proc \in [Files -> Phases] /\ idx + 1 \in Files
      /\ pc = "next"
    BY NAssumption DEF Launch, IInv, Typed, TypeOK, Course, Files
<1>1. /\ pc' = "wait" /\ idx' = idx + 1 /\ proc'[idx + 1] = "start" /\ ~forced
      /\ UNCHANGED <<exitcode, exitfile, mess, cwd, prec, out, status, orphans>>
    BY <1>t DEF Launch
<1>2. /\ orphans = {} /\ status.state \cap Error = {}
      /\ mess.ndeb = idx /\ mess.nfin = idx /\ exitfile = None
      /\ idx > 0 => prec = Saved(idx)
      /\ out = Nothing
    BY <1>1, <1>t DEF IInv, Unforced
<1>3. Exact(proc[idx])'
    BY <1>1, <1>2, <1>t DEF Exact
<1>4. idx' > 1 => prec' = Saved(idx' - 1)
    BY <1>1, <1>2, <1>t
<1> QED BY <1>1, <1>2, <1>3, <1>4 DEF Unforced

(* A command file that ends well has left its save; if it does not, the    *)
(* files of BASE_PREC, if there are some, are the save of the one before.  *)
LEMMA JudgeUnforced ==
    ASSUME IInv, pc = "wait", NEW c, Judge(c), ~forced',
           c = 0 /\ mess.ndeb = mess.nfin =>
              /\ cwd = Saved(idx) /\ mess.ndeb = idx
              /\ orphans' = {} /\ exitfile' = None
    PROVE  Unforced'
<1>1. PICK s, k :
        /\ s \subseteq Bits /\ Shown(s)
        /\ Completed(s) /\ ~forced' => c = 0 /\ mess.ndeb = mess.nfin
        /\ prec' = IF Completed(s) /\ ~Last THEN Copy(cwd, prec) ELSE prec
        /\ cwd' = IF Completed(s) THEN cwd ELSE Copy(prec, cwd)
        /\ forced \in BOOLEAN => forced' \in BOOLEAN /\ (~forced' => ~forced)
        /\ status' = [state |-> Effective(status.state \cup s),
                      code |-> Worst(status.code, k)]
        /\ pc' = IF Completed(Effective(status.state \cup s)) /\ ~Last
                 THEN "next" ELSE "ending"
        /\ UNCHANGED <<export, idx, from, late, mess, out>>
    BY JudgeGives, Zenon
<1>t. /\ idx \in 1..N /\ N \in Nat /\ idx \in 0..N
      /\ ~forced /\ status.state \subseteq Bits
    BY <1>1, NAssumption DEF IInv, Typed, TypeOK, Course
<1>2. /\ orphans = {} /\ status.state \cap Error = {} /\ out = Nothing
      /\ idx > 1 => prec = Saved(idx - 1)
    BY <1>t DEF IInv, Unforced
<1> DEFINE join == Effective(status.state \cup s)
<1>j. join = Effective(status.state \cup s)
    OBVIOUS
<1>3. /\ Completed(join) <=> Completed(s)
      /\ Completed(join) => join \cap Error = {}
  <2>1. (status.state \cup s) \subseteq Bits /\ (Completed(s) <=> s \cap Error = {})
      BY <1>1, <1>t DEF Shown, Completed
  <2>2. Completed(s) => s # {}
      BY DEF Completed
  <2>3. Completed(join) <=> s \cap Error = {} /\ status.state \cup s # {}
      BY <1>2, <2>1, EffectiveIsShown
  <2>4. Completed(join) <=> Completed(s)
      BY <2>1, <2>2, <2>3
  <2>5. Completed(s) => Shown(join)
      BY <2>1, <2>2, EffectiveIsShown
  <2> QED BY <2>4, <2>5 DEF Shown, Completed
<1> HIDE DEF join
<1>s. status'.state = join /\ idx' = idx /\ out' = Nothing
    BY <1>1, <1>2, <1>j
<1>4. CASE Completed(s)
  <2>1. /\ cwd' = Saved(idx) /\ mess'.ndeb = idx /\ mess'.nfin = idx
        /\ orphans' = {} /\ exitfile' = None
      BY <1>1, <1>4
  <2>2. ~Last => prec' = Saved(idx)
      BY <1>1, <1>4, <1>t, <2>1, CopyOfSaved
  <2>3. pc' = IF Last THEN "ending" ELSE "next"
      BY <1>1, <1>3, <1>4, <1>j
  <2> QED BY <1>3, <1>4, <1>s, <1>t, <2>1, <2>2, <2>3 DEF Unforced, Last
<1>5. CASE ~Completed(s)
  <2>1. pc' = "ending" /\ ~Completed(status'.state)
      BY <1>1, <1>3, <1>5, <1>j, <1>s
  <2>2. idx > 1 => cwd' = Saved(idx - 1)
    <3>1. idx > 1 => idx - 1 \in 0..N
        BY <1>t
    <3> QED BY <1>1, <1>2, <1>5, <3>1, CopyOfSaved
  <2> QED BY <1>s, <2>1, <2>2 DEF Unforced
<1> QED BY <1>4, <1>5

LEMMA StepUnforced == IInv /\ [Next]_vars => Unforced'
<1> SUFFICES ASSUME IInv, [Next]_vars PROVE Unforced'
    OBVIOUS
<1>f. ASSUME NEW c, Judge(c), ~forced' PROVE ~forced
    BY <1>f DEF Judge
<1>1. CASE \E i \in Files : Process(i)
    BY <1>1, ProcessUnforced
<1>2. CASE Launch
    BY <1>2, LaunchUnforced
<1>3. CASE Return
  <2> SUFFICES ASSUME ~forced' PROVE Unforced'
      BY DEF Unforced
  <2>1. PICK c \in ExitCodes :
           Judge(c) /\ (c = exitcode[idx] \/ (exitfile # None /\ c = exitfile))
      BY <1>3, ReturnJudges DEF IInv
  <2>2. /\ pc = "wait" /\ orphans' = orphans /\ proc[idx] = "dead" /\ exitfile' = None
      BY <1>3, ReturnJudges DEF IInv
  <2>3. ~forced
      BY <2>1, <1>f
  <2>4. orphans = {} /\ Exact("dead")
      BY <2>2, <2>3 DEF IInv, Unforced
  <2>5. c = exitcode[idx]
      BY <2>1, <2>4 DEF Exact
  <2>6. c = 0 /\ mess.ndeb = mess.nfin =>
           /\ cwd = Saved(idx) /\ mess.ndeb = idx
           /\ orphans' = {} /\ exitfile' = None
      BY <2>2, <2>4, <2>5 DEF Exact
  <2> QED BY <2>1, <2>2, <2>6, JudgeUnforced
<1>4. CASE Timeout
  <2> SUFFICES ASSUME ~forced' PROVE Unforced'
      BY DEF Unforced
  <2>1. Judge(-9) /\ pc = "wait" /\ -9 # 0
      BY <1>4 DEF Timeout
  <2> QED BY <2>1, JudgeUnforced
<1>5. CASE Ending
  <2> SUFFICES ASSUME ~forced' PROVE Unforced'
      BY DEF Unforced
  <2>1. /\ pc = "ending" /\ pc' = "done" /\ ~forced
        /\ out' = IF Completed(status.state) /\ ~export.test THEN Copy(cwd, out) ELSE out
        /\ UNCHANGED <<cwd, idx, status, orphans>>
      BY <1>5 DEF Ending
  <2>2. /\ Completed(status.state) => cwd = Saved(N) /\ idx = N
        /\ out = Nothing
      BY <2>1 DEF IInv, Unforced
  <2>3. out' \in {Nothing, Saved(N)}
    <3>1. N \in 0..N
        BY NAssumption
    <3> QED BY <2>1, <2>2, <3>1, CopyOfSaved
  <2> QED BY <2>1, <2>3 DEF IInv, Unforced
<1>6. CASE UNCHANGED vars
    BY <1>6 DEF vars, process, launcher, IInv, Unforced, Exact
<1> QED BY <1>1, <1>2, <1>3, <1>4, <1>5, <1>6 DEF Next, Launcher

LEMMA InitHolds == Init => IInv
<1> SUFFICES ASSUME Init PROVE IInv
    OBVIOUS
<1>1. Typed
    BY InitIsTyped
<1>2. /\ pc = "next" /\ idx = 0 /\ orphans = {} /\ exitfile = None
      /\ cwd = Nothing /\ prec = Nothing /\ out = Nothing
    BY Zenon DEF Init
<1>3. mess.ndeb = 0 /\ mess.nfin = 0 /\ status.state = {}
    BY DEF Init
<1>4. AtWork /\ Sound
    BY <1>2, NothingIsOneSave DEF AtWork, Sound
<1>5. Unforced
    BY <1>2, <1>3 DEF Unforced
<1> QED BY <1>1, <1>4, <1>5 DEF IInv

LEMMA StepHolds == IInv /\ [Next]_vars => IInv'
BY StepIsTyped, StepSound, StepUnforced DEF IInv

-----------------------------------------------------------------------------
(* The theorems.                                                           *)

(* As long as the study is completed and no diagnosis was expected, the    *)
(* working directory and the results are the whole save of the last        *)
(* command file.                                                           *)
THEOREM CompletedAlwaysRestarts == Spec => []CompletedCanRestart
<1>1. IInv => CompletedCanRestart
    BY DEF IInv, Unforced, CompletedCanRestart
<1> QED BY <1>1, InitHolds, StepHolds, PTL DEF Spec

(* After a failure the directory is as the command file before left it.    *)
THEOREM RestoredIsAlwaysLastGood == Spec => []RestoredIsLastGood
<1>1. IInv => RestoredIsLastGood
    BY DEF IInv, Unforced, RestoredIsLastGood
<1> QED BY <1>1, InitHolds, StepHolds, PTL DEF Spec

(* canRestart accepts the files of one save, wherever processes stopped.   *)
THEOREM CanRestartAlwaysMeansOneSave == Spec => []CanRestartMeansOneSave
<1>1. IInv => CanRestartMeansOneSave
  <2> SUFFICES ASSUME IInv, canRestart(cwd), orphans = {}
               PROVE  /\ cwd.head \in 0..N /\ cwd.pick = cwd.head /\ cwd.info = cwd.head
                      /\ \/ cwd.tail = cwd.head
                         \/ \E i \in Files : cwd.tail = -i /\ from[i] = cwd.head
      BY DEF CanRestartMeansOneSave
  <2>1. OneSave(cwd, from) /\ cwd \in Directory
      BY DEF IInv, Typed, TypeOK, Sound
  <2>2. cwd.sha = <<cwd.pick, cwd.info, cwd.head>> /\ cwd.sha # None
      BY DEF canRestart
  <2>3. cwd.sha \in Signatures
      BY <2>1, <2>2 DEF Directory, Signatures
  <2>4. PICK k \in 0..N : cwd.sha = <<k, k, k>>
      BY <2>1, <2>2, <2>3, ValueAssumption DEF OneSave
  <2>5. cwd.pick = k /\ cwd.info = k /\ cwd.head = k
      BY <2>2, <2>4
  <2> QED BY <2>1, <2>5 DEF OneSave
<1> QED BY <1>1, InitHolds, StepHolds, PTL DEF Spec
=============================================================================
