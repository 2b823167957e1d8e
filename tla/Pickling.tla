------------------------------ MODULE Pickling ------------------------------
(***************************************************************************)
(* The pickle file of a study (Supervis/Serializer.py): the objects of the *)
(* context are written one after the other, data structures with their     *)
(* arguments and their state before them and lists item by item before the *)
(* list itself; the names are written apart, and given again, in the same  *)
(* order, to what is read.                                                 *)
(*                                                                         *)
(* save_one, load_one and the pickler are recursive: the work that is left *)
(* is kept in todo, the calls of load_one that are open in calls, the      *)
(* values the unpickler has read in stack.  A dictionary is saved as a     *)
(* list of its values is.  One pickler writes the whole file and keeps one *)
(* memo: what was already dumped is written again as a reference to it.    *)
(***************************************************************************)
EXTENDS Integers, Sequences, FiniteSets, SequencesExt

CONSTANTS Objects,      \* the objects of the study
          Kind,         \* Kind[o]: "plain", "list" or "ds" (DataStructure)
          Items,        \* Items[o]: items of a list, __getinitargs__ of a ds
          StateOf,      \* StateOf[o]: __getstate__ of a ds
          Fails,        \* what pickle refuses, or whose __getstate__ fails
          Protocol,     \* of pickle: 3, or 4 (the default since Python 3.8)
          Contexts      \* the contexts that are tried: objects, by name order

VARIABLES ctxt,         \* the context: the objects, by order of their names
          cur,          \* the index of the name that is being saved, or read
          todo,         \* the calls that save_one and dump have still to make
          memods,       \* the data structures already saved
          memo,         \* the memo of the pickler
          out,          \* what the dump in progress has written
          objList,      \* the names (indices in ctxt) written in the infos file
          stream,       \* what the pickle file holds
          pos,          \* how much of it was read
          rmemo,        \* the memo of the unpickler
          stack,        \* its stack: the values read, the lists open
          pool,         \* the names that are left to give
          calls,        \* the calls of load_one in progress, the innermost last
          ret,          \* what load_one returns, or None
          args, state,  \* of the BufferObject of a ds: <<>> or <<what is read>>
          got,          \* the pairs <<name, object>> that were read
          pc            \* "save", "load", "restored" or "failed"

saving  == <<todo, memods, memo, out, objList, stream>>
reading == <<pos, rmemo, stack, pool, calls, ret, args, state, got>>
vars    == <<ctxt, cur, saving, reading, pc>>

Structures == {o \in Objects : Kind[o] = "ds"}
Lists      == {o \in Objects : Kind[o] = "list"}

ASSUME PicklingAssumption ==
    /\ Kind \in [Objects -> {"plain", "list", "ds"}]
    /\ Items \in [Objects -> Seq(Objects)]
    /\ StateOf \in [Objects -> Seq(Objects)]
    /\ Fails \subseteq Objects /\ Contexts \subseteq Seq(Objects)
    /\ Protocol \in {3, 4}

(* The values of the file.  A string is a mark, the name of a data          *)
(* structure or its persistent identifier; "other" is a list that does not  *)
(* hold what it held.                                                       *)
Obj(o)    == <<"obj", o>>
Open(o)   == <<"open", o>>
Number(n) == <<"int", n>>
Marks     == {"LIST", "ARGS", "STATE"}
Text(t)   == <<"mark", t>>
Name(d)   == <<"name", d>>
Pid(d)    == <<"pid", d>>
Other     == <<"other", 0>>
UNSTACKED == <<"unstacked", 0>>
None      == <<"none", 0>>
IsInt(v)  == v[1] = "int"
IsStr(v)  == v[1] \in {"mark", "name", "pid"}

-----------------------------------------------------------------------------
(* Saving.                                                                  *)

contains_datastructure(o) == ToSet(Items[o]) \cap Structures # {}

Call(f, x)  == [call |-> f, arg |-> x]
Each(s)     == [i \in DOMAIN s |-> Call("save_one", s[i])]
Put(v)      == <<Call("save", v), Call("stop", None)>>
Mark(t, n)  == Put(Text(t)) \o Put(Number(n))

(* The calls that save_one(o) makes, in order.                              *)
save_one(o) ==
    CASE Kind[o] = "list" /\ contains_datastructure(o) ->
            Mark("LIST", Len(Items[o])) \o Each(Items[o]) \o Put(Obj(o))
      [] Kind[o] = "ds" /\ o \notin memods ->
            Mark("ARGS", Len(Items[o])) \o Put(Name(o)) \o Each(Items[o])
            \o <<Call("getstate", o)>> \o Mark("STATE", Len(StateOf[o]))
            \o Each(StateOf[o]) \o Put(Obj(o))
      [] OTHER -> Put(Obj(o))

Init == /\ ctxt \in Contexts
        /\ todo = <<>> /\ cur = 0 /\ memods = {} /\ memo = <<>> /\ out = <<>>
        /\ objList = <<>> /\ stream = <<>> /\ pos = 0 /\ rmemo = <<>>
        /\ stack = <<>> /\ pool = <<>> /\ calls = <<>> /\ ret = None /\ got = <<>>
        /\ pc = "save"
        /\ args = [d \in Structures |-> <<>>] /\ state = args

(* Serializer.save: the next object.                                        *)
SaveNext ==
    /\ pc = "save" /\ todo = <<>> /\ cur < Len(ctxt)
    /\ cur' = cur + 1 /\ todo' = <<Call("save_one", ctxt[cur + 1])>>
    /\ UNCHANGED <<ctxt, memods, memo, out, objList, stream, pc, reading>>

Turn(f) == pc = "save" /\ todo # <<>> /\ Head(todo).call = f
Arg      == Head(todo).arg

(* Mutant: the name of a refused object is kept.                            *)
RefusedKept == /\ todo' = <<>> /\ out' = <<>> /\ UNCHANGED stream
               /\ objList' = Append(objList, cur)

(* An exception goes up to save, which drops the name and what the dump has *)
(* written, not what other dumps of that name wrote, nor the memo.          *)
Refused == todo' = <<>> /\ out' = <<>> /\ UNCHANGED <<stream, objList>>

Describe ==
    /\ Turn("save_one")
    /\ todo' = save_one(Arg) \o Tail(todo)
    /\ memods' = IF Kind[Arg] = "ds" THEN memods \cup {Arg} ELSE memods
    /\ UNCHANGED <<ctxt, cur, memo, out, objList, stream, pc, reading>>

getstate ==
    /\ Turn("getstate")
    /\ \/ Arg \in Fails /\ Refused
       \/ Arg \notin Fails /\ todo' = Tail(todo) /\ UNCHANGED <<out, stream, objList>>
    /\ UNCHANGED <<ctxt, cur, memods, memo, pc, reading>>

-----------------------------------------------------------------------------
(* The pickler: dump(v) saves v and what it holds, then stops.  A structure *)
(* is replaced by its identifier, a new string each time as its name is.    *)

Op(o, v, i) == [op |-> o, val |-> v, idx |-> i]

Known(v)     == v \in ToSet(memo) /\ v[1] # "name"
Place(v)     == CHOOSE i \in DOMAIN memo : memo[i] = v
IsKind(v, k) == v[1] = "obj" /\ Kind[v[2]] = k
Literal(v)   == IsInt(v) \/ IsKind(v, "plain")

Writes(o, i) == out' = Append(out, Op(o, Arg, i)) /\ UNCHANGED <<stream, objList>>
Memoizes(e)  == memo' = Append(memo, e)
Saved        == todo' = Tail(todo)
InDump       == UNCHANGED <<ctxt, cur, memods, pc, reading>>

SaveLiteral ==
    /\ Turn("save") /\ Literal(Arg) /\ InDump /\ UNCHANGED memo
    /\ \/ IsKind(Arg, "plain") /\ Arg[2] \in Fails /\ Refused
       \/ ~(IsKind(Arg, "plain") /\ Arg[2] \in Fails) /\ Writes("lit", 0) /\ Saved

SaveKnown ==
    /\ Turn("save") /\ ~Literal(Arg) /\ Known(Arg) /\ InDump
    /\ Writes("get", Place(Arg)) /\ Saved /\ UNCHANGED memo

SaveText ==
    /\ Turn("save") /\ IsStr(Arg) /\ ~Known(Arg) /\ InDump
    /\ Writes("put", Len(memo) + 1) /\ Memoizes(Arg) /\ Saved

SaveStructure ==
    /\ Turn("save") /\ IsKind(Arg, "ds") /\ ~Known(Arg) /\ InDump
    /\ Writes("ref", Len(memo) + 1) /\ Memoizes(Pid(Arg[2])) /\ Saved

(* A list is in the memo before its items are saved.                        *)
SaveList ==
    /\ Turn("save") /\ IsKind(Arg, "list") /\ ~Known(Arg) /\ InDump
    /\ Writes("open", Len(memo) + 1) /\ Memoizes(Arg)
    /\ LET items == Items[Arg[2]] IN
       todo' = [i \in DOMAIN items |-> Call("save", Obj(items[i]))]
               \o <<Call("end", Arg)>> \o Tail(todo)

EndList == Turn("end") /\ InDump /\ Writes("end", 0) /\ Saved /\ UNCHANGED memo

(* The file gets what was dumped; the name is kept when the last call of    *)
(* save_one has returned.                                                   *)
Append_name ==
    objList' = IF Tail(todo) = <<>> THEN Append(objList, cur) ELSE objList
Stop ==
    /\ Turn("stop") /\ InDump /\ Saved /\ Append_name /\ UNCHANGED memo
    /\ stream' = stream \o Append(out, Op("stop", None, 0)) /\ out' = <<>>

-----------------------------------------------------------------------------
(* Loading.  A call is [kind, left, name, read]: kind tells what load_one   *)
(* waits for, left how many objects its loop has still to read, name the    *)
(* name of the data structure, read what the loop has read.                 *)

Frame(k, n, d) == [kind |-> k, left |-> n, name |-> d, read |-> <<>>]
Caller  == Last(calls)
Becomes(f) == calls' = Append(Front(calls), f) /\ ret' = None
Returns(v) == calls' = Front(calls) /\ ret' = v

(* Serializer.load opens the file, with the names of the infos file.        *)
LoadStart ==
    /\ pc = "save" /\ todo = <<>> /\ cur = Len(ctxt)
    /\ pc' = "load" /\ pool' = objList
    /\ UNCHANGED <<ctxt, cur, saving, pos, rmemo, stack, calls, ret, args, state, got>>

(* The next name, or 0 for None when there is none left, and load_one.      *)
LoadNext ==
    /\ pc = "load" /\ calls = <<>>
    /\ cur' = IF pool = <<>> THEN 0 ELSE Head(pool)
    /\ pool' = IF pool = <<>> THEN pool ELSE Tail(pool)
    /\ calls' = <<Frame("top", 1, None)>>
    /\ UNCHANGED <<ctxt, saving, pos, rmemo, stack, ret, args, state, got, pc>>

(* An exception: the name is lost, and a state that was being read is empty. *)
SetStates(named, s) ==
    state' = [d \in Structures |-> IF d \in named THEN <<s>> ELSE state[d]]
InState(f, d) == f.kind \in {"nbstate", "state"} /\ f.name = Name(d)
Raise ==
    /\ calls' = <<>> /\ ret' = None
    /\ SetStates({d \in Structures : \E i \in DOMAIN calls : InState(calls[i], d)}, <<>>)
    /\ UNCHANGED args

Reads == pc = "load" /\ calls # <<>> /\ ret = None

(* The unpickler: load() reads one operation after the other up to a stop;  *)
(* an error leaves the file after the operation that failed.                *)
Reading(ops) == Reads /\ pos < Len(stream) /\ stream[pos + 1].op \in ops
Read         == stream[pos + 1]
InLoad       == pos' = pos + 1 /\ UNCHANGED <<ctxt, cur, saving, pool, got, pc>>
Pushes(s)    == stack' = s /\ UNCHANGED <<calls, ret, args, state>>
LoadFails    == Raise /\ stack' = <<>>

ReadLiteral ==
    /\ Reading({"lit"}) /\ InLoad /\ UNCHANGED rmemo
    /\ Pushes(Append(stack, Read.val))

(* An entry of the memo is given its index in protocol 3, and is the next   *)
(* one in protocol 4.                                                       *)
Remember(i, e) ==
    IF Protocol = 4 THEN Append(rmemo, e)
    ELSE [j \in 1..(IF i > Len(rmemo) THEN i ELSE Len(rmemo)) |->
            IF j = i THEN e ELSE IF j <= Len(rmemo) THEN rmemo[j] ELSE None]

ReadNew ==
    /\ Reading({"put", "ref", "open"}) /\ InLoad
    /\ rmemo' = Remember(Read.idx, IF Read.op = "ref" THEN Pid(Read.val[2]) ELSE Read.val)
    /\ Pushes(Append(stack, IF Read.op = "open" THEN Open(Read.val[2]) ELSE Read.val))

Remembered == Read.idx \in DOMAIN rmemo /\ rmemo[Read.idx] # None
ReadKnown ==
    /\ Reading({"get"}) /\ InLoad /\ UNCHANGED rmemo
    /\ \/ ~Remembered /\ LoadFails
       \/ Remembered /\ Pushes(Append(stack, rmemo[Read.idx]))

(* The last list that is open is closed: it holds what was read since.      *)
Opened == {j \in DOMAIN stack : stack[j][1] = "open"}
ObjEach(s) == [i \in DOMAIN s |-> Obj(s[i])]
ReadEnd ==
    /\ Reading({"end"}) /\ InLoad /\ UNCHANGED rmemo
    /\ \/ Opened = {} /\ LoadFails
       \/ \E j \in Opened :
             /\ \A k \in Opened : k <= j
             /\ Pushes(Append(SubSeq(stack, 1, j - 1),
                    IF SubSeq(stack, j + 1, Len(stack)) = ObjEach(Items[Read.val[2]])
                    THEN Read.val ELSE Other))

(* load() gives an object, or a mark that opens another call.               *)
ReadStop ==
    /\ Reading({"stop"}) /\ InLoad /\ UNCHANGED rmemo
    /\ \/ stack = <<>> /\ LoadFails
       \/ /\ stack # <<>> /\ stack' = <<>> /\ UNCHANGED <<args, state>>
          /\ CASE Last(stack) = Text("LIST") ->
                     calls' = Append(calls, Frame("size", 0, None)) /\ ret' = ret
               [] Last(stack) = Text("ARGS") ->
                     calls' = Append(calls, Frame("nbobj", 0, None)) /\ ret' = ret
               [] OTHER -> ret' = Last(stack) /\ calls' = calls

-----------------------------------------------------------------------------
(* load_one, when the load_one it called returns.                           *)
Receives(k) == pc = "load" /\ ret # None /\ Caller.kind = k
LeftAlone == UNCHANGED <<ctxt, cur, saving, pos, rmemo, stack, pool, got, pc>>

(* A loop over n objects: range(n) refuses what is not an integer.          *)
ReturnSize ==
    /\ Receives("size") /\ LeftAlone
    /\ \/ ~IsInt(ret) /\ Raise
       \/ ret = Number(0) /\ Returns(UNSTACKED) /\ UNCHANGED <<args, state>>
       \/ /\ IsInt(ret) /\ ret # Number(0) /\ Becomes(Frame("items", ret[2], None))
          /\ UNCHANGED <<args, state>>

ReturnItem ==
    /\ Receives("items") /\ LeftAlone /\ UNCHANGED <<args, state>>
    /\ IF Caller.left = 1 THEN Returns(UNSTACKED)
       ELSE Becomes([Caller EXCEPT !.left = @ - 1])

ReturnNbObj ==
    /\ Receives("nbobj")
    /\ Becomes([Frame("name", 0, None) EXCEPT !.read = ret])
    /\ LeftAlone /\ UNCHANGED <<args, state>>

SetArgs(w, s) ==
    args' = [d \in Structures |-> IF w = Name(d) THEN <<s>> ELSE args[d]]

ReturnName ==
    /\ Receives("name") /\ LeftAlone
    /\ LET n == Caller.read IN
       \/ (~IsInt(n) \/ (n = Number(0) /\ ~IsStr(ret))) /\ Raise
       \/ n = Number(0) /\ IsStr(ret) /\ SetArgs(ret, <<>>)
          /\ Becomes(Frame("mark", 1, ret)) /\ UNCHANGED state
       \/ /\ IsInt(n) /\ n # Number(0) /\ Becomes(Frame("args", n[2], ret))
          /\ UNCHANGED <<args, state>>

(* Mutant: the last argument is read and not kept.                          *)
ReturnArgLess ==
    /\ Receives("args") /\ LeftAlone
    /\ LET f == [Caller EXCEPT !.left = @ - 1, !.read = Append(@, ret)] IN
       \/ f.left > 0 /\ Becomes(f) /\ UNCHANGED <<args, state>>
       \/ f.left = 0 /\ ~IsStr(f.name) /\ Raise
       \/ f.left = 0 /\ IsStr(f.name) /\ SetArgs(f.name, Caller.read)
          /\ Becomes(Frame("mark", 1, f.name)) /\ UNCHANGED state

(* The arguments are given to the buffer of that name.                      *)
ReturnArg ==
    /\ Receives("args") /\ LeftAlone
    /\ LET f == [Caller EXCEPT !.left = @ - 1, !.read = Append(@, ret)] IN
       \/ f.left > 0 /\ Becomes(f) /\ UNCHANGED <<args, state>>
       \/ f.left = 0 /\ ~IsStr(f.name) /\ Raise
       \/ f.left = 0 /\ IsStr(f.name) /\ SetArgs(f.name, f.read)
          /\ Becomes(Frame("mark", 1, f.name)) /\ UNCHANGED state

(* assert mark == STATE                                                     *)
ReturnMark ==
    /\ Receives("mark") /\ LeftAlone
    /\ \/ ret # Text("STATE") /\ Raise
       \/ /\ ret = Text("STATE") /\ Becomes(Frame("nbstate", 1, Caller.name))
          /\ UNCHANGED <<args, state>>

SetState(w, s) == SetStates({d \in Structures : w = Name(d)}, s)

ReturnNbState ==
    /\ Receives("nbstate") /\ LeftAlone
    /\ \/ ~IsInt(ret) /\ Raise
       \/ /\ ret = Number(0) /\ SetState(Caller.name, <<>>)
          /\ Becomes(Frame("obj", 1, Caller.name)) /\ UNCHANGED args
       \/ /\ IsInt(ret) /\ ret # Number(0) /\ UNCHANGED <<args, state>>
          /\ Becomes(Frame("state", ret[2], Caller.name))

ReturnState ==
    /\ Receives("state") /\ LeftAlone /\ UNCHANGED args
    /\ LET f == [Caller EXCEPT !.left = @ - 1, !.read = Append(@, ret)] IN
       IF f.left > 0 THEN Becomes(f) /\ UNCHANGED state
       ELSE SetState(f.name, f.read) /\ Becomes(Frame("obj", 1, f.name))

ReturnStructure ==
    /\ Receives("obj") /\ Returns(ret) /\ LeftAlone /\ UNCHANGED <<args, state>>

(* Back in Serializer.load: the name is kept for the object that follows    *)
(* the items of a list.                                                     *)
ReturnTop ==
    /\ Receives("top") /\ Returns(None)
    /\ IF ret = UNSTACKED
       THEN pool' = <<cur>> \o pool /\ UNCHANGED got
       ELSE got' = Append(got, <<cur, ret>>) /\ UNCHANGED pool
    /\ UNCHANGED <<ctxt, cur, saving, pos, rmemo, stack, args, state, pc>>

(* EOFError ends the loop, unless it is turned into a PicklingError while   *)
(* a state is read.                                                         *)
Truncated == \E i \in DOMAIN calls : calls[i].kind \in {"nbstate", "state"}
EndInState ==
    /\ Reads /\ pos = Len(stream) /\ Truncated /\ Raise
    /\ UNCHANGED <<ctxt, cur, saving, pos, rmemo, stack, pool, got, pc>>

(* What an object holds, lists being opened: Nested(o) are the lists among   *)
(* it, the least set that has o, when it is a list, and the lists among the *)
(* items of its lists.                                                      *)
IsLists(S) == \A l \in S : ToSet(Items[l]) \cap Lists \subseteq S
Nested(o)  == {l \in Lists : \A S \in SUBSET Lists :
                                IsLists(S) /\ (o \in Lists => o \in S) => l \in S}
Inside(o)  == {o} \cup UNION {ToSet(Items[l]) : l \in Nested(o)}

(* BufferObject.instance needs the arguments and the state of the ds, and   *)
(* the instances of the ds that are among them.                             *)
Needs(d) == {e \in Structures : Obj(e) \in ToSet(args[d][1] \o state[d][1])}
CanBuild(d, S) == args[d] # <<>> /\ state[d] # <<>> /\ Needs(d) \subseteq S
Instances ==
    LET closed == {S \in SUBSET Structures : \A d \in Structures : CanBuild(d, S) => d \in S}
    IN  {d \in Structures : \A S \in closed : d \in S}
Restorable(v) == v[1] = "obj" => Inside(v[2]) \cap Structures \subseteq Instances

(* Mutant: the end of the file is an error as the others, and load goes on. *)
RestoreNever ==
    /\ Reads /\ pos = Len(stream) /\ ~Truncated /\ Raise
    /\ UNCHANGED <<ctxt, cur, saving, pos, rmemo, stack, pool, got, pc>>

(* The objects are put in the context.  The first that cannot be built      *)
(* stops the load (logger.error raises), and so does the first without a    *)
(* name.                                                                    *)
Restore ==
    /\ Reads /\ pos = Len(stream) /\ ~Truncated
    /\ pc' = IF \A i \in DOMAIN got : got[i][1] # 0 /\ Restorable(got[i][2])
             THEN "restored" ELSE "failed"
    /\ calls' = <<>>
    /\ UNCHANGED <<ctxt, cur, saving, pos, rmemo, stack, pool, ret, args, state, got>>

Next == \/ SaveNext \/ Describe \/ getstate \/ SaveLiteral \/ SaveKnown \/ SaveText
        \/ SaveStructure \/ SaveList \/ EndList \/ Stop
        \/ LoadStart \/ LoadNext
        \/ ReadLiteral \/ ReadNew \/ ReadKnown \/ ReadEnd \/ ReadStop
        \/ ReturnSize \/ ReturnItem \/ ReturnNbObj \/ ReturnName \/ ReturnArg
        \/ ReturnMark \/ ReturnNbState \/ ReturnState \/ ReturnStructure
        \/ ReturnTop \/ EndInState \/ Restore

Spec == Init /\ [][Next]_vars
FairSpec == Spec /\ WF_vars(Next)

-----------------------------------------------------------------------------
(* Properties.                                                              *)

(* Every name is given back the object it was saved with, and no other.     *)
NamesGetTheirObjects ==
    \A i \in DOMAIN got : got[i][1] # 0 /\ got[i][2] = Obj(ctxt[got[i][1]])

(* In a tidy context what pickle refuses is refused before anything of it   *)
(* is written; a list of data structures is held by nothing else; and no    *)
(* structure needs itself to be built.                                      *)
Held(o) == ToSet(Items[o]) \cup ToSet(StateOf[o])
Founded ==
    LET closed == {S \in SUBSET Structures :
                     \A d \in Structures : Held(d) \cap Structures \subseteq S => d \in S}
    IN  {d \in Structures : \A S \in closed : d \in S}
Bare  == {o \in Objects : Inside(o) \cap Structures = {}}
Sound == {S \in SUBSET Objects :
            /\ S \cap Fails = {} /\ S \cap Structures \subseteq Founded
            /\ \A o \in S : Held(o) \subseteq S /\ Held(o) \cap Lists \subseteq Bare}
Tidy  == {o \in Objects : Kind[o] = "plain" \/ \E S \in Sound : o \in S}
TidyContext == \A n \in DOMAIN ctxt : ctxt[n] \in Tidy

(* There, an object that is refused is lost alone: all the other names are  *)
(* restored, with the objects they were saved with.                         *)
TidyIsRestored ==
    TidyContext =>
        /\ NamesGetTheirObjects
        /\ pc \in {"restored", "failed"} =>
              /\ pc = "restored"
              /\ {g[1] : g \in ToSet(got)} = {n \in DOMAIN ctxt : ctxt[n] \notin Fails}

(* There, a data structure that is built again receives what it gave.       *)
StructuresAreWhole ==
    TidyContext =>
        \A d \in Structures : /\ args[d] \in {<<>>, <<ObjEach(Items[d])>>}
                              /\ state[d] \in {<<>>, <<ObjEach(StateOf[d])>>}

(* Reading comes to an end whatever was written.                            *)
LoadEnds == <>(pc \in {"restored", "failed"})
=============================================================================
