--------------------------- MODULE PicklingProofs ---------------------------
(***************************************************************************)
(* Proofs about Pickling, for every set of objects, whatever they hold,    *)
(* every context and both protocols of pickle: in a tidy context every     *)
(* name that is not refused gets its object again, whole.                  *)
(***************************************************************************)
EXTENDS Pickling, SequenceTheorems, TLAPS

Values == ({"obj", "open", "name", "pid"} \X Objects) \cup ({"mark"} \X Marks)
          \cup ({"int"} \X Nat) \cup {Other, UNSTACKED, None}

(* The values of the file are told apart by their tags.                     *)
LEMMA ObjIsValue ==
    ASSUME NEW o \in Objects
    PROVE  /\ Obj(o) \in Values /\ Obj(o)[1] = "obj" /\ Obj(o)[2] = o
           /\ Obj(o) # None /\ Obj(o) # UNSTACKED
           /\ Obj(o) # Text("LIST") /\ Obj(o) # Text("ARGS")
           /\ ~IsInt(Obj(o)) /\ ~IsStr(Obj(o))
BY DEF Obj, Values, None, UNSTACKED, Text, IsInt, IsStr

LEMMA NumberIsValue ==
    ASSUME NEW n \in Nat
    PROVE  /\ Number(n) \in Values /\ Number(n)[1] = "int" /\ Number(n)[2] = n
           /\ Number(n) # None /\ Number(n) # Text("LIST") /\ Number(n) # Text("ARGS")
           /\ IsInt(Number(n)) /\ ~IsStr(Number(n))
           /\ Number(n) = Number(0) => n = 0
BY DEF Number, Values, None, Text, IsInt, IsStr

LEMMA TextIsValue ==
    ASSUME NEW t \in Marks
    PROVE  /\ Text(t) \in Values /\ Text(t)[1] = "mark" /\ Text(t)[2] = t
           /\ Text(t) # None /\ IsStr(Text(t)) /\ ~IsInt(Text(t))
BY DEF Text, Values, None, IsInt, IsStr, Marks

LEMMA NameIsValue ==
    ASSUME NEW d \in Objects
    PROVE  /\ Name(d) \in Values /\ Name(d)[1] = "name" /\ Name(d)[2] = d
           /\ Name(d) # None /\ Name(d) # Text("LIST") /\ Name(d) # Text("ARGS")
           /\ IsStr(Name(d)) /\ ~IsInt(Name(d))
           /\ \A e \in Objects : Name(e) = Name(d) => e = d
BY DEF Name, Values, None, Text, IsInt, IsStr

LEMMA OpenIsValue ==
    ASSUME NEW o \in Objects
    PROVE  /\ Open(o) \in Values /\ Open(o)[1] = "open" /\ Pid(o) \in Values
           /\ Pid(o) # None
BY DEF Open, Pid, Values, None

(* Sequences of items.                                                      *)
LEMMA ItemsType ==
    ASSUME NEW o \in Objects
    PROVE  /\ Items[o] \in Seq(Objects) /\ StateOf[o] \in Seq(Objects)
           /\ Kind[o] \in {"plain", "list", "ds"}
           /\ o \in Structures <=> Kind[o] = "ds"
           /\ o \in Lists <=> Kind[o] = "list"
BY PicklingAssumption DEF Structures, Lists

From(s, k) == SubSeq(s, k + 1, Len(s))
Upto(s, k) == ObjEach(SubSeq(s, 1, k))

LEMMA ObjEachType ==
    ASSUME NEW s \in Seq(Objects)
    PROVE  /\ ObjEach(s) \in Seq(Values) /\ Len(ObjEach(s)) = Len(s)
           /\ \A i \in 1..Len(s) : ObjEach(s)[i] = Obj(s[i])
<1>1. DOMAIN s = 1..Len(s) /\ \A i \in 1..Len(s) : s[i] \in Objects
  OBVIOUS
<1>2. \A i \in 1..Len(s) : Obj(s[i]) \in Values
  BY <1>1, ObjIsValue
<1>3. ObjEach(s) = [i \in 1..Len(s) |-> Obj(s[i])]
  BY <1>1 DEF ObjEach
<1> QED
  BY <1>2, <1>3, IsASeq

LEMMA UptoProperties ==
    ASSUME NEW s \in Seq(Objects)
    PROVE  /\ Upto(s, 0) = <<>>
           /\ Upto(s, Len(s)) = ObjEach(s)
           /\ \A k \in 0..Len(s) : /\ Upto(s, k) \in Seq(Values)
                                   /\ Len(Upto(s, k)) = k
                                   /\ \A i \in 1..k : Upto(s, k)[i] = Obj(s[i])
           /\ \A k \in 0..Len(s) : k < Len(s) =>
                 Upto(s, k + 1) = Append(Upto(s, k), Obj(s[k + 1]))
<1>1. \A k \in 0..Len(s) : /\ SubSeq(s, 1, k) \in Seq(Objects)
                           /\ Len(SubSeq(s, 1, k)) = k
                           /\ \A i \in 1..k : SubSeq(s, 1, k)[i] = s[i]
  OBVIOUS
<1>2. \A k \in 0..Len(s) : /\ Upto(s, k) \in Seq(Values)
                           /\ Len(Upto(s, k)) = k
                           /\ \A i \in 1..k : Upto(s, k)[i] = Obj(s[i])
  <2> TAKE k \in 0..Len(s)
  <2> QED
    BY <1>1, ObjEachType DEF Upto
<1>3. Upto(s, 0) = <<>>
  BY <1>2, EmptySeq
<1>4. Upto(s, Len(s)) = ObjEach(s)
  BY SubSeqFull DEF Upto
<1>5. ASSUME NEW k \in 0..Len(s), k < Len(s)
      PROVE  Upto(s, k + 1) = Append(Upto(s, k), Obj(s[k + 1]))
  <2>0. Len(s) \in Nat
    OBVIOUS
  <2>1. k + 1 \in 0..Len(s) /\ k + 1 \in 1..Len(s) /\ k \in Nat
    BY <1>5, <2>0
  <2> s[k + 1] \in Objects
    BY <2>1
  <2>2. Obj(s[k + 1]) \in Values
    BY <2>1, ObjIsValue
  <2> DEFINE a == Upto(s, k + 1)
             b == Append(Upto(s, k), Obj(s[k + 1]))
  <2>3. a \in Seq(Values) /\ Len(a) = k + 1 /\ \A i \in 1..(k + 1) : a[i] = Obj(s[i])
    BY <1>2, <2>1
  <2>4. b \in Seq(Values) /\ Len(b) = k + 1
        /\ (\A i \in 1..k : b[i] = Upto(s, k)[i]) /\ b[k + 1] = Obj(s[k + 1])
    BY <1>2, <2>1, <2>2, AppendProperties
  <2>5. \A i \in 1..(k + 1) : b[i] = Obj(s[i])
    BY <1>2, <2>1, <2>4
  <2> HIDE DEF a, b
  <2>6. a = b
    BY <2>1, <2>3, <2>4, <2>5, SeqEqual
  <2> QED
    BY <2>6 DEF a, b
<1> QED
  BY <1>2, <1>3, <1>4, <1>5

-----------------------------------------------------------------------------
(* What the objects hold.  Fine are the objects that are saved and read     *)
(* again without an error.                                                  *)
Fine == {o \in Objects : Kind[o] = "plain" /\ o \notin Fails} \cup UNION Sound

LEMMA TidyFine ==
    ASSUME NEW o \in Tidy
    PROVE  o \in Objects /\ (o \in Fine <=> o \notin Fails) /\ (o \in Fails => Kind[o] = "plain")
<1>1. CASE \E S \in Sound : o \in S
  BY <1>1 DEF Tidy, Fine, Sound
<1>2. CASE ~\E S \in Sound : o \in S
  BY <1>2 DEF Tidy, Fine
<1> QED
  BY <1>1, <1>2

LEMMA FineFacts ==
    ASSUME NEW o \in Fine
    PROVE  /\ o \in Objects /\ o \notin Fails
           /\ o \in Structures => o \in Founded
           /\ Kind[o] # "plain" => \A i \in Held(o) : i \in Fine /\ (i \in Lists => i \in Bare)
<1>1. CASE \E S \in Sound : o \in S
  <2>1. PICK S \in Sound : o \in S
    BY <1>1
  <2>2. S \subseteq Fine
    BY DEF Fine
  <2> QED
    BY <2>1, <2>2 DEF Sound
<1>2. CASE ~\E S \in Sound : o \in S
  <2>1. o \in Objects /\ Kind[o] = "plain" /\ o \notin Fails
    BY <1>2 DEF Fine
  <2>2. o \notin Structures
    BY <2>1 DEF Structures
  <2> QED
    BY <2>1, <2>2
<1> QED
  BY <1>1, <1>2

LEMMA HeldItems ==
    ASSUME NEW o \in Objects
    PROVE  /\ \A i \in 1..Len(Items[o]) : Items[o][i] \in Held(o)
           /\ \A i \in 1..Len(StateOf[o]) : StateOf[o][i] \in Held(o)
           /\ Held(o) \subseteq Objects
BY ItemsType DEF Held, ToSet

LEMMA BareFacts ==
    ASSUME NEW o \in Lists, o \in Bare
    PROVE  /\ ~contains_datastructure(o)
           /\ \A i \in ToSet(Items[o]) : i \in Lists => i \in Bare
<1>1. o \in Nested(o) /\ Inside(o) \cap Structures = {}
  BY DEF Nested, Bare
<1>2. ToSet(Items[o]) \subseteq Inside(o)
  BY <1>1 DEF Inside
<1>3. ASSUME NEW i \in ToSet(Items[o]), i \in Lists
      PROVE  i \in Bare
  <2>1. Nested(i) \subseteq Nested(o)
    <3> SUFFICES ASSUME NEW l \in Nested(i), NEW S \in SUBSET Lists,
                        IsLists(S), o \in Lists => o \in S
                 PROVE  l \in S
      BY DEF Nested
    <3>1. i \in S
      BY <1>3 DEF IsLists
    <3> QED
      BY <3>1 DEF Nested
  <2>2. Inside(i) \subseteq Inside(o)
    BY <1>2, <2>1 DEF Inside
  <2> QED
    BY <1>1, <1>3, <2>2 DEF Bare, Lists
<1> QED
  BY <1>1, <1>2, <1>3 DEF contains_datastructure

(* The structures of a fine object are itself or items of it.               *)
LEMMA InsideFine ==
    ASSUME NEW o \in Fine, NEW d \in Inside(o) \cap Structures
    PROVE  d = o \/ (o \in Lists /\ d \in ToSet(Items[o]))
<1>1. CASE o \notin Lists
  <2>1. IsLists({}) /\ {} \in SUBSET Lists
    BY DEF IsLists
  <2>2. Nested(o) = {}
    BY <1>1, <2>1 DEF Nested
  <2> QED
    BY <2>2 DEF Inside
<1>2. CASE o \in Lists
  <2> DEFINE S == {o} \cup (Lists \cap Bare)
  <2>1. \A i \in ToSet(Items[o]) : i \in Lists => i \in Bare
    BY <1>2, FineFacts DEF Lists, Held
  <2>2. S \in SUBSET Lists /\ o \in S
    BY <1>2
  <2>3. IsLists(S)
    BY <2>1, BareFacts DEF IsLists
  <2>4. Nested(o) \subseteq S
    BY <2>2, <2>3 DEF Nested
  <2>5. \A l \in Nested(o) : l = o \/ ~contains_datastructure(l)
    BY <2>4, BareFacts
  <2> QED
    BY <1>2, <2>5 DEF Inside, contains_datastructure
<1> QED
  BY <1>1, <1>2

-----------------------------------------------------------------------------
(* The reader as a machine of its own.  Its state is a record; t is the     *)
(* file, L the objects that are to be read, one after the other.            *)
St(c, s, m, v, p, a, b, o) ==
    [calls |-> c, stack |-> s, memo |-> m, ret |-> v, pos |-> p,
     args |-> a, state |-> b, objs |-> o]

Top == Frame("top", 1, None)

(* What an operation of the file does.                                      *)
Reads1(r, s, m) == St(r.calls, s, m, r.ret, r.pos + 1, r.args, r.state, r.objs)
Opens(r, f) == St(Append(r.calls, f), <<>>, r.memo, r.ret, r.pos + 1, r.args, r.state, r.objs)
Gives(r, v) == St(r.calls, <<>>, r.memo, v, r.pos + 1, r.args, r.state, r.objs)
Stops(r, v) == IF v = Text("LIST") THEN Opens(r, Frame("size", 0, None))
               ELSE IF v = Text("ARGS") THEN Opens(r, Frame("nbobj", 0, None))
               ELSE Gives(r, v)
Base(s, l)  == SubSeq(s, 1, Len(s) - Len(Items[l]) - 1)
Entry(op)   == IF op.op = "ref" THEN Pid(op.val[2]) ELSE op.val
Pushed(op)  == IF op.op = "open" THEN Open(op.val[2]) ELSE op.val
Reader(r, op) ==
    IF op.op = "lit" THEN Reads1(r, Append(r.stack, op.val), r.memo)
    ELSE IF op.op \in {"put", "ref", "open"}
         THEN Reads1(r, Append(r.stack, Pushed(op)), Append(r.memo, Entry(op)))
    ELSE IF op.op = "get" THEN Reads1(r, Append(r.stack, r.memo[op.idx]), r.memo)
    ELSE IF op.op = "end"
         THEN Reads1(r, Append(Base(r.stack, op.val[2]), op.val), r.memo)
    ELSE Stops(r, Last(r.stack))

(* What a call does of what the call it made returns.                       *)
Fills(a, w, s) == [d \in Structures |-> IF w = Name(d) THEN <<s>> ELSE a[d]]
Turns(r, f, a, b) ==
    St(Append(Front(r.calls), f), r.stack, r.memo, None, r.pos, a, b, r.objs)
Pops(r, v, o) == St(Front(r.calls), r.stack, r.memo, v, r.pos, r.args, r.state, o)
OfSize(r)    == Turns(r, Frame("items", r.ret[2], None), r.args, r.state)
OfItem(r, f) == IF f.left = 1 THEN Pops(r, UNSTACKED, r.objs)
                ELSE Turns(r, [f EXCEPT !.left = @ - 1], r.args, r.state)
OfNbObj(r)   == Turns(r, [Frame("name", 0, None) EXCEPT !.read = r.ret], r.args, r.state)
OfName(r, f) ==
    IF f.read = Number(0)
    THEN Turns(r, Frame("mark", 1, r.ret), Fills(r.args, r.ret, <<>>), r.state)
    ELSE Turns(r, Frame("args", f.read[2], r.ret), r.args, r.state)
OneMore(f, v) == [f EXCEPT !.left = @ - 1, !.read = Append(@, v)]
OfArg(r, f)  ==
    LET g == OneMore(f, r.ret) IN
    IF g.left > 0 THEN Turns(r, g, r.args, r.state)
    ELSE Turns(r, Frame("mark", 1, g.name), Fills(r.args, g.name, g.read), r.state)
OfMark(r, f) == Turns(r, Frame("nbstate", 1, f.name), r.args, r.state)
OfNbState(r, f) ==
    IF r.ret = Number(0)
    THEN Turns(r, Frame("obj", 1, f.name), r.args, Fills(r.state, f.name, <<>>))
    ELSE Turns(r, Frame("state", r.ret[2], f.name), r.args, r.state)
OfState(r, f) ==
    LET g == OneMore(f, r.ret) IN
    IF g.left > 0 THEN Turns(r, g, r.args, r.state)
    ELSE Turns(r, Frame("obj", 1, g.name), r.args, Fills(r.state, g.name, g.read))
OfTop(r)     == Pops(r, None, IF r.ret = UNSTACKED THEN r.objs ELSE Append(r.objs, r.ret))
Returner(r, f) ==
    IF f.kind = "size" THEN OfSize(r)
    ELSE IF f.kind = "items" THEN OfItem(r, f)
    ELSE IF f.kind = "nbobj" THEN OfNbObj(r)
    ELSE IF f.kind = "name" THEN OfName(r, f)
    ELSE IF f.kind = "args" THEN OfArg(r, f)
    ELSE IF f.kind = "mark" THEN OfMark(r, f)
    ELSE IF f.kind = "nbstate" THEN OfNbState(r, f)
    ELSE IF f.kind = "state" THEN OfState(r, f)
    ELSE IF f.kind = "obj" THEN Pops(r, r.ret, r.objs)
    ELSE OfTop(r)

Begins(r)  == St(<<Top>>, r.stack, r.memo, r.ret, r.pos, r.args, r.state, r.objs)
Nx(r, t)   == IF r.calls = <<>> THEN Begins(r)
              ELSE IF r.ret = None THEN Reader(r, t[r.pos + 1])
              ELSE Returner(r, Last(r.calls))
CanMove(r, t) == r.calls = <<>> \/ r.ret # None \/ r.pos < Len(t)

(* When that step is the one of the code, and raises nothing.               *)
Closes(s, l) == /\ l \in Objects /\ Len(Items[l]) < Len(s)
                /\ s[Len(s) - Len(Items[l])] = Open(l)
                /\ SubSeq(s, Len(s) - Len(Items[l]) + 1, Len(s)) = ObjEach(Items[l])
ReadyOp(r, op) ==
    /\ op.op \in {"lit", "put", "ref", "open", "get", "end", "stop"}
    /\ op.op \in {"put", "ref", "open"} => op.idx = Len(r.memo) + 1
    /\ op.op = "get" => op.idx \in DOMAIN r.memo /\ r.memo[op.idx] # None
    /\ op.op = "end" => Closes(r.stack, op.val[2])
    /\ op.op = "stop" => r.stack # <<>>
Kinds == {"size", "items", "nbobj", "name", "args", "mark", "nbstate", "state", "obj", "top"}
ReadyRet(r, f, L) ==
    /\ f.kind \in Kinds
    /\ f.kind \in {"size", "nbstate"} => IsInt(r.ret)
    /\ f.kind = "size" => r.ret # Number(0)
    /\ f.kind = "name" => IsInt(f.read) /\ IsStr(r.ret)
    /\ f.kind = "args" => IsStr(f.name)
    /\ f.kind = "mark" => r.ret = Text("STATE")
    /\ f.kind = "top" => Len(r.objs) < Len(L)
Ready(r, t, L) ==
    /\ r.calls = <<>> => r.ret = None
    /\ r.calls # <<>> /\ r.ret = None /\ r.pos < Len(t) => ReadyOp(r, t[r.pos + 1])
    /\ r.ret # None => ReadyRet(r, Last(r.calls), L)

(* Until then what was read is what was written.                            *)
Whole(a, b) == /\ \A d \in Structures : a[d] \in {<<>>, <<ObjEach(Items[d])>>}
               /\ \A d \in Structures : b[d] \in {<<>>, <<ObjEach(StateOf[d])>>}
Wanted(s, L) == /\ s \in Seq(Values) /\ Len(s) <= Len(L)
                /\ \A i \in 1..Len(s) : s[i] = Obj(L[i])
Typed(r) == r.stack \in Seq(Values) /\ r.memo \in Seq(Values) /\ r.pos \in Nat
Good(r, t, L) == Typed(r) /\ Whole(r.args, r.state) /\ Wanted(r.objs, L) /\ Ready(r, t, L)

(* r leads to q when every set closed under the steps from good states that *)
(* has r has q too.                                                         *)
Closed(S, t, L)   == \A r \in S : Good(r, t, L) /\ CanMove(r, t) => Nx(r, t) \in S
Leads(r, q, t, L) == \A S : r \in S /\ Closed(S, t, L) => q \in S

LEMMA LeadsStep ==
    ASSUME NEW r, NEW q, NEW t, NEW L, Leads(r, q, t, L), Good(q, t, L), CanMove(q, t)
    PROVE  Leads(r, Nx(q, t), t, L)
BY Zenon DEF Leads, Closed

LEMMA LeadsSelf == \A r, t, L : Leads(r, r, t, L)
BY Zenon DEF Leads

LEMMA LeadsOn ==
    ASSUME NEW r, NEW p, NEW q, NEW t, NEW L, Leads(r, p, t, L), Leads(p, q, t, L)
    PROVE  Leads(r, q, t, L)
BY Zenon DEF Leads

(* The last state is reached through good states only.                      *)
LEMMA LeadsNext ==
    ASSUME NEW r, NEW q, NEW t, NEW L, Leads(r, q, t, L), r # q
    PROVE  Good(r, t, L) /\ CanMove(r, t) /\ Leads(Nx(r, t), q, t, L)
<1>1. Good(r, t, L) /\ CanMove(r, t)
  <2> SUFFICES ASSUME ~(Good(r, t, L) /\ CanMove(r, t)) PROVE FALSE
    BY Zenon
  <2>1. Closed({r}, t, L)
    BY Zenon DEF Closed
  <2> QED
    BY <2>1, Zenon DEF Leads
<1>2. ASSUME NEW S, Nx(r, t) \in S, Closed(S, t, L)
      PROVE  q \in S
  <2>1. Closed(S \cup {r}, t, L)
    BY <1>2, Zenon DEF Closed
  <2>2. q \in S \cup {r}
    BY <2>1, Zenon DEF Leads
  <2> QED
    BY <2>2
<1> QED
  BY <1>1, <1>2, Zenon DEF Leads

(* A longer file is read in the same way.                                   *)
IsPre(t, u) == Len(t) <= Len(u) /\ \A i \in 1..Len(t) : u[i] = t[i]

LEMMA LeadsMore ==
    ASSUME NEW T, NEW t \in Seq(T), NEW u \in Seq(T), IsPre(t, u),
           NEW O, NEW L \in Seq(O), NEW M \in Seq(O), IsPre(L, M),
           NEW r, NEW q, Leads(r, q, t, L)
    PROVE  Leads(r, q, u, M)
<1>0. Len(t) \in Nat /\ Len(u) \in Nat /\ Len(L) \in Nat /\ Len(M) \in Nat
  OBVIOUS
<1>1. ASSUME NEW p, Good(p, t, L), CanMove(p, t)
      PROVE  Good(p, u, M) /\ CanMove(p, u) /\ Nx(p, u) = Nx(p, t)
  <2>1. p.pos \in Nat
    BY <1>1 DEF Good, Typed
  <2>2. p.calls # <<>> /\ p.ret = None => p.pos < Len(t) /\ p.pos < Len(u) /\ u[p.pos + 1] = t[p.pos + 1]
    <3> SUFFICES ASSUME p.calls # <<>>, p.ret = None
                 PROVE  p.pos < Len(t) /\ p.pos < Len(u) /\ u[p.pos + 1] = t[p.pos + 1]
      BY Zenon
    <3>1. p.pos < Len(t)
      BY <1>1, Zenon DEF CanMove
    <3>2. p.pos + 1 \in 1..Len(t)
      BY <1>0, <2>1, <3>1
    <3> QED
      BY <1>0, <2>1, <3>1, <3>2 DEF IsPre
  <2>3. Wanted(p.objs, M)
    <3>1. Wanted(p.objs, L)
      BY <1>1 DEF Good
    <3> QED
      BY <1>0, <3>1, SMTT(30) DEF Wanted, IsPre
  <2>4. p.ret # None => ReadyRet(p, Last(p.calls), M)
    <3> SUFFICES ASSUME p.ret # None PROVE ReadyRet(p, Last(p.calls), M)
      OBVIOUS
    <3>1. ReadyRet(p, Last(p.calls), L)
      BY <1>1 DEF Good, Ready
    <3>2. Len(p.objs) \in Nat
      BY <2>3 DEF Wanted
    <3>3. Len(p.objs) < Len(L) => Len(p.objs) < Len(M)
      BY <1>0, <3>2 DEF IsPre
    <3> QED
      BY <3>1, <3>3, Zenon DEF ReadyRet
  <2>5. Ready(p, u, M)
    BY <1>1, <2>2, <2>4, Zenon DEF Good, Ready
  <2>6. CanMove(p, u)
    BY <1>1, <2>2, Zenon DEF CanMove
  <2>7. Nx(p, u) = Nx(p, t)
    BY <2>2, Zenon DEF Nx
  <2> QED
    BY <1>1, <2>3, <2>5, <2>6, <2>7, Zenon DEF Good
<1>2. ASSUME NEW S, Closed(S, u, M)
      PROVE  Closed(S, t, L)
  <2> SUFFICES ASSUME NEW p \in S, Good(p, t, L), CanMove(p, t)
               PROVE  Nx(p, t) \in S
    BY Zenon DEF Closed
  <2>1. Nx(p, u) \in S
    BY <1>1, <1>2, Zenon DEF Closed
  <2> QED
    BY <1>1, <2>1
<1> QED
  BY <1>2, Zenon DEF Leads

-----------------------------------------------------------------------------
(* What the calls of the reader are while it reads what the calls of the    *)
(* writer have still to write.  The frames of load_one:                     *)
SizeF         == Frame("size", 0, None)
ItemsF(n)     == Frame("items", n, None)
NbObjF        == Frame("nbobj", 0, None)
NameF(n)      == [Frame("name", 0, None) EXCEPT !.read = Number(n)]
ArgsF(d, k)   == [kind |-> "args", left |-> Len(Items[d]) - k, name |-> Name(d),
                  read |-> Upto(Items[d], k)]
MarkF(d)      == Frame("mark", 1, Name(d))
NbStateF(d)   == Frame("nbstate", 1, Name(d))
StateF(d, k)  == [kind |-> "state", left |-> Len(StateOf[d]) - k, name |-> Name(d),
                  read |-> Upto(StateOf[d], k)]
ObjF(d)       == Frame("obj", 1, Name(d))

Frames == {Top, SizeF, NbObjF} \cup {ItemsF(n) : n \in Nat} \cup {NameF(n) : n \in Nat}
          \cup {ArgsF(d, k) : d \in Structures, k \in Nat}
          \cup {StateF(d, k) : d \in Structures, k \in Nat}
          \cup {MarkF(d) : d \in Structures} \cup {NbStateF(d) : d \in Structures}
          \cup {ObjF(d) : d \in Structures}

(* The calls c become e when they receive a value, X being the object of    *)
(* the name in progress.                                                    *)
AfterItem(n)     == IF n = 1 THEN <<Top>> ELSE <<Top, ItemsF(n - 1)>>
AfterArgs(d, k)  == IF k = Len(Items[d]) THEN MarkF(d) ELSE ArgsF(d, k)
AfterState(d, k) == IF k = Len(StateOf[d]) THEN ObjF(d) ELSE StateF(d, k)

HearsArg(c, o, e) ==
    \E b \in Seq(Frames), d \in Structures, k \in Nat :
        /\ k < Len(Items[d]) /\ o = Items[d][k + 1]
        /\ c = Append(b, ArgsF(d, k)) /\ e = Append(b, AfterArgs(d, k + 1))
HearsState(c, o, e) ==
    \E b \in Seq(Frames), d \in Structures, k \in Nat :
        /\ k < Len(StateOf[d]) /\ o = StateOf[d][k + 1]
        /\ c = Append(b, StateF(d, k)) /\ e = Append(b, AfterState(d, k + 1))
HearsItem(c, e) ==
    \E n \in Nat : n # 0 /\ c = <<Top, ItemsF(n)>> /\ e = AfterItem(n)
HearsObject(c, o, X, e) ==
    \/ c = <<Top>> /\ o = X /\ e = <<Top>>
    \/ HearsItem(c, e) \/ HearsArg(c, o, e) \/ HearsState(c, o, e)
HearsText(c, v, e) ==
    \/ c = <<Top>> /\ v = Text("LIST") /\ e = <<Top, SizeF>>
    \/ v = Text("ARGS") /\ e = Append(c, NbObjF)
    \/ \E b \in Seq(Frames), d \in Structures :
          v = Text("STATE") /\ c = Append(b, MarkF(d)) /\ e = Append(b, NbStateF(d))
    \/ \E b \in Seq(Frames), d \in Structures :
          /\ v = Name(d) /\ c = Append(b, NameF(Len(Items[d])))
          /\ e = Append(b, AfterArgs(d, 0))
HearsNumber(c, v, e) ==
    \/ \E n \in Nat : n # 0 /\ v = Number(n) /\ c = <<Top, SizeF>> /\ e = <<Top, ItemsF(n)>>
    \/ \E b \in Seq(Frames), n \in Nat :
          v = Number(n) /\ c = Append(b, NbObjF) /\ e = Append(b, NameF(n))
    \/ \E b \in Seq(Frames), d \in Structures :
          /\ v = Number(Len(StateOf[d])) /\ c = Append(b, NbStateF(d))
          /\ e = Append(b, AfterState(d, 0))
HearsBack(c, v, X, e) ==
    \E b \in Seq(Frames), d \in Structures :
        v = Obj(d) /\ c = Append(b, ObjF(d)) /\ HearsObject(b, d, X, e)
HearsAny(c, v, X, e) == \E o \in Objects : v = Obj(o) /\ HearsObject(c, o, X, e)
Hears(c, v, X, e) ==
    HearsAny(c, v, X, e) \/ HearsText(c, v, e) \/ HearsNumber(c, v, e) \/ HearsBack(c, v, X, e)

(* The object of the name is what they receive.                             *)
Completes(c, v) ==
    v[1] = "obj" /\ (c = <<Top>> \/ \E d \in Structures : c = <<Top, ObjF(d)>>)

(* Sets of states of the reader, with what is left to write, closed under   *)
(* the calls of the writer.                                                 *)
CallSet == [call : {"save_one", "save", "stop", "end", "getstate"}, arg : Objects \cup Values]
FineValue(v) ==
    \/ \E n \in Nat : v = Number(n)
    \/ \E t \in Marks : v = Text(t)
    \/ \E d \in Structures : v = Name(d)
    \/ \E o \in Fine : v = Obj(o)

ByOne(G, X, c, s, h, w) ==
    /\ h.call = "save_one" /\ s = <<>> /\ h.arg \in Fine
    /\ h.arg \in Lists /\ contains_datastructure(h.arg) => c = <<Top>>
    /\ Completes(c, Obj(h.arg)) <=> w = <<>>
    /\ \E e : HearsObject(c, h.arg, X, e) /\ <<e, <<>>, w>> \in G
BySave(G, c, s, h, w) ==
    /\ h.call = "save" /\ FineValue(h.arg) /\ w # <<>>
    /\ <<c, Append(s, h.arg), w>> \in G
ByEnd(G, c, s, h, w) ==
    /\ h.call = "end" /\ w # <<>>
    /\ \E l \in Lists : /\ h.arg = Obj(l) /\ Closes(s, l)
                        /\ <<c, Append(Base(s, l), Obj(l)), w>> \in G
ByStop(G, X, c, s, h, w) ==
    /\ h.call = "stop"
    /\ \E v \in Values : \E e : /\ s = <<v>> /\ Hears(c, v, X, e) /\ <<e, <<>>, w>> \in G
                                /\ Completes(c, v) <=> w = <<>>
ByState(G, c, s, h, w) ==
    /\ h.call = "getstate" /\ s = <<>> /\ h.arg \in Fine /\ w # <<>>
    /\ \E b \in Seq(Frames) : c = Append(b, MarkF(h.arg))
    /\ <<c, s, w>> \in G
Follows(G, X, c, s, h, w) ==
    \/ ByOne(G, X, c, s, h, w) \/ BySave(G, c, s, h, w) \/ ByEnd(G, c, s, h, w)
    \/ ByStop(G, X, c, s, h, w) \/ ByState(G, c, s, h, w)
Agrees(G, X, c, s, w) ==
    /\ c # <<>>
    /\ w = <<>> => c = <<Top>> /\ s = <<>>
    /\ w # <<>> => Follows(G, X, c, s, Head(w), Tail(w))
Coherent(G, X) == \A c, s, w : <<c, s, w>> \in G => Agrees(G, X, c, s, w)

AllPairs == Seq(Frames) \X Seq(Values) \X Seq(CallSet)
Safe(X)  == UNION {G \in SUBSET AllPairs : Coherent(G, X)}

LEMMA AgreesMore ==
    ASSUME NEW G, NEW H, G \subseteq H, NEW X, NEW c, NEW s, NEW w, Agrees(G, X, c, s, w)
    PROVE  Agrees(H, X, c, s, w)
<1> DEFINE h == Head(w)  u == Tail(w)
<1> SUFFICES ASSUME w # <<>> PROVE Follows(H, X, c, s, h, u)
  BY Zenon DEF Agrees
<1>1. Follows(G, X, c, s, h, u)
  BY Zenon DEF Agrees
<1> HIDE DEF h, u
<1>2. \A g : g \in G => g \in H
  OBVIOUS
<1>3. CASE ByOne(G, X, c, s, h, u)
  BY <1>2, <1>3, Zenon DEF ByOne, Follows
<1>4. CASE BySave(G, c, s, h, u)
  BY <1>2, <1>4, Zenon DEF BySave, Follows
<1>5. CASE ByEnd(G, c, s, h, u)
  BY <1>2, <1>5, Zenon DEF ByEnd, Follows
<1>6. CASE ByStop(G, X, c, s, h, u)
  <2>1. PICK v \in Values : \E e : /\ s = <<v>> /\ Hears(c, v, X, e) /\ <<e, <<>>, u>> \in G
                                   /\ Completes(c, v) <=> u = <<>>
    BY <1>6, Zenon DEF ByStop
  <2>2. PICK e : /\ s = <<v>> /\ Hears(c, v, X, e) /\ <<e, <<>>, u>> \in G
                 /\ Completes(c, v) <=> u = <<>>
    BY <2>1, Zenon
  <2>3. ByStop(H, X, c, s, h, u)
    BY <1>2, <1>6, <2>2, Zenon DEF ByStop
  <2> QED
    BY <2>3, Zenon DEF Follows
<1>7. CASE ByState(G, c, s, h, u)
  BY <1>2, <1>7, Zenon DEF ByState, Follows
<1> QED
  BY <1>1, <1>3, <1>4, <1>5, <1>6, <1>7, Zenon DEF Follows

LEMMA SafeCoherent ==
    ASSUME NEW X
    PROVE  Safe(X) \subseteq AllPairs /\ Coherent(Safe(X), X)
<1>1. Safe(X) \subseteq AllPairs
  BY DEF Safe
<1>2. ASSUME NEW c, NEW s, NEW w, <<c, s, w>> \in Safe(X)
      PROVE  Agrees(Safe(X), X, c, s, w)
  <2>1. PICK G \in SUBSET AllPairs : Coherent(G, X) /\ <<c, s, w>> \in G
    BY <1>2, Zenon DEF Safe
  <2>2. G \subseteq Safe(X)
    BY <2>1, Zenon DEF Safe
  <2>3. Agrees(G, X, c, s, w)
    BY <2>1, Zenon DEF Coherent
  <2> QED
    BY <2>2, <2>3, AgreesMore
<1> QED
  BY <1>1, <1>2, Zenon DEF Coherent

LEMMA SafeBy ==
    ASSUME NEW X, NEW P \in SUBSET AllPairs,
           \A c, s, w : <<c, s, w>> \in P => Agrees(Safe(X) \cup P, X, c, s, w)
    PROVE  P \subseteq Safe(X)
<1> DEFINE G == Safe(X) \cup P
<1>1. G \in SUBSET AllPairs
  BY SafeCoherent
<1>2. ASSUME NEW c, NEW s, NEW w, <<c, s, w>> \in G
      PROVE  Agrees(G, X, c, s, w)
  <2>1. CASE <<c, s, w>> \in P
    BY <2>1
  <2>2. CASE <<c, s, w>> \in Safe(X)
    <3>1. Agrees(Safe(X), X, c, s, w)
      BY <2>2, SafeCoherent, Zenon DEF Coherent
    <3>2. Safe(X) \subseteq G
      OBVIOUS
    <3> QED
      BY <3>1, <3>2, AgreesMore
  <2> QED
    BY <1>2, <2>1, <2>2
<1>3. Coherent(G, X)
  BY <1>2, Zenon DEF Coherent
<1>4. G \subseteq Safe(X)
  BY <1>1, <1>3, Zenon DEF Safe
<1> QED
  BY <1>4

LEMMA SafeStep ==
    ASSUME NEW X, NEW c, NEW s, NEW w, <<c, s, w>> \in AllPairs, Agrees(Safe(X), X, c, s, w)
    PROVE  <<c, s, w>> \in Safe(X)
<1> DEFINE P == {<<c, s, w>>}
<1>1. P \in SUBSET AllPairs
  OBVIOUS
<1>2. ASSUME NEW c1, NEW s1, NEW w1, <<c1, s1, w1>> \in P
      PROVE  Agrees(Safe(X) \cup P, X, c1, s1, w1)
  <2>1. c1 = c /\ s1 = s /\ w1 = w
    BY <1>2
  <2>2. Agrees(Safe(X) \cup P, X, c, s, w)
    BY AgreesMore
  <2> QED
    BY <2>1, <2>2, Zenon
<1>3. P \subseteq Safe(X)
  BY <1>1, <1>2, SafeBy
<1> QED
  BY <1>3

-----------------------------------------------------------------------------
(* What the writer has still to write, call after call.                     *)
LEMMA FramesType ==
    /\ Top \in Frames /\ SizeF \in Frames /\ NbObjF \in Frames
    /\ \A n \in Nat : ItemsF(n) \in Frames /\ NameF(n) \in Frames
    /\ \A d \in Structures : MarkF(d) \in Frames /\ NbStateF(d) \in Frames /\ ObjF(d) \in Frames
    /\ \A d \in Structures, k \in Nat : /\ ArgsF(d, k) \in Frames /\ StateF(d, k) \in Frames
                                        /\ AfterArgs(d, k) \in Frames
                                        /\ AfterState(d, k) \in Frames
BY DEF Frames, AfterArgs, AfterState

(* The frames are told apart by what they wait for.                         *)
LEMMA FrameKinds ==
    /\ Top.kind = "top" /\ SizeF.kind = "size" /\ NbObjF.kind = "nbobj"
    /\ \A n : ItemsF(n).kind = "items" /\ NameF(n).kind = "name"
    /\ \A n : ItemsF(n).left = n /\ NameF(n).read = Number(n)
    /\ \A d : /\ MarkF(d).kind = "mark" /\ NbStateF(d).kind = "nbstate" /\ ObjF(d).kind = "obj"
              /\ MarkF(d).name = Name(d) /\ NbStateF(d).name = Name(d) /\ ObjF(d).name = Name(d)
    /\ \A d, k : /\ ArgsF(d, k).kind = "args" /\ StateF(d, k).kind = "state"
                 /\ ArgsF(d, k).name = Name(d) /\ StateF(d, k).name = Name(d)
                 /\ ArgsF(d, k).left = Len(Items[d]) - k
                 /\ StateF(d, k).left = Len(StateOf[d]) - k
                 /\ ArgsF(d, k).read = Upto(Items[d], k)
                 /\ StateF(d, k).read = Upto(StateOf[d], k)
BY DEF Top, Frame, SizeF, ItemsF, NbObjF, NameF, ArgsF, MarkF, NbStateF, StateF, ObjF

LEMMA HearsObjectType ==
    ASSUME NEW c, NEW o, NEW X, NEW e, HearsObject(c, o, X, e)
    PROVE  c \in Seq(Frames) /\ e \in Seq(Frames) /\ c # <<>> /\ e # <<>>
<1>1. CASE c = <<Top>> /\ o = X /\ e = <<Top>>
  BY <1>1, FramesType
<1>2. CASE HearsItem(c, e)
  <2>1. PICK n \in Nat : n # 0 /\ c = <<Top, ItemsF(n)>> /\ e = AfterItem(n)
    BY <1>2, Zenon DEF HearsItem
  <2>2. ItemsF(n) \in Frames /\ Top \in Frames
    BY FramesType
  <2>3. n # 1 => ItemsF(n - 1) \in Frames
    BY <2>1, FramesType
  <2>4. AfterItem(n) \in Seq(Frames) /\ AfterItem(n) # <<>>
    BY <2>2, <2>3 DEF AfterItem
  <2> QED
    BY <2>1, <2>2, <2>4
<1>3. CASE HearsArg(c, o, e)
  <2>1. PICK b \in Seq(Frames), d \in Structures, k \in Nat :
            /\ k < Len(Items[d]) /\ c = Append(b, ArgsF(d, k)) /\ e = Append(b, AfterArgs(d, k + 1))
    BY <1>3, Zenon DEF HearsArg
  <2>2. ArgsF(d, k) \in Frames /\ AfterArgs(d, k + 1) \in Frames
    BY FramesType
  <2> QED
    BY <2>1, <2>2, AppendProperties
<1>4. CASE HearsState(c, o, e)
  <2>1. PICK b \in Seq(Frames), d \in Structures, k \in Nat :
            /\ k < Len(StateOf[d]) /\ c = Append(b, StateF(d, k))
            /\ e = Append(b, AfterState(d, k + 1))
    BY <1>4, Zenon DEF HearsState
  <2>2. StateF(d, k) \in Frames /\ AfterState(d, k + 1) \in Frames
    BY FramesType
  <2> QED
    BY <2>1, <2>2, AppendProperties
<1> QED
  BY <1>1, <1>2, <1>3, <1>4, Zenon DEF HearsObject

(* Sequences of calls.                                                      *)
LEMMA CallsType ==
    /\ \A o \in Objects : Call("save_one", o) \in CallSet /\ Call("getstate", o) \in CallSet
    /\ \A v \in Values : /\ Call("save", v) \in CallSet /\ Call("stop", v) \in CallSet
                         /\ Call("end", v) \in CallSet
                         /\ Put(v) \in Seq(CallSet)
    /\ None \in Values
BY DEF Call, CallSet, Put, Values, None

LEMMA Link ==
    ASSUME NEW x \in CallSet, NEW R \in Seq(CallSet)
    PROVE  /\ <<x>> \o R \in Seq(CallSet) /\ <<x>> \o R # <<>>
           /\ Head(<<x>> \o R) = x /\ Tail(<<x>> \o R) = R
<1> DEFINE s == <<x>> \o R
<1>0. Len(R) \in Nat
  OBVIOUS
<1>1. s \in Seq(CallSet) /\ Len(s) = 1 + Len(R) /\ s[1] = x
      /\ \A i \in 1..Len(R) : s[i + 1] = R[i]
  BY <1>0
<1> HIDE DEF s
<1>2. s # <<>> /\ Head(s) = x
  BY <1>0, <1>1
<1>3. Tail(s) \in Seq(CallSet) /\ Len(Tail(s)) = Len(R) /\ \A i \in 1..Len(R) : Tail(s)[i] = R[i]
  BY <1>0, <1>1, <1>2, HeadTailProperties
<1>4. Tail(s) = R
  BY <1>3, SeqEqual
<1> QED
  BY <1>1, <1>2, <1>4 DEF s

LEMMA PutLink ==
    ASSUME NEW v \in Values, NEW R \in Seq(CallSet)
    PROVE  Put(v) \o R = <<Call("save", v)>> \o (<<Call("stop", None)>> \o R)
<1>1. Call("save", v) \in CallSet /\ Call("stop", None) \in CallSet
  BY CallsType
<1>2. Put(v) = <<Call("save", v)>> \o <<Call("stop", None)>>
  BY DEF Put
<1> QED
  BY <1>1, <1>2, ConcatAssociative

LEMMA FromProperties ==
    ASSUME NEW T, NEW q \in Seq(T)
    PROVE  /\ From(q, 0) = q
           /\ From(q, Len(q)) = <<>>
           /\ \A k \in 0..Len(q) : From(q, k) \in Seq(T)
           /\ \A k \in 0..Len(q) : k < Len(q) =>
                 /\ q[k + 1] \in T
                 /\ From(q, k) = <<q[k + 1]>> \o From(q, k + 1)
<1>0. Len(q) \in Nat
  OBVIOUS
<1>1. From(q, 0) = q
  <2>1. From(q, 0) = SubSeq(q, 1, Len(q))
    BY <1>0 DEF From
  <2> QED
    BY <2>1, SubSeqFull
<1>2. \A k \in 0..Len(q) : /\ From(q, k) \in Seq(T) /\ Len(From(q, k)) = Len(q) - k
                           /\ \A i \in 1..(Len(q) - k) : From(q, k)[i] = q[k + i]
  BY <1>0 DEF From
<1>3. From(q, Len(q)) = <<>>
  BY <1>0, <1>2, EmptySeq
<1>4. ASSUME NEW k \in 0..Len(q), k < Len(q)
      PROVE  q[k + 1] \in T /\ From(q, k) = <<q[k + 1]>> \o From(q, k + 1)
  <2>1. k + 1 \in 1..Len(q) /\ k + 1 \in 0..Len(q)
    BY <1>0, <1>4
  <2>2. q[k + 1] \in T
    BY <2>1
  <2> DEFINE a == From(q, k)
             r == From(q, k + 1)
             x == q[k + 1]
             b == <<x>> \o r
  <2>3. a \in Seq(T) /\ Len(a) = Len(q) - k /\ \A i \in 1..(Len(q) - k) : a[i] = q[k + i]
    BY <1>2
  <2>4. r \in Seq(T) /\ Len(r) = Len(q) - (k + 1) /\ \A i \in 1..(Len(q) - (k + 1)) : r[i] = q[(k + 1) + i]
    BY <1>2, <2>1
  <2>5. x \in T /\ x = q[k + 1]
    BY <2>2
  <2> HIDE DEF a, r, x
  <2>6. b \in Seq(T) /\ Len(b) = Len(q) - k /\ b[1] = x
        /\ \A i \in 1..Len(r) : b[i + 1] = r[i]
    BY <1>0, <1>4, <2>4, <2>5
  <2> HIDE DEF b
  <2>7. \A i \in 1..(Len(q) - k) : a[i] = b[i]
    <3> SUFFICES ASSUME NEW i \in 1..(Len(q) - k) PROVE a[i] = b[i]
      OBVIOUS
    <3>1. CASE i = 1
      BY <3>1, <2>3, <2>5, <2>6
    <3>2. CASE i # 1
      <4>1. i - 1 \in 1..Len(r) /\ (k + 1) + (i - 1) = k + i /\ (i - 1) + 1 = i
        BY <3>2, <1>0, <1>4, <2>4
      <4>2. b[(i - 1) + 1] = r[i - 1] /\ r[i - 1] = q[(k + 1) + (i - 1)]
        BY <4>1, <2>4, <2>6
      <4> QED
        BY <4>1, <4>2, <2>3
    <3> QED
      BY <3>1, <3>2
  <2>8. a = b
    BY <2>3, <2>6, <2>7, SeqEqual
  <2> QED
    BY <2>2, <2>8 DEF a, b, r, x
<1> QED
  BY <1>1, <1>2, <1>3, <1>4

LEMMA EachType ==
    ASSUME NEW s \in Seq(Objects)
    PROVE  /\ Each(s) \in Seq(CallSet) /\ Len(Each(s)) = Len(s)
           /\ \A i \in 1..Len(s) : Each(s)[i] = Call("save_one", s[i])
<1>1. DOMAIN s = 1..Len(s) /\ \A i \in 1..Len(s) : s[i] \in Objects
  OBVIOUS
<1>2. \A i \in 1..Len(s) : Call("save_one", s[i]) \in CallSet
  BY <1>1, CallsType
<1>3. Each(s) = [i \in 1..Len(s) |-> Call("save_one", s[i])]
  BY <1>1 DEF Each
<1> QED
  BY <1>2, <1>3, IsASeq

LEMMA CallFields ==
    \A f, x : Call(f, x).call = f /\ Call(f, x).arg = x
BY DEF Call

LEMMA PairType ==
    /\ \A c \in Seq(Frames), s \in Seq(Values), w \in Seq(CallSet) : <<c, s, w>> \in AllPairs
    /\ <<>> \in Seq(Values) /\ \A v \in Values : <<v>> \in Seq(Values)
<1>1. \A c \in Seq(Frames), s \in Seq(Values), w \in Seq(CallSet) : <<c, s, w>> \in AllPairs
  BY Zenon DEF AllPairs
<1> QED
  BY <1>1

LEMMA SafeType ==
    ASSUME NEW X, NEW c, NEW s, NEW w, <<c, s, w>> \in Safe(X)
    PROVE  c \in Seq(Frames) /\ s \in Seq(Values) /\ w \in Seq(CallSet)
<1>1. <<c, s, w>> \in Seq(Frames) \X Seq(Values) \X Seq(CallSet)
  BY SafeCoherent DEF AllPairs
<1> QED
  BY <1>1

(* The writer dumps v, the reader receives it.                              *)
LEMMA SafePut ==
    ASSUME NEW X, NEW c \in Seq(Frames), c # <<>>, NEW v \in Values, FineValue(v),
           NEW R \in Seq(CallSet), NEW e, Hears(c, v, X, e), <<e, <<>>, R>> \in Safe(X),
           Completes(c, v) <=> R = <<>>
    PROVE  <<c, <<>>, Put(v) \o R>> \in Safe(X)
<1> DEFINE stop == Call("stop", None)
           save == Call("save", v)
           w    == <<stop>> \o R
<1>1. stop \in CallSet /\ save \in CallSet
  BY CallsType
<1>2. w \in Seq(CallSet) /\ w # <<>> /\ Head(w) = stop /\ Tail(w) = R
  BY <1>1, Link
<1>3. stop.call = "stop" /\ save.call = "save" /\ save.arg = v
  BY CallFields
<1> HIDE DEF stop, save, w
<1>4. ByStop(Safe(X), X, c, <<v>>, stop, R)
  BY <1>3, Zenon DEF ByStop
<1>5. Agrees(Safe(X), X, c, <<v>>, w)
  BY <1>2, <1>4, Zenon DEF Agrees, Follows
<1>6. <<c, <<v>>, w>> \in AllPairs
  BY <1>2, PairType, Zenon
<1>7. <<c, <<v>>, w>> \in Safe(X)
  BY <1>5, <1>6, SafeStep
<1> DEFINE u == <<save>> \o w
<1>8. u \in Seq(CallSet) /\ u # <<>> /\ Head(u) = save /\ Tail(u) = w
  BY <1>1, <1>2, Link
<1> HIDE DEF u
<1>9. Append(<<>>, v) = <<v>>
  OBVIOUS
<1>10. BySave(Safe(X), c, <<>>, save, w)
  BY <1>2, <1>3, <1>7, <1>9, Zenon DEF BySave
<1>11. Agrees(Safe(X), X, c, <<>>, u)
  BY <1>8, <1>10, Zenon DEF Agrees, Follows
<1>12. <<c, <<>>, u>> \in AllPairs
  BY <1>8, PairType, Zenon
<1>13. <<c, <<>>, u>> \in Safe(X)
  BY <1>11, <1>12, SafeStep
<1>14. u = Put(v) \o R
  BY PutLink DEF u, w, save, stop
<1> QED
  BY <1>13, <1>14

LEMMA FromThen ==
    ASSUME NEW q \in Seq(CallSet), NEW R \in Seq(CallSet), R # <<>>, NEW k \in 0..Len(q)
    PROVE  /\ From(q, k) \o R \in Seq(CallSet) /\ From(q, k) \o R # <<>>
           /\ k = Len(q) => From(q, k) \o R = R
           /\ k < Len(q) => /\ Head(From(q, k) \o R) = q[k + 1]
                            /\ Tail(From(q, k) \o R) = From(q, k + 1) \o R
                            /\ k + 1 \in 0..Len(q) /\ q[k + 1] \in CallSet
<1>0. Len(q) \in Nat
  OBVIOUS
<1>1. From(q, k) \in Seq(CallSet)
  BY FromProperties
<1>2. From(q, k) \o R \in Seq(CallSet) /\ From(q, k) \o R # <<>>
  BY <1>1, ConcatEqualIffEmpty, ConcatProperties
<1>3. k = Len(q) => From(q, k) \o R = R
  BY FromProperties, ConcatEmptySeq
<1>4. ASSUME k < Len(q)
      PROVE  /\ Head(From(q, k) \o R) = q[k + 1]
             /\ Tail(From(q, k) \o R) = From(q, k + 1) \o R
             /\ k + 1 \in 0..Len(q) /\ q[k + 1] \in CallSet
  <2>1. k + 1 \in 0..Len(q)
    BY <1>0, <1>4
  <2>2. q[k + 1] \in CallSet /\ From(q, k) = <<q[k + 1]>> \o From(q, k + 1)
    BY <1>4, FromProperties
  <2>3. From(q, k + 1) \in Seq(CallSet)
    BY <2>1, FromProperties
  <2> DEFINE x == q[k + 1]  f == From(q, k + 1)
  <2>4. (<<x>> \o f) \o R = <<x>> \o (f \o R)
    <3>1. <<x>> \in Seq(CallSet)
      BY <2>2
    <3> QED
      BY <2>3, <3>1, ConcatAssociative
  <2>5. f \o R \in Seq(CallSet)
    BY <2>3, ConcatProperties
  <2>6. Head(<<x>> \o (f \o R)) = x /\ Tail(<<x>> \o (f \o R)) = f \o R
    BY <2>2, <2>5, Link
  <2> QED
    BY <2>1, <2>2, <2>4, <2>6
<1> QED
  BY <1>2, <1>3, <1>4

(* The calls fr[0], fr[1], ... of the reader while the objects of s are     *)
(* saved one after the other.                                               *)
LEMMA SafeEach ==
    ASSUME NEW X, NEW s \in Seq(Objects), NEW fr \in [0..Len(s) -> Seq(Frames)],
           NEW R \in Seq(CallSet), R # <<>>,
           \A i \in 1..Len(s) : s[i] \in Fine /\ ~(s[i] \in Lists /\ contains_datastructure(s[i])),
           \A k \in 0..Len(s) : k < Len(s) => HearsObject(fr[k], s[k + 1], X, fr[k + 1])
                                              /\ ~Completes(fr[k], Obj(s[k + 1])),
           <<fr[Len(s)], <<>>, R>> \in Safe(X)
    PROVE  <<fr[0], <<>>, Each(s) \o R>> \in Safe(X)
<1> DEFINE q == Each(s)
           F(k) == <<fr[k], <<>>, From(q, k) \o R>>
           P == {F(k) : k \in 0..Len(s)}
<1>0. Len(s) \in Nat /\ q \in Seq(CallSet) /\ Len(q) = Len(s)
      /\ \A i \in 1..Len(s) : q[i] = Call("save_one", s[i])
  BY EachType
<1> HIDE DEF q
<1>a. ASSUME NEW k \in 0..Len(s)
      PROVE  /\ From(q, k) \o R \in Seq(CallSet) /\ From(q, k) \o R # <<>>
             /\ k = Len(s) => From(q, k) \o R = R
             /\ k < Len(s) => /\ Head(From(q, k) \o R) = q[k + 1]
                              /\ Tail(From(q, k) \o R) = From(q, k + 1) \o R
                              /\ k + 1 \in 0..Len(s) /\ k + 1 \in 1..Len(s)
  <2>1. k \in 0..Len(q)
    BY <1>0
  <2>2. /\ From(q, k) \o R \in Seq(CallSet) /\ From(q, k) \o R # <<>>
        /\ k = Len(q) => From(q, k) \o R = R
        /\ k < Len(q) => /\ Head(From(q, k) \o R) = q[k + 1]
                         /\ Tail(From(q, k) \o R) = From(q, k + 1) \o R
    BY <1>0, <2>1, FromThen, ZenonT(30)
  <2>3. k < Len(s) => k + 1 \in 0..Len(s) /\ k + 1 \in 1..Len(s)
    BY <1>0
  <2> QED
    BY <1>0, <2>2, <2>3
<1>1. \A k \in 0..Len(s) : /\ From(q, k) \o R \in Seq(CallSet) /\ From(q, k) \o R # <<>>
                           /\ fr[k] \in Seq(Frames)
  BY <1>a
<1>2. P \in SUBSET AllPairs
  BY <1>1, PairType
<1>3. ASSUME NEW c, NEW st, NEW w, <<c, st, w>> \in P
      PROVE  Agrees(Safe(X) \cup P, X, c, st, w)
  <2>1. PICK k \in 0..Len(s) : c = fr[k] /\ st = <<>> /\ w = From(q, k) \o R
    BY <1>3
  <2>2. CASE k = Len(s)
    <3>1. w = R
      BY <1>a, <2>1, <2>2
    <3>2. <<c, st, w>> \in Safe(X)
      BY <2>1, <2>2, <3>1
    <3>3. Agrees(Safe(X), X, c, st, w)
      BY <3>2, SafeCoherent, Zenon DEF Coherent
    <3>4. Safe(X) \subseteq Safe(X) \cup P
      OBVIOUS
    <3> QED
      BY <3>3, <3>4, AgreesMore
  <2>3. CASE k < Len(s)
    <3> DEFINE u == From(q, k + 1) \o R
    <3>1. w # <<>> /\ Head(w) = q[k + 1] /\ Tail(w) = u /\ k + 1 \in 0..Len(s) /\ k + 1 \in 1..Len(s)
      BY <1>a, <2>1, <2>3
    <3>2. q[k + 1] = Call("save_one", s[k + 1])
      BY <1>0, <3>1
    <3>3. HearsObject(c, s[k + 1], X, fr[k + 1]) /\ ~Completes(c, Obj(s[k + 1]))
      BY <2>1, <2>3
    <3>4. c # <<>>
      BY <3>3, HearsObjectType
    <3>5. <<fr[k + 1], <<>>, u>> \in P
      BY <3>1
    <3>6. u # <<>>
      BY <1>1, <3>1
    <3>7. s[k + 1] \in Fine /\ ~(s[k + 1] \in Lists /\ contains_datastructure(s[k + 1]))
      BY <3>1
    <3> DEFINE h == Call("save_one", s[k + 1])
    <3>8. h.call = "save_one" /\ h.arg = s[k + 1]
      BY CallFields
    <3> HIDE DEF h, u, P, F
    <3>9. \E e : HearsObject(c, h.arg, X, e) /\ <<e, <<>>, u>> \in Safe(X) \cup P
      BY <3>3, <3>5, <3>8
    <3>10. ByOne(Safe(X) \cup P, X, c, st, h, u)
      BY <2>1, <3>3, <3>6, <3>7, <3>8, <3>9, Zenon DEF ByOne
    <3>11. Head(w) = h
      BY <3>1, <3>2 DEF h
    <3> QED
      BY <3>1, <3>4, <3>10, <3>11, Zenon DEF Agrees, Follows
  <2> QED
    BY <1>0, <2>2, <2>3
<1>4. P \subseteq Safe(X)
  BY <1>2, <1>3, SafeBy
<1>5. F(0) \in P
  <2>1. 0 \in 0..Len(s)
    BY <1>0
  <2> QED
    BY <2>1, Zenon
<1>6. From(q, 0) = q
  BY <1>0, FromProperties
<1> QED
  BY <1>4, <1>5, <1>6 DEF q

(* The same, in the pickler: the stack of the reader while the items of the *)
(* list l are saved.                                                        *)
SavesOf(s)    == [i \in DOMAIN s |-> Call("save", Obj(s[i]))]
Since(s, l, k) == Append(s, Open(l)) \o Upto(Items[l], k)

LEMMA SavesType ==
    ASSUME NEW s \in Seq(Objects)
    PROVE  /\ SavesOf(s) \in Seq(CallSet) /\ Len(SavesOf(s)) = Len(s)
           /\ \A i \in 1..Len(s) : SavesOf(s)[i] = Call("save", Obj(s[i]))
<1>1. DOMAIN s = 1..Len(s) /\ \A i \in 1..Len(s) : s[i] \in Objects
  OBVIOUS
<1>2. \A i \in 1..Len(s) : Call("save", Obj(s[i])) \in CallSet
  BY <1>1, CallsType, ObjIsValue
<1>3. SavesOf(s) = [i \in 1..Len(s) |-> Call("save", Obj(s[i]))]
  BY <1>1 DEF SavesOf
<1> QED
  BY <1>2, <1>3, IsASeq

LEMMA SinceProperties ==
    ASSUME NEW s \in Seq(Values), NEW l \in Objects
    PROVE  /\ \A k \in 0..Len(Items[l]) : Since(s, l, k) \in Seq(Values)
           /\ Since(s, l, 0) = Append(s, Open(l))
           /\ \A k \in 0..Len(Items[l]) : k < Len(Items[l]) =>
                 Append(Since(s, l, k), Obj(Items[l][k + 1])) = Since(s, l, k + 1)
<1> DEFINE I == Items[l]
           b == Append(s, Open(l))
<1>0. I \in Seq(Objects) /\ Len(I) \in Nat
  BY ItemsType
<1>1. b \in Seq(Values)
  BY OpenIsValue, AppendProperties
<1> HIDE DEF b, I
<1>2. \A k \in 0..Len(I) : b \o Upto(I, k) \in Seq(Values)
  BY <1>0, <1>1, UptoProperties, ConcatProperties
<1>3. b \o Upto(I, 0) = b
  BY <1>0, <1>1, UptoProperties, ConcatEmptySeq
<1>4. ASSUME NEW k \in 0..Len(I), k < Len(I)
      PROVE  Append(b \o Upto(I, k), Obj(I[k + 1])) = b \o Upto(I, k + 1)
  <2> DEFINE u == Upto(I, k)
             x == Obj(I[k + 1])
  <2>1. u \in Seq(Values)
    BY <1>0, UptoProperties
  <2>2. x \in Values
    <3>1. k + 1 \in 1..Len(I)
      BY <1>0, <1>4
    <3>2. I[k + 1] \in Objects
      BY <1>0, <3>1
    <3> QED
      BY <3>2, ObjIsValue
  <2>3. Upto(I, k + 1) = Append(u, x)
    BY <1>0, <1>4, UptoProperties
  <2> HIDE DEF u, x
  <2>4. Append(u, x) = u \o <<x>>
    BY <2>1, <2>2, AppendIsConcat
  <2>5. b \o u \in Seq(Values) /\ <<x>> \in Seq(Values)
    BY <1>1, <2>1, <2>2, ConcatProperties, PairType
  <2>6. Append(b \o u, x) = (b \o u) \o <<x>>
    BY <2>2, <2>5, AppendIsConcat
  <2>7. (b \o u) \o <<x>> = b \o (u \o <<x>>)
    BY <1>1, <2>1, <2>5, ConcatAssociative, SMTT(30)
  <2>8. Append(b \o u, x) = b \o Upto(I, k + 1)
    BY <2>3, <2>4, <2>6, <2>7
  <2> QED
    BY <2>8 DEF u, x
<1>5. \A k : Since(s, l, k) = b \o Upto(I, k)
  BY DEF Since, b, I
<1>6. /\ \A k \in 0..Len(I) : Since(s, l, k) \in Seq(Values)
      /\ Since(s, l, 0) = b
      /\ \A k \in 0..Len(I) : k < Len(I) => Append(Since(s, l, k), Obj(I[k + 1])) = Since(s, l, k + 1)
  BY <1>2, <1>3, <1>4, <1>5
<1> QED
  BY <1>6, Zenon DEF I, b

LEMMA SinceCloses ==
    ASSUME NEW s \in Seq(Values), NEW l \in Objects
    PROVE  Closes(Since(s, l, Len(Items[l])), l) /\ Base(Since(s, l, Len(Items[l])), l) = s
<1> DEFINE n == Len(Items[l])
           u == ObjEach(Items[l])
           t == Since(s, l, n)
           b == Append(s, Open(l))
<1>0. n \in Nat /\ Len(s) \in Nat
  BY ItemsType
<1>1. u \in Seq(Values) /\ Len(u) = n
  BY ItemsType, ObjEachType
<1>2. b \in Seq(Values) /\ Len(b) = Len(s) + 1 /\ b[Len(s) + 1] = Open(l)
      /\ \A i \in 1..Len(s) : b[i] = s[i]
  BY OpenIsValue, AppendProperties
<1>3. t = b \o u
  BY ItemsType, UptoProperties DEF Since
<1> HIDE DEF n, u, t, b
<1>4. t \in Seq(Values) /\ Len(t) = Len(s) + 1 + n
      /\ \A i \in 1..(Len(s) + 1 + n) : t[i] = IF i <= Len(s) + 1 THEN b[i] ELSE u[i - (Len(s) + 1)]
  <2>1. /\ b \o u \in Seq(Values) /\ Len(b \o u) = Len(b) + Len(u)
        /\ \A i \in 1..Len(b) + Len(u) : (b \o u)[i] = IF i <= Len(b) THEN b[i] ELSE u[i - Len(b)]
    BY <1>1, <1>2, ConcatProperties
  <2> QED
    BY <1>0, <1>1, <1>2, <1>3, <2>1
<1>5. t[Len(t) - n] = Open(l) /\ n < Len(t)
  BY <1>0, <1>2, <1>4
<1>6. SubSeq(t, Len(t) - n + 1, Len(t)) = u
  <2> DEFINE v == SubSeq(t, Len(t) - n + 1, Len(t))
  <2>1. v \in Seq(Values) /\ Len(v) = n /\ \A i \in 1..n : v[i] = t[Len(s) + 1 + i]
    <3>1. Len(t) - n + 1 = Len(s) + 2
      BY <1>0, <1>4
    <3>2. \A i \in (Len(s) + 2)..Len(t) : t[i] \in Values
      BY <1>0, <1>4
    <3>3. v = SubSeq(t, Len(s) + 2, Len(t))
      BY <3>1
    <3> QED
      BY <1>0, <1>4, <3>2, <3>3, SubSeqProperties
  <2>2. \A i \in 1..n : v[i] = u[i]
    BY <1>0, <1>4, <2>1
  <2> HIDE DEF v
  <2>3. v = u
    BY <1>1, <2>1, <2>2, SeqEqual
  <2> QED
    BY <2>3 DEF v
<1>7. SubSeq(t, 1, Len(t) - n - 1) = s
  <2> DEFINE v == SubSeq(t, 1, Len(s))
  <2>1. v \in Seq(Values) /\ Len(v) = Len(s) /\ \A i \in 1..Len(s) : v[i] = t[i]
    BY <1>0, <1>4
  <2>2. \A i \in 1..Len(s) : v[i] = s[i]
    BY <1>0, <1>2, <1>4, <2>1
  <2> HIDE DEF v
  <2>3. v = s
    BY <2>1, <2>2, SeqEqual
  <2>4. Len(t) - n - 1 = Len(s)
    BY <1>0, <1>4
  <2> QED
    BY <2>3, <2>4 DEF v
<1>8. Closes(t, l)
  BY <1>5, <1>6 DEF Closes, n, u
<1>9. Base(t, l) = s
  BY <1>7 DEF Base, n
<1> QED
  BY <1>8, <1>9 DEF t, n

LEMMA SafeList ==
    ASSUME NEW X, NEW c \in Seq(Frames), c # <<>>, NEW s \in Seq(Values),
           NEW l \in Lists, l \in Fine, NEW R \in Seq(CallSet), R # <<>>,
           <<c, Append(s, Obj(l)), R>> \in Safe(X)
    PROVE  <<c, Append(s, Open(l)), (SavesOf(Items[l]) \o <<Call("end", Obj(l))>>) \o R>> \in Safe(X)
<1> DEFINE I == Items[l]
           h == Call("end", Obj(l))
           E == <<h>> \o R
           q == SavesOf(I)
           F(k) == <<c, Since(s, l, k), From(q, k) \o E>>
           P == {F(k) : k \in 0..Len(I)}
<1>0. l \in Objects /\ I \in Seq(Objects) /\ Len(I) \in Nat
  BY ItemsType DEF Lists
<1>1. h \in CallSet /\ h.call = "end" /\ h.arg = Obj(l)
  BY <1>0, CallsType, ObjIsValue, CallFields
<1>2. E \in Seq(CallSet) /\ E # <<>> /\ Head(E) = h /\ Tail(E) = R
  BY <1>1, Link
<1>3. q \in Seq(CallSet) /\ Len(q) = Len(I) /\ \A i \in 1..Len(I) : q[i] = Call("save", Obj(I[i]))
  BY <1>0, SavesType
<1>4. \A k \in 0..Len(I) : Since(s, l, k) \in Seq(Values)
  BY <1>0, SinceProperties
<1>5. (q \o <<h>>) \o R = q \o E
  <2>1. <<h>> \in Seq(CallSet)
    BY <1>1
  <2> HIDE DEF h, q
  <2> QED
    BY <1>3, <2>1, ConcatAssociative, SMTT(30)
<1>6. <<c, Since(s, l, Len(I)), E>> \in Safe(X)
  <2>1. Since(s, l, Len(I)) \in Seq(Values)
    BY <1>0, <1>4
  <2>2. Closes(Since(s, l, Len(I)), l) /\ Base(Since(s, l, Len(I)), l) = s
    BY <1>0, SinceCloses
  <2> HIDE DEF E, h
  <2>3. ByEnd(Safe(X), c, Since(s, l, Len(I)), h, R)
    BY <1>1, <2>2, Zenon DEF ByEnd
  <2>4. Agrees(Safe(X), X, c, Since(s, l, Len(I)), E)
    BY <1>2, <2>3, Zenon DEF Agrees, Follows
  <2>5. <<c, Since(s, l, Len(I)), E>> \in AllPairs
    BY <1>2, <2>1, PairType, Zenon
  <2> QED
    BY <2>4, <2>5, SafeStep
<1> HIDE DEF E, q, h, I
<1>a. ASSUME NEW k \in 0..Len(I)
      PROVE  /\ From(q, k) \o E \in Seq(CallSet) /\ From(q, k) \o E # <<>>
             /\ k = Len(I) => From(q, k) \o E = E
             /\ k < Len(I) => /\ Head(From(q, k) \o E) = q[k + 1]
                              /\ Tail(From(q, k) \o E) = From(q, k + 1) \o E
                              /\ k + 1 \in 0..Len(I) /\ k + 1 \in 1..Len(I)
  <2>1. k \in 0..Len(q)
    BY <1>3
  <2>2. /\ From(q, k) \o E \in Seq(CallSet) /\ From(q, k) \o E # <<>>
        /\ k = Len(q) => From(q, k) \o E = E
        /\ k < Len(q) => /\ Head(From(q, k) \o E) = q[k + 1]
                         /\ Tail(From(q, k) \o E) = From(q, k + 1) \o E
    <3>1. E \in Seq(CallSet) /\ E # <<>> /\ q \in Seq(CallSet)
      BY <1>2, <1>3
    <3> QED
      BY <2>1, <3>1, FromThen, ZenonT(30)
  <2>3. k < Len(I) => k + 1 \in 0..Len(I) /\ k + 1 \in 1..Len(I)
    BY <1>0
  <2> QED
    BY <1>3, <2>2, <2>3
<1>7. P \in SUBSET AllPairs
  <2> SUFFICES ASSUME NEW k \in 0..Len(I) PROVE F(k) \in AllPairs
    BY Zenon
  <2> QED
    BY <1>4, <1>a, PairType
<1>8. ASSUME NEW d, NEW st, NEW w, <<d, st, w>> \in P
      PROVE  Agrees(Safe(X) \cup P, X, d, st, w)
  <2>1. PICK k \in 0..Len(I) : d = c /\ st = Since(s, l, k) /\ w = From(q, k) \o E
    BY <1>8
  <2>2. CASE k = Len(I)
    <3>1. w = E
      BY <1>a, <2>1, <2>2
    <3>2. <<d, st, w>> \in Safe(X)
      BY <1>6, <2>1, <2>2, <3>1
    <3>3. Agrees(Safe(X), X, d, st, w)
      BY <3>2, SafeCoherent, Zenon DEF Coherent
    <3>4. Safe(X) \subseteq Safe(X) \cup P
      OBVIOUS
    <3> QED
      BY <3>3, <3>4, AgreesMore
  <2>3. CASE k < Len(I)
    <3> DEFINE u == From(q, k + 1) \o E
               x == Call("save", Obj(I[k + 1]))
    <3>1. w # <<>> /\ Head(w) = q[k + 1] /\ Tail(w) = u /\ k + 1 \in 0..Len(I) /\ k + 1 \in 1..Len(I)
      BY <1>a, <2>1, <2>3
    <3>2. Head(w) = x
      BY <1>3, <3>1
    <3>3. u # <<>>
      BY <1>a, <3>1
    <3>4. Append(st, Obj(I[k + 1])) = Since(s, l, k + 1)
      BY <1>0, <2>1, <2>3, SinceProperties DEF I
    <3>5. <<d, Since(s, l, k + 1), u>> \in P
      BY <2>1, <3>1
    <3>6. FineValue(Obj(I[k + 1]))
      <4>1. I[k + 1] \in Held(l)
        BY <1>0, <3>1, HeldItems DEF I
      <4>2. Kind[l] # "plain"
        BY DEF Lists
      <4>3. I[k + 1] \in Fine
        BY <4>1, <4>2, FineFacts
      <4> QED
        BY <4>3, Zenon DEF FineValue
    <3>7. x.call = "save" /\ x.arg = Obj(I[k + 1])
      BY CallFields
    <3> HIDE DEF x, u, P, F
    <3>8. BySave(Safe(X) \cup P, d, st, x, u)
      BY <3>3, <3>4, <3>5, <3>6, <3>7 DEF BySave
    <3> QED
      BY <2>1, <3>1, <3>2, <3>8, Zenon DEF Agrees, Follows
  <2> QED
    BY <1>0, <2>2, <2>3
<1>9. P \subseteq Safe(X)
  BY <1>7, <1>8, SafeBy
<1>10. F(0) \in P
  <2>1. 0 \in 0..Len(I)
    BY <1>0
  <2> QED
    BY <2>1, Zenon
<1>11. From(q, 0) = q
  BY <1>3, FromProperties
<1>12. Since(s, l, 0) = Append(s, Open(l))
  BY <1>0, SinceProperties
<1>13. <<c, Append(s, Open(l)), q \o E>> \in Safe(X)
  BY <1>9, <1>10, <1>11, <1>12
<1> QED
  BY <1>5, <1>13 DEF q, h, I

(* Calls that wait for something else than an object are not over.          *)
LEMMA LastFrame ==
    ASSUME NEW b \in Seq(Frames), NEW f \in Frames
    PROVE  /\ Append(b, f) \in Seq(Frames) /\ Append(b, f) # <<>>
           /\ Last(Append(b, f)) = f /\ Front(Append(b, f)) = b
<1> DEFINE c == Append(b, f)
<1>0. Len(b) \in Nat
  OBVIOUS
<1>1. c \in Seq(Frames) /\ Len(c) = Len(b) + 1 /\ c[Len(b) + 1] = f /\ c # <<>>
      /\ \A i \in 1..Len(b) : c[i] = b[i]
  BY AppendProperties
<1> HIDE DEF c
<1>2. Last(c) = f
  BY <1>0, <1>1 DEF Last
<1>3. Front(c) = b
  <2> DEFINE v == SubSeq(c, 1, Len(b))
  <2>1. v \in Seq(Frames) /\ Len(v) = Len(b) /\ \A i \in 1..Len(b) : v[i] = c[i]
    BY <1>0, <1>1
  <2>2. \A i \in 1..Len(b) : v[i] = b[i]
    BY <1>1, <2>1
  <2> HIDE DEF v
  <2>3. v = b
    BY <2>1, <2>2, SeqEqual
  <2>4. Len(c) - 1 = Len(b)
    BY <1>0, <1>1
  <2> QED
    BY <2>3, <2>4 DEF v, Front
<1> QED
  BY <1>1, <1>2, <1>3 DEF c

LEMMA TopCalls ==
    /\ <<Top>> \in Seq(Frames) /\ <<Top>> # <<>> /\ Last(<<Top>>) = Top /\ Front(<<Top>>) = <<>>
    /\ \A f \in Frames : /\ <<Top, f>> \in Seq(Frames) /\ <<Top, f>> # <<>> /\ <<Top, f>> # <<Top>>
                         /\ Last(<<Top, f>>) = f /\ Front(<<Top, f>>) = <<Top>>
                         /\ <<Top, f>> = Append(<<Top>>, f)
<1>1. Top \in Frames
  BY FramesType
<1>2. <<Top>> = Append(<<>>, Top)
  OBVIOUS
<1>3. <<>> \in Seq(Frames)
  OBVIOUS
<1>4. <<Top>> \in Seq(Frames) /\ <<Top>> # <<>> /\ Last(<<Top>>) = Top /\ Front(<<Top>>) = <<>>
  BY <1>1, <1>2, <1>3, LastFrame
<1>5. ASSUME NEW f \in Frames
      PROVE  /\ <<Top, f>> \in Seq(Frames) /\ <<Top, f>> # <<>> /\ <<Top, f>> # <<Top>>
             /\ Last(<<Top, f>>) = f /\ Front(<<Top, f>>) = <<Top>>
             /\ <<Top, f>> = Append(<<Top>>, f)
  <2>1. <<Top, f>> = Append(<<Top>>, f)
    OBVIOUS
  <2>2. <<Top, f>> # <<Top>>
    OBVIOUS
  <2> QED
    BY <1>4, <2>1, <2>2, LastFrame
<1> QED
  BY <1>4, <1>5

LEMMA NotComplete ==
    ASSUME NEW b \in Seq(Frames), NEW f \in Frames, f.kind \notin {"top", "obj"}
    PROVE  \A v : ~Completes(Append(b, f), v)
<1>1. Last(Append(b, f)) = f
  BY LastFrame
<1>2. Append(b, f) # <<Top>>
  BY <1>1, TopCalls, FrameKinds
<1>3. \A d \in Structures : Append(b, f) # <<Top, ObjF(d)>>
  <2> TAKE d \in Structures
  <2>1. Last(<<Top, ObjF(d)>>) = ObjF(d)
    BY TopCalls, FramesType
  <2>2. ObjF(d).kind = "obj"
    BY FrameKinds
  <2> QED
    BY <1>1, <2>1, <2>2
<1> QED
  BY <1>2, <1>3, Zenon DEF Completes

LEMMA ObjectCompletes ==
    ASSUME NEW c, NEW o \in Objects, NEW X, NEW e, HearsObject(c, o, X, e)
    PROVE  Completes(c, Obj(o)) <=> c = <<Top>>
<1>0. Obj(o)[1] = "obj"
  BY ObjIsValue
<1>1. ASSUME NEW d \in Structures, c = <<Top, ObjF(d)>> PROVE FALSE
  <2>1. Last(c) = ObjF(d) /\ ObjF(d).kind = "obj"
    BY <1>1, TopCalls, FramesType, FrameKinds
  <2>2. CASE c = <<Top>>
    BY <2>1, <2>2, TopCalls, FrameKinds
  <2>3. CASE HearsItem(c, e)
    <3>1. PICK n \in Nat : c = <<Top, ItemsF(n)>>
      BY <2>3, Zenon DEF HearsItem
    <3>2. Last(<<Top, ItemsF(n)>>) = ItemsF(n) /\ ItemsF(n).kind = "items"
      BY TopCalls, FramesType, FrameKinds
    <3> QED
      BY <2>1, <3>1, <3>2
  <2>4. CASE HearsArg(c, o, e)
    <3>1. PICK b \in Seq(Frames), x \in Structures, k \in Nat : c = Append(b, ArgsF(x, k))
      BY <2>4, Zenon DEF HearsArg
    <3>2. Last(Append(b, ArgsF(x, k))) = ArgsF(x, k) /\ ArgsF(x, k).kind = "args"
      BY LastFrame, FramesType, FrameKinds
    <3> QED
      BY <2>1, <3>1, <3>2
  <2>5. CASE HearsState(c, o, e)
    <3>1. PICK b \in Seq(Frames), x \in Structures, k \in Nat : c = Append(b, StateF(x, k))
      BY <2>5, Zenon DEF HearsState
    <3>2. Last(Append(b, StateF(x, k))) = StateF(x, k) /\ StateF(x, k).kind = "state"
      BY LastFrame, FramesType, FrameKinds
    <3> QED
      BY <2>1, <3>1, <3>2
  <2> QED
    BY <2>2, <2>3, <2>4, <2>5, Zenon DEF HearsObject
<1> QED
  BY <1>0, <1>1, Zenon DEF Completes

LEMMA BackCompletes ==
    ASSUME NEW c \in Seq(Frames), NEW d \in Structures
    PROVE  Completes(Append(c, ObjF(d)), Obj(d)) <=> c = <<Top>>
<1>0. Obj(d)[1] = "obj" /\ ObjF(d) \in Frames /\ ObjF(d).kind = "obj" /\ Top.kind = "top"
  BY ObjIsValue, FramesType, FrameKinds DEF Structures
<1>1. Last(Append(c, ObjF(d))) = ObjF(d) /\ Front(Append(c, ObjF(d))) = c
  BY <1>0, LastFrame
<1>2. Append(c, ObjF(d)) # <<Top>>
  BY <1>0, <1>1, TopCalls
<1>3. ASSUME NEW x \in Structures, Append(c, ObjF(d)) = <<Top, ObjF(x)>> PROVE c = <<Top>>
  BY <1>1, <1>3, TopCalls, FramesType
<1>4. c = <<Top>> => Append(c, ObjF(d)) = <<Top, ObjF(d)>>
  BY <1>0, TopCalls
<1> QED
  BY <1>0, <1>2, <1>3, <1>4, Zenon DEF Completes

(* What is not an object is dumped while something else is waited for.      *)
LEMMA SafeMore ==
    ASSUME NEW X, NEW c \in Seq(Frames), c # <<>>, NEW v \in Values, FineValue(v), v[1] # "obj",
           NEW R \in Seq(CallSet), R # <<>>, NEW e, Hears(c, v, X, e), <<e, <<>>, R>> \in Safe(X)
    PROVE  /\ <<c, <<>>, Put(v) \o R>> \in Safe(X)
           /\ Put(v) \o R \in Seq(CallSet) /\ Put(v) \o R # <<>>
<1>1. ~Completes(c, v)
  BY DEF Completes
<1>2. <<c, <<>>, Put(v) \o R>> \in Safe(X)
  BY <1>1, SafePut
<1>3. Put(v) \in Seq(CallSet)
  BY CallsType
<1> QED
  BY <1>2, <1>3, ConcatProperties, ConcatEqualIffEmpty

(* What is saved after the state of a structure, and before.                *)
LEMMA SafeStates ==
    ASSUME NEW X, NEW c \in Seq(Frames), NEW d \in Structures, d \in Fine,
           NEW R \in Seq(CallSet), R # <<>>, <<Append(c, ObjF(d)), <<>>, R>> \in Safe(X)
    PROVE  <<Append(c, AfterState(d, 0)), <<>>, Each(StateOf[d]) \o R>> \in Safe(X)
<1> DEFINE s == StateOf[d]
           fr == [k \in 0..Len(s) |-> Append(c, AfterState(d, k))]
<1>0. d \in Objects /\ s \in Seq(Objects) /\ Len(s) \in Nat
  BY ItemsType DEF Structures
<1>1. fr \in [0..Len(s) -> Seq(Frames)]
  BY <1>0, FramesType, AppendProperties
<1>2. \A i \in 1..Len(s) : s[i] \in Fine /\ ~(s[i] \in Lists /\ contains_datastructure(s[i]))
  <2>1. \A i \in 1..Len(s) : s[i] \in Held(d)
    BY <1>0, HeldItems
  <2>2. Kind[d] # "plain"
    BY DEF Structures
  <2> QED
    BY <2>1, <2>2, FineFacts, BareFacts
<1>3. ASSUME NEW k \in 0..Len(s), k < Len(s)
      PROVE  HearsObject(fr[k], s[k + 1], X, fr[k + 1]) /\ ~Completes(fr[k], Obj(s[k + 1]))
  <2>1. k \in Nat /\ k + 1 \in 0..Len(s) /\ k # Len(s)
    BY <1>0, <1>3
  <2>2. fr[k] = Append(c, StateF(d, k)) /\ fr[k + 1] = Append(c, AfterState(d, k + 1))
    BY <2>1 DEF AfterState
  <2>3. StateF(d, k) \in Frames /\ StateF(d, k).kind = "state"
    BY <2>1, FramesType, FrameKinds
  <2>4. ~Completes(fr[k], Obj(s[k + 1]))
    BY <2>2, <2>3, NotComplete
  <2> HIDE DEF fr
  <2>5. HearsState(fr[k], s[k + 1], fr[k + 1])
    BY <1>3, <2>1, <2>2, Zenon DEF HearsState
  <2> QED
    BY <2>4, <2>5, Zenon DEF HearsObject
<1>4. fr[Len(s)] = Append(c, ObjF(d)) /\ fr[0] = Append(c, AfterState(d, 0))
  BY <1>0 DEF AfterState
<1> HIDE DEF fr
<1>5. <<fr[Len(s)], <<>>, R>> \in Safe(X)
  BY <1>4
<1> HIDE DEF s
<1>6. <<fr[0], <<>>, Each(s) \o R>> \in Safe(X)
  BY <1>0, <1>1, <1>2, <1>3, <1>5, SafeEach
<1> QED
  BY <1>4, <1>6 DEF s

LEMMA SafeArgs ==
    ASSUME NEW X, NEW c \in Seq(Frames), NEW d \in Structures, d \in Fine,
           NEW R \in Seq(CallSet), R # <<>>, <<Append(c, MarkF(d)), <<>>, R>> \in Safe(X)
    PROVE  <<Append(c, AfterArgs(d, 0)), <<>>, Each(Items[d]) \o R>> \in Safe(X)
<1> DEFINE s == Items[d]
           fr == [k \in 0..Len(s) |-> Append(c, AfterArgs(d, k))]
<1>0. d \in Objects /\ s \in Seq(Objects) /\ Len(s) \in Nat
  BY ItemsType DEF Structures
<1>1. fr \in [0..Len(s) -> Seq(Frames)]
  BY <1>0, FramesType, AppendProperties
<1>2. \A i \in 1..Len(s) : s[i] \in Fine /\ ~(s[i] \in Lists /\ contains_datastructure(s[i]))
  <2>1. \A i \in 1..Len(s) : s[i] \in Held(d)
    BY <1>0, HeldItems
  <2>2. Kind[d] # "plain"
    BY DEF Structures
  <2> QED
    BY <2>1, <2>2, FineFacts, BareFacts
<1>3. ASSUME NEW k \in 0..Len(s), k < Len(s)
      PROVE  HearsObject(fr[k], s[k + 1], X, fr[k + 1]) /\ ~Completes(fr[k], Obj(s[k + 1]))
  <2>1. k \in Nat /\ k + 1 \in 0..Len(s) /\ k # Len(s)
    BY <1>0, <1>3
  <2>2. fr[k] = Append(c, ArgsF(d, k)) /\ fr[k + 1] = Append(c, AfterArgs(d, k + 1))
    BY <2>1 DEF AfterArgs
  <2>3. ArgsF(d, k) \in Frames /\ ArgsF(d, k).kind = "args"
    BY <2>1, FramesType, FrameKinds
  <2>4. ~Completes(fr[k], Obj(s[k + 1]))
    BY <2>2, <2>3, NotComplete
  <2> HIDE DEF fr
  <2>5. HearsArg(fr[k], s[k + 1], fr[k + 1])
    BY <1>3, <2>1, <2>2, Zenon DEF HearsArg
  <2> QED
    BY <2>4, <2>5, Zenon DEF HearsObject
<1>4. fr[Len(s)] = Append(c, MarkF(d)) /\ fr[0] = Append(c, AfterArgs(d, 0))
  BY <1>0 DEF AfterArgs
<1> HIDE DEF fr
<1>5. <<fr[Len(s)], <<>>, R>> \in Safe(X)
  BY <1>4
<1> HIDE DEF s
<1>6. <<fr[0], <<>>, Each(s) \o R>> \in Safe(X)
  BY <1>0, <1>1, <1>2, <1>3, <1>5, SafeEach
<1> QED
  BY <1>4, <1>6 DEF s

LEMMA SafeItems ==
    ASSUME NEW X, NEW l \in Lists, l \in Fine, contains_datastructure(l),
           NEW R \in Seq(CallSet), R # <<>>, <<<<Top>>, <<>>, R>> \in Safe(X)
    PROVE  /\ Len(Items[l]) \in Nat /\ Len(Items[l]) # 0
           /\ <<<<Top, ItemsF(Len(Items[l]))>>, <<>>, Each(Items[l]) \o R>> \in Safe(X)
<1> DEFINE s == Items[l]
           n == Len(s)
           fr == [k \in 0..n |-> IF k = n THEN <<Top>> ELSE <<Top, ItemsF(n - k)>>]
<1>0. l \in Objects /\ s \in Seq(Objects) /\ n \in Nat
  BY ItemsType DEF Lists
<1>1. n # 0
  <2>1. PICK d \in ToSet(s) : TRUE
    BY DEF contains_datastructure
  <2> QED
    BY <1>0, <2>1 DEF ToSet
<1>2. \A i \in 1..n : s[i] \in Fine /\ ~(s[i] \in Lists /\ contains_datastructure(s[i]))
  <2>1. \A i \in 1..n : s[i] \in Held(l)
    BY <1>0, HeldItems
  <2>2. Kind[l] # "plain"
    BY DEF Lists
  <2> QED
    BY <2>1, <2>2, FineFacts, BareFacts
<1> HIDE DEF n
<1>3. ASSUME NEW k \in 0..n
      PROVE  fr[k] \in Seq(Frames)
  BY <1>0, <1>3, TopCalls, FramesType
<1>4. fr \in [0..n -> Seq(Frames)]
  BY <1>3
<1>5. ASSUME NEW k \in 0..n, k < n
      PROVE  HearsObject(fr[k], s[k + 1], X, fr[k + 1]) /\ ~Completes(fr[k], Obj(s[k + 1]))
  <2>1. k + 1 \in 0..n /\ k # n /\ n - k \in Nat /\ n - k # 0 /\ (n - k = 1 <=> k + 1 = n)
        /\ (n - k) - 1 = n - (k + 1)
    BY <1>0, <1>5
  <2>2. fr[k] = <<Top, ItemsF(n - k)>> /\ fr[k + 1] = AfterItem(n - k)
    BY <2>1 DEF AfterItem
  <2>3. ItemsF(n - k) \in Frames /\ ItemsF(n - k).kind = "items"
    BY <2>1, FramesType, FrameKinds
  <2>4. ~Completes(fr[k], Obj(s[k + 1]))
    <3>1. fr[k] = Append(<<Top>>, ItemsF(n - k)) /\ <<Top>> \in Seq(Frames)
      BY <2>2, <2>3, TopCalls
    <3> QED
      BY <2>3, <3>1, NotComplete
  <2> HIDE DEF fr
  <2>5. HearsItem(fr[k], fr[k + 1])
    BY <2>1, <2>2, Zenon DEF HearsItem
  <2> QED
    BY <2>4, <2>5, Zenon DEF HearsObject
<1>6. fr[n] = <<Top>> /\ fr[0] = <<Top, ItemsF(n)>>
  BY <1>0, <1>1
<1> HIDE DEF fr
<1>7. <<fr[n], <<>>, R>> \in Safe(X)
  BY <1>6
<1>8. <<fr[0], <<>>, Each(s) \o R>> \in Safe(X)
  <2> HIDE DEF s
  <2> QED
    BY <1>0, <1>2, <1>4, <1>5, <1>7, SafeEach DEF n
<1> QED
  BY <1>0, <1>1, <1>6, <1>8 DEF n

Cat(q, r) == q \o r

LEMMA Joined ==
    ASSUME NEW q \in Seq(CallSet), NEW r \in Seq(CallSet), NEW w \in Seq(CallSet)
    PROVE  Cat(Cat(q, r), w) = Cat(q, Cat(r, w)) /\ Cat(q, r) \in Seq(CallSet)
<1> DEFINE a == (q \o r) \o w
           b == q \o (r \o w)
<1>1. q \o r \in Seq(CallSet) /\ r \o w \in Seq(CallSet)
  BY ConcatProperties
<1>2. a \in Seq(CallSet) /\ b \in Seq(CallSet)
  BY <1>1, ConcatProperties
<1>3. Len(a) = Len(b) /\ \A i \in 1..Len(a) : a[i] = b[i]
  OBVIOUS
<1> HIDE DEF a, b
<1>4. a = b
  BY <1>2, <1>3, SeqEqual
<1> QED
  BY <1>1, <1>4 DEF a, b, Cat

(* The calls of save_one, in three parts.                                   *)
LEMMA Chain ==
    ASSUME NEW a \in Seq(CallSet), NEW b \in Seq(CallSet), NEW x \in Seq(CallSet),
           NEW y \in Seq(CallSet), NEW z \in Seq(CallSet)
    PROVE  /\ Cat(Cat(Cat(a, b), x), z) = Cat(a, Cat(b, Cat(x, z)))
           /\ Cat(Cat(Cat(Cat(a, b), x), y), z) = Cat(a, Cat(b, Cat(x, Cat(y, z))))
<1>1. /\ Cat(a, b) \in Seq(CallSet) /\ Cat(x, z) \in Seq(CallSet) /\ Cat(y, z) \in Seq(CallSet)
      /\ Cat(Cat(a, b), x) \in Seq(CallSet) /\ Cat(x, Cat(y, z)) \in Seq(CallSet)
  BY Joined
<1>2. Cat(Cat(Cat(a, b), x), z) = Cat(a, Cat(b, Cat(x, z)))
  BY <1>1, Joined
<1>3. Cat(Cat(Cat(Cat(a, b), x), y), z) = Cat(Cat(a, b), Cat(x, Cat(y, z)))
  BY <1>1, Joined
<1>4. Cat(Cat(a, b), Cat(x, Cat(y, z))) = Cat(a, Cat(b, Cat(x, Cat(y, z))))
  BY <1>1, Joined
<1> QED
  BY <1>2, <1>3, <1>4

(* What the writer has to dump for d, after its name and before its arguments. *)
StateCalls(d, w) == Put(Text("STATE")) \o (Put(Number(Len(StateOf[d]))) \o (Each(StateOf[d]) \o (Put(Obj(d)) \o w)))
ArgsCalls(d, u)  == Put(Text("ARGS")) \o (Put(Number(Len(Items[d]))) \o (Put(Name(d)) \o (Each(Items[d]) \o u)))
ListCalls(l, w)  == Put(Text("LIST")) \o (Put(Number(Len(Items[l]))) \o (Each(Items[l]) \o (Put(Obj(l)) \o w)))

LEMMA PartsType ==
    ASSUME NEW o \in Objects
    PROVE  /\ Put(Text("STATE")) \in Seq(CallSet) /\ Put(Text("ARGS")) \in Seq(CallSet)
           /\ Put(Text("LIST")) \in Seq(CallSet) /\ Put(Number(Len(StateOf[o]))) \in Seq(CallSet)
           /\ Put(Number(Len(Items[o]))) \in Seq(CallSet) /\ Put(Name(o)) \in Seq(CallSet)
           /\ Put(Obj(o)) \in Seq(CallSet) /\ Each(Items[o]) \in Seq(CallSet)
           /\ Each(StateOf[o]) \in Seq(CallSet) /\ <<Call("getstate", o)>> \in Seq(CallSet)
<1>1. Len(Items[o]) \in Nat /\ Len(StateOf[o]) \in Nat
  BY ItemsType
<1>2. Text("STATE") \in Values /\ Text("ARGS") \in Values /\ Text("LIST") \in Values
  BY TextIsValue DEF Marks
<1>3. Name(o) \in Values /\ Obj(o) \in Values
  BY NameIsValue, ObjIsValue
<1>4. Number(Len(Items[o])) \in Values /\ Number(Len(StateOf[o])) \in Values
  BY <1>1, NumberIsValue
<1>5. Each(Items[o]) \in Seq(CallSet) /\ Each(StateOf[o]) \in Seq(CallSet)
  BY ItemsType, EachType
<1>6. <<Call("getstate", o)>> \in Seq(CallSet)
  BY CallsType
<1> QED
  BY <1>2, <1>3, <1>4, <1>5, <1>6, CallsType

LEMMA CallsOfList ==
    ASSUME NEW o \in Objects, Kind[o] = "list", contains_datastructure(o), NEW w \in Seq(CallSet)
    PROVE  save_one(o) \o w = ListCalls(o, w)
<1> DEFINE a == Put(Text("LIST"))
           b == Put(Number(Len(Items[o])))
           x == Each(Items[o])
           y == Put(Obj(o))
<1>1. save_one(o) \o w = Cat(Cat(Cat(Cat(a, b), x), y), w)
  BY DEF save_one, Mark, Cat
<1>2. a \in Seq(CallSet) /\ b \in Seq(CallSet) /\ x \in Seq(CallSet) /\ y \in Seq(CallSet)
  BY PartsType
<1>3. ListCalls(o, w) = Cat(a, Cat(b, Cat(x, Cat(y, w))))
  BY DEF ListCalls, Cat
<1> HIDE DEF a, b, x, y
<1> QED
  BY <1>1, <1>2, <1>3, Chain

LEMMA CallsOfStructure ==
    ASSUME NEW o \in Objects, Kind[o] = "ds", o \notin memods, NEW w \in Seq(CallSet)
    PROVE  save_one(o) \o w = ArgsCalls(o, <<Call("getstate", o)>> \o StateCalls(o, w))
<1> DEFINE a == Put(Text("ARGS"))
           b == Put(Number(Len(Items[o])))
           x == Put(Name(o))
           y == Each(Items[o])
           g == <<Call("getstate", o)>>
           c == Put(Text("STATE"))
           d == Put(Number(Len(StateOf[o])))
           e == Each(StateOf[o])
           f == Put(Obj(o))
           p == Cat(Cat(Cat(a, b), x), y)
           r == Cat(e, Cat(f, w))
           u == Cat(g, Cat(c, Cat(d, r)))
<1>1. save_one(o) \o w = Cat(Cat(Cat(Cat(Cat(p, g), Cat(c, d)), e), f), w)
  BY DEF save_one, Mark, Cat
<1>2. a \in Seq(CallSet) /\ b \in Seq(CallSet) /\ x \in Seq(CallSet) /\ y \in Seq(CallSet)
      /\ g \in Seq(CallSet) /\ c \in Seq(CallSet) /\ d \in Seq(CallSet)
      /\ e \in Seq(CallSet) /\ f \in Seq(CallSet)
  BY PartsType
<1>3. ArgsCalls(o, <<Call("getstate", o)>> \o StateCalls(o, w)) = Cat(a, Cat(b, Cat(x, Cat(y, u))))
  BY DEF ArgsCalls, StateCalls, Cat
<1> HIDE DEF a, b, x, y, g, c, d, e, f
<1>4. p \in Seq(CallSet) /\ Cat(c, d) \in Seq(CallSet) /\ r \in Seq(CallSet)
  BY <1>2, Joined
<1>5. Cat(d, r) \in Seq(CallSet)
  <2> HIDE DEF r
  <2> QED
    BY <1>2, <1>4, Joined
<1>6. Cat(c, Cat(d, r)) \in Seq(CallSet)
  <2> HIDE DEF r
  <2> QED
    BY <1>2, <1>5, Joined
<1>7. u \in Seq(CallSet)
  <2> HIDE DEF r
  <2> QED
    BY <1>2, <1>6, Joined
<1>8. Cat(Cat(Cat(Cat(Cat(p, g), Cat(c, d)), e), f), w) = Cat(p, Cat(g, Cat(Cat(c, d), r)))
  <2>1. Cat(Cat(Cat(Cat(Cat(p, g), Cat(c, d)), e), f), w) = Cat(Cat(p, g), Cat(Cat(c, d), r))
    <3>1. Cat(p, g) \in Seq(CallSet)
      <4> HIDE DEF p
      <4> QED
        BY <1>2, <1>4, Joined
    <3> DEFINE pg == Cat(p, g)
               cd == Cat(c, d)
    <3>2. pg \in Seq(CallSet) /\ cd \in Seq(CallSet)
      BY <1>4, <3>1
    <3> HIDE DEF pg, cd
    <3>3. e \in Seq(CallSet) /\ f \in Seq(CallSet)
      BY <1>2
    <3>4. Cat(Cat(Cat(Cat(pg, cd), e), f), w) = Cat(pg, Cat(cd, Cat(e, Cat(f, w))))
      BY <3>2, <3>3, Chain
    <3> QED
      BY <3>4 DEF pg, cd
  <2> HIDE DEF p, r
  <2>2. Cat(Cat(c, d), r) \in Seq(CallSet)
    BY <1>4, Joined
  <2>3. Cat(Cat(p, g), Cat(Cat(c, d), r)) = Cat(p, Cat(g, Cat(Cat(c, d), r)))
    BY <1>2, <1>4, <2>2, Joined
  <2> QED
    BY <2>1, <2>3 DEF r
<1>9. Cat(Cat(c, d), r) = Cat(c, Cat(d, r))
  <2> HIDE DEF r
  <2> QED
    BY <1>2, <1>4, Joined
<1>10. Cat(p, u) = Cat(a, Cat(b, Cat(x, Cat(y, u))))
  <2> HIDE DEF u
  <2>1. a \in Seq(CallSet) /\ b \in Seq(CallSet) /\ x \in Seq(CallSet) /\ y \in Seq(CallSet)
    BY <1>2
  <2>2. Cat(Cat(Cat(Cat(a, b), x), y), u) = Cat(a, Cat(b, Cat(x, Cat(y, u))))
    BY <1>7, <2>1, Chain
  <2> QED
    BY <2>2
<1> QED
  BY <1>1, <1>3, <1>8, <1>9, <1>10

(* save_one replaces a call by those it makes.                              *)
LEMMA SafeOther ==
    ASSUME NEW X, NEW c, NEW o \in Fine, NEW w \in Seq(CallSet), NEW e,
           HearsObject(c, o, X, e), <<e, <<>>, w>> \in Safe(X), Completes(c, Obj(o)) <=> w = <<>>
    PROVE  /\ <<c, <<>>, Put(Obj(o)) \o w>> \in Safe(X)
           /\ Put(Obj(o)) \o w \in Seq(CallSet) /\ Put(Obj(o)) \o w # <<>>
<1>1. o \in Objects
  BY FineFacts
<1>2. Obj(o) \in Values /\ FineValue(Obj(o))
  <2>1. Obj(o) \in Values
    BY <1>1, ObjIsValue
  <2> QED
    BY <2>1, Zenon DEF FineValue
<1>3. Hears(c, Obj(o), X, e)
  BY <1>1, Zenon DEF Hears, HearsAny
<1>4. c \in Seq(Frames) /\ c # <<>>
  BY HearsObjectType, Zenon
<1>5. <<c, <<>>, Put(Obj(o)) \o w>> \in Safe(X)
  BY <1>2, <1>3, <1>4, SafePut
<1>6. Put(Obj(o)) \in Seq(CallSet) /\ Put(Obj(o)) # <<>>
  BY <1>2, CallsType DEF Put
<1> QED
  BY <1>5, <1>6, ConcatProperties, ConcatEqualIffEmpty

LEMMA SafeStructure ==
    ASSUME NEW X, NEW c, NEW d \in Structures, d \in Fine, NEW w \in Seq(CallSet), NEW e,
           HearsObject(c, d, X, e), <<e, <<>>, w>> \in Safe(X), Completes(c, Obj(d)) <=> w = <<>>
    PROVE  /\ <<Append(c, MarkF(d)), <<>>, StateCalls(d, w)>> \in Safe(X)
           /\ StateCalls(d, w) \in Seq(CallSet) /\ StateCalls(d, w) # <<>>
<1>0. d \in Objects /\ Len(StateOf[d]) \in Nat
  BY ItemsType DEF Structures
<1>1. c \in Seq(Frames) /\ c # <<>>
  BY HearsObjectType, Zenon
<1> DEFINE R1 == Put(Obj(d)) \o w
           R2 == Each(StateOf[d]) \o R1
           R3 == Put(Number(Len(StateOf[d]))) \o R2
           R4 == Put(Text("STATE")) \o R3
<1>2. MarkF(d) \in Frames /\ NbStateF(d) \in Frames /\ ObjF(d) \in Frames /\ AfterState(d, 0) \in Frames
  BY FramesType
<1>3. <<Append(c, ObjF(d)), <<>>, R1>> \in Safe(X) /\ R1 \in Seq(CallSet) /\ R1 # <<>>
  <2> DEFINE k == Append(c, ObjF(d))
  <2>1. Obj(d) \in Values /\ FineValue(Obj(d))
    <3>1. Obj(d) \in Values
      BY <1>0, ObjIsValue
    <3> QED
      BY <3>1, Zenon DEF FineValue
  <2>2. k \in Seq(Frames) /\ k # <<>>
    BY <1>1, <1>2, AppendProperties
  <2>3. HearsBack(k, Obj(d), X, e)
    BY <1>1, Zenon DEF HearsBack
  <2>4. Completes(k, Obj(d)) <=> w = <<>>
    BY <1>0, <1>1, ObjectCompletes, BackCompletes
  <2> HIDE DEF k
  <2>5. Hears(k, Obj(d), X, e)
    BY <2>3, Zenon DEF Hears
  <2>6. <<k, <<>>, Put(Obj(d)) \o w>> \in Safe(X)
    BY <2>1, <2>2, <2>4, <2>5, SafePut
  <2>7. Put(Obj(d)) \in Seq(CallSet) /\ Put(Obj(d)) # <<>>
    BY <2>1, CallsType DEF Put
  <2> QED
    BY <2>6, <2>7, ConcatProperties, ConcatEqualIffEmpty DEF k
<1> HIDE DEF R1
<1>4. <<Append(c, AfterState(d, 0)), <<>>, R2>> \in Safe(X) /\ R2 \in Seq(CallSet) /\ R2 # <<>>
  <2>1. Each(StateOf[d]) \in Seq(CallSet)
    BY <1>0, PartsType
  <2>2. R2 \in Seq(CallSet) /\ R2 # <<>>
    BY <1>3, <2>1, ConcatProperties, ConcatEqualIffEmpty
  <2>3. <<Append(c, AfterState(d, 0)), <<>>, R2>> \in Safe(X)
    BY <1>1, <1>3, SafeStates
  <2> QED
    BY <2>2, <2>3
<1> HIDE DEF R2
<1>5. <<Append(c, NbStateF(d)), <<>>, R3>> \in Safe(X) /\ R3 \in Seq(CallSet) /\ R3 # <<>>
  <2> DEFINE v == Number(Len(StateOf[d]))
             k == Append(c, NbStateF(d))
             f == Append(c, AfterState(d, 0))
  <2>1. v \in Values /\ v[1] # "obj"
    BY <1>0, NumberIsValue
  <2>2. FineValue(v)
    BY <1>0, Zenon DEF FineValue
  <2>3. HearsNumber(k, v, f)
    BY <1>1, Zenon DEF HearsNumber
  <2>4. k \in Seq(Frames) /\ k # <<>>
    BY <1>1, <1>2, AppendProperties
  <2> HIDE DEF v, k, f
  <2>5. Hears(k, v, X, f)
    BY <2>3, Zenon DEF Hears
  <2>6. <<f, <<>>, R2>> \in Safe(X)
    BY <1>4 DEF f
  <2>7. <<k, <<>>, Put(v) \o R2>> \in Safe(X) /\ Put(v) \o R2 \in Seq(CallSet) /\ Put(v) \o R2 # <<>>
    BY <1>4, <2>1, <2>2, <2>4, <2>5, <2>6, SafeMore
  <2> QED
    BY <2>7 DEF k, v
<1> HIDE DEF R3
<1>6. <<Append(c, MarkF(d)), <<>>, R4>> \in Safe(X) /\ R4 \in Seq(CallSet) /\ R4 # <<>>
  <2> DEFINE v == Text("STATE")
             k == Append(c, MarkF(d))
             f == Append(c, NbStateF(d))
  <2>1. v \in Values /\ v[1] # "obj"
    BY TextIsValue DEF Marks
  <2>2. FineValue(v)
    <3>1. "STATE" \in Marks
      BY DEF Marks
    <3> QED
      BY <3>1, Zenon DEF FineValue
  <2>3. HearsText(k, v, f)
    BY <1>1, Zenon DEF HearsText
  <2>4. k \in Seq(Frames) /\ k # <<>>
    BY <1>1, <1>2, AppendProperties
  <2> HIDE DEF v, k, f
  <2>5. Hears(k, v, X, f)
    BY <2>3, Zenon DEF Hears
  <2>6. <<f, <<>>, R3>> \in Safe(X)
    BY <1>5 DEF f
  <2>7. <<k, <<>>, Put(v) \o R3>> \in Safe(X) /\ Put(v) \o R3 \in Seq(CallSet) /\ Put(v) \o R3 # <<>>
    BY <1>5, <2>1, <2>2, <2>4, <2>5, <2>6, SafeMore
  <2> QED
    BY <2>7 DEF k, v
<1>7. R4 = StateCalls(d, w)
  BY DEF StateCalls, R3, R2, R1
<1> QED
  BY <1>6, <1>7

LEMMA SafeGetState ==
    ASSUME NEW X, NEW c \in Seq(Frames), NEW d \in Structures, d \in Fine, NEW R \in Seq(CallSet),
           R # <<>>, <<Append(c, MarkF(d)), <<>>, R>> \in Safe(X)
    PROVE  /\ <<Append(c, MarkF(d)), <<>>, <<Call("getstate", d)>> \o R>> \in Safe(X)
           /\ <<Call("getstate", d)>> \o R \in Seq(CallSet) /\ <<Call("getstate", d)>> \o R # <<>>
<1> DEFINE k == Append(c, MarkF(d))
           h == Call("getstate", d)
           w == <<h>> \o R
<1>1. h \in CallSet /\ h.call = "getstate" /\ h.arg = d
  BY CallsType, CallFields DEF Structures
<1>2. k \in Seq(Frames) /\ k # <<>>
  BY FramesType, AppendProperties
<1>3. w \in Seq(CallSet) /\ w # <<>> /\ Head(w) = h /\ Tail(w) = R
  BY <1>1, Link
<1>4. \E b \in Seq(Frames) : k = Append(b, MarkF(h.arg))
  BY <1>1
<1> HIDE DEF k, h, w
<1>5. <<k, <<>>, R>> \in Safe(X)
  BY DEF k
<1>6. ByState(Safe(X), k, <<>>, h, R)
  BY <1>1, <1>4, <1>5, Zenon DEF ByState
<1>7. Agrees(Safe(X), X, k, <<>>, w)
  BY <1>2, <1>3, <1>6, Zenon DEF Agrees, Follows
<1>8. <<k, <<>>, w>> \in AllPairs
  BY <1>2, <1>3, PairType, Zenon
<1>9. <<k, <<>>, w>> \in Safe(X)
  BY <1>7, <1>8, SafeStep
<1> QED
  BY <1>3, <1>9 DEF k, h, w

LEMMA SafeBegins ==
    ASSUME NEW X, NEW c \in Seq(Frames), c # <<>>, NEW d \in Structures, d \in Fine,
           NEW R \in Seq(CallSet), R # <<>>, <<Append(c, MarkF(d)), <<>>, R>> \in Safe(X)
    PROVE  <<c, <<>>, ArgsCalls(d, R)>> \in Safe(X) /\ ArgsCalls(d, R) \in Seq(CallSet)
<1>0. d \in Objects /\ Len(Items[d]) \in Nat
  BY ItemsType DEF Structures
<1> DEFINE R2 == Each(Items[d]) \o R
           R3 == Put(Name(d)) \o R2
           R4 == Put(Number(Len(Items[d]))) \o R3
           R5 == Put(Text("ARGS")) \o R4
           n  == Len(Items[d])
<1>2. NbObjF \in Frames /\ NameF(n) \in Frames /\ AfterArgs(d, 0) \in Frames
  BY <1>0, FramesType
<1>3. <<Append(c, AfterArgs(d, 0)), <<>>, R2>> \in Safe(X) /\ R2 \in Seq(CallSet) /\ R2 # <<>>
  <2>1. Each(Items[d]) \in Seq(CallSet)
    BY <1>0, PartsType
  <2>2. R2 \in Seq(CallSet) /\ R2 # <<>>
    BY <2>1, ConcatProperties, ConcatEqualIffEmpty
  <2>3. <<Append(c, AfterArgs(d, 0)), <<>>, R2>> \in Safe(X)
    BY SafeArgs
  <2> QED
    BY <2>2, <2>3
<1> HIDE DEF R2
<1>4. <<Append(c, NameF(n)), <<>>, R3>> \in Safe(X) /\ R3 \in Seq(CallSet) /\ R3 # <<>>
  <2> DEFINE v == Name(d)
             k == Append(c, NameF(n))
             f == Append(c, AfterArgs(d, 0))
  <2>1. v \in Values /\ v[1] # "obj"
    BY <1>0, NameIsValue
  <2>2. FineValue(v)
    BY Zenon DEF FineValue
  <2>3. HearsText(k, v, f)
    BY Zenon DEF HearsText
  <2>4. k \in Seq(Frames) /\ k # <<>>
    BY <1>2, AppendProperties
  <2> HIDE DEF v, k, f
  <2>5. Hears(k, v, X, f)
    BY <2>3, Zenon DEF Hears
  <2>6. <<f, <<>>, R2>> \in Safe(X)
    BY <1>3 DEF f
  <2>7. <<k, <<>>, Put(v) \o R2>> \in Safe(X) /\ Put(v) \o R2 \in Seq(CallSet) /\ Put(v) \o R2 # <<>>
    BY <1>3, <2>1, <2>2, <2>4, <2>5, <2>6, SafeMore
  <2> QED
    BY <2>7 DEF k, v
<1> HIDE DEF R3
<1>5. <<Append(c, NbObjF), <<>>, R4>> \in Safe(X) /\ R4 \in Seq(CallSet) /\ R4 # <<>>
  <2> DEFINE v == Number(n)
             k == Append(c, NbObjF)
             f == Append(c, NameF(n))
  <2>1. v \in Values /\ v[1] # "obj"
    BY <1>0, NumberIsValue
  <2>2. FineValue(v)
    BY <1>0, Zenon DEF FineValue
  <2>3. HearsNumber(k, v, f)
    BY <1>0, Zenon DEF HearsNumber
  <2>4. k \in Seq(Frames) /\ k # <<>>
    BY <1>2, AppendProperties
  <2> HIDE DEF v, k, f
  <2>5. Hears(k, v, X, f)
    BY <2>3, Zenon DEF Hears
  <2>6. <<f, <<>>, R3>> \in Safe(X)
    BY <1>4 DEF f
  <2>7. <<k, <<>>, Put(v) \o R3>> \in Safe(X) /\ Put(v) \o R3 \in Seq(CallSet) /\ Put(v) \o R3 # <<>>
    BY <1>4, <2>1, <2>2, <2>4, <2>5, <2>6, SafeMore
  <2> QED
    BY <2>7 DEF k, v
<1> HIDE DEF R4
<1>6. <<c, <<>>, R5>> \in Safe(X) /\ R5 \in Seq(CallSet)
  <2> DEFINE v == Text("ARGS")
             f == Append(c, NbObjF)
  <2>1. v \in Values /\ v[1] # "obj"
    BY TextIsValue DEF Marks
  <2>2. FineValue(v)
    <3>1. "ARGS" \in Marks
      BY DEF Marks
    <3> QED
      BY <3>1, Zenon DEF FineValue
  <2>3. HearsText(c, v, f)
    BY Zenon DEF HearsText
  <2> HIDE DEF v, f
  <2>5. Hears(c, v, X, f)
    BY <2>3, Zenon DEF Hears
  <2>6. <<f, <<>>, R4>> \in Safe(X)
    BY <1>5 DEF f
  <2>7. <<c, <<>>, Put(v) \o R4>> \in Safe(X) /\ Put(v) \o R4 \in Seq(CallSet)
    BY <1>5, <2>1, <2>2, <2>5, <2>6, SafeMore
  <2> QED
    BY <2>7 DEF v
<1>7. R5 = ArgsCalls(d, R)
  BY DEF ArgsCalls, R4, R3, R2
<1> QED
  BY <1>6, <1>7

LEMMA SafeListCalls ==
    ASSUME NEW X, NEW l \in Lists, l \in Fine, contains_datastructure(l),
           NEW w \in Seq(CallSet), NEW R, R = Put(Obj(l)) \o w, R \in Seq(CallSet), R # <<>>,
           <<<<Top>>, <<>>, R>> \in Safe(X)
    PROVE  <<<<Top>>, <<>>, ListCalls(l, w)>> \in Safe(X)
<1>0. l \in Objects
  BY DEF Lists
<1> DEFINE n  == Len(Items[l])
           R2 == Each(Items[l]) \o R
           R3 == Put(Number(n)) \o R2
           R4 == Put(Text("LIST")) \o R3
<1>1. n \in Nat /\ n # 0 /\ <<<<Top, ItemsF(n)>>, <<>>, R2>> \in Safe(X)
  BY SafeItems
<1>2. SizeF \in Frames /\ <<Top, SizeF>> \in Seq(Frames) /\ <<Top, SizeF>> # <<>>
      /\ <<Top>> \in Seq(Frames) /\ <<Top>> # <<>>
  BY FramesType, TopCalls
<1>3. R2 \in Seq(CallSet) /\ R2 # <<>>
  <2>1. Each(Items[l]) \in Seq(CallSet)
    BY <1>0, PartsType
  <2> QED
    BY <2>1, ConcatProperties, ConcatEqualIffEmpty
<1> HIDE DEF R2
<1>5. <<<<Top, SizeF>>, <<>>, R3>> \in Safe(X) /\ R3 \in Seq(CallSet) /\ R3 # <<>>
  <2> DEFINE v == Number(n)
             k == <<Top, SizeF>>
             f == <<Top, ItemsF(n)>>
  <2>1. v \in Values /\ v[1] # "obj"
    BY <1>1, NumberIsValue
  <2>2. FineValue(v)
    BY <1>1, Zenon DEF FineValue
  <2>3. HearsNumber(k, v, f)
    BY <1>1, Zenon DEF HearsNumber
  <2>4. k \in Seq(Frames) /\ k # <<>>
    BY <1>2
  <2> HIDE DEF v, k, f
  <2>5. Hears(k, v, X, f)
    BY <2>3, Zenon DEF Hears
  <2>6. <<f, <<>>, R2>> \in Safe(X)
    BY <1>1 DEF f
  <2>7. <<k, <<>>, Put(v) \o R2>> \in Safe(X) /\ Put(v) \o R2 \in Seq(CallSet) /\ Put(v) \o R2 # <<>>
    BY <1>3, <2>1, <2>2, <2>4, <2>5, <2>6, SafeMore
  <2> QED
    BY <2>7 DEF k, v
<1> HIDE DEF R3
<1>6. <<<<Top>>, <<>>, R4>> \in Safe(X)
  <2> DEFINE v == Text("LIST")
             k == <<Top>>
             f == <<Top, SizeF>>
  <2>1. v \in Values /\ v[1] # "obj"
    BY TextIsValue DEF Marks
  <2>2. FineValue(v)
    <3>1. "LIST" \in Marks
      BY DEF Marks
    <3> QED
      BY <3>1, Zenon DEF FineValue
  <2>3. HearsText(k, v, f)
    BY Zenon DEF HearsText
  <2>4. k \in Seq(Frames) /\ k # <<>>
    BY <1>2
  <2> HIDE DEF v, k, f
  <2>5. Hears(k, v, X, f)
    BY <2>3, Zenon DEF Hears
  <2>6. <<f, <<>>, R3>> \in Safe(X)
    BY <1>5 DEF f
  <2>7. <<k, <<>>, Put(v) \o R3>> \in Safe(X)
    BY <1>5, <2>1, <2>2, <2>4, <2>5, <2>6, SafeMore
  <2> QED
    BY <2>7 DEF k, v
<1>7. R4 = ListCalls(l, w)
  BY DEF ListCalls, R3, R2
<1> QED
  BY <1>6, <1>7

LEMMA SafeDescribe ==
    ASSUME NEW X, NEW c, NEW o, NEW w \in Seq(CallSet),
           ByOne(Safe(X), X, c, <<>>, Call("save_one", o), w)
    PROVE  <<c, <<>>, save_one(o) \o w>> \in Safe(X) /\ save_one(o) \o w \in Seq(CallSet)
<1>1. o \in Fine /\ (o \in Lists /\ contains_datastructure(o) => c = <<Top>>)
      /\ (Completes(c, Obj(o)) <=> w = <<>>)
  BY CallFields, Zenon DEF ByOne
<1>2. PICK e : HearsObject(c, o, X, e) /\ <<e, <<>>, w>> \in Safe(X)
  BY CallFields, Zenon DEF ByOne
<1>3. o \in Objects
  BY <1>1, FineFacts
<1>4. c \in Seq(Frames) /\ c # <<>>
  BY <1>2, HearsObjectType
<1>5. /\ <<c, <<>>, Put(Obj(o)) \o w>> \in Safe(X)
      /\ Put(Obj(o)) \o w \in Seq(CallSet) /\ Put(Obj(o)) \o w # <<>>
  BY <1>1, <1>2, SafeOther
<1>6. CASE Kind[o] = "list" /\ contains_datastructure(o)
  <2>1. o \in Lists
    BY <1>3, <1>6 DEF Lists
  <2>2. c = <<Top>>
    BY <1>1, <1>6, <2>1
  <2>3. <<c, <<>>, ListCalls(o, w)>> \in Safe(X)
    <3> DEFINE R == Put(Obj(o)) \o w
    <3>1. <<<<Top>>, <<>>, R>> \in Safe(X) /\ R \in Seq(CallSet) /\ R # <<>>
      BY <1>5, <2>2
    <3>2. R = Put(Obj(o)) \o w
      OBVIOUS
    <3> HIDE DEF R
    <3> QED
      BY <1>1, <1>6, <2>1, <2>2, <3>1, <3>2, SafeListCalls
  <2>4. save_one(o) \o w = ListCalls(o, w)
    BY <1>3, <1>6, CallsOfList
  <2>5. <<c, <<>>, save_one(o) \o w>> \in Safe(X)
    BY <2>3, <2>4
  <2>6. save_one(o) \o w \in Seq(CallSet)
    BY <2>5, SafeType
  <2> QED
    BY <2>5, <2>6
<1>7. CASE Kind[o] = "ds" /\ o \notin memods
  <2>1. o \in Structures
    BY <1>3, <1>7 DEF Structures
  <2> DEFINE S == StateCalls(o, w)
             G == <<Call("getstate", o)>> \o S
  <2>2. <<Append(c, MarkF(o)), <<>>, S>> \in Safe(X) /\ S \in Seq(CallSet) /\ S # <<>>
    BY <1>1, <1>2, <2>1, SafeStructure
  <2> HIDE DEF S
  <2>3. <<Append(c, MarkF(o)), <<>>, G>> \in Safe(X) /\ G \in Seq(CallSet) /\ G # <<>>
    BY <1>1, <1>4, <2>1, <2>2, SafeGetState
  <2> HIDE DEF G
  <2>4. <<c, <<>>, ArgsCalls(o, G)>> \in Safe(X) /\ ArgsCalls(o, G) \in Seq(CallSet)
    BY <1>1, <1>4, <2>1, <2>3, SafeBegins
  <2>5. save_one(o) \o w = ArgsCalls(o, G)
    BY <1>3, <1>7, CallsOfStructure DEF G, S
  <2> QED
    BY <2>4, <2>5
<1>8. CASE ~(Kind[o] = "list" /\ contains_datastructure(o)) /\ ~(Kind[o] = "ds" /\ o \notin memods)
  <2>1. save_one(o) = Put(Obj(o))
    BY <1>8 DEF save_one
  <2> QED
    BY <1>5, <2>1
<1> QED
  BY <1>6, <1>7, <1>8

(* A name starts, and ends, with load_one waiting for its object.           *)
LEMMA SafeStart ==
    ASSUME NEW X \in Fine
    PROVE  /\ <<<<Top>>, <<>>, <<>>>> \in Safe(X)
           /\ <<<<Top>>, <<>>, <<Call("save_one", X)>>>> \in Safe(X)
<1>0. X \in Objects /\ <<Top>> \in Seq(Frames) /\ <<Top>> # <<>> /\ Obj(X)[1] = "obj"
  BY FineFacts, TopCalls, ObjIsValue
<1>1. <<<<Top>>, <<>>, <<>>>> \in Safe(X)
  <2>1. Agrees(Safe(X), X, <<Top>>, <<>>, <<>>)
    BY <1>0, Zenon DEF Agrees
  <2>2. <<>> \in Seq(CallSet)
    OBVIOUS
  <2>3. <<<<Top>>, <<>>, <<>>>> \in AllPairs
    BY <1>0, <2>2, PairType, Zenon
  <2> QED
    BY <2>1, <2>3, SafeStep
<1>2. <<<<Top>>, <<>>, <<Call("save_one", X)>>>> \in Safe(X)
  <2> DEFINE h == Call("save_one", X)
             w == <<h>>
  <2>1. h \in CallSet /\ h.call = "save_one" /\ h.arg = X
    BY <1>0, CallsType, CallFields
  <2>2. w \in Seq(CallSet) /\ w # <<>> /\ Head(w) = h /\ Tail(w) = <<>>
    BY <2>1
  <2> DEFINE c == <<Top>>
  <2>3. HearsObject(c, X, X, c)
    BY Zenon DEF HearsObject
  <2>4. Completes(c, Obj(X))
    BY <1>0, Zenon DEF Completes
  <2> HIDE DEF h, w
  <2>5. ByOne(Safe(X), X, c, <<>>, h, <<>>)
    BY <1>1, <2>1, <2>3, <2>4, Zenon DEF ByOne
  <2>6. Agrees(Safe(X), X, c, <<>>, w)
    BY <1>0, <2>2, <2>5, Zenon DEF Agrees, Follows
  <2>7. <<c, <<>>, w>> \in AllPairs
    BY <1>0, <2>2, PairType, Zenon
  <2> QED
    BY <2>6, <2>7, SafeStep DEF h, w
<1> QED
  BY <1>1, <1>2

-----------------------------------------------------------------------------
(* What is kept from a state of the reader to another: what was read, and   *)
(* the structures whose state is being read.                                *)
IsOpenF(f, d) == f.kind \in {"mark", "nbstate", "state"} /\ f.name = Name(d)
IsOpen(c, d)  == \E i \in 1..Len(c) : IsOpenF(c[i], d)
KeepsRead(p, a, b) ==
    \A d \in Structures : /\ p.args[d] # <<>> => a[d] # <<>>
                          /\ p.state[d] # <<>> => b[d] # <<>>
Keeps(p, q) ==
    /\ KeepsRead(p, q.args, q.state)
    /\ \A d \in Structures : /\ IsOpen(p.calls, d) => IsOpen(q.calls, d) \/ q.state[d] # <<>>
                             /\ IsOpen(q.calls, d) => IsOpen(p.calls, d) \/ q.args[d] # <<>>
FrameKeeps(f, g, a, b) ==
    \A d \in Structures : /\ IsOpenF(f, d) => IsOpenF(g, d) \/ b[d] # <<>>
                          /\ IsOpenF(g, d) => IsOpenF(f, d) \/ a[d] # <<>>

LEMMA KeepsSelf ==
    ASSUME NEW p, NEW q, q.args = p.args, q.state = p.state, q.calls = p.calls
    PROVE  Keeps(p, q)
BY DEF Keeps, KeepsRead

LEMMA KeepsOn ==
    ASSUME NEW p, NEW q, NEW r, Keeps(p, q), Keeps(q, r)
    PROVE  Keeps(p, r)
BY DEF Keeps, KeepsRead

LEMMA OpenAppend ==
    ASSUME NEW b \in Seq(Frames), NEW f \in Frames, NEW d
    PROVE  IsOpen(Append(b, f), d) <=> IsOpen(b, d) \/ IsOpenF(f, d)
<1>0. Len(b) \in Nat
  OBVIOUS
<1> DEFINE c == Append(b, f)
<1>1. Len(c) = Len(b) + 1 /\ c[Len(b) + 1] = f /\ \A i \in 1..Len(b) : c[i] = b[i]
  BY AppendProperties
<1> HIDE DEF c
<1>2. IsOpen(c, d) => IsOpen(b, d) \/ IsOpenF(f, d)
  <2> SUFFICES ASSUME NEW i \in 1..Len(c), IsOpenF(c[i], d)
               PROVE  IsOpen(b, d) \/ IsOpenF(f, d)
    BY Zenon DEF IsOpen
  <2>1. CASE i \in 1..Len(b)
    <3>1. IsOpenF(b[i], d)
      BY <1>1, <2>1
    <3> QED
      BY <2>1, <3>1, Zenon DEF IsOpen
  <2>2. CASE i = Len(b) + 1
    BY <1>1, <2>2
  <2> QED
    BY <1>0, <1>1, <2>1, <2>2
<1>3. ASSUME NEW i \in 1..Len(b), IsOpenF(b[i], d)
      PROVE  IsOpen(c, d)
  <2>1. i \in 1..Len(c) /\ c[i] = b[i]
    BY <1>0, <1>1
  <2> QED
    BY <1>3, <2>1, Zenon DEF IsOpen
<1>4. IsOpenF(f, d) => IsOpen(c, d)
  <2>1. Len(b) + 1 \in 1..Len(c)
    BY <1>0, <1>1
  <2> QED
    BY <1>1, <2>1, Zenon DEF IsOpen
<1> QED
  BY <1>2, <1>3, <1>4, Zenon DEF IsOpen, c

LEMMA KeepsTurn ==
    ASSUME NEW b \in Seq(Frames), NEW f \in Frames, NEW g \in Frames,
           NEW p, NEW q, p.calls = Append(b, f), q.calls = Append(b, g),
           KeepsRead(p, q.args, q.state), FrameKeeps(f, g, q.args, q.state)
    PROVE  Keeps(p, q)
<1>0. \A h \in Frames : \A d : IsOpen(Append(b, h), d) <=> IsOpen(b, d) \/ IsOpenF(h, d)
  BY OpenAppend
<1>1. \A d : IsOpen(p.calls, d) <=> IsOpen(b, d) \/ IsOpenF(f, d)
  BY <1>0
<1>2. \A d : IsOpen(q.calls, d) <=> IsOpen(b, d) \/ IsOpenF(g, d)
  BY <1>0
<1> QED
  BY <1>1, <1>2, Zenon DEF Keeps, FrameKeeps

LEMMA KeepsPop ==
    ASSUME NEW b \in Seq(Frames), NEW f \in Frames, f.kind \notin {"mark", "nbstate", "state"},
           NEW p, NEW q, q.args = p.args, q.state = p.state,
           \/ p.calls = Append(b, f) /\ q.calls = b
           \/ p.calls = b /\ q.calls = Append(b, f)
    PROVE  Keeps(p, q)
<1>1. \A d : IsOpen(Append(b, f), d) <=> IsOpen(b, d)
  <2>1. \A d : ~IsOpenF(f, d)
    BY DEF IsOpenF
  <2> QED
    BY <2>1, OpenAppend, Zenon
<1> QED
  BY <1>1 DEF Keeps, KeepsRead

(* The reader between two operations, and when a call of load_one returns.  *)
LEMMA StFields ==
    \A c, s, m, v, p, a, b, o :
        /\ St(c, s, m, v, p, a, b, o).calls = c /\ St(c, s, m, v, p, a, b, o).stack = s
        /\ St(c, s, m, v, p, a, b, o).memo = m /\ St(c, s, m, v, p, a, b, o).ret = v
        /\ St(c, s, m, v, p, a, b, o).pos = p /\ St(c, s, m, v, p, a, b, o).args = a
        /\ St(c, s, m, v, p, a, b, o).state = b /\ St(c, s, m, v, p, a, b, o).objs = o
BY DEF St

Sane(p, t, L)     == Typed(p) /\ Whole(p.args, p.state) /\ Wanted(p.objs, L) /\ p.pos = Len(t)
At(p, c, s, t, L) == Sane(p, t, L) /\ p.calls = c /\ c # <<>> /\ p.stack = s /\ p.ret = None
Back(p, c, v, t, L) == Sane(p, t, L) /\ p.calls = c /\ c # <<>> /\ p.stack = <<>> /\ p.ret = v
Lands(p, q, c, o, t, L) ==
    /\ Leads(p, q, t, L) /\ At(q, c, <<>>, t, L) /\ q.memo = p.memo /\ q.objs = o /\ Keeps(p, q)

LEMMA AtGood ==
    ASSUME NEW p, NEW c, NEW s, NEW t, NEW L, At(p, c, s, t, L)
    PROVE  Good(p, t, L)
<1>1. p.pos \in Nat /\ p.pos = Len(t)
  BY DEF At, Sane, Typed
<1>2. ~(p.pos < Len(t))
  BY <1>1
<1> QED
  BY <1>2, Zenon DEF At, Sane, Good, Ready

LEMMA BackGood ==
    ASSUME NEW p, NEW c, NEW v, NEW t, NEW L, Back(p, c, v, t, L), v # None,
           ReadyRet(p, Last(c), L)
    PROVE  Good(p, t, L) /\ CanMove(p, t) /\ Nx(p, t) = Returner(p, Last(c))
BY Zenon DEF Back, Sane, Good, Ready, CanMove, Nx

(* load_one goes on with another call.                                      *)
LEMMA RetTurn ==
    ASSUME NEW b \in Seq(Frames), NEW f \in Frames, NEW g \in Frames, NEW v, v # None,
           NEW p, NEW t, NEW L, Back(p, Append(b, f), v, t, L), ReadyRet(p, f, L),
           NEW a, NEW s, Returner(p, f) = Turns(p, g, a, s), Whole(a, s),
           KeepsRead(p, a, s), FrameKeeps(f, g, a, s)
    PROVE  \E q : Lands(p, q, Append(b, g), p.objs, t, L)
<1> DEFINE q == Turns(p, g, a, s)
<1>1. Last(Append(b, f)) = f /\ Front(Append(b, f)) = b /\ Append(b, g) # <<>>
  BY LastFrame
<1>2. Good(p, t, L) /\ CanMove(p, t) /\ Nx(p, t) = q
  BY <1>1, BackGood
<1>3. Leads(p, q, t, L)
  <2>1. Leads(p, p, t, L)
    BY LeadsSelf, Zenon
  <2>2. Leads(p, Nx(p, t), t, L)
    BY <1>2, <2>1, LeadsStep, Zenon
  <2> QED
    BY <1>2, <2>2
<1>4. p.calls = Append(b, f) /\ p.stack = <<>> /\ Sane(p, t, L)
  BY DEF Back
<1>5. /\ q.calls = Append(b, g) /\ q.stack = <<>> /\ q.memo = p.memo /\ q.ret = None
      /\ q.pos = p.pos /\ q.args = a /\ q.state = s /\ q.objs = p.objs
  <2>1. Front(p.calls) = b
    BY <1>1, <1>4
  <2>2. q = St(Append(b, g), p.stack, p.memo, None, p.pos, a, s, p.objs)
    BY <2>1, Zenon DEF Turns
  <2> HIDE DEF q
  <2> QED
    BY <1>4, <2>2 DEF St
<1> HIDE DEF q
<1>6. At(q, Append(b, g), <<>>, t, L)
  BY <1>1, <1>4, <1>5, Zenon DEF At, Sane, Typed
<1>7. Keeps(p, q)
  BY <1>4, <1>5, KeepsTurn
<1> QED
  BY <1>3, <1>5, <1>6, <1>7, Zenon DEF Lands

(* load_one returns to the call that made it.                               *)
LEMMA RetPop ==
    ASSUME NEW b \in Seq(Frames), NEW f \in Frames, b # <<>>, NEW v, v # None, NEW u,
           f.kind \notin {"mark", "nbstate", "state"},
           NEW p, NEW t, NEW L, Back(p, Append(b, f), v, t, L), ReadyRet(p, f, L),
           Returner(p, f) = Pops(p, u, p.objs)
    PROVE  \E q : Leads(p, q, t, L) /\ Back(q, b, u, t, L) /\ q.memo = p.memo
                  /\ q.objs = p.objs /\ Keeps(p, q)
<1> DEFINE q == Pops(p, u, p.objs)
<1>1. Last(Append(b, f)) = f /\ Front(Append(b, f)) = b
  BY LastFrame
<1>2. Good(p, t, L) /\ CanMove(p, t) /\ Nx(p, t) = q
  BY <1>1, BackGood
<1>3. Leads(p, q, t, L)
  <2>1. Leads(p, p, t, L)
    BY LeadsSelf, Zenon
  <2>2. Leads(p, Nx(p, t), t, L)
    BY <1>2, <2>1, LeadsStep, Zenon
  <2> QED
    BY <1>2, <2>2
<1>4. p.calls = Append(b, f) /\ p.stack = <<>> /\ Sane(p, t, L)
  BY DEF Back
<1>5. /\ q.calls = b /\ q.stack = <<>> /\ q.memo = p.memo /\ q.ret = u
      /\ q.pos = p.pos /\ q.args = p.args /\ q.state = p.state /\ q.objs = p.objs
  BY <1>1, <1>4, StFields DEF Pops
<1> HIDE DEF q
<1>6. Back(q, b, u, t, L)
  BY <1>4, <1>5, Zenon DEF Back, Sane, Typed
<1>7. Keeps(p, q)
  BY <1>4, <1>5, KeepsPop
<1> QED
  BY <1>3, <1>5, <1>6, <1>7, Zenon

LEMMA LandsAfter ==
    ASSUME NEW p, NEW q, NEW r, NEW c, NEW o, NEW t, NEW L,
           Leads(p, q, t, L), q.memo = p.memo, Keeps(p, q), Lands(q, r, c, o, t, L)
    PROVE  Lands(p, r, c, o, t, L)
<1>1. Leads(p, r, t, L)
  BY LeadsOn, Zenon DEF Lands
<1>2. Keeps(p, r)
  BY KeepsOn, Zenon DEF Lands
<1> QED
  BY <1>1, <1>2, Zenon DEF Lands

(* Back in load: the object is kept, or the name waits for another.         *)
Kept(s, v) == IF v = UNSTACKED THEN s ELSE Append(s, v)

LEMMA RetTop ==
    ASSUME NEW p, NEW t, NEW O, NEW L \in Seq(O), NEW v, v # None, Back(p, <<Top>>, v, t, L),
           Len(p.objs) < Len(L), v = UNSTACKED \/ v = Obj(L[Len(p.objs) + 1]),
           v = UNSTACKED \/ v \in Values
    PROVE  \E q : Lands(p, q, <<Top>>, Kept(p.objs, v), t, L)
<1> DEFINE o == Kept(p.objs, v)
           q == Pops(p, None, o)
           r == Begins(q)
<1>0. /\ p.calls = <<Top>> /\ p.stack = <<>> /\ p.ret = v /\ Sane(p, t, L)
      /\ Last(<<Top>>) = Top /\ Front(<<Top>>) = <<>> /\ Top.kind = "top"
  BY TopCalls, FrameKinds, Zenon DEF Back
<1>1. ReadyRet(p, Top, L)
  BY <1>0 DEF ReadyRet, Kinds
<1>2. Returner(p, Top) = q
  BY <1>0 DEF Returner, OfTop, Kept
<1>3. Good(p, t, L) /\ CanMove(p, t) /\ Nx(p, t) = q
  BY <1>0, <1>1, <1>2, BackGood
<1>4. /\ q.calls = <<>> /\ q.stack = <<>> /\ q.memo = p.memo /\ q.ret = None
      /\ q.pos = p.pos /\ q.args = p.args /\ q.state = p.state /\ q.objs = o
  BY <1>0, StFields DEF Pops
<1>5. /\ r.calls = <<Top>> /\ r.stack = <<>> /\ r.memo = p.memo /\ r.ret = None
      /\ r.pos = p.pos /\ r.args = p.args /\ r.state = p.state /\ r.objs = o
  BY <1>4, StFields DEF Begins
<1>6. Wanted(o, L)
  <2>1. Wanted(p.objs, L)
    BY <1>0 DEF Sane
  <2>2. CASE v = UNSTACKED
    BY <2>1, <2>2 DEF Kept
  <2>3. CASE v # UNSTACKED
    <3>1. p.objs \in Seq(Values) /\ Len(p.objs) \in Nat /\ Len(L) \in Nat
          /\ \A i \in 1..Len(p.objs) : p.objs[i] = Obj(L[i])
      BY <2>1 DEF Wanted
    <3>2. o = Append(p.objs, v) /\ v \in Values
      BY <2>3 DEF Kept
    <3>3. /\ o \in Seq(Values) /\ Len(o) = Len(p.objs) + 1 /\ o[Len(p.objs) + 1] = v
          /\ \A i \in 1..Len(p.objs) : o[i] = p.objs[i]
      BY <3>1, <3>2, AppendProperties
    <3> HIDE DEF o
    <3>4. \A i \in 1..Len(o) : o[i] = Obj(L[i])
      BY <2>3, <3>1, <3>3
    <3> QED
      BY <3>1, <3>3, <3>4 DEF Wanted
  <2> QED
    BY <2>2, <2>3
<1> HIDE DEF q, o
<1>7. Good(q, t, L) /\ CanMove(q, t) /\ Nx(q, t) = r
  BY <1>0, <1>4, <1>6, Zenon DEF Good, Sane, Typed, Ready, CanMove, Nx
<1> HIDE DEF r
<1>8. At(r, <<Top>>, <<>>, t, L)
  BY <1>0, <1>5, <1>6, TopCalls, Zenon DEF At, Sane, Typed
<1>9. Leads(p, r, t, L)
  <2>1. Leads(p, p, t, L)
    BY LeadsSelf, Zenon
  <2>2. Leads(p, Nx(p, t), t, L)
    BY <1>3, <2>1, LeadsStep, Zenon
  <2>3. Leads(p, q, t, L)
    BY <1>3, <2>2
  <2>4. Leads(p, Nx(q, t), t, L)
    BY <1>7, <2>3, LeadsStep, Zenon
  <2> QED
    BY <1>7, <2>4
<1>10. Keeps(p, r)
  BY <1>0, <1>5, KeepsSelf
<1>11. Lands(p, r, <<Top>>, o, t, L)
  BY <1>5, <1>8, <1>9, <1>10, Zenon DEF Lands
<1> QED
  BY <1>11 DEF o

LEMMA FillsWhole ==
    ASSUME NEW d \in Structures, NEW p, NEW a, NEW s, a = p.args, s = p.state, Whole(a, s)
    PROVE  /\ Whole(Fills(a, Name(d), ObjEach(Items[d])), s)
           /\ KeepsRead(p, Fills(a, Name(d), ObjEach(Items[d])), s)
           /\ Fills(a, Name(d), ObjEach(Items[d]))[d] # <<>>
           /\ Whole(a, Fills(s, Name(d), ObjEach(StateOf[d])))
           /\ KeepsRead(p, a, Fills(s, Name(d), ObjEach(StateOf[d])))
           /\ Fills(s, Name(d), ObjEach(StateOf[d]))[d] # <<>>
<1>1. \A e \in Structures : (Name(d) = Name(e)) <=> e = d
  BY NameIsValue DEF Structures
<1> DEFINE I == ObjEach(Items[d])
           J == ObjEach(StateOf[d])
           A == Fills(a, Name(d), I)
           S == Fills(s, Name(d), J)
<1>2. /\ A[d] = <<I>> /\ \A e \in Structures : e # d => A[e] = a[e]
      /\ S[d] = <<J>> /\ \A e \in Structures : e # d => S[e] = s[e]
  <2> HIDE DEF I, J
  <2> QED
    BY <1>1 DEF Fills
<1>3. I = ObjEach(Items[d]) /\ J = ObjEach(StateOf[d])
  OBVIOUS
<1> HIDE DEF A, S, I, J
<1>4. \A x : <<x>> # <<>>
  OBVIOUS
<1>5. Whole(A, s) /\ Whole(a, S)
  BY <1>2, <1>3 DEF Whole
<1>6. KeepsRead(p, A, s) /\ KeepsRead(p, a, S) /\ A[d] # <<>> /\ S[d] # <<>>
  BY <1>2, <1>4, Zenon DEF KeepsRead
<1> QED
  BY <1>5, <1>6 DEF A, S, I, J

LEMMA KeepsReadSelf ==
    ASSUME NEW p
    PROVE  KeepsRead(p, p.args, p.state)
BY DEF KeepsRead

LEMMA OneMoreRecord ==
    ASSUME NEW k, NEW n, NEW m, NEW u, NEW x
    PROVE  OneMore([kind |-> k, left |-> n, name |-> m, read |-> u], x)
           = [kind |-> k, left |-> n - 1, name |-> m, read |-> Append(u, x)]
<1> DEFINE f == [kind |-> k, left |-> n, name |-> m, read |-> u]
           y == n - 1
           z == Append(u, x)
           g == [f EXCEPT !.left = y]
<1>1. OneMore(f, x) = [f EXCEPT !.left = y, !.read = z]
  BY DEF OneMore
<1> HIDE DEF y, z
<1>2. g = [kind |-> k, left |-> y, name |-> m, read |-> u]
  OBVIOUS
<1>3. [f EXCEPT !.left = y, !.read = z] = [g EXCEPT !.read = z]
  <2> HIDE DEF f
  <2> QED
    OBVIOUS
<1>4. [[kind |-> k, left |-> y, name |-> m, read |-> u] EXCEPT !.read = z]
      = [kind |-> k, left |-> y, name |-> m, read |-> z]
  OBVIOUS
<1> HIDE DEF f, g
<1> QED
  BY <1>1, <1>2, <1>3, <1>4 DEF f, y, z

LEMMA OneMoreFrames ==
    ASSUME NEW d \in Structures, NEW k \in Nat
    PROVE  /\ k < Len(Items[d]) => OneMore(ArgsF(d, k), Obj(Items[d][k + 1])) = ArgsF(d, k + 1)
           /\ k < Len(StateOf[d]) => OneMore(StateF(d, k), Obj(StateOf[d][k + 1])) = StateF(d, k + 1)
<1>0. /\ d \in Objects /\ Items[d] \in Seq(Objects) /\ StateOf[d] \in Seq(Objects)
      /\ Len(Items[d]) \in Nat /\ Len(StateOf[d]) \in Nat
  BY ItemsType DEF Structures
<1>1. ASSUME k < Len(Items[d])
      PROVE  OneMore(ArgsF(d, k), Obj(Items[d][k + 1])) = ArgsF(d, k + 1)
  <2>1. k \in 0..Len(Items[d])
    BY <1>0, <1>1
  <2>2. Upto(Items[d], k + 1) = Append(Upto(Items[d], k), Obj(Items[d][k + 1]))
    BY <1>0, <1>1, <2>1, UptoProperties
  <2>3. (Len(Items[d]) - k) - 1 = Len(Items[d]) - (k + 1)
    BY <1>0
  <2> QED
    BY <2>2, <2>3, OneMoreRecord DEF ArgsF
<1>2. ASSUME k < Len(StateOf[d])
      PROVE  OneMore(StateF(d, k), Obj(StateOf[d][k + 1])) = StateF(d, k + 1)
  <2>1. k \in 0..Len(StateOf[d])
    BY <1>0, <1>2
  <2>2. Upto(StateOf[d], k + 1) = Append(Upto(StateOf[d], k), Obj(StateOf[d][k + 1]))
    BY <1>0, <1>2, <2>1, UptoProperties
  <2>3. (Len(StateOf[d]) - k) - 1 = Len(StateOf[d]) - (k + 1)
    BY <1>0
  <2> QED
    BY <2>2, <2>3, OneMoreRecord DEF StateF
<1> QED
  BY <1>1, <1>2

(* The last argument, or the last of the state.                             *)
LEMMA LastFrames ==
    ASSUME NEW d \in Structures
    PROVE  /\ Upto(Items[d], Len(Items[d])) = ObjEach(Items[d])
           /\ Upto(StateOf[d], Len(StateOf[d])) = ObjEach(StateOf[d])
           /\ Len(Items[d]) = 0 => ObjEach(Items[d]) = <<>>
           /\ Len(StateOf[d]) = 0 => ObjEach(StateOf[d]) = <<>>
           /\ ArgsF(d, 0) = Frame("args", Len(Items[d]), Name(d))
           /\ StateF(d, 0) = Frame("state", Len(StateOf[d]), Name(d))
<1>0. /\ d \in Objects /\ Items[d] \in Seq(Objects) /\ StateOf[d] \in Seq(Objects)
      /\ Len(Items[d]) \in Nat /\ Len(StateOf[d]) \in Nat
  BY ItemsType DEF Structures
<1>1. Upto(Items[d], Len(Items[d])) = ObjEach(Items[d]) /\ Upto(Items[d], 0) = <<>>
  BY <1>0, UptoProperties
<1>2. Upto(StateOf[d], Len(StateOf[d])) = ObjEach(StateOf[d]) /\ Upto(StateOf[d], 0) = <<>>
  BY <1>0, UptoProperties
<1>3. ArgsF(d, 0) = Frame("args", Len(Items[d]), Name(d))
  BY <1>0, <1>1 DEF ArgsF, Frame
<1>4. StateF(d, 0) = Frame("state", Len(StateOf[d]), Name(d))
  BY <1>0, <1>2 DEF StateF, Frame
<1> QED
  BY <1>1, <1>2, <1>3, <1>4

LEMMA OpenKinds ==
    /\ \A f, d : f.kind \notin {"mark", "nbstate", "state"} => ~IsOpenF(f, d)
    /\ \A d : IsOpenF(MarkF(d), d) /\ IsOpenF(NbStateF(d), d)
    /\ \A e, d : IsOpenF(MarkF(e), d) <=> Name(e) = Name(d)
    /\ \A e, d : IsOpenF(NbStateF(e), d) <=> Name(e) = Name(d)
    /\ \A e, k, d : IsOpenF(StateF(e, k), d) <=> Name(e) = Name(d)
    /\ \A e, k, d : ~IsOpenF(ArgsF(e, k), d)
    /\ \A e, d : ~IsOpenF(ObjF(e), d)
    /\ \A n, d : ~IsOpenF(NameF(n), d) /\ ~IsOpenF(ItemsF(n), d)
    /\ \A d : ~IsOpenF(SizeF, d) /\ ~IsOpenF(NbObjF, d) /\ ~IsOpenF(Top, d)
BY FrameKinds DEF IsOpenF

(* What load_one does of an object: an item, an argument, a part of a state. *)
LEMMA RetArg ==
    ASSUME NEW c, NEW o \in Objects, NEW e, HearsArg(c, o, e),
           NEW p, NEW t, NEW L, Back(p, c, Obj(o), t, L)
    PROVE  \E q : Lands(p, q, e, p.objs, t, L)
<1>1. PICK b \in Seq(Frames), d \in Structures, k \in Nat :
         /\ k < Len(Items[d]) /\ o = Items[d][k + 1]
         /\ c = Append(b, ArgsF(d, k)) /\ e = Append(b, AfterArgs(d, k + 1))
  BY Zenon DEF HearsArg
<1>2. d \in Objects /\ Len(Items[d]) \in Nat
  BY ItemsType DEF Structures
<1> DEFINE f == ArgsF(d, k)
           g == OneMore(f, Obj(o))
           h == AfterArgs(d, k + 1)
<1>3. f \in Frames /\ h \in Frames /\ f.kind = "args" /\ f.name = Name(d)
  BY <1>1, FramesType, FrameKinds
<1>4. g = ArgsF(d, k + 1)
  BY <1>1, OneMoreFrames
<1>5. g.left = Len(Items[d]) - (k + 1) /\ g.name = Name(d) /\ g.read = Upto(Items[d], k + 1)
  BY <1>4, FrameKinds
<1>6. p.ret = Obj(o) /\ Whole(p.args, p.state)
  BY Zenon DEF Back, Sane
<1>7. Back(p, Append(b, f), Obj(o), t, L)
  BY <1>1
<1>8. Obj(o) # None
  BY ObjIsValue
<1>9. ReadyRet(p, f, L)
  <2>1. IsStr(f.name)
    BY <1>2, <1>3, NameIsValue
  <2> QED
    BY <1>3, <2>1 DEF ReadyRet, Kinds
<1>10. Returner(p, f) = OfArg(p, f)
  BY <1>3 DEF Returner
<1>11. CASE k + 1 < Len(Items[d])
  <2>1. h = g
    BY <1>2, <1>4, <1>11 DEF AfterArgs
  <2>2. Returner(p, f) = Turns(p, h, p.args, p.state)
    BY <1>1, <1>2, <1>5, <1>6, <1>10, <1>11, <2>1 DEF OfArg
  <2>3. FrameKeeps(f, h, p.args, p.state)
    <3> SUFFICES ASSUME NEW x \in Structures
                 PROVE  ~IsOpenF(f, x) /\ ~IsOpenF(h, x)
      BY Zenon DEF FrameKeeps
    <3>1. h = ArgsF(d, k + 1)
      BY <1>4, <2>1
    <3> QED
      BY <3>1, OpenKinds
  <2> HIDE DEF f, g, h
  <2>4. \E q : Lands(p, q, Append(b, h), p.objs, t, L)
    BY <1>3, <1>6, <1>7, <1>8, <1>9, <2>2, <2>3, KeepsReadSelf, RetTurn
  <2> QED
    BY <1>1, <2>4 DEF h
<1>12. CASE k + 1 = Len(Items[d])
  <2>1. h = MarkF(d)
    BY <1>12 DEF AfterArgs
  <2>2. g.read = ObjEach(Items[d]) /\ ~(g.left > 0)
    BY <1>2, <1>5, <1>12, LastFrames
  <2> DEFINE a == Fills(p.args, Name(d), ObjEach(Items[d]))
  <2>3. Returner(p, f) = Turns(p, h, a, p.state)
    BY <1>5, <1>6, <1>10, <2>1, <2>2 DEF OfArg, MarkF
  <2>4. Whole(a, p.state) /\ KeepsRead(p, a, p.state) /\ a[d] # <<>>
    BY <1>6, FillsWhole
  <2>5. FrameKeeps(f, h, a, p.state)
    <3> SUFFICES ASSUME NEW x \in Structures
                 PROVE  ~IsOpenF(f, x) /\ (IsOpenF(h, x) => a[x] # <<>>)
      BY Zenon DEF FrameKeeps
    <3>1. IsOpenF(h, x) => x = d
      BY <2>1, OpenKinds, NameIsValue DEF Structures
    <3>2. ~IsOpenF(f, x)
      BY OpenKinds
    <3> HIDE DEF a
    <3> QED
      BY <2>4, <3>1, <3>2
  <2> HIDE DEF f, g, h, a
  <2>6. \E q : Lands(p, q, Append(b, h), p.objs, t, L)
    BY <1>3, <1>7, <1>8, <1>9, <2>3, <2>4, <2>5, RetTurn
  <2> QED
    BY <1>1, <2>6 DEF h
<1> QED
  BY <1>1, <1>2, <1>11, <1>12

LEMMA RetState ==
    ASSUME NEW c, NEW o \in Objects, NEW e, HearsState(c, o, e),
           NEW p, NEW t, NEW L, Back(p, c, Obj(o), t, L)
    PROVE  \E q : Lands(p, q, e, p.objs, t, L)
<1>1. PICK b \in Seq(Frames), d \in Structures, k \in Nat :
         /\ k < Len(StateOf[d]) /\ o = StateOf[d][k + 1]
         /\ c = Append(b, StateF(d, k)) /\ e = Append(b, AfterState(d, k + 1))
  BY Zenon DEF HearsState
<1>2. d \in Objects /\ Len(StateOf[d]) \in Nat
  BY ItemsType DEF Structures
<1> DEFINE f == StateF(d, k)
           g == OneMore(f, Obj(o))
           h == AfterState(d, k + 1)
<1>3. f \in Frames /\ h \in Frames /\ f.kind = "state" /\ f.name = Name(d)
  BY <1>1, FramesType, FrameKinds
<1>4. g = StateF(d, k + 1)
  BY <1>1, OneMoreFrames
<1>5. g.left = Len(StateOf[d]) - (k + 1) /\ g.name = Name(d) /\ g.read = Upto(StateOf[d], k + 1)
  BY <1>4, FrameKinds
<1>6. p.ret = Obj(o) /\ Whole(p.args, p.state)
  BY Zenon DEF Back, Sane
<1>7. Back(p, Append(b, f), Obj(o), t, L)
  BY <1>1
<1>8. Obj(o) # None
  BY ObjIsValue
<1>9. ReadyRet(p, f, L)
  BY <1>3 DEF ReadyRet, Kinds
<1>10. Returner(p, f) = OfState(p, f)
  BY <1>3 DEF Returner
<1>11. CASE k + 1 < Len(StateOf[d])
  <2>1. h = g
    BY <1>2, <1>4, <1>11 DEF AfterState
  <2>2. Returner(p, f) = Turns(p, h, p.args, p.state)
    BY <1>1, <1>2, <1>5, <1>6, <1>10, <1>11, <2>1 DEF OfState
  <2>3. FrameKeeps(f, h, p.args, p.state)
    <3> SUFFICES ASSUME NEW x \in Structures
                 PROVE  IsOpenF(f, x) <=> IsOpenF(h, x)
      BY Zenon DEF FrameKeeps
    <3>1. h = StateF(d, k + 1)
      BY <1>4, <2>1
    <3> QED
      BY <3>1, OpenKinds
  <2> HIDE DEF f, g, h
  <2>4. \E q : Lands(p, q, Append(b, h), p.objs, t, L)
    BY <1>3, <1>6, <1>7, <1>8, <1>9, <2>2, <2>3, KeepsReadSelf, RetTurn
  <2> QED
    BY <1>1, <2>4 DEF h
<1>12. CASE k + 1 = Len(StateOf[d])
  <2>1. h = ObjF(d)
    BY <1>12 DEF AfterState
  <2>2. g.read = ObjEach(StateOf[d]) /\ ~(g.left > 0)
    BY <1>2, <1>5, <1>12, LastFrames
  <2> DEFINE s == Fills(p.state, Name(d), ObjEach(StateOf[d]))
  <2>3. Returner(p, f) = Turns(p, h, p.args, s)
    BY <1>5, <1>6, <1>10, <2>1, <2>2 DEF OfState, ObjF
  <2>4. Whole(p.args, s) /\ KeepsRead(p, p.args, s) /\ s[d] # <<>>
    BY <1>6, FillsWhole
  <2>5. FrameKeeps(f, h, p.args, s)
    <3> SUFFICES ASSUME NEW x \in Structures
                 PROVE  ~IsOpenF(h, x) /\ (IsOpenF(f, x) => s[x] # <<>>)
      BY Zenon DEF FrameKeeps
    <3>1. IsOpenF(f, x) => x = d
      BY OpenKinds, NameIsValue DEF Structures
    <3>2. ~IsOpenF(h, x)
      BY <2>1, OpenKinds
    <3> HIDE DEF s
    <3> QED
      BY <2>4, <3>1, <3>2
  <2> HIDE DEF f, g, h, s
  <2>6. \E q : Lands(p, q, Append(b, h), p.objs, t, L)
    BY <1>3, <1>7, <1>8, <1>9, <2>3, <2>4, <2>5, RetTurn
  <2> QED
    BY <1>1, <2>6 DEF h
<1> QED
  BY <1>1, <1>2, <1>11, <1>12

LEMMA RetItem ==
    ASSUME NEW c, NEW o \in Objects, NEW e, HearsItem(c, e),
           NEW p, NEW t, NEW O, NEW L \in Seq(O), Back(p, c, Obj(o), t, L), Len(p.objs) < Len(L)
    PROVE  \E q : Lands(p, q, e, p.objs, t, L)
<1>1. PICK n \in Nat : n # 0 /\ c = <<Top, ItemsF(n)>> /\ e = AfterItem(n)
  BY Zenon DEF HearsItem
<1> DEFINE f == ItemsF(n)
           b == <<Top>>
<1>2. f \in Frames /\ f.kind = "items" /\ f.left = n /\ b \in Seq(Frames) /\ b # <<>>
  BY FramesType, FrameKinds, TopCalls
<1>3. c = Append(b, f)
  BY <1>1, <1>2, TopCalls
<1>4. p.ret = Obj(o) /\ Whole(p.args, p.state) /\ Obj(o) # None
  BY ObjIsValue, Zenon DEF Back, Sane
<1>5. Back(p, Append(b, f), Obj(o), t, L)
  BY <1>3
<1>6. ReadyRet(p, f, L)
  BY <1>2 DEF ReadyRet, Kinds
<1>7. Returner(p, f) = OfItem(p, f)
  BY <1>2 DEF Returner
<1>8. CASE n = 1
  <2>1. e = b
    BY <1>1, <1>8 DEF AfterItem
  <2>2. Returner(p, f) = Pops(p, UNSTACKED, p.objs)
    BY <1>2, <1>7, <1>8 DEF OfItem
  <2> HIDE DEF f, b
  <2>3. PICK q : Leads(p, q, t, L) /\ Back(q, b, UNSTACKED, t, L) /\ q.memo = p.memo
                 /\ q.objs = p.objs /\ Keeps(p, q)
    BY <1>2, <1>4, <1>5, <1>6, <2>2, RetPop
  <2>4. Back(q, <<Top>>, UNSTACKED, t, L) /\ UNSTACKED # None /\ Len(q.objs) < Len(L)
    BY <2>3 DEF b, UNSTACKED, None
  <2>5. \E r : Lands(q, r, <<Top>>, Kept(q.objs, UNSTACKED), t, L)
    BY <2>4, RetTop
  <2>6. Kept(q.objs, UNSTACKED) = p.objs
    BY <2>3 DEF Kept
  <2>7. PICK r : Lands(q, r, e, p.objs, t, L)
    BY <2>1, <2>5, <2>6 DEF b
  <2>8. Lands(p, r, e, p.objs, t, L)
    BY <2>3, <2>7, LandsAfter
  <2> QED
    BY <2>8
<1>9. CASE n # 1
  <2> DEFINE h == ItemsF(n - 1)
  <2>1. n - 1 \in Nat /\ h \in Frames
    BY <1>1, FramesType
  <2>2. e = Append(b, h)
    BY <1>1, <1>9, <2>1, TopCalls DEF AfterItem
  <2>3. [f EXCEPT !.left = @ - 1] = h
    BY DEF ItemsF, Frame
  <2>4. Returner(p, f) = Turns(p, h, p.args, p.state)
    BY <1>2, <1>7, <1>9, <2>3 DEF OfItem
  <2>5. FrameKeeps(f, h, p.args, p.state)
    BY OpenKinds, Zenon DEF FrameKeeps
  <2> HIDE DEF f, h, b
  <2> QED
    BY <1>2, <1>4, <1>5, <1>6, <2>1, <2>2, <2>4, <2>5, KeepsReadSelf, RetTurn
<1> QED
  BY <1>8, <1>9

LEMMA RetObject ==
    ASSUME NEW c, NEW o \in Objects, NEW X, NEW e, HearsObject(c, o, X, e),
           NEW p, NEW t, NEW O, NEW L \in Seq(O), Back(p, c, Obj(o), t, L),
           Len(p.objs) < Len(L), X = L[Len(p.objs) + 1]
    PROVE  \E q : Lands(p, q, e, IF c = <<Top>> THEN Append(p.objs, Obj(X)) ELSE p.objs, t, L)
<1>1. CASE c = <<Top>>
  <2>1. o = X /\ e = <<Top>>
    <3>1. Last(c) = Top /\ Top.kind = "top"
      BY <1>1, TopCalls, FrameKinds
    <3>2. ~HearsItem(c, e)
      <4> SUFFICES ASSUME NEW n \in Nat, c = <<Top, ItemsF(n)>> PROVE FALSE
        BY Zenon DEF HearsItem
      <4> QED
        BY <1>1, TopCalls, FramesType
    <3>3. ~HearsArg(c, o, e)
      <4> SUFFICES ASSUME NEW b \in Seq(Frames), NEW d \in Structures, NEW k \in Nat,
                          c = Append(b, ArgsF(d, k)) PROVE FALSE
        BY Zenon DEF HearsArg
      <4>1. Last(c) = ArgsF(d, k) /\ ArgsF(d, k).kind = "args"
        BY LastFrame, FramesType, FrameKinds
      <4> QED
        BY <3>1, <4>1
    <3>4. ~HearsState(c, o, e)
      <4> SUFFICES ASSUME NEW b \in Seq(Frames), NEW d \in Structures, NEW k \in Nat,
                          c = Append(b, StateF(d, k)) PROVE FALSE
        BY Zenon DEF HearsState
      <4>1. Last(c) = StateF(d, k) /\ StateF(d, k).kind = "state"
        BY LastFrame, FramesType, FrameKinds
      <4> QED
        BY <3>1, <4>1
    <3> QED
      BY <3>2, <3>3, <3>4, Zenon DEF HearsObject
  <2>2. Obj(o) # None /\ Obj(o) # UNSTACKED /\ Obj(o) \in Values /\ Obj(o) = Obj(L[Len(p.objs) + 1])
    BY <2>1, ObjIsValue
  <2>3. Kept(p.objs, Obj(o)) = Append(p.objs, Obj(X))
    BY <2>1, <2>2 DEF Kept
  <2>4. Back(p, <<Top>>, Obj(o), t, L)
    BY <1>1
  <2>5. \E q : Lands(p, q, <<Top>>, Kept(p.objs, Obj(o)), t, L)
    BY <2>2, <2>4, RetTop
  <2> QED
    BY <1>1, <2>1, <2>3, <2>5
<1>2. CASE c # <<Top>>
  <2>1. \E q : Lands(p, q, e, p.objs, t, L)
    <3>1. CASE HearsItem(c, e)
      BY <3>1, RetItem
    <3>2. CASE HearsArg(c, o, e)
      BY <3>2, RetArg
    <3>3. CASE HearsState(c, o, e)
      BY <3>3, RetState
    <3> QED
      BY <1>2, <3>1, <3>2, <3>3, Zenon DEF HearsObject
  <2> QED
    BY <1>2, <2>1
<1> QED
  BY <1>1, <1>2

(* The object of a structure comes back through the call that read its state. *)
LEMMA RetBack ==
    ASSUME NEW c, NEW v, NEW X, NEW e, HearsBack(c, v, X, e),
           NEW p, NEW t, NEW O, NEW L \in Seq(O), Back(p, c, v, t, L),
           Len(p.objs) < Len(L), X = L[Len(p.objs) + 1]
    PROVE  \E q : Lands(p, q, e, IF Completes(c, v) THEN Append(p.objs, Obj(X)) ELSE p.objs, t, L)
<1>1. PICK b \in Seq(Frames), d \in Structures :
         v = Obj(d) /\ c = Append(b, ObjF(d)) /\ HearsObject(b, d, X, e)
  BY Zenon DEF HearsBack
<1>2. d \in Objects /\ ObjF(d) \in Frames /\ ObjF(d).kind = "obj" /\ b # <<>>
  BY <1>1, FramesType, FrameKinds, HearsObjectType DEF Structures
<1>3. Completes(c, v) <=> b = <<Top>>
  BY <1>1, BackCompletes
<1> DEFINE f == ObjF(d)
<1>4. ReadyRet(p, f, L)
  BY <1>2 DEF ReadyRet, Kinds
<1>5. p.ret = v /\ v # None
  BY <1>1, <1>2, ObjIsValue, Zenon DEF Back
<1>6. Returner(p, f) = Pops(p, v, p.objs)
  BY <1>2, <1>5 DEF Returner
<1>7. Back(p, Append(b, f), v, t, L) /\ f \in Frames /\ f.kind \notin {"mark", "nbstate", "state"}
  BY <1>1, <1>2
<1> HIDE DEF f
<1>8. PICK q : Leads(p, q, t, L) /\ Back(q, b, v, t, L) /\ q.memo = p.memo
               /\ q.objs = p.objs /\ Keeps(p, q)
  BY <1>2, <1>4, <1>5, <1>6, <1>7, RetPop
<1>9. Back(q, b, Obj(d), t, L) /\ Len(q.objs) < Len(L) /\ X = L[Len(q.objs) + 1]
  BY <1>1, <1>8
<1>10. \E r : Lands(q, r, e, IF b = <<Top>> THEN Append(q.objs, Obj(X)) ELSE q.objs, t, L)
  BY <1>1, <1>2, <1>9, RetObject
<1> DEFINE s == IF Completes(c, v) THEN Append(p.objs, Obj(X)) ELSE p.objs
<1>11. (IF b = <<Top>> THEN Append(q.objs, Obj(X)) ELSE q.objs) = s
  BY <1>3, <1>8
<1> HIDE DEF s
<1>12. PICK r : Lands(q, r, e, s, t, L)
  BY <1>10, <1>11
<1>13. Lands(p, r, e, s, t, L)
  BY <1>8, <1>12, LandsAfter
<1> QED
  BY <1>13 DEF s

(* What load_one does of a mark, of a name, of a number.                    *)
LEMMA RetMark ==
    ASSUME NEW b \in Seq(Frames), NEW d \in Structures,
           NEW p, NEW t, NEW L, Back(p, Append(b, MarkF(d)), Text("STATE"), t, L)
    PROVE  \E q : Lands(p, q, Append(b, NbStateF(d)), p.objs, t, L)
<1> DEFINE f == MarkF(d)
           h == NbStateF(d)
           v == Text("STATE")
<1>1. f \in Frames /\ h \in Frames /\ f.kind = "mark" /\ f.name = Name(d)
  BY FramesType, FrameKinds
<1>2. p.ret = v /\ Whole(p.args, p.state) /\ v # None
  BY TextIsValue, Zenon DEF Back, Sane, Marks
<1>3. ReadyRet(p, f, L)
  BY <1>1, <1>2 DEF ReadyRet, Kinds
<1>4. Returner(p, f) = Turns(p, h, p.args, p.state)
  BY <1>1 DEF Returner, OfMark, NbStateF
<1>5. FrameKeeps(f, h, p.args, p.state)
  <2> SUFFICES ASSUME NEW x \in Structures
               PROVE  IsOpenF(f, x) <=> IsOpenF(h, x)
    BY Zenon DEF FrameKeeps
  <2> QED
    BY OpenKinds
<1> HIDE DEF f, h, v
<1>6. Back(p, Append(b, f), v, t, L)
  BY DEF f, v
<1>7. \E q : Lands(p, q, Append(b, h), p.objs, t, L)
  BY <1>1, <1>2, <1>3, <1>4, <1>5, <1>6, KeepsReadSelf, RetTurn
<1> QED
  BY <1>7 DEF h

LEMMA RetName ==
    ASSUME NEW b \in Seq(Frames), NEW d \in Structures,
           NEW p, NEW t, NEW L, Back(p, Append(b, NameF(Len(Items[d]))), Name(d), t, L)
    PROVE  \E q : Lands(p, q, Append(b, AfterArgs(d, 0)), p.objs, t, L)
<1> DEFINE n == Len(Items[d])
           f == NameF(n)
           h == AfterArgs(d, 0)
           v == Name(d)
<1>0. d \in Objects /\ n \in Nat
  BY ItemsType DEF Structures
<1>1. f \in Frames /\ h \in Frames /\ f.kind = "name" /\ f.read = Number(n)
  BY <1>0, FramesType, FrameKinds
<1>2. p.ret = v /\ Whole(p.args, p.state) /\ v # None /\ IsStr(v)
  BY <1>0, NameIsValue, Zenon DEF Back, Sane
<1>3. ReadyRet(p, f, L)
  BY <1>0, <1>1, <1>2, NumberIsValue DEF ReadyRet, Kinds
<1>4. Returner(p, f) = OfName(p, f)
  BY <1>1 DEF Returner
<1>5. Back(p, Append(b, f), v, t, L)
  OBVIOUS
<1>6. CASE n = 0
  <2> DEFINE a == Fills(p.args, Name(d), ObjEach(Items[d]))
  <2>1. h = MarkF(d) /\ ObjEach(Items[d]) = <<>>
    BY <1>0, <1>6, LastFrames DEF AfterArgs
  <2>2. Returner(p, f) = Turns(p, h, a, p.state)
    BY <1>1, <1>2, <1>4, <1>6, <2>1 DEF OfName, MarkF
  <2>3. Whole(a, p.state) /\ KeepsRead(p, a, p.state) /\ a[d] # <<>>
    BY <1>2, FillsWhole
  <2>4. FrameKeeps(f, h, a, p.state)
    <3> SUFFICES ASSUME NEW x \in Structures
                 PROVE  ~IsOpenF(f, x) /\ (IsOpenF(h, x) => a[x] # <<>>)
      BY Zenon DEF FrameKeeps
    <3>1. IsOpenF(h, x) => x = d
      BY <2>1, OpenKinds, NameIsValue DEF Structures
    <3>2. ~IsOpenF(f, x)
      BY OpenKinds
    <3> HIDE DEF a
    <3> QED
      BY <2>3, <3>1, <3>2
  <2> HIDE DEF f, h, v, a
  <2>5. \E q : Lands(p, q, Append(b, h), p.objs, t, L)
    BY <1>1, <1>2, <1>3, <1>5, <2>2, <2>3, <2>4, RetTurn
  <2> QED
    BY <2>5 DEF h
<1>7. CASE n # 0
  <2>1. h = ArgsF(d, 0) /\ ArgsF(d, 0) = Frame("args", n, Name(d))
    BY <1>0, <1>7, LastFrames DEF AfterArgs
  <2>2. Number(n) # Number(0) /\ Number(n)[2] = n
    BY <1>0, <1>7, NumberIsValue
  <2>3. Returner(p, f) = Turns(p, h, p.args, p.state)
    BY <1>1, <1>2, <1>4, <2>1, <2>2 DEF OfName
  <2>4. FrameKeeps(f, h, p.args, p.state)
    <3> SUFFICES ASSUME NEW x \in Structures
                 PROVE  ~IsOpenF(f, x) /\ ~IsOpenF(h, x)
      BY Zenon DEF FrameKeeps
    <3> QED
      BY <2>1, OpenKinds
  <2> HIDE DEF f, h, v
  <2>5. \E q : Lands(p, q, Append(b, h), p.objs, t, L)
    BY <1>1, <1>2, <1>3, <1>5, <2>3, <2>4, KeepsReadSelf, RetTurn
  <2> QED
    BY <2>5 DEF h
<1> QED
  BY <1>6, <1>7

LEMMA RetSize ==
    ASSUME NEW n \in Nat, n # 0, NEW p, NEW t, NEW L, Back(p, <<Top, SizeF>>, Number(n), t, L)
    PROVE  \E q : Lands(p, q, <<Top, ItemsF(n)>>, p.objs, t, L)
<1> DEFINE f == SizeF
           h == ItemsF(n)
           v == Number(n)
           b == <<Top>>
<1>1. f \in Frames /\ h \in Frames /\ f.kind = "size"
      /\ b \in Seq(Frames) /\ <<Top, f>> = Append(b, f) /\ <<Top, h>> = Append(b, h)
  BY FramesType, FrameKinds, TopCalls
<1>2. p.ret = v /\ Whole(p.args, p.state) /\ v # None /\ IsInt(v) /\ v[2] = n
  BY NumberIsValue, Zenon DEF Back, Sane
<1>3. ReadyRet(p, f, L)
  <2>1. v # Number(0)
    BY DEF Number
  <2> QED
    BY <1>1, <1>2, <2>1 DEF ReadyRet, Kinds
<1>4. Returner(p, f) = Turns(p, h, p.args, p.state)
  BY <1>1, <1>2 DEF Returner, OfSize, ItemsF
<1>5. FrameKeeps(f, h, p.args, p.state)
  BY OpenKinds, Zenon DEF FrameKeeps
<1>6. Back(p, Append(b, f), v, t, L)
  BY <1>1
<1> HIDE DEF f, h, v, b
<1>7. \E q : Lands(p, q, Append(b, h), p.objs, t, L)
  BY <1>1, <1>2, <1>3, <1>4, <1>5, <1>6, KeepsReadSelf, RetTurn
<1> QED
  BY <1>1, <1>7 DEF h

LEMMA RetNbObj ==
    ASSUME NEW b \in Seq(Frames), NEW n \in Nat,
           NEW p, NEW t, NEW L, Back(p, Append(b, NbObjF), Number(n), t, L)
    PROVE  \E q : Lands(p, q, Append(b, NameF(n)), p.objs, t, L)
<1> DEFINE f == NbObjF
           h == NameF(n)
           v == Number(n)
<1>1. f \in Frames /\ h \in Frames /\ f.kind = "nbobj"
  BY FramesType, FrameKinds
<1>2. p.ret = v /\ Whole(p.args, p.state) /\ v # None
  BY NumberIsValue, Zenon DEF Back, Sane
<1>3. ReadyRet(p, f, L)
  BY <1>1, <1>2 DEF ReadyRet, Kinds
<1>4. Returner(p, f) = Turns(p, h, p.args, p.state)
  BY <1>1, <1>2 DEF Returner, OfNbObj, NameF
<1>5. FrameKeeps(f, h, p.args, p.state)
  BY OpenKinds, Zenon DEF FrameKeeps
<1>6. Back(p, Append(b, f), v, t, L)
  OBVIOUS
<1> HIDE DEF f, h, v
<1>7. \E q : Lands(p, q, Append(b, h), p.objs, t, L)
  BY <1>1, <1>2, <1>3, <1>4, <1>5, <1>6, KeepsReadSelf, RetTurn
<1> QED
  BY <1>7 DEF h

LEMMA RetNbState ==
    ASSUME NEW b \in Seq(Frames), NEW d \in Structures,
           NEW p, NEW t, NEW L, Back(p, Append(b, NbStateF(d)), Number(Len(StateOf[d])), t, L)
    PROVE  \E q : Lands(p, q, Append(b, AfterState(d, 0)), p.objs, t, L)
<1> DEFINE n == Len(StateOf[d])
           f == NbStateF(d)
           h == AfterState(d, 0)
           v == Number(n)
<1>0. d \in Objects /\ n \in Nat
  BY ItemsType DEF Structures
<1>1. f \in Frames /\ h \in Frames /\ f.kind = "nbstate" /\ f.name = Name(d)
  BY <1>0, FramesType, FrameKinds
<1>2. p.ret = v /\ Whole(p.args, p.state) /\ v # None /\ IsInt(v) /\ v[2] = n
      /\ (v = Number(0) <=> n = 0)
  BY <1>0, NumberIsValue, Zenon DEF Back, Sane
<1>3. ReadyRet(p, f, L)
  BY <1>1, <1>2 DEF ReadyRet, Kinds
<1>4. Returner(p, f) = OfNbState(p, f)
  BY <1>1 DEF Returner
<1>5. Back(p, Append(b, f), v, t, L)
  OBVIOUS
<1>6. CASE n = 0
  <2> DEFINE s == Fills(p.state, Name(d), ObjEach(StateOf[d]))
  <2>1. h = ObjF(d) /\ ObjEach(StateOf[d]) = <<>>
    BY <1>0, <1>6, LastFrames DEF AfterState
  <2>2. Returner(p, f) = Turns(p, h, p.args, s)
    BY <1>1, <1>2, <1>4, <1>6, <2>1 DEF OfNbState, ObjF
  <2>3. Whole(p.args, s) /\ KeepsRead(p, p.args, s) /\ s[d] # <<>>
    BY <1>2, FillsWhole
  <2>4. FrameKeeps(f, h, p.args, s)
    <3> SUFFICES ASSUME NEW x \in Structures
                 PROVE  ~IsOpenF(h, x) /\ (IsOpenF(f, x) => s[x] # <<>>)
      BY Zenon DEF FrameKeeps
    <3>1. IsOpenF(f, x) => x = d
      BY OpenKinds, NameIsValue DEF Structures
    <3>2. ~IsOpenF(h, x)
      BY <2>1, OpenKinds
    <3> HIDE DEF s
    <3> QED
      BY <2>3, <3>1, <3>2
  <2> HIDE DEF f, h, v, s
  <2>5. \E q : Lands(p, q, Append(b, h), p.objs, t, L)
    BY <1>1, <1>2, <1>3, <1>5, <2>2, <2>3, <2>4, RetTurn
  <2> QED
    BY <2>5 DEF h
<1>7. CASE n # 0
  <2>1. h = StateF(d, 0) /\ StateF(d, 0) = Frame("state", n, Name(d))
    BY <1>0, <1>7, LastFrames DEF AfterState
  <2>2. Returner(p, f) = Turns(p, h, p.args, p.state)
    BY <1>1, <1>2, <1>4, <1>7, <2>1 DEF OfNbState
  <2>3. FrameKeeps(f, h, p.args, p.state)
    <3> SUFFICES ASSUME NEW x \in Structures
                 PROVE  IsOpenF(f, x) <=> IsOpenF(h, x)
      BY Zenon DEF FrameKeeps
    <3> QED
      BY <2>1, OpenKinds
  <2> HIDE DEF f, h, v
  <2>4. \E q : Lands(p, q, Append(b, h), p.objs, t, L)
    BY <1>1, <1>2, <1>3, <1>5, <2>2, <2>3, KeepsReadSelf, RetTurn
  <2> QED
    BY <2>4 DEF h
<1> QED
  BY <1>6, <1>7

-----------------------------------------------------------------------------
(* The reader of a longer file.                                             *)
OpSet == [op : {"lit", "put", "ref", "open", "get", "end", "stop"}, val : Values, idx : Nat]

LEMMA OpFields ==
    \A o, v, i : Op(o, v, i).op = o /\ Op(o, v, i).val = v /\ Op(o, v, i).idx = i
BY DEF Op

LEMMA Longer ==
    ASSUME NEW t \in Seq(OpSet), NEW op \in OpSet, NEW O, NEW L \in Seq(O),
           NEW r0, NEW r, NEW c, NEW s, Leads(r0, r, t, L), At(r, c, s, t, L), ReadyOp(r, op)
    PROVE  /\ Append(t, op) \in Seq(OpSet) /\ Len(Append(t, op)) = r.pos + 1
           /\ Leads(r0, Reader(r, op), Append(t, op), L)
<1> DEFINE u == Append(t, op)
<1>1. /\ u \in Seq(OpSet) /\ Len(u) = Len(t) + 1 /\ u[Len(t) + 1] = op
      /\ \A i \in 1..Len(t) : u[i] = t[i]
  BY AppendProperties
<1>2. Len(t) \in Nat /\ r.pos = Len(t) /\ r.calls = c /\ c # <<>> /\ r.ret = None
      /\ Typed(r) /\ Whole(r.args, r.state) /\ Wanted(r.objs, L)
  BY Zenon DEF At, Sane, Typed
<1> HIDE DEF u
<1>3. Len(u) = r.pos + 1 /\ r.pos < Len(u) /\ u[r.pos + 1] = op
  BY <1>1, <1>2
<1>4. IsPre(t, u) /\ IsPre(L, L)
  BY <1>1, <1>2 DEF IsPre
<1>5. Leads(r0, r, u, L)
  BY <1>1, <1>4, LeadsMore
<1>6. Good(r, u, L) /\ CanMove(r, u) /\ Nx(r, u) = Reader(r, op)
  BY <1>2, <1>3, Zenon DEF Good, Ready, CanMove, Nx
<1>7. Leads(r0, Nx(r, u), u, L)
  BY <1>5, <1>6, LeadsStep, Zenon
<1> QED
  BY <1>1, <1>3, <1>6, <1>7 DEF u

(* An operation that pushes a value.                                        *)
LEMMA WriteLeads ==
    ASSUME NEW t \in Seq(OpSet), NEW op \in OpSet, NEW O, NEW L \in Seq(O),
           NEW r0, NEW r, NEW c, NEW s, Leads(r0, r, t, L), At(r, c, s, t, L), ReadyOp(r, op),
           NEW s2 \in Seq(Values), NEW m2 \in Seq(Values), Reader(r, op) = Reads1(r, s2, m2)
    PROVE  \E q : /\ Leads(r0, q, Append(t, op), L) /\ At(q, c, s2, Append(t, op), L)
                  /\ q.memo = m2 /\ q.objs = r.objs /\ Keeps(r, q)
<1> DEFINE q == Reads1(r, s2, m2)
           u == Append(t, op)
<1>1. /\ r.calls = c /\ c # <<>> /\ r.ret = None /\ r.pos \in Nat
      /\ Whole(r.args, r.state) /\ Wanted(r.objs, L)
  BY Zenon DEF At, Sane, Typed
<1>2. u \in Seq(OpSet) /\ Len(u) = r.pos + 1 /\ Leads(r0, q, u, L)
  BY Longer
<1>3. /\ q.calls = c /\ q.stack = s2 /\ q.memo = m2 /\ q.ret = None /\ q.pos = r.pos + 1
      /\ q.args = r.args /\ q.state = r.state /\ q.objs = r.objs
  BY <1>1 DEF Reads1, St
<1> HIDE DEF q, u
<1>4. q.pos \in Nat
  BY <1>1, <1>3
<1>5. At(q, c, s2, u, L)
  BY <1>1, <1>2, <1>3, <1>4, Zenon DEF At, Sane, Typed
<1>6. Keeps(r, q)
  BY <1>1, <1>3, KeepsSelf
<1> QED
  BY <1>2, <1>3, <1>5, <1>6 DEF u

(* The end of a dump: load() gives what it read to the calls of load_one.   *)
LEMMA OpensCall ==
    ASSUME NEW t \in Seq(OpSet), NEW op \in OpSet, NEW O, NEW L \in Seq(O),
           NEW r0, NEW r, NEW c \in Seq(Frames), NEW s,
           Leads(r0, r, t, L), At(r, c, s, t, L), ReadyOp(r, op),
           NEW f \in Frames, f.kind \notin {"mark", "nbstate", "state"}, Reader(r, op) = Opens(r, f)
    PROVE  \E q : /\ Leads(r0, q, Append(t, op), L) /\ At(q, Append(c, f), <<>>, Append(t, op), L)
                  /\ q.memo = r.memo /\ q.objs = r.objs /\ Keeps(r, q)
<1> DEFINE q == Opens(r, f)
           u == Append(t, op)
<1>1. /\ r.calls = c /\ c # <<>> /\ r.ret = None /\ r.pos \in Nat /\ r.memo \in Seq(Values)
      /\ Whole(r.args, r.state) /\ Wanted(r.objs, L)
  BY Zenon DEF At, Sane, Typed
<1>2. u \in Seq(OpSet) /\ Len(u) = r.pos + 1 /\ Leads(r0, q, u, L)
  BY Longer
<1>3. /\ q.calls = Append(c, f) /\ q.stack = <<>> /\ q.memo = r.memo /\ q.ret = None
      /\ q.pos = r.pos + 1 /\ q.args = r.args /\ q.state = r.state /\ q.objs = r.objs
  BY <1>1 DEF Opens, St
<1> HIDE DEF q, u
<1>4. q.pos \in Nat /\ <<>> \in Seq(Values) /\ Append(c, f) # <<>>
  BY <1>1, <1>3, LastFrame
<1>5. At(q, Append(c, f), <<>>, u, L)
  BY <1>1, <1>2, <1>3, <1>4, Zenon DEF At, Sane, Typed
<1>6. Keeps(r, q)
  BY <1>1, <1>3, KeepsPop
<1> QED
  BY <1>2, <1>3, <1>5, <1>6 DEF u

LEMMA GivesValue ==
    ASSUME NEW t \in Seq(OpSet), NEW op \in OpSet, NEW O, NEW L \in Seq(O),
           NEW r0, NEW r, NEW c, NEW s, NEW v, v # None,
           Leads(r0, r, t, L), At(r, c, s, t, L), ReadyOp(r, op), Reader(r, op) = Gives(r, v)
    PROVE  \E q : /\ Leads(r0, q, Append(t, op), L) /\ Back(q, c, v, Append(t, op), L)
                  /\ q.memo = r.memo /\ q.objs = r.objs /\ Keeps(r, q)
<1> DEFINE q == Gives(r, v)
           u == Append(t, op)
<1>1. /\ r.calls = c /\ c # <<>> /\ r.ret = None /\ r.pos \in Nat /\ r.memo \in Seq(Values)
      /\ Whole(r.args, r.state) /\ Wanted(r.objs, L)
  BY Zenon DEF At, Sane, Typed
<1>2. u \in Seq(OpSet) /\ Len(u) = r.pos + 1 /\ Leads(r0, q, u, L)
  BY Longer
<1>3. /\ q.calls = c /\ q.stack = <<>> /\ q.memo = r.memo /\ q.ret = v
      /\ q.pos = r.pos + 1 /\ q.args = r.args /\ q.state = r.state /\ q.objs = r.objs
  BY <1>1 DEF Gives, St
<1> HIDE DEF q, u
<1>4. q.pos \in Nat /\ <<>> \in Seq(Values)
  BY <1>1, <1>3
<1>5. Back(q, c, v, u, L)
  BY <1>1, <1>2, <1>3, <1>4, Zenon DEF Back, Sane, Typed
<1>6. Keeps(r, q)
  BY <1>1, <1>3, KeepsSelf
<1> QED
  BY <1>2, <1>3, <1>5, <1>6 DEF u

Ended(p, c, v, X) == IF Completes(c, v) THEN Append(p.objs, Obj(X)) ELSE p.objs

LEMMA RetText ==
    ASSUME NEW c, NEW v, NEW X, NEW e, HearsText(c, v, e), v # Text("LIST"), v # Text("ARGS"),
           NEW p, NEW t, NEW L, Back(p, c, v, t, L)
    PROVE  \E q : Lands(p, q, e, Ended(p, c, v, X), t, L)
<1>1. CASE \E b \in Seq(Frames), d \in Structures :
              v = Text("STATE") /\ c = Append(b, MarkF(d)) /\ e = Append(b, NbStateF(d))
  <2>1. PICK b \in Seq(Frames), d \in Structures :
              v = Text("STATE") /\ c = Append(b, MarkF(d)) /\ e = Append(b, NbStateF(d))
    BY <1>1, Zenon
  <2>2. v[1] # "obj"
    BY <2>1, TextIsValue DEF Marks
  <2>3. Ended(p, c, v, X) = p.objs
    BY <2>2 DEF Ended, Completes
  <2>4. Back(p, Append(b, MarkF(d)), Text("STATE"), t, L)
    BY <2>1
  <2> QED
    BY <2>1, <2>3, <2>4, RetMark
<1>2. CASE \E b \in Seq(Frames), d \in Structures :
              /\ v = Name(d) /\ c = Append(b, NameF(Len(Items[d])))
              /\ e = Append(b, AfterArgs(d, 0))
  <2>1. PICK b \in Seq(Frames), d \in Structures :
              /\ v = Name(d) /\ c = Append(b, NameF(Len(Items[d])))
              /\ e = Append(b, AfterArgs(d, 0))
    BY <1>2, Zenon
  <2>2. v[1] # "obj"
    BY <2>1, NameIsValue DEF Structures
  <2>3. Ended(p, c, v, X) = p.objs
    BY <2>2 DEF Ended, Completes
  <2>4. Back(p, Append(b, NameF(Len(Items[d]))), Name(d), t, L)
    BY <2>1
  <2> QED
    BY <2>1, <2>3, <2>4, RetName
<1> QED
  BY <1>1, <1>2, Zenon DEF HearsText

LEMMA RetNumber ==
    ASSUME NEW c, NEW v, NEW X, NEW e, HearsNumber(c, v, e),
           NEW p, NEW t, NEW L, Back(p, c, v, t, L)
    PROVE  \E q : Lands(p, q, e, Ended(p, c, v, X), t, L)
<1>1. CASE \E n \in Nat : n # 0 /\ v = Number(n) /\ c = <<Top, SizeF>> /\ e = <<Top, ItemsF(n)>>
  <2>1. PICK n \in Nat : n # 0 /\ v = Number(n) /\ c = <<Top, SizeF>> /\ e = <<Top, ItemsF(n)>>
    BY <1>1, Zenon
  <2>2. v[1] # "obj"
    BY <2>1, NumberIsValue
  <2>3. Ended(p, c, v, X) = p.objs
    BY <2>2 DEF Ended, Completes
  <2>4. Back(p, <<Top, SizeF>>, Number(n), t, L)
    BY <2>1
  <2> QED
    BY <2>1, <2>3, <2>4, RetSize
<1>2. CASE \E b \in Seq(Frames), n \in Nat :
              v = Number(n) /\ c = Append(b, NbObjF) /\ e = Append(b, NameF(n))
  <2>1. PICK b \in Seq(Frames), n \in Nat :
              v = Number(n) /\ c = Append(b, NbObjF) /\ e = Append(b, NameF(n))
    BY <1>2, Zenon
  <2>2. v[1] # "obj"
    BY <2>1, NumberIsValue
  <2>3. Ended(p, c, v, X) = p.objs
    BY <2>2 DEF Ended, Completes
  <2>4. Back(p, Append(b, NbObjF), Number(n), t, L)
    BY <2>1
  <2> QED
    BY <2>1, <2>3, <2>4, RetNbObj
<1>3. CASE \E b \in Seq(Frames), d \in Structures :
              /\ v = Number(Len(StateOf[d])) /\ c = Append(b, NbStateF(d))
              /\ e = Append(b, AfterState(d, 0))
  <2>1. PICK b \in Seq(Frames), d \in Structures :
              /\ v = Number(Len(StateOf[d])) /\ c = Append(b, NbStateF(d))
              /\ e = Append(b, AfterState(d, 0))
    BY <1>3, Zenon
  <2>2. v[1] # "obj"
    BY <2>1, ItemsType, NumberIsValue DEF Structures
  <2>3. Ended(p, c, v, X) = p.objs
    BY <2>2 DEF Ended, Completes
  <2>4. Back(p, Append(b, NbStateF(d)), Number(Len(StateOf[d])), t, L)
    BY <2>1
  <2> QED
    BY <2>1, <2>3, <2>4, RetNbState
<1> QED
  BY <1>1, <1>2, <1>3, Zenon DEF HearsNumber

LEMMA RetHears ==
    ASSUME NEW c, NEW v, NEW X, NEW e, Hears(c, v, X, e), v # Text("LIST"), v # Text("ARGS"),
           NEW p, NEW t, NEW O, NEW L \in Seq(O), Back(p, c, v, t, L),
           Len(p.objs) < Len(L), X = L[Len(p.objs) + 1]
    PROVE  \E q : Lands(p, q, e, Ended(p, c, v, X), t, L)
<1>1. CASE HearsAny(c, v, X, e)
  <2>1. PICK o \in Objects : v = Obj(o) /\ HearsObject(c, o, X, e)
    BY <1>1, Zenon DEF HearsAny
  <2>2. Completes(c, v) <=> c = <<Top>>
    BY <2>1, ObjectCompletes
  <2>3. Back(p, c, Obj(o), t, L)
    BY <2>1
  <2>4. \E q : Lands(p, q, e, IF c = <<Top>> THEN Append(p.objs, Obj(X)) ELSE p.objs, t, L)
    BY <2>1, <2>3, RetObject
  <2>5. Ended(p, c, v, X) = IF c = <<Top>> THEN Append(p.objs, Obj(X)) ELSE p.objs
    BY <2>2 DEF Ended
  <2> QED
    BY <2>4, <2>5
<1>2. CASE HearsBack(c, v, X, e)
  <2>1. \E q : Lands(p, q, e, IF Completes(c, v) THEN Append(p.objs, Obj(X)) ELSE p.objs, t, L)
    BY <1>2, RetBack
  <2>2. Ended(p, c, v, X) = IF Completes(c, v) THEN Append(p.objs, Obj(X)) ELSE p.objs
    BY DEF Ended
  <2> QED
    BY <2>1, <2>2
<1>3. CASE HearsText(c, v, e)
  BY <1>3, RetText
<1>4. CASE HearsNumber(c, v, e)
  BY <1>4, RetNumber
<1> QED
  BY <1>1, <1>2, <1>3, <1>4, Zenon DEF Hears

(* The whole of it: the dump of v ends, and v is heard.                     *)
StopOp == Op("stop", None, 0)

LEMMA HearsMark ==
    ASSUME NEW c, NEW v, NEW X, NEW e, Hears(c, v, X, e), v = Text("LIST") \/ v = Text("ARGS")
    PROVE  /\ v = Text("LIST") => c = <<Top>> /\ e = <<Top, SizeF>>
           /\ v = Text("ARGS") => e = Append(c, NbObjF)
           /\ v # None /\ ~Completes(c, v)
<1>1. v[1] = "mark" /\ v[2] \in {"LIST", "ARGS"} /\ v # None
  BY TextIsValue DEF Marks
<1>2. Text("LIST") # Text("ARGS") /\ Text("STATE") # Text("LIST") /\ Text("STATE") # Text("ARGS")
  BY DEF Text
<1>3. ~HearsAny(c, v, X, e)
  <2>1. \A o \in Objects : Obj(o)[1] = "obj"
    BY ObjIsValue
  <2> QED
    BY <1>1, <2>1 DEF HearsAny
<1>4. ~HearsBack(c, v, X, e)
  <2>1. \A o \in Structures : Obj(o)[1] = "obj"
    BY ObjIsValue DEF Structures
  <2> QED
    BY <1>1, <2>1 DEF HearsBack
<1>5. ~HearsNumber(c, v, e)
  <2>1. \A n \in Nat : Number(n)[1] = "int"
    BY NumberIsValue
  <2>2. \A d \in Structures : Len(StateOf[d]) \in Nat
    BY ItemsType DEF Structures
  <2> QED
    BY <1>1, <2>1, <2>2 DEF HearsNumber
<1>6. HearsText(c, v, e)
  BY <1>3, <1>4, <1>5, Zenon DEF Hears
<1>7. \A d \in Structures : v # Name(d)
  <2>1. \A d \in Structures : Name(d)[1] = "name"
    BY NameIsValue DEF Structures
  <2> QED
    BY <1>1, <2>1
<1>8. ~Completes(c, v)
  BY <1>1 DEF Completes
<1> QED
  BY <1>1, <1>2, <1>6, <1>7, <1>8, Zenon DEF HearsText

(* The same, as one relation between what is known and what follows.        *)
Stopping(r0, r, c, v, X, e, t, L) ==
    /\ t \in Seq(OpSet) /\ L \in Seq(Objects) /\ c \in Seq(Frames) /\ v \in Values /\ v # None
    /\ Leads(r0, r, t, L) /\ At(r, c, <<v>>, t, L) /\ Hears(c, v, X, e)
    /\ Len(r.objs) < Len(L) /\ X = L[Len(r.objs) + 1]
Stopped(r0, r, c, v, X, e, t, L) ==
    \E q : /\ Leads(r0, q, Append(t, StopOp), L) /\ At(q, e, <<>>, Append(t, StopOp), L)
           /\ q.memo = r.memo /\ q.objs = Ended(r, c, v, X) /\ Keeps(r, q)

LEMMA StopLeads ==
    ASSUME NEW r0, NEW r, NEW c, NEW v, NEW X, NEW e, NEW t, NEW L,
           Stopping(r0, r, c, v, X, e, t, L)
    PROVE  Stopped(r0, r, c, v, X, e, t, L)
<1> DEFINE op == StopOp
           u == Append(t, op)
<1>0. /\ t \in Seq(OpSet) /\ L \in Seq(Objects) /\ c \in Seq(Frames) /\ v \in Values /\ v # None
      /\ Leads(r0, r, t, L) /\ At(r, c, <<v>>, t, L) /\ Hears(c, v, X, e)
      /\ Len(r.objs) < Len(L) /\ X = L[Len(r.objs) + 1]
  BY Zenon DEF Stopping
<1> USE <1>0
<1>1. op \in OpSet /\ op.op = "stop"
  BY CallsType, OpFields DEF StopOp, OpSet, Op
<1>2. r.stack = <<v>>
  BY Zenon DEF At
<1>3. ReadyOp(r, op)
  BY <1>1, <1>2 DEF ReadyOp
<1>4. Last(r.stack) = v
  BY <1>2 DEF Last
<1>5. Reader(r, op) = Stops(r, v)
  BY <1>1, <1>4 DEF Reader
<1> HIDE DEF op, u
<1>6. u = Append(t, op)
  BY DEF u
<1>7. CASE v = Text("LIST") \/ v = Text("ARGS")
  <2>1. /\ v = Text("LIST") => c = <<Top>> /\ e = <<Top, SizeF>>
        /\ v = Text("ARGS") => e = Append(c, NbObjF)
        /\ ~Completes(c, v)
    BY <1>7, HearsMark
  <2>2. Text("LIST") # Text("ARGS")
    BY DEF Text
  <2>3. PICK f \in {SizeF, NbObjF} : e = Append(c, f) /\ Stops(r, v) = Opens(r, f)
    <3>1. CASE v = Text("LIST")
      <4>1. e = Append(c, SizeF)
        BY <2>1, <3>1, TopCalls, FramesType
      <4>2. Stops(r, v) = Opens(r, SizeF)
        BY <3>1 DEF Stops, SizeF
      <4> QED
        BY <4>1, <4>2
    <3>2. CASE v = Text("ARGS")
      <4>1. e = Append(c, NbObjF)
        BY <2>1, <3>2
      <4>2. Stops(r, v) = Opens(r, NbObjF)
        BY <2>2, <3>2 DEF Stops, NbObjF
      <4> QED
        BY <4>1, <4>2
    <3> QED
      BY <1>7, <3>1, <3>2
  <2>4. f \in Frames /\ f.kind \notin {"mark", "nbstate", "state"}
    BY FramesType, FrameKinds
  <2>5. Reader(r, op) = Opens(r, f)
    BY <1>5, <2>3
  <2>6. \E q : /\ Leads(r0, q, Append(t, op), L) /\ At(q, Append(c, f), <<>>, Append(t, op), L)
               /\ q.memo = r.memo /\ q.objs = r.objs /\ Keeps(r, q)
    BY <1>1, <1>3, <2>4, <2>5, OpensCall
  <2>7. Ended(r, c, v, X) = r.objs
    BY <2>1 DEF Ended
  <2> QED
    BY <2>3, <2>6, <2>7 DEF op, Stopped
<1>8. CASE ~(v = Text("LIST") \/ v = Text("ARGS"))
  <2>1. Reader(r, op) = Gives(r, v)
    BY <1>5, <1>8 DEF Stops
  <2>2. PICK p : /\ Leads(r0, p, Append(t, op), L) /\ Back(p, c, v, Append(t, op), L)
                 /\ p.memo = r.memo /\ p.objs = r.objs /\ Keeps(r, p)
    BY <1>1, <1>3, <2>1, GivesValue
  <2>3. Back(p, c, v, u, L) /\ Len(p.objs) < Len(L) /\ X = L[Len(p.objs) + 1]
    BY <1>6, <2>2
  <2>4. PICK q : Lands(p, q, e, Ended(p, c, v, X), u, L)
    BY <1>8, <2>3, RetHears
  <2>5. Ended(p, c, v, X) = Ended(r, c, v, X)
    BY <2>2 DEF Ended
  <2>6. Leads(r0, q, u, L)
    BY <1>6, <2>2, <2>4, LeadsOn, Zenon DEF Lands
  <2>7. Keeps(r, q)
    BY <2>2, <2>4, KeepsOn, Zenon DEF Lands
  <2>8. At(q, e, <<>>, u, L) /\ q.memo = r.memo /\ q.objs = Ended(r, c, v, X)
    BY <2>2, <2>4, <2>5, Zenon DEF Lands
  <2> QED
    BY <2>6, <2>7, <2>8 DEF u, op, Stopped
<1> QED
  BY <1>7, <1>8

-----------------------------------------------------------------------------
(* The reader that follows the writer, operation after operation.           *)
Blank == [d \in Structures |-> <<>>]
Fresh == St(<<>>, <<>>, <<>>, None, 0, Blank, Blank, <<>>)
Follower(r, c, s, t, L, m, n) ==
    Leads(Fresh, r, t, L) /\ At(r, c, s, t, L) /\ r.memo = m /\ Len(r.objs) = n
Full(m) == m \in Seq(Values) /\ \A i \in 1..Len(m) : m[i] # None

LEMMA SafeHead ==
    ASSUME NEW X, NEW c, NEW s, NEW w, <<c, s, w>> \in Safe(X), w # <<>>
    PROVE  /\ c \in Seq(Frames) /\ c # <<>> /\ s \in Seq(Values) /\ w \in Seq(CallSet)
           /\ Head(w) \in CallSet /\ Tail(w) \in Seq(CallSet)
           /\ Follows(Safe(X), X, c, s, Head(w), Tail(w))
<1>1. c \in Seq(Frames) /\ s \in Seq(Values) /\ w \in Seq(CallSet)
  BY SafeType
<1>2. Agrees(Safe(X), X, c, s, w)
  BY SafeCoherent, Zenon DEF Coherent
<1>3. c # <<>> /\ Follows(Safe(X), X, c, s, Head(w), Tail(w))
  BY <1>2, Zenon DEF Agrees
<1>4. Head(w) \in CallSet /\ Tail(w) \in Seq(CallSet)
  BY <1>1
<1> QED
  BY <1>1, <1>3, <1>4

LEMMA SafeKinds ==
    ASSUME NEW G, NEW X, NEW c, NEW s, NEW h, NEW w, Follows(G, X, c, s, h, w)
    PROVE  /\ h.call = "save_one" => ByOne(G, X, c, s, h, w)
           /\ h.call = "save" => BySave(G, c, s, h, w)
           /\ h.call = "end" => ByEnd(G, c, s, h, w)
           /\ h.call = "stop" => ByStop(G, X, c, s, h, w)
           /\ h.call = "getstate" => ByState(G, c, s, h, w)
<1>1. ByOne(G, X, c, s, h, w) => h.call = "save_one"
  BY Zenon DEF ByOne
<1>2. BySave(G, c, s, h, w) => h.call = "save"
  BY Zenon DEF BySave
<1>3. ByEnd(G, c, s, h, w) => h.call = "end"
  BY Zenon DEF ByEnd
<1>4. ByStop(G, X, c, s, h, w) => h.call = "stop"
  BY Zenon DEF ByStop
<1>5. ByState(G, c, s, h, w) => h.call = "getstate"
  BY Zenon DEF ByState
<1>6. \/ ByOne(G, X, c, s, h, w) \/ BySave(G, c, s, h, w) \/ ByEnd(G, c, s, h, w)
      \/ ByStop(G, X, c, s, h, w) \/ ByState(G, c, s, h, w)
  BY Zenon DEF Follows
<1> QED
  BY <1>1, <1>2, <1>3, <1>4, <1>5, <1>6

LEMMA FineValueFacts ==
    ASSUME NEW v, FineValue(v)
    PROVE  /\ v \in Values /\ v # None
           /\ v[1] = "obj" => v[2] \in Fine /\ v[2] \in Objects /\ v = Obj(v[2])
<1>1. CASE \E n \in Nat : v = Number(n)
  BY <1>1, NumberIsValue
<1>2. CASE \E t \in Marks : v = Text(t)
  BY <1>2, TextIsValue
<1>3. CASE \E d \in Structures : v = Name(d)
  BY <1>3, NameIsValue DEF Structures
<1>4. CASE \E o \in Fine : v = Obj(o)
  BY <1>4, FineFacts, ObjIsValue
<1> QED
  BY <1>1, <1>2, <1>3, <1>4 DEF FineValue

(* An operation that pushes a value.                                        *)
LEMMA Pushing ==
    ASSUME NEW r, NEW c, NEW s, NEW t \in Seq(OpSet), NEW L \in Seq(Objects), NEW m, NEW n,
           Follower(r, c, s, t, L, m, n), NEW op \in OpSet, ReadyOp(r, op),
           NEW s2 \in Seq(Values), NEW m2 \in Seq(Values), Reader(r, op) = Reads1(r, s2, m2)
    PROVE  \E q : Follower(q, c, s2, Append(t, op), L, m2, n) /\ Keeps(r, q)
<1>1. Leads(Fresh, r, t, L) /\ At(r, c, s, t, L) /\ Len(r.objs) = n
  BY Zenon DEF Follower
<1>2. PICK q : /\ Leads(Fresh, q, Append(t, op), L) /\ At(q, c, s2, Append(t, op), L)
               /\ q.memo = m2 /\ q.objs = r.objs /\ Keeps(r, q)
  BY <1>1, WriteLeads
<1>3. Len(q.objs) = n
  BY <1>1, <1>2
<1> QED
  BY <1>2, <1>3, Zenon DEF Follower

LEMMA FollowerFacts ==
    ASSUME NEW r, NEW c, NEW s, NEW t, NEW L, NEW m, NEW n, Follower(r, c, s, t, L, m, n)
    PROVE  r.memo = m /\ r.stack = s /\ r.calls = c /\ m \in Seq(Values) /\ s \in Seq(Values)
BY Zenon DEF Follower, At, Sane, Typed

LEMMA PushLiteral ==
    ASSUME NEW r, NEW c, NEW s, NEW t \in Seq(OpSet), NEW L \in Seq(Objects), NEW m, NEW n,
           Follower(r, c, s, t, L, m, n), NEW v \in Values
    PROVE  \E q : Follower(q, c, Append(s, v), Append(t, Op("lit", v, 0)), L, m, n) /\ Keeps(r, q)
<1> DEFINE op == Op("lit", v, 0)
<1>1. op \in OpSet /\ op.op = "lit" /\ op.val = v
  BY DEF OpSet, Op
<1>2. r.memo = m /\ r.stack = s /\ m \in Seq(Values) /\ s \in Seq(Values)
  BY FollowerFacts
<1> HIDE DEF op
<1>3. ReadyOp(r, op)
  BY <1>1 DEF ReadyOp
<1>4. Reader(r, op) = Reads1(r, Append(s, v), m)
  BY <1>1, <1>2 DEF Reader
<1>5. Append(s, v) \in Seq(Values)
  BY <1>2
<1>6. \E q : Follower(q, c, Append(s, v), Append(t, op), L, m, n) /\ Keeps(r, q)
  BY <1>1, <1>2, <1>3, <1>4, <1>5, Pushing
<1> QED
  BY <1>6 DEF op

LEMMA PushNew ==
    ASSUME NEW r, NEW c, NEW s, NEW t \in Seq(OpSet), NEW L \in Seq(Objects), NEW m, NEW n,
           Follower(r, c, s, t, L, m, n), NEW op \in OpSet, op.op \in {"put", "ref", "open"},
           op.idx = Len(m) + 1, Pushed(op) \in Values, Entry(op) \in Values
    PROVE  \E q : /\ Follower(q, c, Append(s, Pushed(op)), Append(t, op), L, Append(m, Entry(op)), n)
                  /\ Keeps(r, q)
<1>1. r.memo = m /\ r.stack = s /\ m \in Seq(Values) /\ s \in Seq(Values)
  BY FollowerFacts
<1>2. ReadyOp(r, op)
  BY <1>1 DEF ReadyOp
<1>3. Reader(r, op) = Reads1(r, Append(s, Pushed(op)), Append(m, Entry(op)))
  BY <1>1 DEF Reader
<1>4. Append(s, Pushed(op)) \in Seq(Values) /\ Append(m, Entry(op)) \in Seq(Values)
  BY <1>1
<1> QED
  BY <1>2, <1>3, <1>4, Pushing

LEMMA PushKnown ==
    ASSUME NEW r, NEW c, NEW s, NEW t \in Seq(OpSet), NEW L \in Seq(Objects), NEW m, NEW n,
           Follower(r, c, s, t, L, m, n), NEW i \in 1..Len(m), NEW v \in Values, m[i] = v, v # None
    PROVE  \E q : Follower(q, c, Append(s, v), Append(t, Op("get", v, i)), L, m, n) /\ Keeps(r, q)
<1> DEFINE op == Op("get", v, i)
<1>1. r.memo = m /\ r.stack = s /\ m \in Seq(Values) /\ s \in Seq(Values)
  BY FollowerFacts
<1>2. op \in OpSet /\ op.op = "get" /\ op.val = v /\ op.idx = i
  BY <1>1 DEF OpSet, Op
<1> HIDE DEF op
<1>3. i \in DOMAIN r.memo
  BY <1>1
<1>4. ReadyOp(r, op)
  BY <1>1, <1>2, <1>3 DEF ReadyOp
<1>5. Reader(r, op) = Reads1(r, Append(s, v), m)
  BY <1>1, <1>2 DEF Reader
<1>6. Append(s, v) \in Seq(Values)
  BY <1>1
<1>7. \E q : Follower(q, c, Append(s, v), Append(t, op), L, m, n) /\ Keeps(r, q)
  BY <1>1, <1>2, <1>4, <1>5, <1>6, Pushing
<1> QED
  BY <1>7 DEF op

LEMMA PushEnd ==
    ASSUME NEW r, NEW c, NEW s, NEW t \in Seq(OpSet), NEW L \in Seq(Objects), NEW m, NEW n,
           Follower(r, c, s, t, L, m, n), NEW l \in Objects, Closes(s, l)
    PROVE  \E q : /\ Follower(q, c, Append(Base(s, l), Obj(l)), Append(t, Op("end", Obj(l), 0)), L, m, n)
                  /\ Keeps(r, q)
<1> DEFINE op == Op("end", Obj(l), 0)
<1>1. r.memo = m /\ r.stack = s /\ m \in Seq(Values) /\ s \in Seq(Values)
  BY FollowerFacts
<1>2. op \in OpSet /\ op.op = "end" /\ op.val = Obj(l) /\ op.val[2] = l
  BY ObjIsValue DEF OpSet, Op
<1>3. Obj(l) \in Values
  BY ObjIsValue
<1> HIDE DEF op
<1>4. ReadyOp(r, op)
  BY <1>1, <1>2 DEF ReadyOp
<1>5. Reader(r, op) = Reads1(r, Append(Base(s, l), Obj(l)), m)
  BY <1>1, <1>2 DEF Reader
<1>6. Append(Base(s, l), Obj(l)) \in Seq(Values)
  <2>1. Len(s) \in Nat /\ Len(Items[l]) \in Nat /\ Len(Items[l]) < Len(s)
    BY <1>1, ItemsType DEF Closes
  <2>2. Base(s, l) \in Seq(Values)
    BY <1>1, <2>1 DEF Base
  <2> QED
    BY <1>3, <2>2
<1>7. \E q : Follower(q, c, Append(Base(s, l), Obj(l)), Append(t, op), L, m, n) /\ Keeps(r, q)
  BY <1>1, <1>2, <1>4, <1>5, <1>6, Pushing
<1> QED
  BY <1>7 DEF op

(* The end of a dump.                                                       *)
LEMMA PushStop ==
    ASSUME NEW r, NEW c \in Seq(Frames), NEW v \in Values, v # None, NEW t \in Seq(OpSet),
           NEW L \in Seq(Objects), NEW m, NEW n, Follower(r, c, <<v>>, t, L, m, n),
           n + 1 = Len(L), NEW e, Hears(c, v, L[Len(L)], e)
    PROVE  \E q : /\ Follower(q, e, <<>>, Append(t, StopOp), L, m, IF Completes(c, v) THEN n + 1 ELSE n)
                  /\ Keeps(r, q)
<1> DEFINE X == L[Len(L)]
           u == Append(t, StopOp)
<1>1. Leads(Fresh, r, t, L) /\ At(r, c, <<v>>, t, L) /\ r.memo = m /\ Len(r.objs) = n
  BY Zenon DEF Follower
<1>2. Wanted(r.objs, L)
  BY <1>1, Zenon DEF At, Sane
<1>3. r.objs \in Seq(Values) /\ n \in Nat
  BY <1>1, <1>2 DEF Wanted
<1>4. Len(r.objs) < Len(L) /\ X = L[Len(r.objs) + 1]
  BY <1>1, <1>3
<1>5. PICK q : /\ Leads(Fresh, q, u, L) /\ At(q, e, <<>>, u, L) /\ q.memo = r.memo
               /\ q.objs = Ended(r, c, v, X) /\ Keeps(r, q)
  <2> HIDE DEF X
  <2>1. Hears(c, v, X, e)
    BY DEF X
  <2>2. Stopping(Fresh, r, c, v, X, e, t, L)
    BY <1>1, <1>4, <2>1, Zenon DEF Stopping
  <2>3. Stopped(Fresh, r, c, v, X, e, t, L)
    BY <2>2, StopLeads
  <2> QED
    BY <2>3, Zenon DEF Stopped
<1>6. Len(q.objs) = IF Completes(c, v) THEN n + 1 ELSE n
  <2>1. CASE Completes(c, v)
    <3>1. X \in Objects
      BY <1>3, <1>4
    <3>2. Obj(X) \in Values
      BY <3>1, ObjIsValue
    <3>3. q.objs = Append(r.objs, Obj(X))
      BY <1>5, <2>1, Zenon DEF Ended
    <3>4. Len(q.objs) = n + 1
      BY <1>1, <1>3, <3>2, <3>3
    <3> QED
      BY <2>1, <3>4
  <2>2. CASE ~Completes(c, v)
    <3>1. q.objs = r.objs
      BY <1>5, <2>2, Zenon DEF Ended
    <3> QED
      BY <1>1, <2>2, <3>1
  <2> QED
    BY <2>1, <2>2
<1> HIDE DEF u
<1>7. Follower(q, e, <<>>, u, L, m, IF Completes(c, v) THEN n + 1 ELSE n)
  BY <1>1, <1>5, <1>6, Zenon DEF Follower
<1> QED
  BY <1>5, <1>7 DEF u

-----------------------------------------------------------------------------
(* The invariant while the file is written: a reader that follows the       *)
(* writer waits for what the writer has still to write.                     *)
Written == stream \o out
Expects(L, n) == /\ L \in Seq(Objects) /\ Len(L) = Len(objList) + n
                 /\ \A i \in 1..Len(objList) : L[i] = ctxt[objList[i]]
Idle(r, L) == /\ Follower(r, <<Top>>, <<>>, Written, L, memo, Len(objList))
              /\ out = <<>> /\ Expects(L, 0)
Busy(r, L) == /\ Follower(r, r.calls, r.stack, Written, L, memo, Len(objList))
              /\ Expects(L, 1) /\ ctxt[cur] \in Fine /\ L[Len(L)] = ctxt[cur]
              /\ <<r.calls, r.stack, todo>> \in Safe(ctxt[cur])
Doomed == /\ ctxt[cur] \in Fails
          /\ todo \in {<<Call("save_one", ctxt[cur])>>, Put(Obj(ctxt[cur]))}

(* What was described was read, unless getstate is still to be called or    *)
(* the state is being read.                                                 *)
Pending(w)  == {h \in ToSet(w) : h.call \in {"save_one", "getstate"}}
IsRead(r, d) == r.args[d] # <<>> /\ r.state[d] # <<>>
Tracks(r, M, P) ==
    /\ \A d \in Structures : IsOpen(r.calls, d) => r.args[d] # <<>>
    /\ \A d \in M : Call("getstate", d) \in P \/ IsOpen(r.calls, d) \/ IsRead(r, d)
Following(r, L) == /\ Tracks(r, memods, Pending(todo))
                   /\ todo = <<>> => Idle(r, L)
                   /\ todo # <<>> => Busy(r, L) \/ (Doomed /\ Idle(r, L))

(* What a saved object holds is saved, or will be.                          *)
HeldSaved(M, P)    == \A d \in M : \A e \in Held(d) \cap Structures :
                          e \in M \/ Call("save_one", e) \in P
NameSaved(o, M, P) == \/ Call("save_one", o) \in P
                      \/ \A e \in Inside(o) \cap Structures : e \in M \/ Call("save_one", e) \in P
NamesSaved == \A n \in 1..cur : ctxt[n] \in Fine => NameSaved(ctxt[n], memods, Pending(todo))
NamesKept  == \A n \in 1..Len(ctxt) :
                 n \in ToSet(objList) <=> n <= cur /\ ctxt[n] \notin Fails /\ ~(n = cur /\ todo # <<>>)
SaveTypes  == /\ cur \in 0..Len(ctxt) /\ (todo # <<>> => cur # 0) /\ todo \in Seq(CallSet)
              /\ memods \in SUBSET (Structures \cap Fine) /\ Full(memo)
              /\ out \in Seq(OpSet) /\ stream \in Seq(OpSet) /\ objList \in Seq(1..Len(ctxt))
SaveInv    == /\ SaveTypes /\ HeldSaved(memods, Pending(todo)) /\ NamesSaved /\ NamesKept
              /\ \E r, L : Following(r, L)
Tidied     == ctxt \in Seq(Objects) /\ \A n \in 1..Len(ctxt) : ctxt[n] \in Tidy

LEMMA TracksKeep ==
    ASSUME NEW M, M \subseteq Structures, NEW P, NEW Q, P \subseteq Q, NEW r, NEW q,
           Tracks(r, M, P), Keeps(r, q)
    PROVE  Tracks(q, M, Q)
BY DEF Tracks, Keeps, KeepsRead, IsRead

LEMMA ToSetTail ==
    ASSUME NEW w \in Seq(CallSet), w # <<>>
    PROVE  ToSet(w) = {Head(w)} \cup ToSet(Tail(w))
<1>0. Len(w) \in Nat /\ Len(w) # 0
  BY EmptySeq
<1>1. DOMAIN w = 1..Len(w) /\ DOMAIN Tail(w) = 1..(Len(w) - 1) /\ Head(w) = w[1]
      /\ \A i \in 1..(Len(w) - 1) : Tail(w)[i] = w[i + 1]
  BY <1>0
<1>2. ASSUME NEW h \in ToSet(w) PROVE h \in {Head(w)} \cup ToSet(Tail(w))
  <2>1. PICK i \in 1..Len(w) : h = w[i]
    BY <1>1 DEF ToSet
  <2>2. CASE i = 1
    BY <1>1, <2>1, <2>2
  <2>3. CASE i # 1
    <3>1. i - 1 \in 1..(Len(w) - 1) /\ Tail(w)[i - 1] = h
      BY <1>0, <1>1, <2>1, <2>3
    <3> QED
      BY <1>1, <3>1 DEF ToSet
  <2> QED
    BY <2>2, <2>3
<1>3. ASSUME NEW h \in ToSet(Tail(w)) PROVE h \in ToSet(w)
  <2>1. PICK i \in 1..(Len(w) - 1) : h = Tail(w)[i]
    BY <1>1 DEF ToSet
  <2>2. i + 1 \in 1..Len(w) /\ h = w[i + 1]
    BY <1>0, <1>1, <2>1
  <2> QED
    BY <1>1, <2>2 DEF ToSet
<1>4. Head(w) \in ToSet(w)
  BY <1>0, <1>1 DEF ToSet
<1> QED
  BY <1>2, <1>3, <1>4

LEMMA ToSetCat ==
    ASSUME NEW a \in Seq(CallSet), NEW b \in Seq(CallSet)
    PROVE  ToSet(a \o b) = ToSet(a) \cup ToSet(b)
<1> DEFINE c == a \o b
<1>0. Len(a) \in Nat /\ Len(b) \in Nat
  OBVIOUS
<1>1. DOMAIN a = 1..Len(a) /\ DOMAIN b = 1..Len(b) /\ DOMAIN c = 1..(Len(a) + Len(b))
      /\ (\A i \in 1..Len(a) : c[i] = a[i]) /\ (\A i \in 1..Len(b) : c[Len(a) + i] = b[i])
  OBVIOUS
<1> HIDE DEF c
<1>2. ASSUME NEW h \in ToSet(c) PROVE h \in ToSet(a) \cup ToSet(b)
  <2>1. PICK i \in 1..(Len(a) + Len(b)) : h = c[i]
    BY <1>1 DEF ToSet
  <2>2. CASE i <= Len(a)
    <3>1. i \in 1..Len(a)
      BY <1>0, <2>2
    <3> QED
      BY <1>1, <2>1, <3>1 DEF ToSet
  <2>3. CASE ~(i <= Len(a))
    <3>1. i - Len(a) \in 1..Len(b) /\ Len(a) + (i - Len(a)) = i
      BY <1>0, <2>3
    <3>2. b[i - Len(a)] = h
      BY <1>1, <2>1, <3>1
    <3> QED
      BY <1>1, <3>1, <3>2 DEF ToSet
  <2> QED
    BY <2>2, <2>3
<1>3. ASSUME NEW h \in ToSet(a) PROVE h \in ToSet(c)
  <2>1. PICK i \in 1..Len(a) : h = a[i]
    BY <1>1 DEF ToSet
  <2>2. i \in 1..(Len(a) + Len(b)) /\ c[i] = h
    BY <1>0, <1>1, <2>1
  <2> QED
    BY <1>1, <2>2 DEF ToSet
<1>4. ASSUME NEW h \in ToSet(b) PROVE h \in ToSet(c)
  <2>1. PICK i \in 1..Len(b) : h = b[i]
    BY <1>1 DEF ToSet
  <2>2. Len(a) + i \in 1..(Len(a) + Len(b)) /\ c[Len(a) + i] = h
    BY <1>0, <1>1, <2>1
  <2> QED
    BY <1>1, <2>2 DEF ToSet
<1> QED
  BY <1>2, <1>3, <1>4 DEF c

LEMMA PendingTail ==
    ASSUME NEW w \in Seq(CallSet), w # <<>>
    PROVE  /\ Pending(Tail(w)) \subseteq Pending(w)
           /\ Pending(w) \subseteq Pending(Tail(w)) \cup {Head(w)}
           /\ Head(w).call \notin {"save_one", "getstate"} => Pending(w) = Pending(Tail(w))
BY ToSetTail DEF Pending

LEMMA PendingCat ==
    ASSUME NEW a \in Seq(CallSet), NEW b \in Seq(CallSet)
    PROVE  Pending(b) \subseteq Pending(a \o b)
BY ToSetCat DEF Pending

(* A step of the writer that leaves its calls of save_one and of getstate.  *)
LEMMA BusyStep ==
    ASSUME SaveInv, Tidied, todo # <<>>, NEW r, NEW L, Following(r, L), Busy(r, L),
           UNCHANGED <<ctxt, cur, memods, objList>>,
           todo' # <<>>, todo' \in Seq(CallSet), Pending(todo) \subseteq Pending(todo'),
           Full(memo'), stream' \in Seq(OpSet), out' \in Seq(OpSet),
           NEW q, NEW c, NEW s, Follower(q, c, s, Written', L, memo', Len(objList)), Keeps(r, q),
           <<c, s, todo'>> \in Safe(ctxt[cur])
    PROVE  SaveInv'
<1>1. q.calls = c /\ q.stack = s
  BY FollowerFacts
<1>2. SaveTypes'
  BY DEF SaveInv, SaveTypes
<1>3. HeldSaved(memods, Pending(todo))'
  BY DEF SaveInv, HeldSaved
<1>4. NamesSaved'
  BY DEF SaveInv, NamesSaved, NameSaved
<1>5. NamesKept'
  BY DEF SaveInv, NamesKept
<1>6. Following(q, L)'
  <2>1. Busy(q, L)'
    BY <1>1 DEF Busy, Expects
  <2>2. memods \subseteq Structures
    BY DEF SaveInv, SaveTypes
  <2>3. Tracks(r, memods, Pending(todo))
    BY DEF Following
  <2>4. Tracks(q, memods, Pending(todo'))
    BY <2>2, <2>3, TracksKeep
  <2> QED
    BY <2>1, <2>4 DEF Following
<1> QED
  BY <1>2, <1>3, <1>4, <1>5, <1>6, Zenon DEF SaveInv

LEMMA WrittenMore ==
    ASSUME NEW a \in Seq(OpSet), NEW b \in Seq(OpSet), NEW x \in OpSet
    PROVE  /\ a \o b \in Seq(OpSet) /\ Append(b, x) \in Seq(OpSet)
           /\ a \o Append(b, x) = Append(a \o b, x)
           /\ a \o <<>> = a
<1>0. Len(a) \in Nat /\ Len(b) \in Nat /\ <<>> \in Seq(OpSet)
  OBVIOUS
<1> DEFINE c == a \o Append(b, x)
           d == Append(a \o b, x)
<1>1. c \in Seq(OpSet) /\ d \in Seq(OpSet) /\ Len(c) = Len(a) + Len(b) + 1 /\ Len(d) = Len(c)
  OBVIOUS
<1>2. \A i \in 1..Len(c) : c[i] = d[i]
  OBVIOUS
<1> HIDE DEF c, d
<1>3. c = d
  BY <1>1, <1>2, SeqEqual
<1>4. a \o <<>> = a
  BY <1>0, ConcatEmptySeq
<1> QED
  BY <1>3, <1>4 DEF c, d

LEMMA DoomedFacts ==
    ASSUME SaveInv, Tidied, todo # <<>>, Doomed
    PROVE  /\ ctxt[cur] \in Objects /\ ctxt[cur] \notin Fine /\ Kind[ctxt[cur]] = "plain"
           /\ todo = <<Call("save_one", ctxt[cur])>> =>
                 Head(todo) = Call("save_one", ctxt[cur]) /\ Tail(todo) = <<>>
           /\ todo = Put(Obj(ctxt[cur])) => Head(todo) = Call("save", Obj(ctxt[cur]))
           /\ Head(todo).call \in {"save_one", "save"}
           /\ Head(todo).call = "save" => IsKind(Arg, "plain") /\ Arg[2] \in Fails
           /\ Head(todo).call = "save_one" => todo = <<Call("save_one", ctxt[cur])>>
<1> DEFINE X == ctxt[cur]
<1>1. cur \in 1..Len(ctxt)
  BY DEF SaveInv, SaveTypes, Tidied
<1>2. X \in Tidy /\ X \in Fails
  BY <1>1 DEF Tidied, Doomed
<1>3. X \in Objects /\ X \notin Fine /\ Kind[X] = "plain"
  BY <1>2, TidyFine
<1>4. Obj(X)[1] = "obj" /\ Obj(X)[2] = X
  BY <1>3, ObjIsValue
<1> HIDE DEF X
<1>5. CASE todo = <<Call("save_one", X)>>
  <2>1. Head(todo) = Call("save_one", X) /\ Tail(todo) = <<>>
    BY <1>5
  <2>2. Call("save_one", X).call = "save_one"
    BY CallFields
  <2>3. todo # Put(Obj(X))
    BY <1>5 DEF Put
  <2> QED
    BY <1>3, <1>5, <2>1, <2>2, <2>3 DEF X
<1>6. CASE todo = Put(Obj(X))
  <2>1. Head(todo) = Call("save", Obj(X))
    BY <1>6 DEF Put
  <2>2. Call("save", Obj(X)).call = "save" /\ Call("save", Obj(X)).arg = Obj(X)
    BY CallFields
  <2>3. todo # <<Call("save_one", X)>>
    BY <1>6 DEF Put
  <2>4. IsKind(Arg, "plain") /\ Arg[2] \in Fails
    BY <1>2, <1>3, <1>4, <2>1, <2>2 DEF IsKind, Arg
  <2> QED
    BY <1>3, <1>6, <2>1, <2>2, <2>3, <2>4 DEF X
<1> QED
  BY <1>5, <1>6 DEF Doomed, X

(* The writer saves a value of a fine object.                               *)
LEMMA BusyTypes ==
    ASSUME SaveInv, Tidied, todo # <<>>, NEW r, NEW L, Busy(r, L)
    PROVE  /\ Written \in Seq(OpSet) /\ L \in Seq(Objects) /\ todo \in Seq(CallSet)
           /\ Tail(todo) \in Seq(CallSet) /\ Len(L) = Len(objList) + 1 /\ L[Len(L)] = ctxt[cur]
           /\ stream \in Seq(OpSet) /\ out \in Seq(OpSet) /\ Full(memo) /\ memo \in Seq(Values)
           /\ Follower(r, r.calls, r.stack, Written, L, memo, Len(objList))
           /\ <<r.calls, r.stack, todo>> \in Safe(ctxt[cur]) /\ ctxt[cur] \in Fine
           /\ r.calls \in Seq(Frames) /\ r.stack \in Seq(Values) /\ r.calls # <<>>
           /\ Follows(Safe(ctxt[cur]), ctxt[cur], r.calls, r.stack, Head(todo), Tail(todo))
<1>1. <<r.calls, r.stack, todo>> \in Safe(ctxt[cur]) /\ ctxt[cur] \in Fine /\ Expects(L, 1)
      /\ Follower(r, r.calls, r.stack, Written, L, memo, Len(objList)) /\ L[Len(L)] = ctxt[cur]
  BY Zenon DEF Busy
<1>2. /\ r.calls \in Seq(Frames) /\ r.calls # <<>> /\ r.stack \in Seq(Values)
      /\ todo \in Seq(CallSet) /\ Tail(todo) \in Seq(CallSet)
      /\ Follows(Safe(ctxt[cur]), ctxt[cur], r.calls, r.stack, Head(todo), Tail(todo))
  BY <1>1, SafeHead
<1>3. stream \in Seq(OpSet) /\ out \in Seq(OpSet) /\ Full(memo)
  BY DEF SaveInv, SaveTypes
<1>4. Written \in Seq(OpSet)
  BY <1>3, ConcatProperties DEF Written
<1> QED
  BY <1>1, <1>2, <1>3, <1>4 DEF Expects, Full

LEMMA SaveTurn ==
    ASSUME SaveInv, Tidied, todo # <<>>, NEW r, NEW L, Following(r, L), Head(todo).call = "save",
           ~(IsKind(Arg, "plain") /\ Arg[2] \in Fails)
    PROVE  /\ Busy(r, L) /\ FineValue(Arg) /\ Tail(todo) # <<>>
           /\ Pending(todo) = Pending(Tail(todo))
           /\ <<r.calls, Append(r.stack, Arg), Tail(todo)>> \in Safe(ctxt[cur])
<1>1. Busy(r, L)
  BY DoomedFacts DEF Following
<1>2. BySave(Safe(ctxt[cur]), r.calls, r.stack, Head(todo), Tail(todo))
  BY <1>1, BusyTypes, SafeKinds
<1>3. FineValue(Arg) /\ Tail(todo) # <<>>
      /\ <<r.calls, Append(r.stack, Arg), Tail(todo)>> \in Safe(ctxt[cur])
  BY <1>2, Zenon DEF BySave, Arg
<1>4. Pending(todo) = Pending(Tail(todo))
  BY PendingTail DEF SaveInv, SaveTypes
<1> QED
  BY <1>1, <1>3, <1>4

(* What is refused is lost, and nothing else.                               *)
LEMMA RefusedStep ==
    ASSUME SaveInv, Tidied, todo # <<>>, NEW r, NEW L, Following(r, L), Doomed, Idle(r, L),
           UNCHANGED <<ctxt, cur, memods, memo, stream, objList>>, todo' = <<>>, out' = <<>>
    PROVE  SaveInv'
<1>0. ctxt[cur] \notin Fine /\ ctxt[cur] \in Fails /\ out = <<>> /\ Kind[ctxt[cur]] = "plain"
  BY DoomedFacts DEF Doomed, Idle
<1>1. Pending(todo) \subseteq {Call("save_one", ctxt[cur])}
  <2>1. CASE todo = <<Call("save_one", ctxt[cur])>>
    BY <2>1 DEF Pending, ToSet
  <2>2. CASE todo = Put(Obj(ctxt[cur]))
    BY <2>2, CallFields DEF Pending, ToSet, Put
  <2> QED
    BY <2>1, <2>2 DEF Doomed
<1>2. SaveTypes'
  BY DEF SaveInv, SaveTypes
<1>3. ctxt[cur] \notin Structures
  BY <1>0 DEF Structures
<1>4. HeldSaved(memods, Pending(todo))'
  <2> SUFFICES ASSUME NEW d \in memods, NEW e \in Held(d) \cap Structures
               PROVE  e \in memods
    BY DEF HeldSaved
  <2>1. e \in memods \/ Call("save_one", e) \in Pending(todo)
    BY DEF SaveInv, HeldSaved
  <2>2. Call("save_one", e) \notin Pending(todo)
    BY <1>1, <1>3, CallFields
  <2> QED
    BY <2>1, <2>2
<1>5. NamesSaved'
  <2> SUFFICES ASSUME NEW n \in 1..cur, ctxt[n] \in Fine, NEW e \in Inside(ctxt[n]) \cap Structures
               PROVE  e \in memods
    BY DEF NamesSaved, NameSaved
  <2>1. NameSaved(ctxt[n], memods, Pending(todo))
    BY DEF SaveInv, NamesSaved
  <2>2. Call("save_one", ctxt[n]) \notin Pending(todo) /\ Call("save_one", e) \notin Pending(todo)
    BY <1>0, <1>1, <1>3, CallFields
  <2> QED
    BY <2>1, <2>2 DEF NameSaved
<1>6. NamesKept'
  BY <1>0 DEF SaveInv, NamesKept
<1>7. Following(r, L)'
  <2>1. Written' = Written /\ Idle(r, L)'
    BY <1>0 DEF Idle, Written, Expects
  <2>2. Tracks(r, memods, Pending(todo))'
    <3>1. \A d : Call("getstate", d) \notin Pending(todo)
      BY <1>1, CallFields
    <3>2. Tracks(r, memods, Pending(todo))
      BY DEF Following
    <3>3. Tracks(r, memods, Pending(todo'))
      BY <3>1, <3>2 DEF Tracks
    <3> QED
      BY <3>3
  <2> QED
    BY <2>1, <2>2 DEF Following
<1> QED
  BY <1>2, <1>4, <1>5, <1>6, <1>7, Zenon DEF SaveInv

(* An operation is written.                                                 *)
LEMMA WriteStep ==
    ASSUME SaveInv, Tidied, todo # <<>>, NEW r, NEW L, Following(r, L), Busy(r, L),
           UNCHANGED <<ctxt, cur, memods, stream, objList>>,
           NEW op \in OpSet, out' = Append(out, op),
           todo' # <<>>, todo' \in Seq(CallSet), Pending(todo) \subseteq Pending(todo'),
           Full(memo'), NEW s, <<r.calls, s, todo'>> \in Safe(ctxt[cur]),
           NEW q, Follower(q, r.calls, s, Append(Written, op), L, memo', Len(objList)), Keeps(r, q)
    PROVE  SaveInv'
<1>1. stream \in Seq(OpSet) /\ out \in Seq(OpSet)
  BY DEF SaveInv, SaveTypes
<1>2. out' \in Seq(OpSet) /\ stream \o Append(out, op) = Append(stream \o out, op)
  BY <1>1, WrittenMore
<1>3. Written' = Append(Written, op)
  BY <1>2 DEF Written
<1> DEFINE c == r.calls
<1> HIDE DEF c
<1>4. Follower(q, c, s, Written', L, memo', Len(objList)) /\ <<c, s, todo'>> \in Safe(ctxt[cur])
  BY <1>3 DEF c
<1>5. stream' \in Seq(OpSet)
  BY <1>1
<1> QED
  BY <1>2, <1>4, <1>5, BusyStep

LEMMA LiteralStep ==
    ASSUME SaveInv, Tidied, SaveLiteral
    PROVE  SaveInv'
<1>1. PICK r, L : Following(r, L)
  BY DEF SaveInv
<1>2. /\ todo # <<>> /\ Head(todo).call = "save" /\ UNCHANGED memo
      /\ UNCHANGED <<ctxt, cur, memods>>
  BY DEF SaveLiteral, Turn, InDump
<1>3. CASE IsKind(Arg, "plain") /\ Arg[2] \in Fails /\ Refused
  <2>1. ~Busy(r, L)
    <3> SUFFICES ASSUME Busy(r, L) PROVE FALSE
      OBVIOUS
    <3>1. BySave(Safe(ctxt[cur]), r.calls, r.stack, Head(todo), Tail(todo))
      BY <1>2, BusyTypes, SafeKinds
    <3>2. FineValue(Arg)
      BY <3>1, Zenon DEF BySave, Arg
    <3>3. Arg[2] \in Fine
      BY <1>3, <3>2, FineValueFacts DEF IsKind
    <3> QED
      BY <1>3, <3>3, FineFacts
  <2>2. Doomed /\ Idle(r, L)
    BY <1>1, <1>2, <2>1 DEF Following
  <2> QED
    BY <1>1, <1>2, <1>3, <2>2, RefusedStep DEF Refused
<1>4. CASE ~(IsKind(Arg, "plain") /\ Arg[2] \in Fails) /\ Writes("lit", 0) /\ Saved
  <2> DEFINE v == Arg
             op == Op("lit", v, 0)
             t == Written
             m == memo
             n == Len(objList)
             c == r.calls
             s == r.stack
  <2>1. /\ Busy(r, L) /\ FineValue(v) /\ Tail(todo) # <<>>
        /\ Pending(todo) = Pending(Tail(todo))
        /\ <<c, Append(s, v), Tail(todo)>> \in Safe(ctxt[cur])
    BY <1>1, <1>2, <1>4, SaveTurn
  <2>2. v \in Values /\ op \in OpSet
    BY <2>1, FineValueFacts DEF OpSet, Op
  <2>3. /\ todo' = Tail(todo) /\ out' = Append(out, op) /\ UNCHANGED <<stream, objList>>
        /\ memo' = m
    BY <1>2, <1>4 DEF Writes, Saved
  <2>4. /\ t \in Seq(OpSet) /\ L \in Seq(Objects) /\ Follower(r, c, s, t, L, m, n)
        /\ Tail(todo) \in Seq(CallSet) /\ Full(m)
    BY <1>2, <2>1, BusyTypes
  <2> HIDE DEF v, op, t, m, n, c, s
  <2>5. PICK q : Follower(q, c, Append(s, v), Append(t, Op("lit", v, 0)), L, m, n) /\ Keeps(r, q)
    BY <2>2, <2>4, PushLiteral
  <2>6. Follower(q, r.calls, Append(s, v), Append(Written, op), L, memo', Len(objList))
    BY <2>3, <2>5 DEF op, t, n, c
  <2>7. /\ <<r.calls, Append(s, v), todo'>> \in Safe(ctxt[cur]) /\ todo' \in Seq(CallSet)
        /\ todo' # <<>> /\ Full(memo') /\ Pending(todo) \subseteq Pending(todo')
    BY <2>1, <2>3, <2>4 DEF c
  <2> QED
    BY <1>1, <1>2, <2>1, <2>2, <2>3, <2>5, <2>6, <2>7, WriteStep
<1> QED
  BY <1>3, <1>4 DEF SaveLiteral

LEMMA KnownStep ==
    ASSUME SaveInv, Tidied, SaveKnown
    PROVE  SaveInv'
<1>1. PICK r, L : Following(r, L)
  BY DEF SaveInv
<1> DEFINE v == Arg
           i == Place(v)
           op == Op("get", v, i)
           t == Written
           m == memo
           n == Len(objList)
           c == r.calls
           s == r.stack
<1>2. /\ todo # <<>> /\ Head(todo).call = "save" /\ memo' = m /\ ~Literal(v) /\ Known(v)
      /\ UNCHANGED <<ctxt, cur, memods>>
      /\ todo' = Tail(todo) /\ out' = Append(out, op) /\ UNCHANGED <<stream, objList>>
  BY DEF SaveKnown, Turn, InDump, Writes, Saved
<1>3. /\ Busy(r, L) /\ FineValue(v) /\ Tail(todo) # <<>>
      /\ Pending(todo) = Pending(Tail(todo))
      /\ <<c, Append(s, v), Tail(todo)>> \in Safe(ctxt[cur])
  BY <1>1, <1>2, SaveTurn DEF Literal
<1>4. /\ t \in Seq(OpSet) /\ L \in Seq(Objects) /\ Follower(r, c, s, t, L, m, n)
      /\ Tail(todo) \in Seq(CallSet) /\ Full(m) /\ m \in Seq(Values)
  BY <1>2, <1>3, BusyTypes
<1>5. v \in Values /\ v # None
  BY <1>3, FineValueFacts
<1>6. i \in 1..Len(m) /\ m[i] = v
  <2>1. \E j \in DOMAIN memo : memo[j] = v
    BY <1>2 DEF Known, ToSet
  <2>2. i \in DOMAIN memo /\ memo[i] = v
    BY <2>1 DEF Place
  <2> QED
    BY <1>4, <2>2
<1>7. op \in OpSet
  BY <1>5, <1>6 DEF OpSet, Op
<1> HIDE DEF v, op, t, m, n, c, s, i
<1>8. PICK q : Follower(q, c, Append(s, v), Append(t, Op("get", v, i)), L, m, n) /\ Keeps(r, q)
  BY <1>4, <1>5, <1>6, PushKnown
<1>9. Follower(q, r.calls, Append(s, v), Append(Written, op), L, memo', Len(objList))
  BY <1>2, <1>8 DEF op, t, n, c
<1>10. /\ <<r.calls, Append(s, v), todo'>> \in Safe(ctxt[cur]) /\ todo' \in Seq(CallSet)
       /\ todo' # <<>> /\ Full(memo') /\ Pending(todo) \subseteq Pending(todo')
  BY <1>2, <1>3, <1>4 DEF c
<1> QED
  BY <1>1, <1>2, <1>3, <1>7, <1>8, <1>9, <1>10, WriteStep

LEMMA FullMore ==
    ASSUME NEW m, Full(m), NEW e \in Values, e # None
    PROVE  Full(Append(m, e))
<1>1. m \in Seq(Values) /\ Len(m) \in Nat /\ \A i \in 1..Len(m) : m[i] # None
  BY DEF Full
<1>2. /\ Append(m, e) \in Seq(Values) /\ Len(Append(m, e)) = Len(m) + 1
      /\ Append(m, e)[Len(m) + 1] = e /\ \A i \in 1..Len(m) : Append(m, e)[i] = m[i]
  BY <1>1, AppendProperties
<1> HIDE DEF Full
<1>3. ASSUME NEW i \in 1..Len(Append(m, e)) PROVE Append(m, e)[i] # None
  <2>1. i \in 1..Len(m) \/ i = Len(m) + 1
    BY <1>1, <1>2
  <2> QED
    BY <1>1, <1>2, <2>1
<1> QED
  BY <1>2, <1>3 DEF Full

LEMMA TextStep ==
    ASSUME SaveInv, Tidied, SaveText
    PROVE  SaveInv'
<1>1. PICK r, L : Following(r, L)
  BY DEF SaveInv
<1> DEFINE v == Arg
           op == Op("put", v, Len(memo) + 1)
           t == Written
           m == memo
           n == Len(objList)
           c == r.calls
           s == r.stack
<1>2. /\ todo # <<>> /\ Head(todo).call = "save" /\ IsStr(v)
      /\ UNCHANGED <<ctxt, cur, memods>>
      /\ todo' = Tail(todo) /\ out' = Append(out, op) /\ UNCHANGED <<stream, objList>>
      /\ memo' = Append(memo, Arg)
  BY DEF SaveText, Turn, InDump, Writes, Saved, Memoizes
<1>3. /\ Busy(r, L) /\ FineValue(v) /\ Tail(todo) # <<>>
      /\ Pending(todo) = Pending(Tail(todo))
      /\ <<c, Append(s, v), Tail(todo)>> \in Safe(ctxt[cur])
  BY <1>1, <1>2, SaveTurn DEF IsKind, IsStr
<1>4. /\ t \in Seq(OpSet) /\ L \in Seq(Objects) /\ Follower(r, c, s, t, L, m, n)
      /\ Tail(todo) \in Seq(CallSet) /\ Full(m) /\ m \in Seq(Values)
  BY <1>2, <1>3, BusyTypes
<1>41. Len(m) \in Nat
  BY <1>4
<1>5. v \in Values /\ v # None
  BY <1>3, FineValueFacts
<1>6. /\ op \in OpSet /\ op.op = "put" /\ op.idx = Len(m) + 1
      /\ Pushed(op) = v /\ Entry(op) = Arg
  BY <1>4, <1>41, <1>5 DEF OpSet, Op, Pushed, Entry
<1>7. Entry(op) \in Values /\ Entry(op) # None
  BY <1>5, <1>6
<1> HIDE DEF v, op, t, m, n, c, s
<1>8. PICK q : /\ Follower(q, c, Append(s, Pushed(op)), Append(t, op), L, Append(m, Entry(op)), n)
               /\ Keeps(r, q)
  BY <1>4, <1>5, <1>6, <1>7, PushNew
<1>9. Follower(q, r.calls, Append(s, v), Append(Written, op), L, memo', Len(objList))
  BY <1>2, <1>6, <1>8 DEF t, n, c, m, v
<1>10. Full(memo')
  BY <1>2, <1>4, <1>6, <1>7, FullMore DEF m, v
<1>11. /\ <<r.calls, Append(s, v), todo'>> \in Safe(ctxt[cur]) /\ todo' \in Seq(CallSet)
       /\ todo' # <<>> /\ Pending(todo) \subseteq Pending(todo')
  BY <1>2, <1>3, <1>4 DEF c
<1> QED
  BY <1>1, <1>2, <1>3, <1>6, <1>8, <1>9, <1>10, <1>11, WriteStep

LEMMA StructureStep ==
    ASSUME SaveInv, Tidied, SaveStructure
    PROVE  SaveInv'
<1>1. PICK r, L : Following(r, L)
  BY DEF SaveInv
<1> DEFINE v == Arg
           op == Op("ref", v, Len(memo) + 1)
           t == Written
           m == memo
           n == Len(objList)
           c == r.calls
           s == r.stack
<1>2. /\ todo # <<>> /\ Head(todo).call = "save" /\ IsKind(v, "ds")
      /\ UNCHANGED <<ctxt, cur, memods>>
      /\ todo' = Tail(todo) /\ out' = Append(out, op) /\ UNCHANGED <<stream, objList>>
      /\ memo' = Append(memo, Pid(Arg[2]))
  BY DEF SaveStructure, Turn, InDump, Writes, Saved, Memoizes
<1>3. /\ Busy(r, L) /\ FineValue(v) /\ Tail(todo) # <<>>
      /\ Pending(todo) = Pending(Tail(todo))
      /\ <<c, Append(s, v), Tail(todo)>> \in Safe(ctxt[cur])
  BY <1>1, <1>2, SaveTurn DEF IsKind, IsStr
<1>4. /\ t \in Seq(OpSet) /\ L \in Seq(Objects) /\ Follower(r, c, s, t, L, m, n)
      /\ Tail(todo) \in Seq(CallSet) /\ Full(m) /\ m \in Seq(Values)
  BY <1>2, <1>3, BusyTypes
<1>41. Len(m) \in Nat
  BY <1>4
<1>5. v \in Values /\ v # None
  BY <1>3, FineValueFacts
<1>6. /\ op \in OpSet /\ op.op = "ref" /\ op.idx = Len(m) + 1
      /\ Pushed(op) = v /\ Entry(op) = Pid(Arg[2])
  BY <1>4, <1>41, <1>5 DEF OpSet, Op, Pushed, Entry
<1>7. Entry(op) \in Values /\ Entry(op) # None
  <2>1. v[2] \in Objects
    BY <1>2, <1>3, FineValueFacts DEF IsKind
  <2> QED
    BY <1>6, <2>1, OpenIsValue
<1> HIDE DEF v, op, t, m, n, c, s
<1>8. PICK q : /\ Follower(q, c, Append(s, Pushed(op)), Append(t, op), L, Append(m, Entry(op)), n)
               /\ Keeps(r, q)
  BY <1>4, <1>5, <1>6, <1>7, PushNew
<1>9. Follower(q, r.calls, Append(s, v), Append(Written, op), L, memo', Len(objList))
  BY <1>2, <1>6, <1>8 DEF t, n, c, m, v
<1>10. Full(memo')
  BY <1>2, <1>4, <1>6, <1>7, FullMore DEF m, v
<1>11. /\ <<r.calls, Append(s, v), todo'>> \in Safe(ctxt[cur]) /\ todo' \in Seq(CallSet)
       /\ todo' # <<>> /\ Pending(todo) \subseteq Pending(todo')
  BY <1>2, <1>3, <1>4 DEF c
<1> QED
  BY <1>1, <1>2, <1>3, <1>6, <1>8, <1>9, <1>10, <1>11, WriteStep

LEMMA ListStep ==
    ASSUME SaveInv, Tidied, SaveList
    PROVE  SaveInv'
<1>1. PICK r, L : Following(r, L)
  BY DEF SaveInv
<1> DEFINE v == Arg
           l == v[2]
           op == Op("open", v, Len(memo) + 1)
           t == Written
           m == memo
           n == Len(objList)
           c == r.calls
           s == r.stack
           a == SavesOf(Items[l]) \o <<Call("end", v)>>
           w == Tail(todo)
<1>2. /\ todo # <<>> /\ Head(todo).call = "save" /\ IsKind(v, "list")
      /\ UNCHANGED <<ctxt, cur, memods>>
      /\ todo' = a \o w /\ out' = Append(out, op) /\ UNCHANGED <<stream, objList>>
      /\ memo' = Append(memo, v)
  BY DEF SaveList, Turn, InDump, Writes, Memoizes, SavesOf
<1>3. /\ Busy(r, L) /\ FineValue(v) /\ w # <<>> /\ Pending(todo) = Pending(w)
      /\ <<c, Append(s, v), w>> \in Safe(ctxt[cur])
  BY <1>1, <1>2, SaveTurn DEF IsKind
<1>4. /\ t \in Seq(OpSet) /\ L \in Seq(Objects) /\ Follower(r, c, s, t, L, m, n)
      /\ w \in Seq(CallSet) /\ Full(m) /\ m \in Seq(Values)
      /\ c \in Seq(Frames) /\ c # <<>> /\ s \in Seq(Values)
  BY <1>2, <1>3, BusyTypes
<1>41. Len(m) \in Nat
  BY <1>4
<1>5. v \in Values /\ v # None /\ l \in Fine /\ l \in Objects /\ v = Obj(l) /\ l \in Lists
  BY <1>2, <1>3, FineValueFacts DEF IsKind, Lists
<1>6. /\ op \in OpSet /\ op.op = "open" /\ op.idx = Len(m) + 1
      /\ Pushed(op) = Open(l) /\ Entry(op) = v
  BY <1>4, <1>41, <1>5 DEF OpSet, Op, Pushed, Entry
<1>7. Open(l) \in Values
  BY <1>5, OpenIsValue
<1>8. a \in Seq(CallSet)
  <2>1. SavesOf(Items[l]) \in Seq(CallSet)
    BY <1>5, ItemsType, SavesType
  <2>2. <<Call("end", v)>> \in Seq(CallSet)
    BY <1>5, CallsType
  <2> QED
    BY <2>1, <2>2, ConcatProperties
<1>9. a = SavesOf(Items[l]) \o <<Call("end", Obj(l))>>
  BY <1>5
<1>10. l = v[2]
  OBVIOUS
<1> HIDE DEF v, l, op, t, m, n, c, s, w
<1>11. PICK q : /\ Follower(q, c, Append(s, Pushed(op)), Append(t, op), L, Append(m, Entry(op)), n)
                /\ Keeps(r, q)
  BY <1>4, <1>5, <1>6, <1>7, PushNew
<1>12. Follower(q, r.calls, Append(s, Open(l)), Append(Written, op), L, memo', Len(objList))
  BY <1>2, <1>6, <1>11 DEF t, n, c, m
<1>13. Full(memo')
  BY <1>2, <1>4, <1>5, FullMore DEF m
<1>14. <<c, Append(s, Obj(l)), w>> \in Safe(ctxt[cur])
  BY <1>3, <1>5
<1>15. <<c, Append(s, Open(l)), (SavesOf(Items[l]) \o <<Call("end", Obj(l))>>) \o w>> \in Safe(ctxt[cur])
  BY <1>3, <1>4, <1>5, <1>14, SafeList
<1>16. <<r.calls, Append(s, Open(l)), todo'>> \in Safe(ctxt[cur])
  BY <1>2, <1>9, <1>15 DEF c
<1> HIDE DEF a
<1>17. Pending(todo) \subseteq Pending(todo')
  BY <1>2, <1>3, <1>4, <1>8, PendingCat
<1>18. todo' \in Seq(CallSet) /\ todo' # <<>>
  BY <1>2, <1>3, <1>4, <1>8, ConcatProperties, ConcatEqualIffEmpty
<1> QED
  BY <1>1, <1>2, <1>3, <1>6, <1>11, <1>12, <1>13, <1>16, <1>17, <1>18, WriteStep

LEMMA EndStep ==
    ASSUME SaveInv, Tidied, EndList
    PROVE  SaveInv'
<1>1. PICK r, L : Following(r, L)
  BY DEF SaveInv
<1> DEFINE v == Arg
           op == Op("end", v, 0)
           t == Written
           m == memo
           n == Len(objList)
           c == r.calls
           s == r.stack
           w == Tail(todo)
<1>2. /\ todo # <<>> /\ Head(todo).call = "end" /\ memo' = m
      /\ UNCHANGED <<ctxt, cur, memods>>
      /\ todo' = w /\ out' = Append(out, op) /\ UNCHANGED <<stream, objList>>
  BY DEF EndList, Turn, InDump, Writes, Saved
<1>3. Busy(r, L)
  BY <1>1, <1>2, DoomedFacts DEF Following
<1>4. /\ t \in Seq(OpSet) /\ L \in Seq(Objects) /\ Follower(r, c, s, t, L, m, n)
      /\ w \in Seq(CallSet) /\ Full(m)
      /\ Follows(Safe(ctxt[cur]), ctxt[cur], c, s, Head(todo), w)
  BY <1>2, <1>3, BusyTypes
<1>5. ByEnd(Safe(ctxt[cur]), c, s, Head(todo), w)
  BY <1>2, <1>4, SafeKinds
<1>6. Pending(todo) = Pending(w)
  BY <1>2, PendingTail DEF SaveInv, SaveTypes
<1>7. Head(todo).arg = v
  BY DEF Arg
<1> HIDE DEF t, m, n, c, s, w, v
<1>8. PICK l \in Lists : /\ v = Obj(l) /\ Closes(s, l)
                         /\ <<c, Append(Base(s, l), Obj(l)), w>> \in Safe(ctxt[cur])
  BY <1>5, <1>7, Zenon DEF ByEnd
<1>9. w # <<>>
  BY <1>5, Zenon DEF ByEnd
<1>10. l \in Objects /\ Obj(l) \in Values
  BY ObjIsValue DEF Lists
<1>11. op \in OpSet
  BY <1>8, <1>10 DEF OpSet, Op
<1>12. PICK q : /\ Follower(q, c, Append(Base(s, l), Obj(l)), Append(t, Op("end", Obj(l), 0)), L, m, n)
                /\ Keeps(r, q)
  BY <1>4, <1>8, <1>10, PushEnd
<1>13. op = Op("end", Obj(l), 0)
  BY <1>8
<1> HIDE DEF op
<1>14. Follower(q, r.calls, Append(Base(s, l), Obj(l)), Append(Written, op), L, memo', Len(objList))
  BY <1>2, <1>12, <1>13 DEF t, n, c
<1>15. /\ <<r.calls, Append(Base(s, l), Obj(l)), todo'>> \in Safe(ctxt[cur])
       /\ todo' \in Seq(CallSet)
       /\ todo' # <<>> /\ Full(memo') /\ Pending(todo) \subseteq Pending(todo')
  BY <1>2, <1>4, <1>6, <1>8, <1>9 DEF c
<1> QED
  BY <1>1, <1>2, <1>3, <1>11, <1>12, <1>14, <1>15, WriteStep

LEMMA ToSetAppend ==
    ASSUME NEW T, NEW s \in Seq(T), NEW x \in T
    PROVE  ToSet(Append(s, x)) = ToSet(s) \cup {x}
<1> DEFINE c == Append(s, x)
<1>0. Len(s) \in Nat
  OBVIOUS
<1>1. DOMAIN s = 1..Len(s) /\ DOMAIN c = 1..(Len(s) + 1) /\ c[Len(s) + 1] = x
      /\ \A i \in 1..Len(s) : c[i] = s[i]
  BY AppendProperties
<1> HIDE DEF c
<1>2. ASSUME NEW h \in ToSet(c) PROVE h \in ToSet(s) \cup {x}
  <2>1. PICK i \in 1..(Len(s) + 1) : h = c[i]
    BY <1>1 DEF ToSet
  <2>2. i \in 1..Len(s) \/ i = Len(s) + 1
    BY <1>0
  <2> QED
    BY <1>1, <2>1, <2>2 DEF ToSet
<1>3. ASSUME NEW h \in ToSet(s) PROVE h \in ToSet(c)
  <2>1. PICK i \in 1..Len(s) : h = s[i]
    BY <1>1 DEF ToSet
  <2>2. i \in 1..(Len(s) + 1) /\ c[i] = h
    BY <1>0, <1>1, <2>1
  <2> QED
    BY <1>1, <2>2 DEF ToSet
<1>4. x \in ToSet(c)
  <2>1. Len(s) + 1 \in 1..(Len(s) + 1)
    BY <1>0
  <2> QED
    BY <1>1, <2>1 DEF ToSet
<1> QED
  BY <1>2, <1>3, <1>4 DEF c

LEMMA HearsValue ==
    ASSUME NEW c, NEW v, NEW X, NEW e, Hears(c, v, X, e)
    PROVE  v # None
<1>1. CASE HearsAny(c, v, X, e)
  BY <1>1, ObjIsValue DEF HearsAny
<1>2. CASE HearsBack(c, v, X, e)
  BY <1>2, ObjIsValue DEF HearsBack, Structures
<1>3. CASE HearsText(c, v, e)
  <2>1. v \in {Text("LIST"), Text("ARGS"), Text("STATE")} \/ \E d \in Structures : v = Name(d)
    BY <1>3, Zenon DEF HearsText
  <2>2. \A d \in Structures : Name(d) # None
    BY NameIsValue DEF Structures
  <2>3. v \in {Text("LIST"), Text("ARGS"), Text("STATE")} => v # None
    BY TextIsValue DEF Marks
  <2> QED
    BY <2>1, <2>2, <2>3
<1>4. CASE HearsNumber(c, v, e)
  <2>1. (\E n \in Nat : v = Number(n)) \/ \E d \in Structures : v = Number(Len(StateOf[d]))
    BY <1>4, Zenon DEF HearsNumber
  <2>2. \A d \in Structures : Len(StateOf[d]) \in Nat
    BY ItemsType DEF Structures
  <2> QED
    BY <2>1, <2>2, NumberIsValue
<1> QED
  BY <1>1, <1>2, <1>3, <1>4, Zenon DEF Hears

(* A dump ends; with the last one, the name is kept.                        *)
LEMMA LastStop ==
    ASSUME SaveInv, Tidied, todo # <<>>, NEW r, NEW L, Following(r, L), Busy(r, L),
           Head(todo).call = "stop", Tail(todo) = <<>>, todo' = <<>>, out' = <<>>,
           UNCHANGED <<ctxt, cur, memods, memo>>, objList' = Append(objList, cur),
           stream' \in Seq(OpSet), NEW q, Keeps(r, q),
           Follower(q, <<Top>>, <<>>, stream', L, memo, Len(objList) + 1)
    PROVE  SaveInv'
<1>0. /\ cur \in 1..Len(ctxt) /\ objList \in Seq(1..Len(ctxt)) /\ todo \in Seq(CallSet)
      /\ Len(objList) \in Nat /\ ctxt[cur] \in Fine /\ Expects(L, 1) /\ L[Len(L)] = ctxt[cur]
      /\ memods \in SUBSET Structures
  BY DEF SaveInv, SaveTypes, Tidied, Busy
<1>1. /\ objList' \in Seq(1..Len(ctxt)) /\ Len(objList') = Len(objList) + 1
      /\ objList'[Len(objList) + 1] = cur /\ \A i \in 1..Len(objList) : objList'[i] = objList[i]
  BY <1>0, AppendProperties
<1>2. ToSet(objList') = ToSet(objList) \cup {cur}
  BY <1>0, ToSetAppend
<1>3. Pending(todo') = Pending(todo)
  BY <1>0, PendingTail
<1>4. SaveTypes'
  BY <1>1 DEF SaveInv, SaveTypes
<1>5. HeldSaved(memods, Pending(todo))'
  BY <1>3 DEF SaveInv, HeldSaved
<1>6. NamesSaved'
  BY <1>3 DEF SaveInv, NamesSaved, NameSaved
<1>7. NamesKept'
  BY <1>0, <1>2, FineFacts DEF SaveInv, NamesKept
<1>8. Expects(L, 0)'
  BY <1>0, <1>1 DEF Expects
<1>9. Written' = stream'
  BY WrittenMore DEF Written
<1>10. Idle(q, L)'
  BY <1>1, <1>8, <1>9 DEF Idle
<1>11. Tracks(q, memods', Pending(todo'))
  BY <1>0, <1>3, TracksKeep DEF Following
<1>12. Following(q, L)'
  BY <1>10, <1>11 DEF Following
<1> QED
  BY <1>4, <1>5, <1>6, <1>7, <1>12, Zenon DEF SaveInv

LEMMA StopStep ==
    ASSUME SaveInv, Tidied, Stop
    PROVE  SaveInv'
<1>1. PICK r, L : Following(r, L)
  BY DEF SaveInv
<1> DEFINE t == Written
           m == memo
           n == Len(objList)
           c == r.calls
           s == r.stack
           w == Tail(todo)
           X == ctxt[cur]
<1>2. /\ todo # <<>> /\ Head(todo).call = "stop" /\ memo' = m
      /\ UNCHANGED <<ctxt, cur, memods>> /\ todo' = w /\ out' = <<>>
      /\ stream' = stream \o Append(out, StopOp)
      /\ objList' = IF w = <<>> THEN Append(objList, cur) ELSE objList
  BY DEF Stop, Turn, InDump, Saved, Append_name, StopOp
<1>3. Busy(r, L)
  BY <1>1, <1>2, DoomedFacts DEF Following
<1>4. /\ t \in Seq(OpSet) /\ L \in Seq(Objects) /\ Follower(r, c, s, t, L, m, n)
      /\ w \in Seq(CallSet) /\ Full(m) /\ n + 1 = Len(L) /\ L[Len(L)] = X
      /\ Follows(Safe(X), X, c, s, Head(todo), w) /\ c \in Seq(Frames)
      /\ stream \in Seq(OpSet) /\ out \in Seq(OpSet)
  BY <1>2, <1>3, BusyTypes
<1>5. ByStop(Safe(X), X, c, s, Head(todo), w)
  BY <1>2, <1>4, SafeKinds
<1> HIDE DEF c, s, w, X
<1>6. PICK v \in Values : \E e : /\ s = <<v>> /\ Hears(c, v, X, e) /\ <<e, <<>>, w>> \in Safe(X)
                                 /\ Completes(c, v) <=> w = <<>>
  BY <1>5, Zenon DEF ByStop
<1>7. PICK e : /\ s = <<v>> /\ Hears(c, v, X, e) /\ <<e, <<>>, w>> \in Safe(X)
               /\ Completes(c, v) <=> w = <<>>
  BY <1>6, Zenon
<1>8. v # None
  BY <1>7, HearsValue
<1> HIDE DEF t, m, n
<1>9. Follower(r, c, <<v>>, t, L, m, n) /\ Hears(c, v, L[Len(L)], e)
  BY <1>4, <1>7
<1>10. PICK q : /\ Follower(q, e, <<>>, Append(t, StopOp), L, m, IF Completes(c, v) THEN n + 1 ELSE n)
                /\ Keeps(r, q)
  BY <1>4, <1>8, <1>9, PushStop
<1>11. StopOp \in OpSet
  BY CallsType DEF StopOp, Op, OpSet
<1>12. stream' = Append(t, StopOp) /\ stream' \in Seq(OpSet) /\ stream' \o <<>> = stream'
  <2>1. stream \in Seq(OpSet) /\ out \in Seq(OpSet)
    BY <1>4
  <2>2. /\ stream \o out \in Seq(OpSet) /\ Append(out, StopOp) \in Seq(OpSet)
        /\ stream \o Append(out, StopOp) = Append(stream \o out, StopOp)
    BY <1>11, <2>1, WrittenMore
  <2>3. stream' = Append(t, StopOp)
    BY <1>2, <2>2 DEF t, Written
  <2>4. stream' \in Seq(OpSet)
    BY <1>2, <2>1, <2>2, ConcatProperties
  <2> QED
    BY <1>11, <2>3, <2>4, WrittenMore
<1>13. CASE w = <<>>
  <2>1. Agrees(Safe(X), X, e, <<>>, w)
    BY <1>7, SafeCoherent, Zenon DEF Coherent
  <2>2. e = <<Top>>
    BY <1>13, <2>1, Zenon DEF Agrees
  <2>3. Follower(q, <<Top>>, <<>>, stream', L, memo, Len(objList) + 1)
    BY <1>7, <1>10, <1>12, <1>13, <2>2 DEF m, n
  <2>4. Tail(todo) = <<>> /\ todo' = <<>> /\ objList' = Append(objList, cur)
    BY <1>2, <1>13 DEF w
  <2> QED
    BY <1>1, <1>2, <1>3, <1>10, <1>12, <2>3, <2>4, LastStop DEF m
<1>14. CASE w # <<>>
  <2>1. Written' = Append(t, StopOp) /\ out' \in Seq(OpSet)
    BY <1>2, <1>12 DEF Written
  <2>2. Follower(q, e, <<>>, Written', L, memo', Len(objList))
    BY <1>2, <1>7, <1>10, <1>14, <2>1 DEF n
  <2>3. Pending(todo) \subseteq Pending(todo')
    BY <1>2, PendingTail DEF SaveInv, SaveTypes, w
  <2>4. /\ <<e, <<>>, todo'>> \in Safe(ctxt[cur]) /\ todo' # <<>> /\ todo' \in Seq(CallSet)
        /\ Full(memo') /\ UNCHANGED objList
    BY <1>2, <1>4, <1>7, <1>14 DEF X
  <2> QED
    BY <1>1, <1>2, <1>3, <1>10, <1>12, <2>1, <2>2, <2>3, <2>4, BusyStep
<1> QED
  BY <1>13, <1>14

(* getstate: the state of the structure is being read.                      *)
LEMMA GetStateStep ==
    ASSUME SaveInv, Tidied, getstate
    PROVE  SaveInv'
<1>1. PICK r, L : Following(r, L)
  BY DEF SaveInv
<1> DEFINE w == Tail(todo)
           d == Arg
           X == ctxt[cur]
<1>2. /\ todo # <<>> /\ Head(todo).call = "getstate" /\ UNCHANGED <<ctxt, cur, memods, memo>>
      /\ \/ d \in Fails /\ Refused
         \/ d \notin Fails /\ todo' = w /\ UNCHANGED <<out, stream, objList>>
  BY DEF getstate, Turn
<1>3. Busy(r, L)
  BY <1>1, <1>2, DoomedFacts DEF Following
<1>4. /\ w \in Seq(CallSet) /\ todo \in Seq(CallSet) /\ X \in Fine
      /\ Follows(Safe(X), X, r.calls, r.stack, Head(todo), w) /\ r.calls \in Seq(Frames)
  BY <1>2, <1>3, BusyTypes
<1>5. ByState(Safe(X), r.calls, r.stack, Head(todo), w)
  BY <1>2, <1>4, SafeKinds
<1> HIDE DEF X
<1>6. /\ d \in Fine /\ w # <<>> /\ <<r.calls, r.stack, w>> \in Safe(X)
      /\ \E b \in Seq(Frames) : r.calls = Append(b, MarkF(d))
  BY <1>5, Zenon DEF ByState, Arg
<1>7. todo' = w /\ UNCHANGED <<out, stream, objList>>
  BY <1>2, <1>6, FineFacts
<1>8. IsOpen(r.calls, d)
  <2>1. PICK b \in Seq(Frames) : r.calls = Append(b, MarkF(d))
    BY <1>6
  <2>2. Len(b) + 1 \in 1..Len(r.calls) /\ r.calls[Len(b) + 1] = MarkF(d)
    BY <2>1
  <2>3. IsOpenF(MarkF(d), d)
    BY FrameKinds DEF IsOpenF
  <2> QED
    BY <2>2, <2>3 DEF IsOpen
<1>9. /\ \A e : Call("save_one", e) \in Pending(todo) => Call("save_one", e) \in Pending(todo')
      /\ \A e : Call("getstate", e) \in Pending(todo) => Call("getstate", e) \in Pending(todo') \/ e = d
  <2>1. Pending(todo) \subseteq Pending(w) \cup {Head(todo)}
    BY <1>2, <1>4, PendingTail
  <2>2. \A e : /\ Call("save_one", e) # Head(todo)
               /\ Call("getstate", e) = Head(todo) => e = d
    BY <1>2, CallFields DEF Arg
  <2> QED
    BY <1>7, <2>1, <2>2
<1> HIDE DEF w, d
<1>10. SaveTypes'
  BY <1>2, <1>4, <1>7 DEF SaveInv, SaveTypes
<1>11. HeldSaved(memods, Pending(todo))'
  BY <1>2, <1>9 DEF SaveInv, HeldSaved
<1>12. NamesSaved'
  BY <1>2, <1>9 DEF SaveInv, NamesSaved, NameSaved
<1>13. NamesKept'
  BY <1>2, <1>6, <1>7 DEF SaveInv, NamesKept
<1>14. Tracks(r, memods', Pending(todo'))
  <2>1. Tracks(r, memods, Pending(todo))
    BY <1>1 DEF Following
  <2> QED
    BY <1>2, <1>8, <1>9, <2>1 DEF Tracks
<1>15. Busy(r, L)'
  BY <1>2, <1>3, <1>6, <1>7 DEF Busy, Written, Expects, X
<1>16. Following(r, L)'
  BY <1>6, <1>7, <1>14, <1>15 DEF Following
<1> QED
  BY <1>10, <1>11, <1>12, <1>13, <1>16, Zenon DEF SaveInv

(* What save_one has to save.                                               *)
LEMMA PendingEach ==
    ASSUME NEW s \in Seq(Objects), NEW e \in ToSet(s)
    PROVE  Call("save_one", e) \in Pending(Each(s))
<1>1. PICK i \in 1..Len(s) : e = s[i]
  BY DEF ToSet
<1>2. i \in DOMAIN Each(s) /\ Each(s)[i] = Call("save_one", e)
  BY <1>1, EachType
<1> QED
  BY <1>2, CallFields DEF Pending, ToSet

LEMMA PendingLink ==
    ASSUME NEW a \in Seq(CallSet), NEW b \in Seq(CallSet)
    PROVE  a \o b \in Seq(CallSet) /\ Pending(a \o b) = Pending(a) \cup Pending(b)
BY ToSetCat, ConcatProperties DEF Pending

LEMMA DescribePending ==
    ASSUME NEW o \in Objects, NEW w \in Seq(CallSet)
    PROVE  /\ save_one(o) \o w # <<>> /\ Pending(w) \subseteq Pending(save_one(o) \o w)
           /\ o \in Structures /\ o \notin memods =>
                 /\ Call("getstate", o) \in Pending(save_one(o) \o w)
                 /\ \A e \in Held(o) : Call("save_one", e) \in Pending(save_one(o) \o w)
           /\ o \in Lists /\ contains_datastructure(o) =>
                 \A e \in ToSet(Items[o]) : Call("save_one", e) \in Pending(save_one(o) \o w)
<1> DEFINE u == save_one(o) \o w
<1>0. /\ Put(Text("STATE")) \in Seq(CallSet) /\ Put(Text("ARGS")) \in Seq(CallSet)
      /\ Put(Text("LIST")) \in Seq(CallSet) /\ Put(Number(Len(StateOf[o]))) \in Seq(CallSet)
      /\ Put(Number(Len(Items[o]))) \in Seq(CallSet) /\ Put(Name(o)) \in Seq(CallSet)
      /\ Put(Obj(o)) \in Seq(CallSet) /\ Each(Items[o]) \in Seq(CallSet)
      /\ Each(StateOf[o]) \in Seq(CallSet) /\ <<Call("getstate", o)>> \in Seq(CallSet)
  BY PartsType
<1>1. Items[o] \in Seq(Objects) /\ StateOf[o] \in Seq(Objects)
      /\ (o \in Structures <=> Kind[o] = "ds") /\ (o \in Lists <=> Kind[o] = "list")
  BY ItemsType
<1>2. Put(Text("LIST")) # <<>> /\ Put(Text("ARGS")) # <<>> /\ Put(Obj(o)) # <<>>
  BY DEF Put
<1>3. \A a \in Seq(CallSet), b \in Seq(CallSet) : a # <<>> => a \o b # <<>>
  BY ConcatEqualIffEmpty
<1> DEFINE z == Put(Obj(o)) \o w
<1>4. z \in Seq(CallSet) /\ Pending(w) \subseteq Pending(z) /\ z # <<>>
  BY <1>0, <1>2, <1>3, PendingLink
<1>5. CASE Kind[o] = "list" /\ contains_datastructure(o)
  <2> DEFINE y == Each(Items[o]) \o z
             x == Put(Number(Len(Items[o]))) \o y
             v == Put(Text("LIST")) \o x
  <2>1. u = v
    BY <1>5, CallsOfList DEF ListCalls
  <2> HIDE DEF z, u
  <2>2. y \in Seq(CallSet) /\ Pending(y) = Pending(Each(Items[o])) \cup Pending(z)
    BY <1>0, <1>4, PendingLink
  <2> HIDE DEF y
  <2>3. x \in Seq(CallSet) /\ Pending(y) \subseteq Pending(x)
    BY <1>0, <2>2, PendingLink
  <2> HIDE DEF x
  <2>4. Pending(x) \subseteq Pending(v) /\ v # <<>>
    BY <1>0, <1>2, <1>3, <2>3, PendingLink
  <2> HIDE DEF v
  <2>5. \A e \in ToSet(Items[o]) : Call("save_one", e) \in Pending(u)
    BY <1>1, <2>1, <2>2, <2>3, <2>4, PendingEach
  <2>6. u # <<>> /\ Pending(w) \subseteq Pending(u)
    BY <1>4, <2>1, <2>2, <2>3, <2>4
  <2> QED
    BY <1>1, <1>5, <2>5, <2>6 DEF u
<1>6. CASE Kind[o] = "ds" /\ o \notin memods
  <2> DEFINE y == Each(StateOf[o]) \o z
             x == Put(Number(Len(StateOf[o]))) \o y
             v == Put(Text("STATE")) \o x
             g == <<Call("getstate", o)>> \o v
             f == Each(Items[o]) \o g
             k == Put(Name(o)) \o f
             j == Put(Number(Len(Items[o]))) \o k
             i == Put(Text("ARGS")) \o j
  <2>1. u = i
    BY <1>6, CallsOfStructure DEF ArgsCalls, StateCalls
  <2> HIDE DEF z, u
  <2>2. y \in Seq(CallSet) /\ Pending(y) = Pending(Each(StateOf[o])) \cup Pending(z)
    BY <1>0, <1>4, PendingLink
  <2> HIDE DEF y
  <2>3. x \in Seq(CallSet) /\ Pending(y) \subseteq Pending(x)
    BY <1>0, <2>2, PendingLink
  <2> HIDE DEF x
  <2>4. v \in Seq(CallSet) /\ Pending(x) \subseteq Pending(v)
    BY <1>0, <2>3, PendingLink
  <2> HIDE DEF v
  <2>5. g \in Seq(CallSet) /\ Pending(g) = Pending(<<Call("getstate", o)>>) \cup Pending(v)
    BY <1>0, <2>4, PendingLink
  <2> HIDE DEF g
  <2>6. f \in Seq(CallSet) /\ Pending(f) = Pending(Each(Items[o])) \cup Pending(g)
    BY <1>0, <2>5, PendingLink
  <2> HIDE DEF f
  <2>7. k \in Seq(CallSet) /\ Pending(f) \subseteq Pending(k)
    BY <1>0, <2>6, PendingLink
  <2> HIDE DEF k
  <2>8. j \in Seq(CallSet) /\ Pending(k) \subseteq Pending(j)
    BY <1>0, <2>7, PendingLink
  <2> HIDE DEF j
  <2>9. Pending(j) \subseteq Pending(i) /\ i # <<>>
    BY <1>0, <1>2, <1>3, <2>8, PendingLink
  <2> HIDE DEF i
  <2>10. Call("getstate", o) \in Pending(<<Call("getstate", o)>>)
    BY CallFields DEF Pending, ToSet
  <2>11. \A e \in Held(o) : /\ e \in ToSet(Items[o]) \/ e \in ToSet(StateOf[o])
    BY DEF Held
  <2>12. \A e \in Held(o) : Call("save_one", e) \in Pending(u)
    BY <1>1, <2>1, <2>2, <2>3, <2>4, <2>5, <2>6, <2>7, <2>8, <2>9, <2>11, PendingEach
  <2>13. u # <<>> /\ Pending(w) \subseteq Pending(u) /\ Call("getstate", o) \in Pending(u)
    BY <1>4, <2>1, <2>2, <2>3, <2>4, <2>5, <2>6, <2>7, <2>8, <2>9, <2>10
  <2> QED
    BY <1>1, <1>6, <2>12, <2>13 DEF u
<1>7. CASE ~(Kind[o] = "list" /\ contains_datastructure(o)) /\ ~(Kind[o] = "ds" /\ o \notin memods)
  <2>1. save_one(o) = Put(Obj(o))
    BY <1>7 DEF save_one
  <2> QED
    BY <1>1, <1>4, <1>7, <2>1
<1> QED
  BY <1>5, <1>6, <1>7

(* save_one: the object is saved, what it holds will be.                    *)
LEMMA DescribeSaved ==
    ASSUME SaveInv, Tidied, todo # <<>>, Head(todo).call = "save_one",
           NEW o \in Objects, Arg = o, Kind[o] = "plain" \/ o \in Fine,
           memods' = IF Kind[o] = "ds" THEN memods \cup {o} ELSE memods,
           todo' = save_one(o) \o Tail(todo), UNCHANGED <<ctxt, cur, memo, out, objList, stream>>,
           todo' \in Seq(CallSet), NEW r, Tracks(r, memods, Pending(todo))
    PROVE  /\ SaveTypes' /\ HeldSaved(memods, Pending(todo))' /\ NamesSaved' /\ NamesKept'
           /\ Tracks(r, memods', Pending(todo')) /\ todo' # <<>>
<1> DEFINE w == Tail(todo)
           P == Pending(todo)
           Q == Pending(todo')
<1>1. todo \in Seq(CallSet) /\ w \in Seq(CallSet)
  BY DEF SaveInv, SaveTypes
<1>2. /\ o \in Structures <=> Kind[o] = "ds"
      /\ o \in Lists <=> Kind[o] = "list"
  BY ItemsType
<1>3. /\ todo' # <<>> /\ Pending(w) \subseteq Q
      /\ o \in Structures /\ o \notin memods =>
            /\ Call("getstate", o) \in Q
            /\ \A e \in Held(o) : Call("save_one", e) \in Q
      /\ o \in Lists /\ contains_datastructure(o) =>
            \A e \in ToSet(Items[o]) : Call("save_one", e) \in Q
  BY <1>1, DescribePending
<1>4. /\ \A e : Call("save_one", e) \in P => Call("save_one", e) \in Q \/ e = o
      /\ \A e : Call("getstate", e) \in P => Call("getstate", e) \in Q
  <2>1. P \subseteq Pending(w) \cup {Head(todo)}
    BY <1>1, PendingTail
  <2>2. \A e : /\ Call("getstate", e) # Head(todo)
               /\ Call("save_one", e) = Head(todo) => e = o
    BY CallFields DEF Arg
  <2> QED
    BY <1>3, <2>1, <2>2
<1> HIDE DEF w, P, Q
<1>5. /\ memods \subseteq Structures /\ memods \subseteq memods'
      /\ \A d \in memods' : d \in memods \/ (d = o /\ o \in Structures)
      /\ o \in Structures => o \in memods'
  BY <1>2 DEF SaveInv, SaveTypes
<1>6. SaveTypes'
  <2>1. memods' \in SUBSET (Structures \cap Fine)
    BY <1>2 DEF SaveInv, SaveTypes
  <2> QED
    BY <2>1 DEF SaveInv, SaveTypes
<1>7. HeldSaved(memods, Pending(todo))'
  <2> SUFFICES ASSUME NEW d \in memods', NEW e \in Held(d) \cap Structures
               PROVE  e \in memods' \/ Call("save_one", e) \in Q
    BY DEF HeldSaved, Q
  <2>1. CASE d \in memods
    <3>1. e \in memods \/ Call("save_one", e) \in P
      BY <2>1 DEF SaveInv, HeldSaved, P
    <3> QED
      BY <1>4, <1>5, <3>1
  <2>2. CASE d \notin memods
    BY <1>3, <1>5, <2>2
  <2> QED
    BY <2>1, <2>2
<1>8. NamesSaved'
  <2> SUFFICES ASSUME NEW n \in 1..cur, ctxt[n] \in Fine
               PROVE  NameSaved(ctxt[n], memods', Q)
    BY DEF NamesSaved, Q
  <2>1. NameSaved(ctxt[n], memods, P)
    BY DEF SaveInv, NamesSaved, P
  <2>2. CASE Call("save_one", ctxt[n]) \in P
    <3>1. CASE ctxt[n] # o
      BY <1>4, <2>2, <3>1 DEF NameSaved
    <3>2. CASE ctxt[n] = o
      <4> SUFFICES ASSUME NEW e \in Inside(o) \cap Structures
                   PROVE  e \in memods' \/ Call("save_one", e) \in Q
        BY <3>2 DEF NameSaved
      <4>1. e = o \/ (o \in Lists /\ e \in ToSet(Items[o]))
        BY <3>2, InsideFine
      <4> QED
        BY <1>3, <1>5, <4>1 DEF contains_datastructure
    <3> QED
      BY <3>1, <3>2
  <2>3. CASE \A e \in Inside(ctxt[n]) \cap Structures : e \in memods \/ Call("save_one", e) \in P
    BY <1>4, <1>5, <2>3 DEF NameSaved
  <2> QED
    BY <2>1, <2>2, <2>3 DEF NameSaved
<1>9. NamesKept'
  BY <1>3 DEF SaveInv, NamesKept
<1>10. Tracks(r, memods', Q)
  BY <1>3, <1>4, <1>5 DEF Tracks, P
<1> QED
  BY <1>3, <1>6, <1>7, <1>8, <1>9, <1>10 DEF Q

LEMMA DescribeStep ==
    ASSUME SaveInv, Tidied, Describe
    PROVE  SaveInv'
<1>1. PICK r, L : Following(r, L)
  BY DEF SaveInv
<1> DEFINE o == Arg
           w == Tail(todo)
           X == ctxt[cur]
<1>2. /\ todo # <<>> /\ Head(todo).call = "save_one"
      /\ UNCHANGED <<ctxt, cur, memo, out, objList, stream>>
      /\ todo' = save_one(o) \o w
      /\ memods' = IF Kind[o] = "ds" THEN memods \cup {o} ELSE memods
  BY DEF Describe, Turn
<1>3. Tracks(r, memods, Pending(todo))
  BY <1>1 DEF Following
<1>4. CASE Busy(r, L)
  <2>0. todo \in Seq(CallSet)
    BY DEF SaveInv, SaveTypes
  <2>1. /\ w \in Seq(CallSet) /\ Head(todo) \in CallSet
        /\ Follows(Safe(X), X, r.calls, r.stack, Head(todo), w)
    <3>1. Head(todo) \in CallSet
      BY <1>2, <2>0
    <3>2. /\ w \in Seq(CallSet)
          /\ Follows(Safe(X), X, r.calls, r.stack, Head(todo), w)
      BY <1>2, <1>4, BusyTypes
    <3> QED
      BY <3>1, <3>2
  <2>2. ByOne(Safe(X), X, r.calls, r.stack, Head(todo), w)
    BY <1>2, <2>1, SafeKinds
  <2>3. Head(todo) = Call("save_one", o)
    BY <1>2, <2>1 DEF CallSet, Call, Arg
  <2>4. r.stack = <<>> /\ o \in Fine
    BY <2>2, Zenon DEF ByOne, Arg
  <2> HIDE DEF X, w, o
  <2>5. ByOne(Safe(X), X, r.calls, <<>>, Call("save_one", o), w)
    BY <2>2, <2>3, <2>4
  <2>6. <<r.calls, <<>>, save_one(o) \o w>> \in Safe(X) /\ save_one(o) \o w \in Seq(CallSet)
    BY <2>1, <2>5, SafeDescribe
  <2>7. o \in Objects /\ Arg = o /\ todo' = save_one(o) \o Tail(todo) /\ todo' \in Seq(CallSet)
    BY <1>2, <2>4, <2>6, FineFacts DEF o, w
  <2>8. /\ SaveTypes' /\ HeldSaved(memods, Pending(todo))' /\ NamesSaved' /\ NamesKept'
        /\ Tracks(r, memods', Pending(todo')) /\ todo' # <<>>
    BY <1>2, <1>3, <2>4, <2>7, DescribeSaved
  <2>9. Busy(r, L)'
    BY <1>2, <1>4, <2>4, <2>6 DEF Busy, Written, Expects, X
  <2>10. Following(r, L)'
    BY <2>8, <2>9 DEF Following
  <2> QED
    BY <2>8, <2>10, Zenon DEF SaveInv
<1>5. CASE Doomed /\ Idle(r, L)
  <2>1. X \in Objects /\ Kind[X] = "plain" /\ todo = <<Call("save_one", X)>>
        /\ Head(todo) = Call("save_one", X) /\ w = <<>>
    BY <1>2, <1>5, DoomedFacts
  <2>2. o = X
    BY <2>1, CallFields DEF Arg
  <2>3. save_one(o) = Put(Obj(X)) /\ Put(Obj(X)) \in Seq(CallSet)
    BY <2>1, <2>2, PartsType DEF save_one
  <2>4. todo' = Put(Obj(X)) /\ todo' \in Seq(CallSet)
    BY <1>2, <2>1, <2>3, ConcatEmptySeq
  <2>5. o \in Objects /\ Arg = o /\ Kind[o] = "plain" /\ todo' = save_one(o) \o Tail(todo)
    BY <1>2, <2>1, <2>2
  <2> HIDE DEF o, w
  <2>6. /\ SaveTypes' /\ HeldSaved(memods, Pending(todo))' /\ NamesSaved' /\ NamesKept'
        /\ Tracks(r, memods', Pending(todo')) /\ todo' # <<>>
    BY <1>2, <1>3, <2>4, <2>5, DescribeSaved
  <2>7. Doomed' /\ Idle(r, L)'
    BY <1>2, <1>5, <2>4 DEF Doomed, Idle, Written, Expects
  <2>8. Following(r, L)'
    BY <2>6, <2>7 DEF Following
  <2> QED
    BY <2>6, <2>8, Zenon DEF SaveInv
<1> QED
  BY <1>1, <1>2, <1>4, <1>5 DEF Following

(* Serializer.save goes on with the next name.                              *)
LEMMA NextStep ==
    ASSUME SaveInv, Tidied, SaveNext
    PROVE  SaveInv'
<1>1. PICK r, L : Following(r, L)
  BY DEF SaveInv
<1> DEFINE X == ctxt[cur + 1]
           h == Call("save_one", X)
<1>2. /\ todo = <<>> /\ cur < Len(ctxt) /\ cur' = cur + 1 /\ todo' = <<h>>
      /\ UNCHANGED <<ctxt, memods, memo, out, objList, stream>>
  BY DEF SaveNext
<1>3. cur \in Nat /\ cur + 1 \in 1..Len(ctxt) /\ Len(ctxt) \in Nat
  BY <1>2 DEF SaveInv, SaveTypes, Tidied
<1>4. X \in Tidy /\ X \in Objects /\ (X \in Fine <=> X \notin Fails)
  BY <1>3, TidyFine DEF Tidied
<1>5. h \in CallSet /\ todo' \in Seq(CallSet) /\ todo' # <<>>
  BY <1>2, <1>4, CallsType
<1>6. Pending(todo) = {} /\ h \in Pending(todo')
  BY <1>2, CallFields DEF Pending, ToSet
<1> HIDE DEF h
<1>7. SaveTypes'
  BY <1>2, <1>3, <1>5 DEF SaveInv, SaveTypes
<1>8. HeldSaved(memods, Pending(todo))'
  BY <1>2, <1>6 DEF SaveInv, HeldSaved
<1>9. NamesSaved'
  <2> SUFFICES ASSUME NEW n \in 1..(cur + 1), ctxt[n] \in Fine
               PROVE  NameSaved(ctxt[n], memods, Pending(todo'))
    BY <1>2 DEF NamesSaved
  <2>1. CASE n = cur + 1
    BY <1>6, <2>1 DEF NameSaved, h
  <2>2. CASE n # cur + 1
    <3>1. n \in 1..cur
      BY <1>3, <2>2
    <3>2. NameSaved(ctxt[n], memods, Pending(todo))
      BY <3>1 DEF SaveInv, NamesSaved
    <3> QED
      BY <1>6, <3>2 DEF NameSaved
  <2> QED
    BY <2>1, <2>2
<1>10. NamesKept'
  BY <1>2, <1>3, <1>5 DEF SaveInv, NamesKept
<1>11. Tracks(r, memods, Pending(todo'))
  <2>1. Tracks(r, memods, Pending(todo))
    BY <1>1 DEF Following
  <2> QED
    BY <1>6, <2>1 DEF Tracks
<1>12. Idle(r, L)
  BY <1>1, <1>2 DEF Following
<1>13. CASE X \in Fails
  <2>1. Doomed' /\ Idle(r, L)'
    BY <1>2, <1>12, <1>13 DEF Doomed, Idle, Written, Expects, h
  <2>2. Following(r, L)'
    BY <1>2, <1>5, <1>11, <2>1 DEF Following
  <2> QED
    BY <1>7, <1>8, <1>9, <1>10, <2>2, Zenon DEF SaveInv
<1>14. CASE X \notin Fails
  <2>0. PICK M : M = Append(L, X)
    OBVIOUS
  <2> DEFINE t == Written
             n == Len(objList)
  <2>1. /\ Leads(Fresh, r, t, L) /\ At(r, <<Top>>, <<>>, t, L) /\ r.memo = memo
        /\ Len(r.objs) = n /\ Expects(L, 0)
    BY <1>12, Zenon DEF Idle, Follower
  <2>2. L \in Seq(Objects) /\ Len(L) = n + 0 /\ \A i \in 1..n : L[i] = ctxt[objList[i]]
    BY <2>1 DEF Expects
  <2>3. objList \in Seq(1..Len(ctxt)) /\ n \in Nat /\ t \in Seq(OpSet)
    BY ConcatProperties DEF SaveInv, SaveTypes, Written
  <2>4. /\ M \in Seq(Objects) /\ Len(M) = n + 1 /\ M[n + 1] = X
        /\ \A i \in 1..Len(L) : M[i] = L[i]
    BY <1>4, <2>0, <2>2, <2>3, AppendProperties
  <2> HIDE DEF t, n, X
  <2>5. IsPre(L, M) /\ IsPre(t, t)
    BY <2>2, <2>3, <2>4 DEF IsPre
  <2>6. Leads(Fresh, r, t, M)
    BY <2>1, <2>2, <2>3, <2>4, <2>5, LeadsMore
  <2>7. At(r, <<Top>>, <<>>, t, M)
    <3>1. Wanted(r.objs, L)
      BY <2>1, Zenon DEF At, Sane
    <3>2. Wanted(r.objs, M)
      BY <2>2, <2>3, <2>4, <3>1 DEF Wanted
    <3> QED
      BY <2>1, <3>2, Zenon DEF At, Sane
  <2>8. Follower(r, <<Top>>, <<>>, t, M, memo, n)
    BY <2>1, <2>6, <2>7, Zenon DEF Follower
  <2>9. r.calls = <<Top>> /\ r.stack = <<>>
    BY <2>8, FollowerFacts
  <2>10. Expects(M, 1)'
    BY <1>2, <2>2, <2>3, <2>4 DEF Expects, n
  <2>11. ctxt'[cur'] = X /\ X \in Fine /\ M[Len(M)] = X
    BY <1>2, <1>4, <1>14, <2>4 DEF X
  <2>12. <<r.calls, r.stack, todo'>> \in Safe(X)
    BY <1>2, <2>9, <2>11, SafeStart DEF h, X
  <2>13. Follower(r, r.calls, r.stack, Written', M, memo', Len(objList'))
    BY <1>2, <2>8, <2>9 DEF t, n, Written
  <2>14. Busy(r, M)'
    BY <2>10, <2>11, <2>12, <2>13 DEF Busy
  <2>15. Following(r, M)'
    BY <1>2, <1>5, <1>11, <2>14 DEF Following
  <2> QED
    BY <1>7, <1>8, <1>9, <1>10, <2>15, Zenon DEF SaveInv
<1> QED
  BY <1>13, <1>14

-----------------------------------------------------------------------------
(* The load is that reader, with the names it gives.                        *)
View(o)  == St(calls, stack, rmemo, ret, pos, args, state, o)
Pairs(o) == [i \in 1..Len(o) |-> <<objList[i], o[i]>>]
Tops(c)  == \E S : c \in Seq(S) /\ \A i \in 1..Len(c) : c[i].kind = "top" <=> i = 1
PoolIs(o) ==
    /\ calls = <<>> => pool = From(objList, Len(o))
    /\ calls # <<>> => IF Len(o) < Len(objList)
                       THEN cur = objList[Len(o) + 1] /\ pool = From(objList, Len(o) + 1)
                       ELSE cur = 0 /\ pool = <<>>
Reached(r, L) == /\ Expects(L, 0) /\ At(r, <<Top>>, <<>>, stream, L) /\ Len(r.objs) = Len(L)
                 /\ \A d \in memods : IsRead(r, d)
Loading(r, L, o) == /\ Reached(r, L) /\ Leads(View(o), r, stream, L)
                    /\ got = Pairs(o) /\ Tops(calls) /\ PoolIs(o)

LEMMA ViewFields ==
    ASSUME NEW o
    PROVE  /\ View(o).calls = calls /\ View(o).stack = stack /\ View(o).memo = rmemo
           /\ View(o).ret = ret /\ View(o).pos = pos /\ View(o).args = args
           /\ View(o).state = state /\ View(o).objs = o
BY DEF View, St

LEMMA ViewReads ==
    ASSUME NEW o
    PROVE  /\ \A s, m : Reads1(View(o), s, m) = St(calls, s, m, ret, pos + 1, args, state, o)
           /\ \A f : Opens(View(o), f) = St(Append(calls, f), <<>>, rmemo, ret, pos + 1, args, state, o)
           /\ \A v : Gives(View(o), v) = St(calls, <<>>, rmemo, v, pos + 1, args, state, o)
           /\ \A f, a, b : Turns(View(o), f, a, b)
                           = St(Append(Front(calls), f), stack, rmemo, None, pos, a, b, o)
           /\ \A v, p : Pops(View(o), v, p) = St(Front(calls), stack, rmemo, v, pos, args, state, p)
BY ViewFields DEF Reads1, Opens, Gives, Turns, Pops

LEMMA ReadingReady ==
    ASSUME NEW o, NEW L, Good(View(o), stream, L), NEW ops, Reading(ops)
    PROVE  /\ ReadyOp(View(o), Read) /\ Nx(View(o), stream) = Reader(View(o), Read)
           /\ Read.op \in ops /\ calls # <<>> /\ ret = None /\ CanMove(View(o), stream)
           /\ stack \in Seq(Values) /\ rmemo \in Seq(Values) /\ pos \in Nat
<1>1. calls # <<>> /\ ret = None /\ pos < Len(stream) /\ Read.op \in ops
  BY DEF Reading, Reads, Read
<1>2. Ready(View(o), stream, L) /\ Typed(View(o))
  BY Zenon DEF Good
<1>3. ReadyOp(View(o), Read)
  BY <1>1, <1>2, ViewFields DEF Ready, Read
<1>4. Nx(View(o), stream) = Reader(View(o), Read)
  BY <1>1, ViewFields DEF Nx, Read
<1>5. CanMove(View(o), stream)
  BY <1>1, ViewFields DEF CanMove
<1>6. stack \in Seq(Values) /\ rmemo \in Seq(Values) /\ pos \in Nat
  BY <1>2, ViewFields DEF Typed
<1> QED
  BY <1>1, <1>3, <1>4, <1>5, <1>6

LEMMA ReceivesReady ==
    ASSUME NEW o, NEW L, Good(View(o), stream, L), NEW k, Receives(k)
    PROVE  /\ ReadyRet(View(o), Caller, L) /\ Nx(View(o), stream) = Returner(View(o), Caller)
           /\ Caller.kind = k /\ calls # <<>> /\ ret # None /\ CanMove(View(o), stream)
<1>1. ret # None /\ Caller.kind = k /\ pc = "load"
  BY DEF Receives
<1>2. Ready(View(o), stream, L)
  BY Zenon DEF Good
<1>3. calls # <<>>
  BY <1>1, <1>2, ViewFields DEF Ready
<1>4. ReadyRet(View(o), Caller, L)
  BY <1>1, <1>2, ViewFields DEF Ready, Caller
<1>5. Nx(View(o), stream) = Returner(View(o), Caller)
  BY <1>1, <1>3, ViewFields DEF Nx, Caller
<1>6. CanMove(View(o), stream)
  BY <1>1, ViewFields DEF CanMove
<1> QED
  BY <1>1, <1>3, <1>4, <1>5, <1>6

(* The calls of load_one: Serializer.load first, and only there.            *)
LEMMA TopsMore ==
    ASSUME NEW c, Tops(c), c # <<>>, NEW f, f.kind # "top"
    PROVE  Tops(Append(c, f)) /\ Append(c, f) # <<>>
<1>1. PICK S : c \in Seq(S) /\ \A i \in 1..Len(c) : c[i].kind = "top" <=> i = 1
  BY DEF Tops
<1> DEFINE T == S \cup {f}
           e == Append(c, f)
<1>2. c \in Seq(T) /\ f \in T /\ Len(c) \in Nat /\ Len(c) # 0
  BY <1>1, EmptySeq
<1> HIDE DEF T
<1>3. /\ e \in Seq(T) /\ Len(e) = Len(c) + 1 /\ e[Len(c) + 1] = f
      /\ \A i \in 1..Len(c) : e[i] = c[i]
  BY <1>2, AppendProperties
<1> HIDE DEF e
<1>4. ASSUME NEW i \in 1..Len(e) PROVE e[i].kind = "top" <=> i = 1
  <2>1. CASE i \in 1..Len(c)
    BY <1>1, <1>3, <2>1
  <2>2. CASE i = Len(c) + 1
    BY <1>2, <1>3, <2>2
  <2> QED
    BY <1>2, <1>3, <2>1, <2>2
<1>5. e # <<>>
  BY <1>2, <1>3
<1> QED
  BY <1>3, <1>4, <1>5, Zenon DEF Tops, e

LEMMA TopsLess ==
    ASSUME NEW c, Tops(c), c # <<>>
    PROVE  /\ Tops(Front(c)) /\ (Last(c).kind = "top" <=> Front(c) = <<>>)
<1>1. PICK S : c \in Seq(S) /\ \A i \in 1..Len(c) : c[i].kind = "top" <=> i = 1
  BY DEF Tops
<1> DEFINE e == Front(c)
<1>2. Len(c) \in Nat /\ Len(c) # 0
  BY <1>1, EmptySeq
<1>3. e \in Seq(S) /\ Len(e) = Len(c) - 1 /\ \A i \in 1..(Len(c) - 1) : e[i] = c[i]
  <2>1. e = SubSeq(c, 1, Len(c) - 1)
    BY DEF Front
  <2>2. Len(c) - 1 \in Nat /\ Len(c) - 1 <= Len(c)
    BY <1>2
  <2> DEFINE m == Len(c) - 1
  <2> HIDE DEF e, m
  <2>3. m \in Nat /\ m <= Len(c) /\ e = SubSeq(c, 1, m)
    BY <2>1, <2>2 DEF m
  <2>4. e \in Seq(S) /\ Len(e) = m /\ \A i \in 1..m : e[i] = c[i]
    BY <1>1, <1>2, <2>3
  <2> QED
    BY <2>4 DEF m
<1> HIDE DEF e
<1>4. ASSUME NEW i \in 1..Len(e) PROVE e[i].kind = "top" <=> i = 1
  <2>1. i \in 1..(Len(c) - 1) /\ i \in 1..Len(c)
    BY <1>2, <1>3
  <2> QED
    BY <1>1, <1>3, <2>1
<1>5. Last(c).kind = "top" <=> Len(c) = 1
  <2>1. Len(c) \in 1..Len(c)
    BY <1>2
  <2>2. c[Len(c)].kind = "top" <=> Len(c) = 1
    BY <1>1, <2>1
  <2> QED
    BY <2>2 DEF Last
<1>6. e = <<>> <=> Len(c) = 1
  BY <1>2, <1>3, EmptySeq
<1> QED
  BY <1>3, <1>4, <1>5, <1>6, Zenon DEF Tops, e

LEMMA TopsTurn ==
    ASSUME NEW c, Tops(c), c # <<>>, Last(c).kind # "top", NEW f, f.kind # "top"
    PROVE  Tops(Append(Front(c), f)) /\ Append(Front(c), f) # <<>>
BY TopsLess, TopsMore

LEMMA TopsStart == Tops(<<Top>>) /\ Tops(<<>>) /\ <<Top>> # <<>>
<1>1. <<Top>> \in Seq({Top}) /\ \A i \in 1..Len(<<Top>>) : <<Top>>[i].kind = "top" <=> i = 1
  BY FrameKinds
<1>2. <<>> \in Seq({Top}) /\ Len(<<>>) = 0
  OBVIOUS
<1>3. \A i \in 1..Len(<<>>) : <<>>[i].kind = "top" <=> i = 1
  BY <1>2
<1>4. Tops(<<Top>>)
  BY <1>1 DEF Tops
<1>5. Tops(<<>>)
  BY <1>2, <1>3, Zenon DEF Tops
<1> QED
  BY <1>4, <1>5

LEMMA RememberNext ==
    ASSUME rmemo \in Seq(Values), NEW e
    PROVE  Remember(Len(rmemo) + 1, e) = Append(rmemo, e)
<1>1. CASE Protocol = 4
  BY <1>1 DEF Remember
<1>2. CASE Protocol # 4
  <2> DEFINE n == Len(rmemo)
             T == Values \cup {e}
             a == [j \in 1..(n + 1) |-> IF j = n + 1 THEN e ELSE IF j <= n THEN rmemo[j] ELSE None]
             b == Append(rmemo, e)
  <2>1. n \in Nat /\ rmemo \in Seq(T) /\ e \in T /\ None \in T
    BY CallsType
  <2>2. Remember(n + 1, e) = a
    BY <1>2, <2>1 DEF Remember
  <2>3. \A j \in 1..n : rmemo[j] \in T
    BY <2>1
  <2> HIDE DEF T
  <2>4. b \in Seq(T) /\ Len(b) = n + 1 /\ b[n + 1] = e /\ \A j \in 1..n : b[j] = rmemo[j]
    BY <2>1, AppendProperties
  <2>5. a \in Seq(T) /\ Len(a) = n + 1 /\ a[n + 1] = e /\ \A j \in 1..n : a[j] = rmemo[j]
    <3>1. \A j \in 1..(n + 1) : a[j] \in T
      BY <2>1, <2>3
    <3>2. n + 1 \in Nat
      BY <2>1
    <3>3. a \in Seq(T) /\ Len(a) = n + 1
      BY <3>1, <3>2, IsASeq
    <3> QED
      BY <2>1, <3>3
  <2> HIDE DEF a, b, n
  <2>6. \A j \in 1..Len(a) : a[j] = b[j]
    BY <2>1, <2>4, <2>5
  <2>7. a = b
    BY <2>4, <2>5, <2>6, SeqEqual
  <2> QED
    BY <2>2, <2>7 DEF b, n
<1> QED
  BY <1>1, <1>2

LEMMA SubSeqAt ==
    ASSUME NEW s \in Seq(Values), NEW m \in Nat, NEW p \in Nat, m + p = Len(s), NEW i \in 1..p
    PROVE  SubSeq(s, m + 1, Len(s))[i] = s[m + i]
<1> DEFINE a == m + 1
           n == Len(s)
<1>1. n \in Int /\ a \in Int /\ i \in 1..n - a + 1 /\ a + i - 1 = m + i
  OBVIOUS
<1>2. \A x \in a..n : s[x] \in Values
  <2> SUFFICES ASSUME NEW x \in a..n PROVE s[x] \in Values
    OBVIOUS
  <2>1. x \in 1..Len(s)
    OBVIOUS
  <2> QED
    BY <2>1
<1> HIDE DEF a, n
<1>3. SubSeq(s, a, n)[i] = s[a + i - 1]
  BY <1>1, <1>2, SubSeqProperties
<1> QED
  BY <1>1, <1>3 DEF a, n

LEMMA Offset ==
    ASSUME NEW k \in Int, NEW m \in Int, NEW p \in Int, NEW n \in Int, p + m = n, m < k, k <= n
    PROVE  k - m \in 1..p /\ m + (k - m) = k
OBVIOUS

LEMMA LastOpened ==
    ASSUME stack \in Seq(Values), NEW l, Closes(stack, l), NEW m, m = Len(stack) - Len(Items[l])
    PROVE  /\ m \in Opened /\ \A k \in Opened : k <= m
           /\ SubSeq(stack, m + 1, Len(stack)) = ObjEach(Items[l])
<1> DEFINE s == stack
           I == Items[l]
           e == SubSeq(s, m + 1, Len(s))
           p == Len(I)
           n == Len(s)
<1>1. e = ObjEach(I)
  BY DEF Closes
<1>2. l \in Objects /\ p < n /\ s[m] = Open(l)
  BY DEF Closes
<1>3. I \in Seq(Objects)
  BY <1>2, ItemsType
<1>4. p \in Nat /\ n \in Nat /\ s \in Seq(Values) /\ DOMAIN s = 1..n /\ m = n - p
  BY <1>3
<1> HIDE DEF e, I, s
<1>5. \A i \in 1..p : ObjEach(I)[i] = Obj(I[i]) /\ I[i] \in Objects
  BY <1>3, ObjEachType
<1>6. \A i \in 1..n : s[i] \in Values
  BY <1>4
<1>7. Opened = {j \in 1..n : s[j][1] = "open"}
  BY <1>4 DEF Opened, s
<1> HIDE DEF p, n
<1>8. m \in Nat /\ m \in 1..n /\ p \in Nat /\ n \in Nat /\ p + m = n
  BY <1>2, <1>4
<1>9. \A i \in 1..p : e[i] = s[m + i]
  <2> SUFFICES ASSUME NEW i \in 1..p PROVE e[i] = s[m + i]
    OBVIOUS
  <2>1. s \in Seq(Values) /\ m + p = Len(s)
    BY <1>4, <1>8 DEF n
  <2>2. SubSeq(s, m + 1, Len(s))[i] = s[m + i]
    BY <1>8, <2>1, SubSeqAt, ZenonT(30)
  <2> QED
    BY <2>2 DEF e
<1>10. m \in Opened
  BY <1>2, <1>7, <1>8, OpenIsValue
<1>11. ASSUME NEW k \in Opened PROVE k <= m
  <2>1. k \in 1..n /\ s[k][1] = "open"
    BY <1>7
  <2> SUFFICES ASSUME ~(k <= m) PROVE FALSE
    OBVIOUS
  <2>0. k \in Int /\ k <= n /\ m < k /\ m \in Int /\ p \in Int /\ n \in Int /\ p + m = n
    BY <1>8, <2>1
  <2>2. k - m \in 1..p /\ m + (k - m) = k
    BY <2>0, Offset
  <2>3. s[k] = Obj(I[k - m]) /\ I[k - m] \in Objects
    BY <1>1, <1>5, <1>9, <2>2
  <2> QED
    BY <2>1, <2>3, ObjIsValue
<1> QED
  BY <1>1, <1>10, <1>11 DEF e, s, I

(* A step inside the calls of load_one is the one of the reader.            *)
Inner(o) == /\ View(o)' = Nx(View(o), stream) /\ CanMove(View(o), stream)
            /\ Tops(calls') /\ calls # <<>> /\ calls' # <<>>
            /\ UNCHANGED <<ctxt, cur, saving, pool, got, pc>>

LEMMA NextView ==
    ASSUME NEW o
    PROVE  View(o)' = St(calls', stack', rmemo', ret', pos', args', state', o)
BY DEF View

LEMMA ReadLiteralInner ==
    ASSUME NEW o, NEW L, Good(View(o), stream, L), Tops(calls), ReadLiteral
    PROVE  Inner(o)
<1>1. Reading({"lit"}) /\ InLoad /\ UNCHANGED rmemo /\ Pushes(Append(stack, Read.val))
  BY DEF ReadLiteral
<1>2. /\ Nx(View(o), stream) = Reader(View(o), Read) /\ Read.op \in {"lit"}
      /\ calls # <<>> /\ CanMove(View(o), stream)
  BY <1>1, ReadingReady
<1>3. Reader(View(o), Read) = Reads1(View(o), Append(stack, Read.val), rmemo)
  BY <1>2, ViewFields DEF Reader
<1>4. View(o)' = St(calls, Append(stack, Read.val), rmemo, ret, pos + 1, args, state, o)
  BY <1>1, NextView DEF InLoad, Pushes
<1> QED
  BY <1>1, <1>2, <1>3, <1>4, ViewReads DEF Inner, InLoad, Pushes

LEMMA ReadNewInner ==
    ASSUME NEW o, NEW L, Good(View(o), stream, L), Tops(calls), ReadNew
    PROVE  Inner(o)
<1> DEFINE op == Read
           x == IF op.op = "ref" THEN Pid(op.val[2]) ELSE op.val
           y == IF op.op = "open" THEN Open(op.val[2]) ELSE op.val
<1>1. /\ Reading({"put", "ref", "open"}) /\ InLoad /\ rmemo' = Remember(op.idx, x)
      /\ Pushes(Append(stack, y))
  BY DEF ReadNew
<1>2. /\ ReadyOp(View(o), op) /\ Nx(View(o), stream) = Reader(View(o), op)
      /\ op.op \in {"put", "ref", "open"} /\ calls # <<>> /\ CanMove(View(o), stream)
      /\ rmemo \in Seq(Values)
  BY <1>1, ReadingReady
<1>3. op.idx = Len(rmemo) + 1
  BY <1>2, ViewFields DEF ReadyOp
<1>4. x = Entry(op) /\ y = Pushed(op)
  BY DEF Entry, Pushed
<1> HIDE DEF op, x, y
<1>5. Reader(View(o), op) = Reads1(View(o), Append(stack, y), Append(rmemo, x))
  BY <1>2, <1>4, ViewFields DEF Reader
<1>6. Remember(Len(rmemo) + 1, x) = Append(rmemo, x)
  BY <1>2, RememberNext
<1>7. View(o)' = St(calls, Append(stack, y), Append(rmemo, x), ret, pos + 1, args, state, o)
  BY <1>1, <1>3, <1>6, NextView DEF InLoad, Pushes
<1> QED
  BY <1>1, <1>2, <1>5, <1>7, ViewReads DEF Inner, InLoad, Pushes

LEMMA ReadKnownInner ==
    ASSUME NEW o, NEW L, Good(View(o), stream, L), Tops(calls), ReadKnown
    PROVE  Inner(o)
<1>1. /\ Reading({"get"}) /\ InLoad /\ UNCHANGED rmemo
      /\ \/ ~Remembered
         \/ Remembered /\ Pushes(Append(stack, rmemo[Read.idx]))
  BY DEF ReadKnown
<1>2. /\ ReadyOp(View(o), Read) /\ Nx(View(o), stream) = Reader(View(o), Read)
      /\ Read.op \in {"get"} /\ calls # <<>> /\ CanMove(View(o), stream)
  BY <1>1, ReadingReady
<1>3. Remembered
  BY <1>2, ViewFields DEF ReadyOp, Remembered
<1>4. Reader(View(o), Read) = Reads1(View(o), Append(stack, rmemo[Read.idx]), rmemo)
  BY <1>2, ViewFields DEF Reader
<1>5. View(o)' = St(calls, Append(stack, rmemo[Read.idx]), rmemo, ret, pos + 1, args, state, o)
  BY <1>1, <1>3, NextView DEF InLoad, Pushes
<1> QED
  BY <1>1, <1>2, <1>3, <1>4, <1>5, ViewReads DEF Inner, InLoad, Pushes

LEMMA ReadEndInner ==
    ASSUME NEW o, NEW L, Good(View(o), stream, L), Tops(calls), ReadEnd
    PROVE  Inner(o)
<1> DEFINE l == Read.val[2]
           s == stack
<1>1. /\ Reading({"end"}) /\ InLoad /\ UNCHANGED rmemo
      /\ \/ Opened = {}
         \/ \E j \in Opened :
              /\ \A k \in Opened : k <= j
              /\ Pushes(Append(SubSeq(s, 1, j - 1),
                     IF SubSeq(s, j + 1, Len(s)) = ObjEach(Items[l]) THEN Read.val ELSE Other))
  BY DEF ReadEnd
<1>2. /\ ReadyOp(View(o), Read) /\ Nx(View(o), stream) = Reader(View(o), Read)
      /\ Read.op \in {"end"} /\ calls # <<>> /\ CanMove(View(o), stream) /\ s \in Seq(Values)
  BY <1>1, ReadingReady
<1>3. Closes(s, l)
  BY <1>2, ViewFields DEF ReadyOp
<1>4. Reader(View(o), Read) = Reads1(View(o), Append(Base(s, l), Read.val), rmemo)
  BY <1>2, ViewFields DEF Reader
<1>5. Pushes(Append(Base(s, l), Read.val))
  <2> DEFINE m == Len(s) - Len(Items[l])
  <2>1. /\ m \in Opened /\ \A k \in Opened : k <= m
        /\ SubSeq(s, m + 1, Len(s)) = ObjEach(Items[l])
    BY <1>2, <1>3, LastOpened
  <2>2. \A j \in Opened : j \in Nat
    BY <1>2 DEF Opened
  <2>3. Base(s, l) = SubSeq(s, 1, m - 1)
    BY DEF Base
  <2> HIDE DEF m, l, s
  <2>4. PICK j \in Opened :
              /\ \A k \in Opened : k <= j
              /\ Pushes(Append(SubSeq(s, 1, j - 1),
                     IF SubSeq(s, j + 1, Len(s)) = ObjEach(Items[l]) THEN Read.val ELSE Other))
    BY <1>1, <2>1
  <2>5. j = m
    BY <2>1, <2>2, <2>4
  <2> QED
    BY <2>1, <2>3, <2>4, <2>5
<1> HIDE DEF l
<1>6. View(o)' = St(calls, Append(Base(s, l), Read.val), rmemo, ret, pos + 1, args, state, o)
  BY <1>1, <1>5, NextView DEF InLoad, Pushes
<1> QED
  BY <1>1, <1>2, <1>4, <1>5, <1>6, ViewReads DEF Inner, InLoad, Pushes

LEMMA ReadStopInner ==
    ASSUME NEW o, NEW L, Good(View(o), stream, L), Tops(calls), ReadStop
    PROVE  Inner(o)
<1> DEFINE v == Last(stack)
<1>1. /\ Reading({"stop"}) /\ InLoad /\ UNCHANGED rmemo
      /\ \/ stack = <<>>
         \/ /\ stack # <<>> /\ stack' = <<>> /\ UNCHANGED <<args, state>>
            /\ v = Text("LIST") =>
                  calls' = Append(calls, Frame("size", 0, None)) /\ ret' = ret
            /\ v = Text("ARGS") =>
                  calls' = Append(calls, Frame("nbobj", 0, None)) /\ ret' = ret
            /\ v # Text("LIST") /\ v # Text("ARGS") => ret' = v /\ calls' = calls
  <2>1. Text("LIST") # Text("ARGS")
    BY DEF Text
  <2> QED
    BY <2>1 DEF ReadStop
<1>2. /\ ReadyOp(View(o), Read) /\ Nx(View(o), stream) = Reader(View(o), Read)
      /\ Read.op \in {"stop"} /\ calls # <<>> /\ CanMove(View(o), stream)
  BY <1>1, ReadingReady
<1>3. stack # <<>>
  BY <1>2, ViewFields DEF ReadyOp
<1>4. Reader(View(o), Read) = Stops(View(o), v)
  BY <1>2, ViewFields DEF Reader
<1> HIDE DEF v
<1>5. CASE v = Text("LIST")
  <2>1. Stops(View(o), v) = Opens(View(o), Frame("size", 0, None))
    BY <1>5 DEF Stops
  <2>2. View(o)' = St(Append(calls, Frame("size", 0, None)), <<>>, rmemo, ret, pos + 1, args, state, o)
    BY <1>1, <1>3, <1>5, NextView DEF InLoad
  <2>3. Frame("size", 0, None).kind # "top"
    BY DEF Frame
  <2>4. Tops(calls') /\ calls' # <<>>
    BY <1>1, <1>2, <1>3, <1>5, <2>3, TopsMore
  <2> QED
    BY <1>1, <1>2, <1>4, <2>1, <2>2, <2>4, ViewReads DEF Inner, InLoad
<1>6. CASE v = Text("ARGS")
  <2>1. Stops(View(o), v) = Opens(View(o), Frame("nbobj", 0, None))
    BY <1>6 DEF Stops, Text
  <2>2. View(o)' = St(Append(calls, Frame("nbobj", 0, None)), <<>>, rmemo, ret, pos + 1, args, state, o)
    BY <1>1, <1>3, <1>6, NextView DEF InLoad
  <2>3. Frame("nbobj", 0, None).kind # "top"
    BY DEF Frame
  <2>4. Tops(calls') /\ calls' # <<>>
    BY <1>1, <1>2, <1>3, <1>6, <2>3, TopsMore
  <2> QED
    BY <1>1, <1>2, <1>4, <2>1, <2>2, <2>4, ViewReads DEF Inner, InLoad
<1>7. CASE v # Text("LIST") /\ v # Text("ARGS")
  <2>1. Stops(View(o), v) = Gives(View(o), v)
    BY <1>7 DEF Stops
  <2>2. View(o)' = St(calls, <<>>, rmemo, v, pos + 1, args, state, o)
    BY <1>1, <1>3, <1>7, NextView DEF InLoad
  <2>3. calls' = calls
    BY <1>1, <1>3, <1>7
  <2> QED
    BY <1>1, <1>2, <1>4, <2>1, <2>2, <2>3, ViewReads DEF Inner, InLoad
<1> QED
  BY <1>5, <1>6, <1>7

LEMMA Turned ==
    ASSUME NEW o, NEW L, Good(View(o), stream, L), Tops(calls), NEW k, Receives(k), k # "top",
           LeftAlone, NEW f, f.kind # "top", Becomes(f),
           Returner(View(o), Caller) = Turns(View(o), f, args', state')
    PROVE  Inner(o)
<1>1. /\ Nx(View(o), stream) = Returner(View(o), Caller) /\ Caller.kind = k
      /\ calls # <<>> /\ CanMove(View(o), stream)
  BY ReceivesReady
<1>2. calls' = Append(Front(calls), f) /\ ret' = None
  BY DEF Becomes
<1>3. Tops(calls') /\ calls' # <<>>
  BY <1>1, <1>2, TopsTurn DEF Caller
<1>4. View(o)' = St(Append(Front(calls), f), stack, rmemo, None, pos, args', state', o)
  BY <1>2, NextView DEF LeftAlone
<1>5. Nx(View(o), stream) = St(Append(Front(calls), f), stack, rmemo, None, pos, args', state', o)
  BY <1>1, ViewReads, Zenon
<1> QED
  BY <1>1, <1>3, <1>4, <1>5 DEF Inner, LeftAlone

LEMMA Popped ==
    ASSUME NEW o, NEW L, Good(View(o), stream, L), Tops(calls), NEW k, Receives(k), k # "top",
           LeftAlone, UNCHANGED <<args, state>>, NEW v, Returns(v),
           Returner(View(o), Caller) = Pops(View(o), v, o)
    PROVE  Inner(o)
<1>1. /\ Nx(View(o), stream) = Returner(View(o), Caller) /\ Caller.kind = k
      /\ calls # <<>> /\ CanMove(View(o), stream)
  BY ReceivesReady
<1>2. calls' = Front(calls) /\ ret' = v
  BY DEF Returns
<1>3. Tops(calls') /\ calls' # <<>>
  BY <1>1, <1>2, TopsLess DEF Caller
<1>4. View(o)' = St(Front(calls), stack, rmemo, v, pos, args, state, o)
  BY <1>2, NextView DEF LeftAlone
<1>5. Nx(View(o), stream) = St(Front(calls), stack, rmemo, v, pos, args, state, o)
  BY <1>1, ViewReads, Zenon
<1> QED
  BY <1>1, <1>3, <1>4, <1>5 DEF Inner, LeftAlone

LEMMA FillsIsSet ==
    ASSUME NEW w, NEW s
    PROVE  /\ SetArgs(w, s) => args' = Fills(args, w, s)
           /\ SetState(w, s) => state' = Fills(state, w, s)
<1>1. SetArgs(w, s) => args' = Fills(args, w, s)
  BY DEF SetArgs, Fills
<1>2. SetState(w, s) => state' = Fills(state, w, s)
  BY DEF SetState, SetStates, Fills
<1> QED
  BY <1>1, <1>2

LEMMA FrameKind ==
    ASSUME NEW k, NEW n, NEW d
    PROVE  Frame(k, n, d).kind = k /\ Frame(k, n, d).name = d
BY DEF Frame

LEMMA ReturnSizeInner ==
    ASSUME NEW o, NEW L, Good(View(o), stream, L), Tops(calls), ReturnSize
    PROVE  Inner(o)
<1>1. Receives("size") /\ LeftAlone
  BY DEF ReturnSize
<1>2. ReadyRet(View(o), Caller, L) /\ Caller.kind = "size"
  BY <1>1, ReceivesReady
<1>3. IsInt(ret) /\ ret # Number(0)
  BY <1>2, ViewFields DEF ReadyRet
<1>4. Becomes(Frame("items", ret[2], None)) /\ UNCHANGED <<args, state>>
  BY <1>3 DEF ReturnSize
<1>5. Returner(View(o), Caller) = Turns(View(o), Frame("items", ret[2], None), args', state')
  BY <1>2, <1>4, ViewFields DEF Returner, OfSize
<1> QED
  BY <1>1, <1>4, <1>5, FrameKind, Turned

LEMMA ReturnItemInner ==
    ASSUME NEW o, NEW L, Good(View(o), stream, L), Tops(calls), ReturnItem
    PROVE  Inner(o)
<1> DEFINE f == [Caller EXCEPT !.left = @ - 1]
<1>1. Receives("items") /\ LeftAlone /\ UNCHANGED <<args, state>>
  BY DEF ReturnItem
<1>2. Caller.kind = "items"
  BY <1>1, ReceivesReady
<1>3. Returner(View(o), Caller) = OfItem(View(o), Caller)
  BY <1>2 DEF Returner
<1>4. CASE Caller.left = 1
  <2>1. Returns(UNSTACKED)
    BY <1>4 DEF ReturnItem
  <2>2. Returner(View(o), Caller) = Pops(View(o), UNSTACKED, o)
    BY <1>3, <1>4, ViewFields DEF OfItem
  <2> QED
    BY <1>1, <2>1, <2>2, Popped
<1>5. CASE Caller.left # 1
  <2>1. Becomes(f)
    BY <1>5 DEF ReturnItem
  <2>2. Returner(View(o), Caller) = Turns(View(o), f, args', state')
    BY <1>1, <1>3, <1>5, ViewFields DEF OfItem
  <2>3. f.kind # "top"
    BY <1>2
  <2> QED
    BY <1>1, <2>1, <2>2, <2>3, Turned
<1> QED
  BY <1>4, <1>5

LEMMA ReturnNbObjInner ==
    ASSUME NEW o, NEW L, Good(View(o), stream, L), Tops(calls), ReturnNbObj
    PROVE  Inner(o)
<1> DEFINE f == [Frame("name", 0, None) EXCEPT !.read = ret]
<1>1. Receives("nbobj") /\ LeftAlone /\ UNCHANGED <<args, state>> /\ Becomes(f)
  BY DEF ReturnNbObj
<1>2. Caller.kind = "nbobj"
  BY <1>1, ReceivesReady
<1>3. Returner(View(o), Caller) = Turns(View(o), f, args', state')
  BY <1>1, <1>2, ViewFields DEF Returner, OfNbObj
<1>4. f.kind # "top"
  BY DEF Frame
<1> QED
  BY <1>1, <1>3, <1>4, Turned

LEMMA ReturnNameInner ==
    ASSUME NEW o, NEW L, Good(View(o), stream, L), Tops(calls), ReturnName
    PROVE  Inner(o)
<1>1. Receives("name") /\ LeftAlone
  BY DEF ReturnName
<1>2. ReadyRet(View(o), Caller, L) /\ Caller.kind = "name"
  BY <1>1, ReceivesReady
<1>3. IsInt(Caller.read) /\ IsStr(ret)
  BY <1>2, ViewFields DEF ReadyRet
<1>4. Returner(View(o), Caller) = OfName(View(o), Caller)
  BY <1>2 DEF Returner
<1>5. CASE Caller.read = Number(0)
  <2>1. SetArgs(ret, <<>>) /\ Becomes(Frame("mark", 1, ret)) /\ UNCHANGED state
    BY <1>3, <1>5 DEF ReturnName
  <2>2. args' = Fills(args, ret, <<>>)
    BY <2>1, FillsIsSet
  <2>3. Returner(View(o), Caller) = Turns(View(o), Frame("mark", 1, ret), args', state')
    BY <1>4, <1>5, <2>1, <2>2, ViewFields DEF OfName
  <2> QED
    BY <1>1, <2>1, <2>3, FrameKind, Turned
<1>6. CASE Caller.read # Number(0)
  <2>1. Becomes(Frame("args", Caller.read[2], ret)) /\ UNCHANGED <<args, state>>
    BY <1>3, <1>6 DEF ReturnName
  <2>2. Returner(View(o), Caller)
          = Turns(View(o), Frame("args", Caller.read[2], ret), args', state')
    BY <1>4, <1>6, <2>1, ViewFields DEF OfName
  <2> QED
    BY <1>1, <2>1, <2>2, FrameKind, Turned
<1> QED
  BY <1>5, <1>6

LEMMA ReturnArgInner ==
    ASSUME NEW o, NEW L, Good(View(o), stream, L), Tops(calls), ReturnArg
    PROVE  Inner(o)
<1> DEFINE f == OneMore(Caller, ret)
<1>1. Receives("args") /\ LeftAlone
  BY DEF ReturnArg
<1>2. ReadyRet(View(o), Caller, L) /\ Caller.kind = "args"
  BY <1>1, ReceivesReady
<1>3. f.name = Caller.name /\ f.kind = "args"
  BY <1>2 DEF OneMore
<1>4. IsStr(f.name)
  BY <1>2, <1>3, ViewFields DEF ReadyRet
<1>5. Returner(View(o), Caller)
        = IF f.left > 0 THEN Turns(View(o), f, args, state)
          ELSE Turns(View(o), Frame("mark", 1, f.name), Fills(args, f.name, f.read), state)
  BY <1>2, ViewFields DEF Returner, OfArg
<1>6. \/ f.left > 0 /\ Becomes(f) /\ UNCHANGED <<args, state>>
      \/ f.left = 0 /\ ~IsStr(f.name) /\ Raise
      \/ f.left = 0 /\ IsStr(f.name) /\ SetArgs(f.name, f.read)
         /\ Becomes(Frame("mark", 1, f.name)) /\ UNCHANGED state
  BY DEF ReturnArg, OneMore
<1> HIDE DEF f
<1>7. CASE f.left > 0 /\ Becomes(f) /\ UNCHANGED <<args, state>>
  <2>1. Returner(View(o), Caller) = Turns(View(o), f, args', state')
    BY <1>5, <1>7
  <2> QED
    BY <1>1, <1>3, <1>7, <2>1, Turned
<1>8. CASE f.left = 0 /\ SetArgs(f.name, f.read)
           /\ Becomes(Frame("mark", 1, f.name)) /\ UNCHANGED state
  <2>1. args' = Fills(args, f.name, f.read)
    BY <1>8, FillsIsSet
  <2>2. ~(f.left > 0)
    BY <1>8
  <2>3. Returner(View(o), Caller) = Turns(View(o), Frame("mark", 1, f.name), args', state')
    BY <1>5, <1>8, <2>1, <2>2
  <2> QED
    BY <1>1, <1>8, <2>3, FrameKind, Turned
<1> QED
  BY <1>4, <1>6, <1>7, <1>8

LEMMA ReturnMarkInner ==
    ASSUME NEW o, NEW L, Good(View(o), stream, L), Tops(calls), ReturnMark
    PROVE  Inner(o)
<1>1. Receives("mark") /\ LeftAlone
  BY DEF ReturnMark
<1>2. ReadyRet(View(o), Caller, L) /\ Caller.kind = "mark"
  BY <1>1, ReceivesReady
<1>3. ret = Text("STATE")
  BY <1>2, ViewFields DEF ReadyRet
<1>4. Becomes(Frame("nbstate", 1, Caller.name)) /\ UNCHANGED <<args, state>>
  BY <1>3 DEF ReturnMark
<1>5. Returner(View(o), Caller)
        = Turns(View(o), Frame("nbstate", 1, Caller.name), args', state')
  BY <1>2, <1>4, ViewFields DEF Returner, OfMark
<1> QED
  BY <1>1, <1>4, <1>5, FrameKind, Turned

LEMMA ReturnNbStateInner ==
    ASSUME NEW o, NEW L, Good(View(o), stream, L), Tops(calls), ReturnNbState
    PROVE  Inner(o)
<1>1. Receives("nbstate") /\ LeftAlone
  BY DEF ReturnNbState
<1>2. ReadyRet(View(o), Caller, L) /\ Caller.kind = "nbstate"
  BY <1>1, ReceivesReady
<1>3. IsInt(ret)
  BY <1>2, ViewFields DEF ReadyRet
<1>4. Returner(View(o), Caller) = OfNbState(View(o), Caller)
  BY <1>2 DEF Returner
<1>5. CASE ret = Number(0)
  <2>1. /\ SetState(Caller.name, <<>>) /\ Becomes(Frame("obj", 1, Caller.name))
        /\ UNCHANGED args
    BY <1>3, <1>5 DEF ReturnNbState
  <2>2. state' = Fills(state, Caller.name, <<>>)
    BY <2>1, FillsIsSet
  <2>3. Returner(View(o), Caller)
          = Turns(View(o), Frame("obj", 1, Caller.name), args', state')
    BY <1>4, <1>5, <2>1, <2>2, ViewFields DEF OfNbState
  <2> QED
    BY <1>1, <2>1, <2>3, FrameKind, Turned
<1>6. CASE ret # Number(0)
  <2>1. /\ Becomes(Frame("state", ret[2], Caller.name)) /\ UNCHANGED <<args, state>>
    BY <1>3, <1>6 DEF ReturnNbState
  <2>2. Returner(View(o), Caller)
          = Turns(View(o), Frame("state", ret[2], Caller.name), args', state')
    BY <1>4, <1>6, <2>1, ViewFields DEF OfNbState
  <2> QED
    BY <1>1, <2>1, <2>2, FrameKind, Turned
<1> QED
  BY <1>5, <1>6

LEMMA ReturnStateInner ==
    ASSUME NEW o, NEW L, Good(View(o), stream, L), Tops(calls), ReturnState
    PROVE  Inner(o)
<1> DEFINE f == OneMore(Caller, ret)
<1>1. Receives("state") /\ LeftAlone
  BY DEF ReturnState
<1>2. Caller.kind = "state"
  BY <1>1, ReceivesReady
<1>3. f.kind = "state"
  BY <1>2 DEF OneMore
<1>4. Returner(View(o), Caller)
        = IF f.left > 0 THEN Turns(View(o), f, args, state)
          ELSE Turns(View(o), Frame("obj", 1, f.name), args, Fills(state, f.name, f.read))
  BY <1>2, ViewFields DEF Returner, OfState
<1>5. /\ UNCHANGED args
      /\ IF f.left > 0 THEN Becomes(f) /\ UNCHANGED state
         ELSE SetState(f.name, f.read) /\ Becomes(Frame("obj", 1, f.name))
  BY DEF ReturnState, OneMore
<1> HIDE DEF f
<1>6. CASE f.left > 0
  <2>1. Returner(View(o), Caller) = Turns(View(o), f, args', state') /\ Becomes(f)
    BY <1>4, <1>5, <1>6
  <2> QED
    BY <1>1, <1>3, <2>1, Turned
<1>7. CASE ~(f.left > 0)
  <2>1. SetState(f.name, f.read) /\ Becomes(Frame("obj", 1, f.name))
    BY <1>5, <1>7
  <2>2. state' = Fills(state, f.name, f.read)
    BY <2>1, FillsIsSet
  <2>3. Returner(View(o), Caller) = Turns(View(o), Frame("obj", 1, f.name), args', state')
    BY <1>4, <1>5, <1>7, <2>2
  <2> QED
    BY <1>1, <2>1, <2>3, FrameKind, Turned
<1> QED
  BY <1>6, <1>7

LEMMA ReturnStructureInner ==
    ASSUME NEW o, NEW L, Good(View(o), stream, L), Tops(calls), ReturnStructure
    PROVE  Inner(o)
<1>1. Receives("obj") /\ LeftAlone /\ UNCHANGED <<args, state>> /\ Returns(ret)
  BY DEF ReturnStructure
<1>2. Caller.kind = "obj"
  BY <1>1, ReceivesReady
<1>3. Returner(View(o), Caller) = Pops(View(o), ret, o)
  BY <1>2, ViewFields DEF Returner
<1> QED
  BY <1>1, <1>3, Popped

(* The steps inside the calls of load_one, as the code may take them.       *)
Inward == \/ ReadLiteral \/ ReadNew \/ ReadKnown \/ ReadEnd \/ ReadStop
          \/ ReturnSize \/ ReturnItem \/ ReturnNbObj \/ ReturnName \/ ReturnArg
          \/ ReturnMark \/ ReturnNbState \/ ReturnState \/ ReturnStructure

LEMMA InwardInner ==
    ASSUME NEW o, NEW L, Good(View(o), stream, L), Tops(calls), Inward
    PROVE  Inner(o)
BY ReadLiteralInner, ReadNewInner, ReadKnownInner, ReadEndInner, ReadStopInner,
   ReturnSizeInner, ReturnItemInner, ReturnNbObjInner, ReturnNameInner, ReturnArgInner,
   ReturnMarkInner, ReturnNbStateInner, ReturnStateInner, ReturnStructureInner
   DEF Inward

LEMMA FirstOf ==
    ASSUME NEW T, NEW x \in T, NEW u \in Seq(T)
    PROVE  <<x>> \o u # <<>> /\ Head(<<x>> \o u) = x /\ Tail(<<x>> \o u) = u
<1> DEFINE s == <<x>> \o u
<1>0. Len(u) \in Nat
  OBVIOUS
<1>1. s \in Seq(T) /\ Len(s) = 1 + Len(u) /\ s[1] = x
      /\ \A i \in 1..Len(u) : s[i + 1] = u[i]
  BY <1>0
<1> HIDE DEF s
<1>2. s # <<>> /\ Head(s) = x
  BY <1>0, <1>1
<1>3. Tail(s) \in Seq(T) /\ Len(Tail(s)) = Len(u) /\ \A i \in 1..Len(u) : Tail(s)[i] = u[i]
  BY <1>0, <1>1, <1>2, HeadTailProperties
<1>4. Tail(s) = u
  BY <1>3, SeqEqual
<1> QED
  BY <1>1, <1>2, <1>4 DEF s

(* A name more is given.                                                    *)
LEMMA PairsMore ==
    ASSUME NEW o \in Seq(Values), NEW v
    PROVE  /\ Len(Append(o, v)) = Len(o) + 1
           /\ Append(Pairs(o), <<objList[Len(o) + 1], v>>) = Pairs(Append(o, v))
<1> DEFINE T == Values \cup {v}
           n == Len(o)
           p == Append(o, v)
           U == {<<objList[i], x>> : i \in 1..(n + 1), x \in T}
           a == Append(Pairs(o), <<objList[n + 1], v>>)
           b == Pairs(p)
<1>1. o \in Seq(T) /\ v \in T /\ n \in Nat /\ \A i \in 1..n : o[i] \in T
  OBVIOUS
<1> HIDE DEF T
<1>2. Len(p) = n + 1 /\ p[n + 1] = v /\ (\A i \in 1..n : p[i] = o[i])
  BY <1>1, AppendProperties
<1> HIDE DEF p
<1>3. Pairs(o) = [i \in 1..n |-> <<objList[i], o[i]>>] /\ b = [i \in 1..(n + 1) |-> <<objList[i], p[i]>>]
  BY <1>2 DEF Pairs
<1>4. \A i \in 1..n : <<objList[i], o[i]>> \in U
  BY <1>1
<1>5. \A i \in 1..(n + 1) : <<objList[i], p[i]>> \in U
  BY <1>1, <1>2
<1>6. <<objList[n + 1], v>> \in U
  BY <1>1
<1> HIDE DEF U, n
<1>7. Pairs(o) \in Seq(U) /\ Len(Pairs(o)) = n
  BY <1>1, <1>3, <1>4, IsASeq
<1>8. n + 1 \in Nat
  BY <1>1
<1>9. b \in Seq(U) /\ Len(b) = n + 1
  BY <1>3, <1>5, <1>8, IsASeq
<1>10. a \in Seq(U) /\ Len(a) = n + 1 /\ a[n + 1] = <<objList[n + 1], v>>
       /\ \A i \in 1..n : a[i] = Pairs(o)[i]
  BY <1>6, <1>7, AppendProperties
<1> HIDE DEF a, b
<1>11. \A i \in 1..Len(a) : a[i] = b[i]
  BY <1>1, <1>2, <1>3, <1>9, <1>10
<1>12. a = b
  BY <1>9, <1>10, <1>11, SeqEqual
<1> QED
  BY <1>2, <1>12 DEF a, b, n, p

-----------------------------------------------------------------------------
(* The load follows the reader to the end of the file.                      *)
LEMMA LoadSeen ==
    ASSUME NEW r, NEW L, NEW o, Loading(r, L, o)
    PROVE  /\ L \in Seq(Objects) /\ Len(L) = Len(objList) /\ Wanted(o, L) /\ Whole(args, state)
           /\ r.calls = <<Top>> /\ r.ret = None /\ r.pos = Len(stream)
           /\ View(o) # r => /\ Good(View(o), stream, L) /\ CanMove(View(o), stream)
                             /\ Leads(Nx(View(o), stream), r, stream, L)
<1>1. At(r, <<Top>>, <<>>, stream, L) /\ Expects(L, 0)
  BY Zenon DEF Loading, Reached
<1>2. Sane(r, stream, L) /\ r.calls = <<Top>> /\ r.ret = None
  BY <1>1, Zenon DEF At
<1>3. r.pos = Len(stream) /\ Wanted(r.objs, L) /\ Whole(r.args, r.state)
  BY <1>2, Zenon DEF Sane
<1>4. L \in Seq(Objects) /\ Len(L) = Len(objList)
  <2>1. L \in Seq(Objects) /\ Len(L) = Len(objList) + 0
    BY <1>1, Zenon DEF Expects
  <2>2. Len(L) \in Nat
    BY <2>1
  <2>3. Len(objList) \in Nat => Len(objList) + 0 = Len(objList)
    OBVIOUS
  <2> QED
    BY <1>1, <2>1, <2>2, <2>3
<1>5. Leads(View(o), r, stream, L)
  BY Zenon DEF Loading
<1>6. CASE View(o) = r
  <2>1. Wanted(View(o).objs, L) /\ Whole(View(o).args, View(o).state)
    BY <1>3, <1>6
  <2> QED
    BY <1>2, <1>3, <1>4, <1>6, <2>1, ViewFields
<1>7. CASE View(o) # r
  <2>1. /\ Good(View(o), stream, L) /\ CanMove(View(o), stream)
        /\ Leads(Nx(View(o), stream), r, stream, L)
    BY <1>5, <1>7, LeadsNext
  <2>2. Wanted(View(o).objs, L) /\ Whole(View(o).args, View(o).state)
    BY <2>1, Zenon DEF Good
  <2> QED
    BY <1>2, <1>3, <1>4, <2>1, <2>2, ViewFields
<1> QED
  BY <1>6, <1>7

LEMMA ReaderStep ==
    ASSUME NEW r, NEW L, NEW o, Loading(r, L, o), View(o) # r, UNCHANGED <<ctxt, saving>>,
           NEW p, View(p)' = Nx(View(o), stream), (got = Pairs(p))', Tops(calls'), PoolIs(p)'
    PROVE  Loading(r, L, p)'
<1>1. Leads(Nx(View(o), stream), r, stream, L)
  BY LoadSeen
<1>2. Reached(r, L)'
  BY DEF Loading, Reached, Expects, saving
<1>3. stream' = stream
  BY DEF saving
<1>4. Leads(View(p), r, stream, L)'
  BY <1>1, <1>3
<1> QED
  BY <1>2, <1>4 DEF Loading

LEMMA LoadMoves ==
    ASSUME NEW r, NEW L, NEW o, Loading(r, L, o),
           calls = <<>> \/ ret # None \/ pos < Len(stream)
    PROVE  View(o) # r
<1>1. r.calls = <<Top>> /\ r.ret = None /\ r.pos = Len(stream) /\ <<Top>> # <<>>
  BY LoadSeen, TopsStart
<1>2. ~(Len(stream) < Len(stream))
  <2> SUFFICES ASSUME Len(stream) < Len(stream) PROVE FALSE
    OBVIOUS
  <2>1. At(r, <<Top>>, <<>>, stream, L)
    BY Zenon DEF Loading, Reached
  <2>2. Sane(r, stream, L)
    BY <2>1, Zenon DEF At
  <2>3. Typed(r) /\ r.pos = Len(stream)
    BY <2>2, Zenon DEF Sane
  <2>4. r.pos \in Nat
    BY <2>3, Zenon DEF Typed
  <2> QED
    BY <2>3, <2>4
<1> QED
  BY <1>1, <1>2, ViewFields, ZenonT(30)

LEMMA InwardLoading ==
    ASSUME NEW r, NEW L, NEW o, Loading(r, L, o), Inward
    PROVE  Loading(r, L, o)'
<1>1. ret # None \/ pos < Len(stream)
  BY DEF Inward, ReadLiteral, ReadNew, ReadKnown, ReadEnd, ReadStop, ReturnSize, ReturnItem,
         ReturnNbObj, ReturnName, ReturnArg, ReturnMark, ReturnNbState, ReturnState,
         ReturnStructure, Reading, Receives
<1>2. View(o) # r
  BY <1>1, LoadMoves
<1>3. Good(View(o), stream, L) /\ Tops(calls)
  BY <1>2, LoadSeen DEF Loading
<1>4. Inner(o)
  BY <1>3, InwardInner
<1>5. UNCHANGED <<ctxt, saving>> /\ View(o)' = Nx(View(o), stream) /\ Tops(calls')
  BY <1>4 DEF Inner
<1>6. (got = Pairs(o))'
  BY <1>4 DEF Inner, Loading, Pairs, saving
<1>7. PoolIs(o)'
  BY <1>4 DEF Inner, Loading, PoolIs, saving
<1> QED
  BY <1>2, <1>5, <1>6, <1>7, ReaderStep

LEMMA LoadNextLoading ==
    ASSUME objList \in Seq(1..Len(ctxt)), NEW r, NEW L, NEW o, Loading(r, L, o), LoadNext
    PROVE  Loading(r, L, o)'
<1>1. /\ calls = <<>> /\ cur' = (IF pool = <<>> THEN 0 ELSE Head(pool))
      /\ pool' = (IF pool = <<>> THEN pool ELSE Tail(pool)) /\ calls' = <<Top>>
      /\ UNCHANGED <<ctxt, saving, pos, rmemo, stack, ret, args, state, got, pc>>
  BY DEF LoadNext, Top
<1>2. View(o) # r
  BY <1>1, LoadMoves
<1>3. Nx(View(o), stream) = St(<<Top>>, stack, rmemo, ret, pos, args, state, o)
  BY <1>1, ViewFields DEF Nx, Begins
<1>4. View(o)' = Nx(View(o), stream)
  BY <1>1, <1>3, NextView
<1>5. Tops(calls')
  BY <1>1, TopsStart
<1>6. (got = Pairs(o))'
  BY <1>1 DEF Loading, Pairs, saving
<1>7. PoolIs(o)'
  <2> DEFINE k == Len(o)
             q == objList
             T == 1..Len(ctxt)
  <2>1. pool = From(q, k)
    BY <1>1 DEF Loading, PoolIs
  <2>2. k \in Nat /\ k <= Len(q)
    BY LoadSeen DEF Wanted
  <2>3. Len(q) \in Nat /\ q \in Seq(T)
    OBVIOUS
  <2>4. <<Top>> # <<>> /\ q' = q
    BY <1>1, TopsStart DEF saving
  <2> SUFFICES IF k < Len(q) THEN cur' = q[k + 1] /\ pool' = From(q, k + 1)
               ELSE cur' = 0 /\ pool' = <<>>
    BY <1>1, <2>4 DEF PoolIs
  <2> HIDE DEF k, q, T
  <2>5. CASE k < Len(q)
    <3>1. k \in 0..Len(q) /\ k + 1 \in 0..Len(q)
      BY <2>2, <2>3, <2>5
    <3>2. q[k + 1] \in T /\ From(q, k) = <<q[k + 1]>> \o From(q, k + 1) /\ From(q, k + 1) \in Seq(T)
      BY <2>3, <2>5, <3>1, FromProperties
    <3> DEFINE x == q[k + 1]
               u == From(q, k + 1)
    <3> HIDE DEF x, u
    <3>3. x \in T /\ u \in Seq(T) /\ pool = <<x>> \o u
      BY <2>1, <3>2 DEF x, u
    <3>4. pool # <<>> /\ Head(pool) = x /\ Tail(pool) = u
      BY <3>3, FirstOf
    <3> QED
      BY <1>1, <2>5, <3>4 DEF x, u
  <2>6. CASE ~(k < Len(q))
    <3>1. k = Len(q)
      BY <2>2, <2>3, <2>6
    <3>2. pool = <<>>
      BY <2>1, <2>3, <3>1, FromProperties
    <3> QED
      BY <1>1, <2>6, <3>2
  <2> QED
    BY <2>5, <2>6
<1> QED
  BY <1>1, <1>2, <1>4, <1>5, <1>6, <1>7, ReaderStep

LEMMA ReturnTopLoading ==
    ASSUME objList \in Seq(1..Len(ctxt)), NEW r, NEW L, NEW o, Loading(r, L, o), ReturnTop
    PROVE  \E p : Loading(r, L, p)'
<1> DEFINE k == Len(o)
           q == objList
           T == 1..Len(ctxt)
<1>0. PICK p : p = IF ret = UNSTACKED THEN o ELSE Append(o, ret)
  OBVIOUS
<1>1. /\ Receives("top") /\ Returns(None)
      /\ IF ret = UNSTACKED
         THEN pool' = <<cur>> \o pool /\ UNCHANGED got
         ELSE got' = Append(got, <<cur, ret>>) /\ UNCHANGED pool
      /\ UNCHANGED <<ctxt, cur, saving, pos, rmemo, stack, args, state, pc>>
  BY DEF ReturnTop
<1>2. ret # None /\ View(o) # r
  BY <1>1, LoadMoves DEF Receives
<1>3. Good(View(o), stream, L) /\ Tops(calls) /\ Wanted(o, L) /\ L \in Seq(Objects)
      /\ Len(L) = Len(q)
  BY <1>2, LoadSeen DEF Loading
<1>4. /\ ReadyRet(View(o), Caller, L) /\ Nx(View(o), stream) = Returner(View(o), Caller)
      /\ Caller.kind = "top" /\ calls # <<>>
  BY <1>1, <1>3, ReceivesReady
<1>5. k < Len(q) /\ k \in Nat /\ Len(q) \in Nat /\ o \in Seq(Values) /\ q \in Seq(T)
  BY <1>3, <1>4, ViewFields DEF ReadyRet, Wanted
<1>6. cur = q[k + 1] /\ pool = From(q, k + 1) /\ got = Pairs(o)
  BY <1>4, <1>5 DEF Loading, PoolIs
<1>7. Returner(View(o), Caller) = Pops(View(o), None, p)
  BY <1>0, <1>4, ViewFields DEF Returner, OfTop
<1>8. calls' = Front(calls) /\ ret' = None
  BY <1>1 DEF Returns
<1>9. Tops(calls') /\ calls' = <<>>
  BY <1>3, <1>4, <1>8, TopsLess DEF Caller
<1>10. View(p)' = Nx(View(o), stream)
  <2>1. Nx(View(o), stream) = St(Front(calls), stack, rmemo, None, pos, args, state, p)
    <3>1. Pops(View(o), None, p) = St(Front(calls), stack, rmemo, None, pos, args, state, p)
      BY ViewReads
    <3>2. Nx(View(o), stream) = Pops(View(o), None, p)
      BY <1>4, <1>7, Zenon
    <3> QED
      BY <3>1, <3>2, Zenon
  <2>2. View(p)' = St(Front(calls), stack, rmemo, None, pos, args, state, p)
    BY <1>1, <1>8, NextView
  <2> QED
    BY <2>1, <2>2
<1>11. q' = q
  BY <1>1 DEF saving
<1>12. k \in 0..Len(q) /\ k + 1 \in 0..Len(q) /\ q[k + 1] \in T
       /\ From(q, k) = <<q[k + 1]>> \o From(q, k + 1)
  BY <1>5, FromProperties, SMTT(30)
<1>13. (got = Pairs(p))' /\ PoolIs(p)'
  <2>1. CASE ret = UNSTACKED
    <3>1. p = o /\ pool' = <<cur>> \o pool /\ got' = got
      BY <1>0, <1>1, <2>1
    <3>2. pool' = From(q, k)
      BY <1>6, <1>12, <3>1
    <3> QED
      BY <1>6, <1>9, <1>11, <3>1, <3>2 DEF PoolIs, Pairs
  <2>2. CASE ret # UNSTACKED
    <3>1. p = Append(o, ret) /\ pool' = pool /\ got' = Append(got, <<cur, ret>>)
      BY <1>0, <1>1, <2>2
    <3>2. Len(p) = k + 1 /\ Append(Pairs(o), <<q[k + 1], ret>>) = Pairs(p)
      BY <1>5, <3>1, PairsMore
    <3>3. got' = Pairs(p)
      BY <1>6, <3>1, <3>2
    <3>4. pool' = From(q, Len(p))
      BY <1>6, <3>1, <3>2
    <3> QED
      BY <1>9, <1>11, <3>3, <3>4 DEF PoolIs, Pairs
  <2> QED
    BY <2>1, <2>2
<1>14. Loading(r, L, p)'
  BY <1>1, <1>2, <1>9, <1>10, <1>13, ReaderStep
<1> QED
  BY <1>14

-----------------------------------------------------------------------------
(* What is known of the file once it is closed.                             *)
Filed == /\ objList \in Seq(1..Len(ctxt)) /\ memods \in SUBSET (Structures \cap Fine)
         /\ \A d \in memods : Held(d) \cap Structures \subseteq memods
         /\ \A n \in 1..Len(ctxt) : /\ n \in ToSet(objList) <=> ctxt[n] \notin Fails
                                    /\ ctxt[n] \in Fine => Inside(ctxt[n]) \cap Structures \subseteq memods

LEMMA SaveFiled ==
    ASSUME SaveInv, Tidied, todo = <<>>, cur = Len(ctxt)
    PROVE  Filed
<1>1. Pending(todo) = {}
  BY DEF Pending, ToSet
<1>2. /\ HeldSaved(memods, {}) /\ NamesSaved /\ NamesKept /\ SaveTypes
  BY <1>1, Zenon DEF SaveInv
<1>3. Len(ctxt) \in Nat
  BY DEF Tidied
<1>4. \A n \in 1..Len(ctxt) : ctxt[n] \in Fine => Inside(ctxt[n]) \cap Structures \subseteq memods
  BY <1>1, <1>2 DEF NamesSaved, NameSaved
<1>5. \A n \in 1..Len(ctxt) : n \in ToSet(objList) <=> ctxt[n] \notin Fails
  BY <1>2, <1>3 DEF NamesKept
<1>6. \A d \in memods : Held(d) \cap Structures \subseteq memods
  BY <1>2 DEF HeldSaved
<1>7. objList \in Seq(1..Len(ctxt)) /\ memods \in SUBSET (Structures \cap Fine)
  BY <1>2 DEF SaveTypes
<1> QED
  BY <1>4, <1>5, <1>6, <1>7 DEF Filed

LEMMA GotNames ==
    ASSUME objList \in Seq(1..Len(ctxt)), NEW r, NEW L, NEW o, Loading(r, L, o)
    PROVE  /\ NamesGetTheirObjects /\ DOMAIN got = 1..Len(o) /\ Len(o) <= Len(objList)
           /\ \A i \in 1..Len(o) : /\ got[i] = <<objList[i], Obj(ctxt[objList[i]])>>
                                   /\ objList[i] \in 1..Len(ctxt)
<1>1. Wanted(o, L) /\ L \in Seq(Objects) /\ Len(L) = Len(objList)
  BY LoadSeen
<1>2. Expects(L, 0) /\ got = Pairs(o)
  BY Zenon DEF Loading, Reached
<1>3. Len(o) \in Nat /\ Len(objList) \in Nat /\ Len(o) <= Len(objList)
      /\ \A i \in 1..Len(o) : o[i] = Obj(L[i])
  BY <1>1 DEF Wanted
<1>4. \A i \in 1..Len(o) : i \in 1..Len(objList)
  BY <1>3
<1>5. \A i \in 1..Len(o) : L[i] = ctxt[objList[i]] /\ objList[i] \in 1..Len(ctxt)
  BY <1>2, <1>4 DEF Expects
<1>6. DOMAIN got = 1..Len(o) /\ \A i \in 1..Len(o) : got[i] = <<objList[i], o[i]>>
  BY <1>2 DEF Pairs
<1>7. \A i \in 1..Len(o) : got[i] = <<objList[i], Obj(ctxt[objList[i]])>>
  BY <1>3, <1>5, <1>6
<1>8. 0 \notin 1..Len(ctxt)
  OBVIOUS
<1>9. NamesGetTheirObjects
  BY <1>5, <1>6, <1>7, <1>8 DEF NamesGetTheirObjects
<1> QED
  BY <1>3, <1>5, <1>6, <1>7, <1>9

LEMMA NeedsHeld ==
    ASSUME NEW d \in Structures, args[d] = <<ObjEach(Items[d])>>, state[d] = <<ObjEach(StateOf[d])>>
    PROVE  Needs(d) \subseteq Held(d) \cap Structures
<1> DEFINE a == ObjEach(Items[d])
           b == ObjEach(StateOf[d])
           c == a \o b
<1>1. /\ a \in Seq(Values) /\ Len(a) = Len(Items[d]) /\ Items[d] \in Seq(Objects)
      /\ \A i \in 1..Len(Items[d]) : a[i] = Obj(Items[d][i])
  BY ItemsType, ObjEachType DEF Structures
<1>2. /\ b \in Seq(Values) /\ Len(b) = Len(StateOf[d]) /\ StateOf[d] \in Seq(Objects)
      /\ \A i \in 1..Len(StateOf[d]) : b[i] = Obj(StateOf[d][i])
  BY ItemsType, ObjEachType DEF Structures
<1>3. /\ \A i \in 1..Len(Items[d]) : Items[d][i] \in Held(d)
      /\ \A i \in 1..Len(StateOf[d]) : StateOf[d][i] \in Held(d)
  BY HeldItems DEF Structures
<1>4. args[d][1] \o state[d][1] = c
  OBVIOUS
<1> HIDE DEF a, b
<1>5. Len(a) \in Nat /\ Len(b) \in Nat
  BY <1>1, <1>2
<1>6. DOMAIN c = 1..(Len(a) + Len(b)) /\ (\A i \in 1..Len(a) : c[i] = a[i])
      /\ (\A i \in 1..Len(b) : c[Len(a) + i] = b[i])
  <2>1. a \in Seq(Values) /\ b \in Seq(Values)
    BY <1>1, <1>2
  <2> QED
    BY <2>1
<1> HIDE DEF c
<1>7. ASSUME NEW e \in Structures, Obj(e) \in ToSet(c) PROVE e \in Held(d)
  <2>1. PICK i \in 1..(Len(a) + Len(b)) : Obj(e) = c[i]
    BY <1>6, <1>7 DEF ToSet
  <2>2. CASE i <= Len(a)
    <3>1. i \in 1..Len(Items[d])
      BY <1>1, <1>5, <2>1, <2>2
    <3>2. Obj(e) = Obj(Items[d][i])
      BY <1>1, <1>6, <2>1, <3>1
    <3> QED
      BY <1>3, <3>1, <3>2 DEF Obj
  <2>3. CASE ~(i <= Len(a))
    <3>1. i - Len(a) \in 1..Len(StateOf[d]) /\ Len(a) + (i - Len(a)) = i
      BY <1>2, <1>5, <2>1, <2>3
    <3>2. Obj(e) = Obj(StateOf[d][i - Len(a)])
      BY <1>2, <1>6, <2>1, <3>1
    <3> QED
      BY <1>3, <3>1, <3>2 DEF Obj
  <2> QED
    BY <2>2, <2>3
<1> QED
  BY <1>4, <1>7 DEF Needs

(* The structures that were saved can be built again.                       *)
LEMMA SavedAreBuilt ==
    ASSUME Filed, Whole(args, state), \A d \in memods : args[d] # <<>> /\ state[d] # <<>>
    PROVE  memods \subseteq Instances
<1>1. memods \subseteq Structures /\ memods \subseteq Fine
      /\ \A d \in memods : Held(d) \cap Structures \subseteq memods
  BY DEF Filed
<1>2. \A d \in memods : Needs(d) \subseteq Held(d) \cap Structures
  BY <1>1, NeedsHeld DEF Whole
<1>3. ASSUME NEW d \in Structures, CanBuild(d, Instances) PROVE d \in Instances
  <2>1. ASSUME NEW S \in SUBSET Structures, \A e \in Structures : CanBuild(e, S) => e \in S
        PROVE  d \in S
    <3>1. Instances \subseteq S
      BY <2>1, Zenon DEF Instances
    <3>2. CanBuild(d, S)
      BY <1>3, <3>1 DEF CanBuild
    <3> QED
      BY <2>1, <3>2
  <2> QED
    BY <2>1 DEF Instances
<1> DEFINE Q == {e \in Structures : e \in memods => e \in Instances}
<1>4. ASSUME NEW d \in Structures, Held(d) \cap Structures \subseteq Q PROVE d \in Q
  <2> SUFFICES ASSUME d \in memods PROVE d \in Instances
    OBVIOUS
  <2>1. Needs(d) \subseteq Instances
    BY <1>1, <1>2, <1>4
  <2>2. CanBuild(d, Instances)
    BY <2>1 DEF CanBuild
  <2> QED
    BY <1>3, <2>2
<1>5. Q \in SUBSET Structures
  OBVIOUS
<1> HIDE DEF Q
<1>6. Founded \subseteq Q
  BY <1>4, <1>5 DEF Founded
<1>7. memods \subseteq Founded
  BY <1>1, FineFacts
<1> QED
  BY <1>6, <1>7 DEF Q

(* At the end of the file every name has its object.                        *)
Finished == /\ NamesGetTheirObjects
            /\ {g[1] : g \in ToSet(got)} = {n \in DOMAIN ctxt : ctxt[n] \notin Fails}
            /\ Whole(args, state)

LEMMA EndOfFile ==
    ASSUME Filed, Tidied, NEW r, NEW L, NEW o, Loading(r, L, o), Reads, pos = Len(stream)
    PROVE  /\ Finished /\ ~Truncated
           /\ \A i \in DOMAIN got : got[i][1] # 0 /\ Restorable(got[i][2])
<1>1. calls # <<>> /\ ret = None
  BY DEF Reads
<1>2. r.calls = <<Top>> /\ Whole(args, state) /\ (View(o) # r => CanMove(View(o), stream))
  BY LoadSeen
<1>3. objList \in Seq(1..Len(ctxt)) /\ ctxt \in Seq(Objects)
  BY DEF Filed, Tidied
<1>4. View(o) = r
  <2> SUFFICES ASSUME CanMove(View(o), stream) PROVE FALSE
    BY <1>2
  <2>1. pos < Len(stream)
    BY <1>1, ViewFields DEF CanMove
  <2>2. Typed(r) /\ r.pos = Len(stream)
    BY Zenon DEF Loading, Reached, At, Sane
  <2>3. Len(stream) \in Nat
    BY <2>2 DEF Typed
  <2> QED
    BY <2>1, <2>3
<1>5. calls = <<Top>> /\ o = r.objs /\ args = r.args /\ state = r.state
  BY <1>2, <1>4, ViewFields
<1>6. ~Truncated
  <2>1. DOMAIN calls = {1} /\ calls[1].kind = "top"
    BY <1>5 DEF Top, Frame
  <2> QED
    BY <2>1 DEF Truncated
<1>7. Len(o) = Len(objList) /\ \A d \in memods : args[d] # <<>> /\ state[d] # <<>>
  <2>1. Len(r.objs) = Len(L) /\ \A d \in memods : IsRead(r, d)
    BY Zenon DEF Loading, Reached
  <2>2. Len(L) = Len(objList)
    BY LoadSeen
  <2> QED
    BY <1>5, <2>1, <2>2 DEF IsRead
<1>8. memods \subseteq Instances
  BY <1>2, <1>7, SavedAreBuilt
<1>9. /\ NamesGetTheirObjects /\ DOMAIN got = 1..Len(objList)
      /\ \A i \in 1..Len(objList) : /\ got[i] = <<objList[i], Obj(ctxt[objList[i]])>>
                                    /\ objList[i] \in 1..Len(ctxt)
  BY <1>3, <1>7, GotNames
<1>10. \A i \in 1..Len(objList) : got[i][1] = objList[i] /\ got[i][2] = Obj(ctxt[objList[i]])
  BY <1>9
<1>11. DOMAIN ctxt = 1..Len(ctxt) /\ DOMAIN objList = 1..Len(objList)
       /\ \A n \in 1..Len(ctxt) : ctxt[n] \in Objects
  BY <1>3
<1>12. \A i \in 1..Len(objList) : objList[i] \in ToSet(objList)
  BY <1>11 DEF ToSet
<1>13. ASSUME NEW i \in DOMAIN got PROVE got[i][1] # 0 /\ Restorable(got[i][2])
  <2> DEFINE n == objList[i]
             x == ctxt[n]
  <2>1. i \in 1..Len(objList) /\ n \in 1..Len(ctxt) /\ n \in ToSet(objList)
    BY <1>9, <1>12
  <2>2. x \notin Fails
    BY <2>1 DEF Filed
  <2>3. x \in Fine
    BY <2>1, <2>2, TidyFine DEF Tidied
  <2>4. Inside(x) \cap Structures \subseteq Instances
    BY <1>8, <2>1, <2>3 DEF Filed
  <2>5. got[i][1] = n /\ got[i][2] = Obj(x)
    BY <1>10, <2>1
  <2> HIDE DEF n, x
  <2>6. n # 0
    BY <2>1
  <2>7. Obj(x)[2] = x
    BY DEF Obj
  <2> QED
    BY <2>4, <2>5, <2>6, <2>7 DEF Restorable
<1>14. {g[1] : g \in ToSet(got)} = {n \in DOMAIN ctxt : ctxt[n] \notin Fails}
  <2>1. ASSUME NEW g \in ToSet(got)
        PROVE  g[1] \in 1..Len(ctxt) /\ ctxt[g[1]] \notin Fails
    <3>1. PICK i \in 1..Len(objList) : g = got[i]
      BY <1>9 DEF ToSet
    <3>2. g[1] = objList[i] /\ objList[i] \in 1..Len(ctxt) /\ objList[i] \in ToSet(objList)
      BY <1>9, <1>10, <1>12, <3>1
    <3> QED
      BY <3>2 DEF Filed
  <2>2. ASSUME NEW n \in 1..Len(ctxt), ctxt[n] \notin Fails
        PROVE  \E g \in ToSet(got) : g[1] = n
    <3>1. n \in ToSet(objList)
      BY <2>2 DEF Filed
    <3>2. PICK i \in 1..Len(objList) : n = objList[i]
      BY <1>11, <3>1 DEF ToSet
    <3>3. got[i] \in ToSet(got) /\ got[i][1] = n
      BY <1>9, <1>10, <3>2 DEF ToSet
    <3> QED
      BY <3>3
  <2> QED
    BY <1>11, <2>1, <2>2
<1> QED
  BY <1>2, <1>6, <1>9, <1>13, <1>14 DEF Finished

-----------------------------------------------------------------------------
(* The whole invariant.                                                     *)
ReadNothing == /\ pos = 0 /\ rmemo = <<>> /\ stack = <<>> /\ pool = <<>> /\ calls = <<>>
               /\ ret = None /\ args = Blank /\ state = Blank /\ got = <<>>
Restores == /\ Tidied /\ pc \in {"save", "load", "restored"}
            /\ pc = "save" => ReadNothing /\ SaveInv
            /\ pc = "load" => Filed /\ \E r, L, o : Loading(r, L, o)
            /\ pc = "restored" => Finished
IInv == TidyContext => Restores

LEMMA NoneOpen == \A d : ~IsOpen(<<Top>>, d)
<1> SUFFICES ASSUME NEW d, IsOpen(<<Top>>, d) PROVE FALSE
  OBVIOUS
<1>1. PICK i \in 1..Len(<<Top>>) : IsOpenF(<<Top>>[i], d)
  BY DEF IsOpen
<1>2. IsOpenF(Top, d)
  BY <1>1
<1> QED
  BY <1>2 DEF IsOpenF, Top, Frame

LEMMA BlankFacts == /\ Whole(Blank, Blank) /\ \A d \in Structures : Blank[d] = <<>>
BY DEF Whole, Blank

LEMMA EmptyFacts ==
    /\ \A T : <<>> \in Seq(T)
    /\ Len(<<>>) = 0 /\ 1..0 = {} /\ DOMAIN <<>> = {} /\ ToSet(<<>>) = {}
    /\ From(<<>>, 0) = <<>> /\ Pairs(<<>>) = <<>>
<1>1. Len(<<>>) = 0 /\ 1..0 = {} /\ DOMAIN <<>> = {} /\ \A T : <<>> \in Seq(T)
  OBVIOUS
<1>2. ToSet(<<>>) = {}
  BY <1>1 DEF ToSet
<1>3. From(<<>>, 0) = <<>>
  BY <1>1, FromProperties
<1>4. Pairs(<<>>) = <<>>
  <2> DEFINE e(i) == <<objList[i], <<>>[i]>>
  <2>1. PICK n \in Nat : n = 0
    OBVIOUS
  <2>2. Pairs(<<>>) = [i \in 1..n |-> e(i)]
    BY <1>1, <2>1 DEF Pairs
  <2> HIDE DEF e
  <2>3. \A i \in 1..n : e(i) \in {0}
    BY <2>1
  <2>4. [i \in 1..n |-> e(i)] \in Seq({0})
    BY <2>1, <2>3, IsASeq
  <2>5. Len(Pairs(<<>>)) = 0
    BY <1>1, <2>1, <2>2
  <2> QED
    BY <2>2, <2>4, <2>5, EmptySeq
<1> QED
  BY <1>1, <1>2, <1>3, <1>4

LEMMA FreshLeads ==
    /\ Follower(Begins(Fresh), <<Top>>, <<>>, <<>>, <<>>, <<>>, 0)
    /\ Begins(Fresh).calls = <<Top>> /\ Begins(Fresh).objs = <<>>
<1> DEFINE r == Begins(Fresh)
<1>1. /\ Fresh.calls = <<>> /\ Fresh.stack = <<>> /\ Fresh.memo = <<>> /\ Fresh.ret = None
      /\ Fresh.pos = 0 /\ Fresh.args = Blank /\ Fresh.state = Blank /\ Fresh.objs = <<>>
  BY DEF Fresh, St
<1>2. /\ r.calls = <<Top>> /\ r.stack = <<>> /\ r.memo = <<>> /\ r.ret = None
      /\ r.pos = 0 /\ r.args = Blank /\ r.state = Blank /\ r.objs = <<>>
  BY <1>1 DEF Begins, St
<1>3. Wanted(<<>>, <<>>)
  BY EmptyFacts DEF Wanted
<1>4. Good(Fresh, <<>>, <<>>)
  <2>1. Typed(Fresh)
    BY <1>1, EmptyFacts DEF Typed
  <2>2. Ready(Fresh, <<>>, <<>>)
    BY <1>1, Zenon DEF Ready
  <2>3. Whole(Fresh.args, Fresh.state) /\ Wanted(Fresh.objs, <<>>)
    BY <1>1, <1>3, BlankFacts
  <2> QED
    BY <2>1, <2>2, <2>3, Zenon DEF Good
<1>5. CanMove(Fresh, <<>>) /\ Nx(Fresh, <<>>) = r
  BY <1>1 DEF CanMove, Nx
<1>6. Leads(Fresh, r, <<>>, <<>>)
  <2>1. Leads(Fresh, Fresh, <<>>, <<>>)
    BY LeadsSelf, Zenon
  <2>2. Leads(Fresh, Nx(Fresh, <<>>), <<>>, <<>>)
    BY <1>4, <1>5, <2>1, LeadsStep
  <2> QED
    BY <1>5, <2>2
<1> HIDE DEF r
<1>7. Sane(r, <<>>, <<>>)
  <2>1. Typed(r)
    BY <1>2, EmptyFacts DEF Typed
  <2>2. Whole(r.args, r.state) /\ Wanted(r.objs, <<>>) /\ r.pos = Len(<<>>)
    BY <1>2, <1>3, BlankFacts, EmptyFacts
  <2> QED
    BY <2>1, <2>2, Zenon DEF Sane
<1>8. At(r, <<Top>>, <<>>, <<>>, <<>>)
  BY <1>2, <1>7, TopsStart, Zenon DEF At
<1>9. Follower(r, <<Top>>, <<>>, <<>>, <<>>, <<>>, 0)
  BY <1>2, <1>6, <1>8, EmptyFacts, Zenon DEF Follower
<1> QED
  BY <1>2, <1>9 DEF r

LEMMA InitSaves ==
    ASSUME Init, Tidied
    PROVE  SaveInv
<1> DEFINE r == Begins(Fresh)
<1>1. /\ todo = <<>> /\ cur = 0 /\ memods = {} /\ memo = <<>> /\ out = <<>>
      /\ objList = <<>> /\ stream = <<>>
  BY DEF Init
<1>2. Len(ctxt) \in Nat
  BY DEF Tidied
<1>3. SaveTypes
  <2>1. Full(memo)
    BY <1>1, EmptyFacts DEF Full
  <2>2. /\ todo \in Seq(CallSet) /\ out \in Seq(OpSet) /\ stream \in Seq(OpSet)
        /\ objList \in Seq(1..Len(ctxt))
    BY <1>1, EmptyFacts
  <2>3. cur \in 0..Len(ctxt) /\ todo = <<>> /\ memods \in SUBSET (Structures \cap Fine)
    BY <1>1, <1>2
  <2> QED
    BY <2>1, <2>2, <2>3, Zenon DEF SaveTypes
<1>4. HeldSaved(memods, Pending(todo))
  BY <1>1 DEF HeldSaved
<1>5. NamesSaved
  BY <1>1, EmptyFacts DEF NamesSaved
<1>6. NamesKept
  <2>1. \A n \in 1..Len(ctxt) : ~(n <= 0)
    BY <1>2
  <2>2. \A n \in 1..Len(ctxt) : n \notin ToSet(objList) /\ ~(n <= cur)
    BY <1>1, <2>1, EmptyFacts
  <2> QED
    BY <2>2, Zenon DEF NamesKept
<1>7. Following(r, <<>>)
  <2>1. Written = <<>>
    BY <1>1, EmptyFacts, ConcatEmptySeq DEF Written
  <2>2. Expects(<<>>, 0)
    BY <1>1, EmptyFacts DEF Expects
  <2>3. /\ Follower(r, <<Top>>, <<>>, Written, <<>>, memo, Len(objList)) /\ r.calls = <<Top>>
    BY <1>1, <2>1, FreshLeads, EmptyFacts
  <2> HIDE DEF r
  <2>4. Idle(r, <<>>)
    BY <1>1, <2>2, <2>3, Zenon DEF Idle
  <2>5. Tracks(r, memods, Pending(todo))
    BY <1>1, <2>3, NoneOpen DEF Tracks
  <2> QED
    BY <1>1, <2>4, <2>5, Zenon DEF Following
<1> QED
  BY <1>3, <1>4, <1>5, <1>6, <1>7, Zenon DEF SaveInv

LEMMA StartLoads ==
    ASSUME SaveInv, Tidied, ReadNothing, LoadStart
    PROVE  Filed' /\ \E r, L, o : Loading(r, L, o)'
<1>1. /\ todo = <<>> /\ cur = Len(ctxt) /\ pool' = objList
      /\ UNCHANGED <<ctxt, cur, saving, pos, rmemo, stack, calls, ret, args, state, got>>
  BY DEF LoadStart
<1>2. Filed
  BY <1>1, SaveFiled
<1>3. Filed'
  BY <1>1, <1>2 DEF Filed, saving
<1>4. PICK r, L : Following(r, L)
  BY DEF SaveInv
<1>5. /\ Follower(r, <<Top>>, <<>>, Written, L, memo, Len(objList))
      /\ out = <<>> /\ Expects(L, 0) /\ Tracks(r, memods, Pending(todo))
  BY <1>1, <1>4, Zenon DEF Following, Idle
<1>6. Written = stream
  <2>1. stream \in Seq(OpSet)
    BY DEF SaveInv, SaveTypes
  <2> QED
    BY <1>5, <2>1, ConcatEmptySeq DEF Written
<1>7. /\ Leads(Fresh, r, stream, L) /\ At(r, <<Top>>, <<>>, stream, L)
      /\ Len(r.objs) = Len(objList)
  BY <1>5, <1>6, Zenon DEF Follower
<1>8. r.calls = <<Top>>
  BY <1>7, Zenon DEF At
<1>9. \A d \in memods : IsRead(r, d)
  <2>1. \A d : Call("getstate", d) \notin Pending(todo)
    BY <1>1, EmptyFacts DEF Pending
  <2> QED
    BY <1>5, <1>8, <2>1, NoneOpen DEF Tracks
<1>10. Len(objList) = Len(L)
  <2>1. Len(objList) \in Nat /\ Len(L) = Len(objList) + 0
    BY <1>5 DEF Expects, SaveInv, SaveTypes
  <2> QED
    BY <2>1
<1>11. Reached(r, L)
  BY <1>5, <1>7, <1>9, <1>10, Zenon DEF Reached
<1>12. Reached(r, L)'
  BY <1>1, <1>11 DEF Reached, Expects, saving
<1>13. View(<<>>)' = Fresh
  BY <1>1, NextView DEF Fresh, ReadNothing
<1>14. Leads(View(<<>>), r, stream, L)'
  BY <1>1, <1>7, <1>13 DEF saving
<1>15. (got = Pairs(<<>>))'
  <2>1. got' = <<>>
    BY <1>1 DEF ReadNothing
  <2>2. Pairs(<<>>)' = <<>>
    BY EmptyFacts, <1>1 DEF Pairs, saving
  <2> QED
    BY <2>1, <2>2
<1>16. Tops(calls)'
  BY <1>1, TopsStart DEF ReadNothing
<1>17. PoolIs(<<>>)'
  <2>1. objList \in Seq(1..Len(ctxt))
    BY DEF SaveInv, SaveTypes
  <2>2. From(objList, 0) = objList
    BY <2>1, FromProperties
  <2>3. pool' = From(objList', Len(<<>>)) /\ calls' = <<>>
    BY <1>1, <2>2, EmptyFacts DEF saving, ReadNothing
  <2> QED
    BY <2>3 DEF PoolIs
<1>18. Loading(r, L, <<>>)'
  BY <1>12, <1>14, <1>15, <1>16, <1>17 DEF Loading
<1> QED
  BY <1>3, <1>18

(* The actions of the save, which leave the variables of the load.          *)
Saving == \/ SaveNext \/ Describe \/ getstate \/ SaveLiteral \/ SaveKnown \/ SaveText
          \/ SaveStructure \/ SaveList \/ EndList \/ Stop

LEMMA SavingStep ==
    ASSUME Restores, Saving
    PROVE  Restores'
<1>1. pc = "save" /\ UNCHANGED <<ctxt, pc, reading>>
  BY DEF Saving, SaveNext, Describe, getstate, SaveLiteral, SaveKnown, SaveText, SaveStructure,
         SaveList, EndList, Stop, Turn, InDump
<1>2. SaveInv /\ Tidied /\ ReadNothing
  BY <1>1 DEF Restores
<1>3. SaveInv'
  BY <1>2, NextStep, DescribeStep, GetStateStep, LiteralStep, KnownStep, TextStep,
     StructureStep, ListStep, EndStep, StopStep DEF Saving
<1>4. Tidied'
  BY <1>1, <1>2 DEF Tidied
<1>5. ReadNothing'
  BY <1>1, <1>2 DEF ReadNothing, reading
<1> QED
  BY <1>1, <1>3, <1>4, <1>5 DEF Restores

LEMMA LoadingStep ==
    ASSUME Restores, pc = "load", Inward \/ LoadNext \/ ReturnTop
    PROVE  Restores'
<1>1. Filed /\ Tidied /\ objList \in Seq(1..Len(ctxt))
  BY DEF Restores, Filed
<1>2. PICK r, L, o : Loading(r, L, o)
  BY DEF Restores
<1>3. UNCHANGED <<ctxt, saving, pc>>
  BY DEF Inward, ReadLiteral, ReadNew, ReadKnown, ReadEnd, ReadStop, ReturnSize, ReturnItem,
         ReturnNbObj, ReturnName, ReturnArg, ReturnMark, ReturnNbState, ReturnState,
         ReturnStructure, LoadNext, ReturnTop, InLoad, LeftAlone
<1>4. \E p : Loading(r, L, p)'
  <2>1. CASE Inward
    BY <1>2, <2>1, InwardLoading
  <2>2. CASE LoadNext
    BY <1>1, <1>2, <2>2, LoadNextLoading
  <2>3. CASE ReturnTop
    BY <1>1, <1>2, <2>3, ReturnTopLoading
  <2> QED
    BY <2>1, <2>2, <2>3
<1>5. Filed' /\ Tidied'
  BY <1>1, <1>3 DEF Filed, Tidied, saving
<1>6. (\E a, b, c : Loading(a, b, c))'
  BY <1>4
<1> QED
  BY <1>3, <1>5, <1>6 DEF Restores

LEMMA RestoresNext ==
    ASSUME Restores, [Next]_vars
    PROVE  Restores'
<1>1. CASE Saving
  BY <1>1, SavingStep
<1>2. CASE LoadStart
  <2>1. pc = "save" /\ pc' = "load" /\ UNCHANGED ctxt
    BY <1>2 DEF LoadStart
  <2>2. SaveInv /\ Tidied /\ ReadNothing
    BY <2>1 DEF Restores
  <2>3. Filed' /\ \E r, L, o : Loading(r, L, o)'
    BY <1>2, <2>2, StartLoads
  <2>4. Tidied'
    BY <2>1, <2>2 DEF Tidied
  <2> QED
    BY <2>1, <2>3, <2>4 DEF Restores
<1>3. CASE Inward \/ LoadNext \/ ReturnTop
  <2>1. pc = "load"
    BY <1>3 DEF Inward, ReadLiteral, ReadNew, ReadKnown, ReadEnd, ReadStop, ReturnSize,
       ReturnItem, ReturnNbObj, ReturnName, ReturnArg, ReturnMark, ReturnNbState, ReturnState,
       ReturnStructure, LoadNext, ReturnTop, Reading, Reads, Receives
  <2> QED
    BY <1>3, <2>1, LoadingStep
<1>4. CASE EndInState \/ Restore
  <2>1. pc = "load" /\ Reads /\ pos = Len(stream) /\ UNCHANGED ctxt
    BY <1>4 DEF EndInState, Restore, Reads
  <2>2. Filed /\ Tidied
    BY <2>1 DEF Restores
  <2>3. PICK r, L, o : Loading(r, L, o)
    BY <2>1 DEF Restores
  <2>4. /\ Finished /\ ~Truncated
        /\ \A i \in DOMAIN got : got[i][1] # 0 /\ Restorable(got[i][2])
    BY <2>1, <2>2, <2>3, EndOfFile
  <2>5. pc' = "restored" /\ UNCHANGED <<got, args, state>>
    BY <1>4, <2>4 DEF EndInState, Restore
  <2>6. Finished'
    BY <2>1, <2>4, <2>5 DEF Finished, NamesGetTheirObjects, Whole
  <2>7. Tidied'
    BY <2>1, <2>2 DEF Tidied
  <2> QED
    BY <2>5, <2>6, <2>7 DEF Restores
<1>5. CASE UNCHANGED vars
  <2>1. UNCHANGED <<ctxt, cur, todo, memods, memo, out, objList, stream>>
    BY <1>5 DEF vars, saving
  <2>2. UNCHANGED <<pos, rmemo, stack, pool, calls, ret, args, state, got, pc>>
    BY <1>5 DEF vars, reading
  <2>3. Tidied' /\ pc' \in {"save", "load", "restored"}
    BY <2>1, <2>2 DEF Restores, Tidied
  <2>4. (pc = "save" => ReadNothing)'
    BY <2>2 DEF Restores, ReadNothing
  <2>5. (pc = "save" => SaveInv)'
    <3> SUFFICES ASSUME SaveInv PROVE SaveInv'
      BY <2>2 DEF Restores
    <3>1. PICK r, L : Following(r, L)
      BY DEF SaveInv
    <3>2. Written' = Written /\ (\A n : Expects(L, n)' <=> Expects(L, n)) /\ (Doomed' <=> Doomed)
      BY <2>1 DEF Written, Expects, Doomed
    <3>3. (Idle(r, L)' <=> Idle(r, L)) /\ (Busy(r, L)' <=> Busy(r, L))
      BY <2>1, <3>2 DEF Idle, Busy
    <3>4. Following(r, L)'
      BY <2>1, <3>1, <3>2, <3>3 DEF Following
    <3>5. SaveTypes' /\ HeldSaved(memods, Pending(todo))'
      BY <2>1 DEF SaveInv, SaveTypes
    <3>6. NamesSaved' /\ NamesKept'
      BY <2>1 DEF SaveInv, NamesSaved, NamesKept
    <3> QED
      BY <3>4, <3>5, <3>6 DEF SaveInv
  <2>6. (pc = "load" => Filed)'
    BY <2>1, <2>2 DEF Restores, Filed
  <2>7. (pc = "load" => \E r, L, o : Loading(r, L, o))'
    BY <2>1, <2>2 DEF Restores, Loading, Reached, Expects, View, Pairs, PoolIs
  <2>8. (pc = "restored" => Finished)'
    BY <2>1, <2>2 DEF Restores, Finished, NamesGetTheirObjects
  <2> QED
    BY <2>3, <2>4, <2>5, <2>6, <2>7, <2>8 DEF Restores
<1> QED
  BY <1>1, <1>2, <1>3, <1>4, <1>5 DEF Next, Saving, Inward

LEMMA ContextStays ==
    ASSUME [Next]_vars
    PROVE  ctxt' = ctxt
BY DEF vars, Next, SaveNext, Describe, getstate, SaveLiteral, SaveKnown, SaveText, SaveStructure,
   SaveList, EndList, Stop, InDump, LoadStart, ReadLiteral, ReadNew, ReadKnown, ReadEnd,
   ReadStop, ReturnSize, ReturnItem, ReturnNbObj, ReturnName, ReturnArg, ReturnMark,
   ReturnNbState, ReturnState, ReturnStructure, LoadNext, ReturnTop, EndInState, Restore,
   InLoad, LeftAlone

LEMMA Inductive == Spec => []IInv
<1>1. Init => IInv
  <2> SUFFICES ASSUME Init, TidyContext PROVE Restores
    BY DEF IInv
  <2>1. Tidied
    BY PicklingAssumption DEF Init, TidyContext, Tidied
  <2>2. SaveInv
    BY <2>1, InitSaves
  <2>3. ReadNothing /\ pc = "save"
    BY DEF Init, ReadNothing, Blank
  <2> QED
    BY <2>1, <2>2, <2>3 DEF Restores
<1>2. IInv /\ [Next]_vars => IInv'
  <2> SUFFICES ASSUME IInv, [Next]_vars, TidyContext' PROVE Restores'
    BY DEF IInv
  <2>1. TidyContext
    BY ContextStays DEF TidyContext
  <2>2. Restores
    BY <2>1 DEF IInv
  <2> QED
    BY <2>2, RestoresNext
<1> QED
  BY <1>1, <1>2, PTL DEF Spec

(* In a tidy context every object that is not refused is given back to its  *)
(* name, and the load does not fail (Serializer.save, Serializer.load).     *)
THEOREM TidyRestored == Spec => []TidyIsRestored
<1>1. IInv => TidyIsRestored
  <2> SUFFICES ASSUME Restores, TidyContext
               PROVE  /\ NamesGetTheirObjects
                      /\ pc \in {"restored", "failed"} =>
                            /\ pc = "restored"
                            /\ {g[1] : g \in ToSet(got)} = {n \in DOMAIN ctxt : ctxt[n] \notin Fails}
    BY DEF IInv, TidyIsRestored
  <2>1. CASE pc = "save"
    <3>1. got = <<>>
      BY <2>1 DEF Restores, ReadNothing
    <3>2. NamesGetTheirObjects
      BY <3>1, EmptyFacts DEF NamesGetTheirObjects
    <3> QED
      BY <2>1, <3>2
  <2>2. CASE pc = "load"
    <3>1. PICK r, L, o : Loading(r, L, o)
      BY <2>2 DEF Restores
    <3>2. objList \in Seq(1..Len(ctxt))
      BY <2>2 DEF Restores, Filed
    <3>3. NamesGetTheirObjects
      BY <3>1, <3>2, GotNames
    <3> QED
      BY <2>2, <3>3
  <2>3. CASE pc = "restored"
    BY <2>3 DEF Restores, Finished
  <2> QED
    BY <2>1, <2>2, <2>3 DEF Restores
<1> QED
  BY <1>1, Inductive, PTL

(* In a tidy context a data structure that is built again receives, at any  *)
(* moment of the load, what it gave to the pickler or nothing.              *)
THEOREM StructuresWhole == Spec => []StructuresAreWhole
<1>1. IInv => StructuresAreWhole
  <2> SUFFICES ASSUME Restores, TidyContext PROVE Whole(args, state)
    BY DEF IInv, StructuresAreWhole, Whole
  <2>1. CASE pc = "save"
    BY <2>1, BlankFacts DEF Restores, ReadNothing
  <2>2. CASE pc = "load"
    BY <2>2, LoadSeen DEF Restores
  <2>3. CASE pc = "restored"
    BY <2>3 DEF Restores, Finished
  <2> QED
    BY <2>1, <2>2, <2>3 DEF Restores
<1> QED
  BY <1>1, Inductive, PTL
=============================================================================
